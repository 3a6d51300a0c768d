------------------------------ MODULE GoalBoard ------------------------------
(***************************************************************************)
(* What a goal's page holds besides its lifecycle: standing directives and *)
(* feedback, action items handed to the user, access requests and their    *)
(* grants, metrics and the timeline they follow.  internal/core/goals.go,  *)
(* goal_action_items.go, internal/store (goal_events.go, access_requests,  *)
(* goal_action_items) and internal/server (goals.go, access_grants.go).    *)
(*                                                                         *)
(* Every handler reads rows, decides, and writes in later statements; the  *)
(* lead's run, the runs of goal-linked tasks and the user's devices call   *)
(* them at the same time, and only single statements are atomic.           *)
(***************************************************************************)
EXTENDS Naturals, FiniteSets

CONSTANTS
  Handlers,       \* requests being served at once
  Notes,          \* feedback notes
  Items,          \* action items
  Metrics,        \* the goal's metrics
  MaxDirectives,  \* maxPinnedGoalFeedback
  MaxCalls        \* bound on the requests served

VARIABLES
  note,      \* Notes -> the feedback row: is it there, pinned, long, acknowledged by a run
  item,      \* Items -> the action item's status, "none" before it is filed
  told,      \* Items -> the verdict a run was given, "none" before
  access,    \* one access request's status
  granted,   \* did its grant take effect
  metric,    \* the projection on the goal's row: Metrics -> value
  timeline,  \* Metrics -> the value of its last metric_update event
  handler,   \* Handlers -> what it serves and how far it is
  calls

boardVars == <<note, item, told, access, granted, metric, timeline, handler, calls>>

Verdicts == {"done", "blocked", "declined"}
Kinds == {"add", "pin", "edit", "progress", "touch", "grant"}
Nothing == [there |-> FALSE, pinned |-> FALSE, long |-> FALSE, read |-> FALSE]
Idle == [kind |-> "add", at |-> "idle", on |-> CHOOSE n \in Notes : TRUE, long |-> FALSE,
         row |-> [m \in Metrics |-> 0], saw |-> FALSE]

BoardTypeOK ==
  /\ note \in [Notes -> [there: BOOLEAN, pinned: BOOLEAN, long: BOOLEAN, read: BOOLEAN]]
  /\ item \in [Items -> Verdicts \cup {"none", "open"}] /\ told \in [Items -> Verdicts \cup {"none"}]
  /\ access \in {"none", "pending", "approved", "denied", "executed", "failed"} /\ granted \in BOOLEAN
  /\ metric \in [Metrics -> 0..1] /\ timeline \in [Metrics -> 0..1] /\ calls \in 0..MaxCalls
  /\ handler \in [Handlers -> [kind: Kinds, at: {"idle", "checked", "added", "read", "execute", "mark", "bad"},
                               on: Notes \cup Metrics, long: BOOLEAN, row: [Metrics -> 0..1], saw: BOOLEAN]]

BoardInit ==
  /\ note = [n \in Notes |-> Nothing] /\ item = [i \in Items |-> "none"]
  /\ told = [i \in Items |-> "none"] /\ access = "none" /\ granted = FALSE
  /\ metric = [m \in Metrics |-> 0] /\ timeline = [m \in Metrics |-> 0]
  /\ handler = [h \in Handlers |-> Idle] /\ calls = 0

---------------------------------------------------------------------------
Serve(h) == handler[h].at = "idle" /\ calls < MaxCalls /\ calls' = calls + 1
At(h, kind, stage) == handler[h].kind = kind /\ handler[h].at = stage
Now(h, kind, stage) == handler' = [handler EXCEPT ![h].kind = kind, ![h].at = stage]
Replied(h) == handler' = [handler EXCEPT ![h] = Idle]
Fresh(n) == ~note[n].there /\ \A h \in Handlers : handler[h].at # "idle" => handler[h].on # n
\* checkPinnable: the text fits and there is room; a pinned note takes no more.
Pinnable(long, already) ==
  ~long /\ (already \/ Cardinality({n \in Notes : note[n].pinned}) < MaxDirectives)

\* POST .../feedback with pinned: checked before anything is created ...
CheckNewDirective(h, n, long) ==
  /\ Serve(h) /\ Fresh(n)
  /\ IF Pinnable(long, FALSE)
     THEN handler' = [handler EXCEPT ![h] = [Idle EXCEPT !.at = "checked", !.on = n]]
     ELSE UNCHANGED handler
  /\ UNCHANGED <<note, item, told, access, granted, metric, timeline>>
\* ... AddGoalFeedback, the only step of a note without a pin ...
AddFeedback(h, n, long) ==
  /\ \/ At(h, "add", "checked") /\ handler[h].on = n /\ ~long /\ Now(h, "add", "added") /\ UNCHANGED calls
     \/ Serve(h) /\ Fresh(n) /\ UNCHANGED handler
  /\ note' = [note EXCEPT ![n] = [Nothing EXCEPT !.there = TRUE, !.long = long]]
  /\ UNCHANGED <<item, told, access, granted, metric, timeline>>
\* ... and SetGoalFeedbackPin, which checks again, then writes.
ReadForPin(h, n) ==
  /\ \/ At(h, "add", "added") /\ handler[h].on = n /\ UNCHANGED calls
     \/ Serve(h) /\ note[n].there
  /\ IF Pinnable(note[n].long, note[n].pinned)
     THEN handler' = [handler EXCEPT ![h] = [Idle EXCEPT !.kind = "pin", !.at = "read", !.on = n]]
     ELSE handler' = [handler EXCEPT ![h] = IF @.at = "added" THEN [@ EXCEPT !.at = "bad"] ELSE Idle]
  /\ UNCHANGED <<note, item, told, access, granted, metric, timeline>>
\* The caller is told of the error.
Refuse(h) ==
  /\ handler[h].at = "bad" /\ Replied(h)
  /\ UNCHANGED <<note, item, told, access, granted, metric, timeline, calls>>
Pin(h) ==
  /\ At(h, "pin", "read") /\ Replied(h)
  /\ note' = [note EXCEPT ![handler[h].on].pinned = TRUE]
  /\ UNCHANGED <<item, told, access, granted, metric, timeline, calls>>
Unpin(h, n) ==
  /\ Serve(h) /\ note[n].pinned /\ note' = [note EXCEPT ![n].pinned = FALSE]
  /\ UNCHANGED <<item, told, access, granted, metric, timeline, handler>>
\* UpdateGoalFeedback bounds the text of what it read as pinned; the statement
\* leaves a note alone that a run acknowledged, unless it is pinned.
ReadForEdit(h, n, long) ==
  /\ Serve(h) /\ note[n].there /\ ~(note[n].pinned /\ long)
  /\ handler' = [handler EXCEPT ![h] = [Idle EXCEPT !.kind = "edit", !.at = "read", !.on = n, !.long = long]]
  /\ UNCHANGED <<note, item, told, access, granted, metric, timeline>>
Edit(h) == LET n == handler[h].on IN
  /\ At(h, "edit", "read") /\ Replied(h)
  /\ note' = IF note[n].pinned \/ ~note[n].read THEN [note EXCEPT ![n].long = handler[h].long] ELSE note
  /\ UNCHANGED <<item, told, access, granted, metric, timeline, calls>>

\* RecordGoalProgress reads the goal's metrics; later one transaction appends the
\* event and replaces them all. Values here are "not moved" and "moved".
ReadMetrics(h, m) ==
  /\ Serve(h) /\ metric[m] = 0
  /\ handler' = [handler EXCEPT ![h] = [Idle EXCEPT !.kind = "progress", !.at = "read", !.on = m, !.row = metric]]
  /\ UNCHANGED <<note, item, told, access, granted, metric, timeline>>
RecordProgress(h) == LET m == handler[h].on IN
  /\ At(h, "progress", "read") /\ Replied(h)
  /\ metric' = [handler[h].row EXCEPT ![m] = 1] /\ timeline' = [timeline EXCEPT ![m] = 1]
  /\ UNCHANGED <<note, item, told, access, granted, calls>>
\* UpdateGoal, and each status change, writes the whole row it read.
ReadGoal(h) ==
  /\ Serve(h)
  /\ handler' = [handler EXCEPT ![h] = [Idle EXCEPT !.kind = "touch", !.at = "read", !.row = metric]]
  /\ UNCHANGED <<note, item, told, access, granted, metric, timeline>>
UpdateGoal(h) ==
  /\ At(h, "touch", "read") /\ Replied(h) /\ metric' = handler[h].row
  /\ UNCHANGED <<note, item, told, access, granted, timeline, calls>>

\* RequestGoalAction; RespondGoalActionItem moves an open item only.
RequestAction(h, i) ==
  /\ Serve(h) /\ item[i] = "none" /\ item' = [item EXCEPT ![i] = "open"]
  /\ UNCHANGED <<note, told, access, granted, metric, timeline, handler>>
\* Mutation of Answerable: the latest verdict counts.
AnswerableAgain(i) == item[i] # "none"
Answerable(i) == item[i] = "open"
Respond(h, i, verdict) ==
  /\ Serve(h) /\ Answerable(i) /\ item' = [item EXCEPT ![i] = verdict]
  /\ UNCHANGED <<note, told, access, granted, metric, timeline, handler>>
\* A run's prompt: directives, verdicts, feedback; its memory commit acknowledges
\* the feedback.
Review ==
  /\ told' = [i \in Items |-> IF item[i] \in Verdicts THEN item[i] ELSE told[i]]
  /\ note' = [n \in Notes |-> [note[n] EXCEPT !.read = note[n].there]]
  /\ UNCHANGED <<item, access, granted, metric, timeline, handler, calls>>

CreateAccessRequest(h) ==
  /\ Serve(h) /\ access = "none" /\ access' = "pending"
  /\ UNCHANGED <<note, item, told, granted, metric, timeline, handler>>
\* Mutation of Decidable: whatever was not carried out can be decided again.
DecidableAgain == access \in {"pending", "approved", "failed"}
\* DecideAccessRequest: a grant that failed may be decided again.
Decidable == access \in {"pending", "failed"}
Decide(h, approve) ==
  /\ Serve(h) /\ Decidable
  /\ access' = IF approve THEN "approved" ELSE "denied"
  /\ IF approve THEN handler' = [handler EXCEPT ![h] = [Idle EXCEPT !.kind = "grant", !.at = "execute"]]
     ELSE UNCHANGED handler
  /\ UNCHANGED <<note, item, told, granted, metric, timeline>>
\* executeAccessGrant; kinds the user acts on stay approved.
Execute(h, ok) ==
  /\ At(h, "grant", "execute")
  /\ granted' = (granted \/ ok)
  /\ handler' = [handler EXCEPT ![h].at = "mark", ![h].saw = ok]
  /\ UNCHANGED <<note, item, told, access, metric, timeline, calls>>
Acknowledge(h) ==
  /\ At(h, "grant", "execute") /\ Replied(h)
  /\ UNCHANGED <<note, item, told, access, granted, metric, timeline, calls>>
MarkExecuted(h) ==
  /\ At(h, "grant", "mark") /\ Replied(h)
  /\ access' = IF access # "approved" THEN access ELSE IF handler[h].saw THEN "executed" ELSE "failed"
  /\ UNCHANGED <<note, item, told, granted, metric, timeline, calls>>
\* The client goes away, the daemon dies: what is written stays.
Cut(h) ==
  /\ handler[h].at # "idle" /\ Replied(h)
  /\ UNCHANGED <<note, item, told, access, granted, metric, timeline, calls>>

BoardNext ==
  \/ Review
  \/ \E h \in Handlers :
       \/ \E n \in Notes : \/ \E b \in BOOLEAN : CheckNewDirective(h, n, b) \/ AddFeedback(h, n, b) \/ ReadForEdit(h, n, b)
                           \/ ReadForPin(h, n) \/ Unpin(h, n)
       \/ Refuse(h) \/ Pin(h) \/ Edit(h)
       \/ \E m \in Metrics : ReadMetrics(h, m)
       \/ RecordProgress(h) \/ ReadGoal(h) \/ UpdateGoal(h)
       \/ \E i \in Items : RequestAction(h, i) \/ \E v \in Verdicts : Respond(h, i, v)
       \/ CreateAccessRequest(h) \/ \E b \in BOOLEAN : Decide(h, b) \/ Execute(h, b)
       \/ Acknowledge(h) \/ MarkExecuted(h) \/ Cut(h)
BoardSpec == BoardInit /\ [][BoardNext]_boardVars

---------------------------------------------------------------------------
\* Two devices, a retry and a death on the way change nothing the agent acts on: a
\* verdict a run was given is the item's (store/goal_action_items.go:82-84), a
\* denied request was not granted by an approval still being carried out, and one
\* recorded as executed was (store/access_requests.go:87-90, 115-117).
DecisionsStand ==
  /\ \A i \in Items : told[i] # "none" => item[i] = told[i]
  /\ access = "denied" => ~granted
  /\ access = "executed" => granted

=============================================================================
