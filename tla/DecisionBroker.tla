---------------------------- MODULE DecisionBroker ----------------------------
(***************************************************************************)
(* One turn of a roadmap session blocked on its user: the permission and   *)
(* question brokers (internal/server/permission.go, user_input.go), the    *)
(* arms of runWSTurn's select loop that show a request, and the marks that *)
(* move the session's task to review while a request is open               *)
(* (roadmap_questions.go).                                                 *)
(*                                                                         *)
(* A requester registers a one-place channel under the request's id, hands *)
(* the request to the turn's queue without blocking, and waits for an      *)
(* answer, its context or its timer.  A device answers by looking the      *)
(* channel up under the lock and sending outside it, then pops the mark of *)
(* the request and puts the task back.  None of these sequences is atomic. *)
(*                                                                         *)
(* Left out: sessions that are not roadmap sessions (their marks always    *)
(* report "not moved"), and the fallback broker, which is the same code    *)
(* with a third type and has no marks.                                     *)
(***************************************************************************)
EXTENDS Naturals, Sequences, FiniteSets

CONSTANTS
    Permissions,    \* ids of tool-approval requests
    Questions,      \* ids of clarification questions
    Devices,        \* dashboards and phones, each answering one request
    QueueCap,       \* capacity of a turn's queue; 8 in the code
    MaxCards        \* bound on how often the stream repeats a question

ASSUME QueueCapAssumption == QueueCap \in Nat \ {0}
ASSUME MaxCardsAssumption == MaxCards \in Nat \ {0}
ASSUME KindsDisjoint == Permissions \intersect Questions = {}

VARIABLES
    gated,      \* the session's plan is pending submission
    loop,       \* runWSTurn: "open", "finished" (turn done), "closed"
    queue,      \* queue[k]: the turn's channel in broker k
    requester,  \* requester[r]: where the goroutine waiting for r is
    subscribed, \* subscribed[r]: it found a queue when it registered
    outcome,    \* outcome[r]: what it returned
    slot,       \* slot[r]: the answer in its one-place channel
    pending,    \* ids in the brokers' pending maps
    meta,       \* meta[r]: the mark of r
    cards,      \* cards[r]: how often the card of r reached the user
    device,     \* device[d]: where the device is with its answer
    task        \* status of the session's task

vars == <<gated, loop, queue, requester, subscribed, outcome, slot, pending,
          meta, cards, device, task>>

-----------------------------------------------------------------------------
Requests == Permissions \union Questions

Kinds == {"permission", "question"}

KindOf(r) == IF r \in Permissions THEN "permission" ELSE "question"

Answers == {"allow", "deny"}

NoAnswer == "none"

\* A requester holds its place in pending in these states.
Waiting == {"registered", "waiting", "returning"}

DeviceStates == [at : {"idle", "found", "marking", "restoring", "done"},
                 req : Requests \union {"none"},
                 answer : Answers \union {NoAnswer},
                 decided : BOOLEAN, restored : BOOLEAN]

TypeOK ==
    /\ gated \in BOOLEAN
    /\ loop \in {"open", "finished", "closed"}
    /\ queue \in [Kinds -> Seq(Requests)]
    /\ \A k \in Kinds : Len(queue[k]) <= QueueCap
    /\ requester \in [Requests -> Waiting \union {"idle", "ended"}]
    /\ subscribed \in [Requests -> BOOLEAN]
    /\ outcome \in [Requests -> Answers \union {"none", "timeout", "cancelled", "panic"}]
    /\ slot \in [Requests -> Answers \union {NoAnswer}]
    /\ pending \subseteq Requests
    /\ meta \in [Requests -> {"none", "keep", "restore"}]
    /\ cards \in [Requests -> Nat]
    /\ device \in [Devices -> DeviceStates]
    /\ task \in {"in_progress", "review", "done"}

Init ==
    /\ gated \in BOOLEAN
    /\ loop = "open"
    /\ queue = [k \in Kinds |-> <<>>]
    /\ requester = [r \in Requests |-> "idle"]
    /\ subscribed = [r \in Requests |-> FALSE]
    /\ outcome = [r \in Requests |-> "none"]
    /\ slot = [r \in Requests |-> NoAnswer]
    /\ pending = {}
    /\ meta = [r \in Requests |-> "none"]
    /\ cards = [r \in Requests |-> 0]
    /\ device = [d \in Devices |-> [at |-> "idle", req |-> "none", answer |-> NoAnswer,
                                    decided |-> FALSE, restored |-> FALSE]]
    /\ task = "in_progress"

turnVars == <<loop, cards>>
requestVars == <<queue, requester, subscribed, outcome, pending>>
markVars == <<meta, task>>

-----------------------------------------------------------------------------
(***************************************************************************)
(* The requester: RequestPermission and RequestUserInput.                  *)
(***************************************************************************)
Request(r) ==
    /\ requester[r] = "idle"
    /\ cards[r] = 0
    /\ requester' = [requester EXCEPT ![r] = "registered"]
    /\ pending' = pending \union {r}
    /\ subscribed' = [subscribed EXCEPT ![r] = (loop # "closed")]
    /\ UNCHANGED <<gated, queue, outcome, slot, device, turnVars, markVars>>

\* Mutation of HandOver: the queue has no capacity.
HandOverUncapped(r) ==
    /\ requester[r] = "registered"
    /\ subscribed[r] => loop # "closed"
    /\ requester' = [requester EXCEPT ![r] = "waiting"]
    /\ queue' = IF subscribed[r] THEN [queue EXCEPT ![KindOf(r)] = Append(@, r)] ELSE queue
    /\ UNCHANGED <<gated, subscribed, outcome, slot, pending, device, turnVars, markVars>>

\* Mutation of HandOver: the send has no default branch.
HandOverBlocking(r) ==
    /\ requester[r] = "registered"
    /\ subscribed[r] => loop # "closed"
    /\ subscribed[r] => Len(queue[KindOf(r)]) < QueueCap
    /\ requester' = [requester EXCEPT ![r] = "waiting"]
    /\ queue' = IF subscribed[r] THEN [queue EXCEPT ![KindOf(r)] = Append(@, r)] ELSE queue
    /\ UNCHANGED <<gated, subscribed, outcome, slot, pending, device, turnVars, markVars>>

\* The non-blocking hand-over: dropped when the queue is full, skipped when the
\* turn has no queue.
HandOver(r) ==
    /\ requester[r] = "registered"
    /\ subscribed[r] => loop # "closed"
    /\ requester' = [requester EXCEPT ![r] = "waiting"]
    /\ queue' = IF subscribed[r] /\ Len(queue[KindOf(r)]) < QueueCap
                  THEN [queue EXCEPT ![KindOf(r)] = Append(@, r)]
                  ELSE queue
    /\ UNCHANGED <<gated, subscribed, outcome, slot, pending, device, turnVars, markVars>>

Returns(r, o) ==
    /\ requester' = [requester EXCEPT ![r] = "returning"]
    /\ outcome' = [outcome EXCEPT ![r] = o]

\* The turn closed its queue after the requester had looked it up.
SendOnClosedQueue(r) ==
    /\ requester[r] = "registered"
    /\ subscribed[r]
    /\ loop = "closed"
    /\ Returns(r, "panic")
    /\ UNCHANGED <<gated, queue, subscribed, slot, pending, device, turnVars, markVars>>

\* Its context ended: the turn was cancelled, or the HTTP request went away.
ContextDone(r) ==
    /\ \/ requester[r] = "registered" /\ subscribed[r]
       \/ requester[r] = "waiting"
    /\ Returns(r, "cancelled")
    /\ UNCHANGED <<gated, queue, subscribed, slot, pending, device, turnVars, markVars>>

\* Mutation of TimesOut: an unanswered request is let through.
TimesOutAllowing(r) ==
    /\ requester[r] = "waiting"
    /\ Returns(r, "allow")
    /\ UNCHANGED <<gated, queue, subscribed, slot, pending, device, turnVars, markVars>>

TimesOut(r) ==
    /\ requester[r] = "waiting"
    /\ Returns(r, "timeout")
    /\ UNCHANGED <<gated, queue, subscribed, slot, pending, device, turnVars, markVars>>

Receive(r) ==
    /\ requester[r] = "waiting"
    /\ slot[r] # NoAnswer
    /\ Returns(r, slot[r])
    /\ slot' = [slot EXCEPT ![r] = NoAnswer]
    /\ UNCHANGED <<gated, queue, subscribed, pending, device, turnVars, markVars>>

\* Mutation of Return: the pending entry is not deleted.
ReturnKeepingEntry(r) ==
    /\ requester[r] = "returning"
    /\ requester' = [requester EXCEPT ![r] = "ended"]
    /\ UNCHANGED <<gated, queue, subscribed, outcome, slot, pending, device, turnVars, markVars>>

\* The deferred delete.
Return(r) ==
    /\ requester[r] = "returning"
    /\ requester' = [requester EXCEPT ![r] = "ended"]
    /\ pending' = pending \ {r}
    /\ UNCHANGED <<gated, queue, subscribed, outcome, slot, device, turnVars, markVars>>

-----------------------------------------------------------------------------
(***************************************************************************)
(* The turn's select loop.                                                 *)
(***************************************************************************)
MoveToReview == task' = IF task = "in_progress" THEN "review" ELSE task

\* A mark never loses the duty to restore the task.
Attach(r, restore) ==
    meta' = [meta EXCEPT ![r] = IF restore THEN "restore"
                                ELSE IF @ = "restore" THEN @ ELSE "keep"]

\* A permission asked while a plan is pending submission leaves the task alone.
MarkPending(r) ==
    IF gated /\ KindOf(r) = "permission"
      THEN Attach(r, FALSE) /\ UNCHANGED task
      ELSE Attach(r, task = "in_progress") /\ MoveToReview

Show(k) ==
    /\ loop # "closed"
    /\ queue[k] # <<>>
    /\ queue' = [queue EXCEPT ![k] = Tail(@)]
    /\ cards' = [cards EXCEPT ![Head(queue[k])] = @ + 1]
    /\ MarkPending(Head(queue[k]))
    /\ UNCHANGED <<gated, loop, requester, subscribed, outcome, slot, pending, device>>

\* Claude asks in its own event stream; nobody waits for the answer, and the
\* lines of one message may repeat the question under one id.
ShowFromStream(r) ==
    /\ loop = "open"
    /\ requester[r] = "idle"
    /\ cards[r] < MaxCards
    /\ cards' = [cards EXCEPT ![r] = @ + 1]
    /\ MarkPending(r)
    /\ UNCHANGED <<gated, loop, requestVars, slot, device>>

\* The provider's turn is done: the task goes to review for good.
TurnDone ==
    /\ loop = "open"
    /\ loop' = "finished"
    /\ IF gated THEN UNCHANGED task ELSE MoveToReview
    /\ UNCHANGED <<gated, cards, requestVars, slot, device, meta>>

\* The deferred unsubscribe, after the turn's end or a stop.
Unsubscribe ==
    /\ loop # "closed"
    /\ loop' = "closed"
    /\ queue' = [k \in Kinds |-> <<>>]
    /\ UNCHANGED <<gated, cards, requester, subscribed, outcome, pending, slot, device, markVars>>

-----------------------------------------------------------------------------
(***************************************************************************)
(* A device answers: decide, then markRoadmap...Resolved.  It knows the    *)
(* request from its card or its notification.                              *)
(***************************************************************************)
At(d, l) == device[d].at = l

LookUp(d, r, a) ==
    /\ At(d, "idle")
    /\ cards[r] > 0
    /\ device' = [device EXCEPT ![d] =
                    [at |-> IF r \in pending THEN "found" ELSE "marking",
                     req |-> r, answer |-> a, decided |-> FALSE, restored |-> FALSE]]
    /\ UNCHANGED <<gated, slot, turnVars, requestVars, markVars>>

SendAnswer(d) ==
    LET r == device[d].req  free == slot[r] = NoAnswer IN
    /\ At(d, "found")
    /\ slot' = IF free THEN [slot EXCEPT ![r] = device[d].answer] ELSE slot
    /\ device' = [device EXCEPT ![d].at = "marking", ![d].decided = free]
    /\ UNCHANGED <<gated, turnVars, requestVars, markVars>>

\* Mutation of PopMark: the mark is read but not deleted.
ReadMark(d) ==
    LET r == device[d].req IN
    /\ At(d, "marking")
    /\ device' = [device EXCEPT ![d].at = IF meta[r] = "restore" THEN "restoring" ELSE "done"]
    /\ UNCHANGED <<gated, slot, turnVars, requestVars, markVars>>

PopMark(d) ==
    LET r == device[d].req IN
    /\ At(d, "marking")
    /\ meta' = [meta EXCEPT ![r] = "none"]
    /\ device' = [device EXCEPT ![d].at = IF meta[r] = "restore" THEN "restoring" ELSE "done"]
    /\ UNCHANGED <<gated, slot, turnVars, requestVars, task>>

\* The task goes back to in_progress if it is (still, or again) in review.
Restore(d) ==
    /\ At(d, "restoring")
    /\ device' = [device EXCEPT ![d].at = "done", ![d].restored = TRUE]
    /\ task' = IF task = "review" THEN "in_progress" ELSE task
    /\ UNCHANGED <<gated, slot, turnVars, requestVars, meta>>

\* The user drags the task's card on the board.
UserMovesTask ==
    /\ task' \in {"in_progress", "review", "done"} \ {task}
    /\ UNCHANGED <<gated, slot, turnVars, requestVars, meta, device>>

-----------------------------------------------------------------------------
Waits(r) == ContextDone(r) \/ TimesOut(r) \/ Receive(r)

Progress(r) == HandOver(r) \/ SendOnClosedQueue(r) \/ TimesOut(r) \/ Return(r)

Next ==
    \/ \E r \in Requests :
          Request(r) \/ HandOver(r) \/ SendOnClosedQueue(r) \/ Waits(r) \/ Return(r)
    \/ \E k \in Kinds : Show(k)
    \/ \E r \in Questions : ShowFromStream(r)
    \/ TurnDone \/ Unsubscribe \/ UserMovesTask
    \/ \E d \in Devices :
          \/ \E r \in Requests, a \in Answers : LookUp(d, r, a)
          \/ SendAnswer(d) \/ PopMark(d) \/ Restore(d)

Spec == Init /\ [][Next]_vars

\* Goroutines keep running and timers fire; nobody has to answer, and the
\* turn's loop may be stuck writing to a slow client.
FairSpec == Spec /\ \A r \in Requests : WF_vars(Progress(r))

-----------------------------------------------------------------------------
\* A tool runs only on the word of a user: the requester gets "allow" only from
\* a device that answered "allow" to this very request and was told "ok" for
\* it; timers, cancelled contexts and full queues never allow.
AllowedByUser ==
    \A r \in Requests : outcome[r] = "allow" =>
        \E d \in Devices : /\ device[d].req = r
                           /\ device[d].answer = "allow"
                           /\ device[d].decided

\* The pending map is the only record of whether a request still waits; the
\* notification actions offer Allow and Deny by it.  It lists a request exactly
\* as long as its requester has not returned.
PendingIsWaiting ==
    \A r \in Requests : r \in pending <=> requester[r] \in Waiting

\* However many devices answer a request, one card moves the task back once: a
\* restore is the undoing of one move to review.
RestoredOncePerCard ==
    \A r \in Requests :
        Cardinality({d \in Devices : device[d].req = r /\ device[d].restored}) <= cards[r]

\* A request ends even if the queue is full, no client is attached, and nobody
\* ever answers.
EveryRequestReturns ==
    \A r \in Requests : requester[r] = "registered" ~> requester[r] = "ended"
=============================================================================
