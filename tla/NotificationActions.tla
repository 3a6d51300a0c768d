------------------------ MODULE NotificationActions ------------------------
(***************************************************************************)
(* Deciding from a notification: internal/server/notification_actions.go   *)
(* and notifications.go over internal/notify/actions.go, the type registry *)
(* of internal/notify/registry.go and internal/store/notifications.go.     *)
(*                                                                         *)
(* One notification about one domain object. Every device may act on it,   *)
(* through the notification or, on the dashboard, through the object's own *)
(* endpoint; both call the same core operations.                           *)
(***************************************************************************)
EXTENDS Naturals, FiniteSets

CONSTANTS
  Devices,    \* where the user acts
  Phones,     \* those that act through the notification
  Kinds,      \* resource kinds of the registry: "item", "access", "secret" (an
              \* access request for a credential), "question", "permission", "completion"
  NoOne,      \* no device
  MaxGrants   \* bound on failed grants

VARIABLES
  kind,     \* the resource kind of the notification
  object,   \* state of the domain object
  slot,     \* the buffered answer of a permission request: "-" when empty
  mark,     \* the request moved a board task to review (permissionMeta)
  row,      \* the notification: is it resolved, was it read, or is it pruned
  act,      \* what each device asked for and how far its request is
  event,    \* a resolving event the notification engine has not handled yet
  heard,    \* for the properties: devices whose verdict took effect
  stands,   \* for the properties: the device whose verdict stands
  overruled,\* for the properties: devices whose verdict was overwritten
  grants    \* failed grants so far

actionVars == <<kind, object, slot, mark, row, act, event, heard, stands, overruled, grants>>

Verdicts == {"yes", "no"}
Settled == {"yes", "no"}

ActionTypeOK ==
  /\ kind \in Kinds
  /\ object \in {"open", "approved", "failed"} \cup Settled
  /\ slot \in Verdicts \cup {"-"} /\ mark \in BOOLEAN
  /\ row \in [state: {"open", "resolved", "pruned"}, read: BOOLEAN]
  /\ act \in [Devices -> [at: {"idle", "offered", "read", "granting", "decided", "told"},
                          does: Verdicts \cup {"open"},
                          reply: {"-", "ok", "stale", "error", "nav"}]]
  /\ event \in BOOLEAN
  /\ heard \subseteq Devices /\ overruled \subseteq Devices
  /\ stands \in Devices \cup {NoOne}
  /\ grants \in 0..MaxGrants

ActionInit ==
  /\ kind \in Kinds
  /\ object = "open" /\ slot = "-"
  /\ mark \in (IF kind = "permission" THEN BOOLEAN ELSE {FALSE})
  /\ row = [state |-> "open", read |-> FALSE]
  /\ act = [d \in Devices |-> [at |-> "idle", does |-> "open", reply |-> "-"]]
  /\ event = FALSE /\ heard = {} /\ stands = NoOne /\ overruled = {} /\ grants = 0

Ends(d, reply) == act' = [act EXCEPT ![d].at = "told", ![d].reply = reply]

---------------------------------------------------------------------------
(* The way in. *)

\* The registry: what a notification about each kind may offer at all.
RegistryActions ==
  [item |-> {"open", "yes", "no"}, access |-> {"open", "yes", "no"}, secret |-> {"open", "yes", "no"},
   question |-> {"open", "yes", "no"}, permission |-> {"open", "yes", "no"}, completion |-> {"open", "yes"}]

\* LiveActions: recomputed from the object as it is now. A resolved notification
\* and one that needs a credential only lead to the object.
Decidable ==
  CASE kind = "secret" -> FALSE
    [] kind = "access" -> object \in {"open", "failed"}
    [] OTHER -> object = "open"
Offered(does) ==
  does \in RegistryActions[kind] /\ (does = "open" \/ (row.state = "open" /\ Decidable))

\* handleNotificationAction reads the row and checks the action set; a click on
\* the dashboard goes straight to the object.
Begin(d, does) ==
  /\ act[d].at = "idle"
  /\ IF d \notin Phones
     THEN does # "open" /\ act' = [act EXCEPT ![d] = [at |-> "offered", does |-> does, reply |-> "-"]]
     ELSE act' = [act EXCEPT ![d] =
            CASE row.state = "pruned" -> [at |-> "told", does |-> does, reply |-> "error"]
              [] row.state # "pruned" /\ ~Offered(does) -> [at |-> "told", does |-> does, reply |-> "stale"]
              [] row.state # "pruned" /\ Offered(does) /\ does = "open" ->
                   [at |-> "told", does |-> does, reply |-> "nav"]
              [] OTHER -> [at |-> "offered", does |-> does, reply |-> "-"]]
  /\ UNCHANGED <<kind, object, slot, mark, row, event, heard, stands, overruled, grants>>

---------------------------------------------------------------------------
(* The operations underneath. *)

\* The verdict of d takes effect; what stood before is overruled.
Takes(d) ==
  /\ heard' = heard \cup {d}
  /\ stands' = d
  /\ overruled' = IF object \in Settled /\ stands \notin {NoOne, d}
                     /\ act[stands].does # act[d].does
                  THEN overruled \cup {stands} ELSE overruled

\* Mutation of Guarded: the update does not look at the status.
GuardedNever == TRUE
\* RespondGoalActionItem, AnswerAgentQuestion and DecideAccessRequest update one
\* row on the condition that nobody has decided it.
Guarded == IF kind \in {"access", "secret"} THEN object \in {"open", "failed"} ELSE object = "open"
Decide(d) ==
  /\ act[d].at = "offered" /\ kind \in {"item", "question", "access", "secret"}
  /\ IF Guarded
     THEN /\ Takes(d)
          /\ IF kind = "access" /\ act[d].does = "yes"
             THEN object' = "approved" /\ act' = [act EXCEPT ![d].at = "granting"]
             ELSE object' = act[d].does /\ act' = [act EXCEPT ![d].at = "decided"]
          /\ event' = TRUE       \* the timeline event that resolves the notification
     ELSE /\ Ends(d, "stale")
          /\ UNCHANGED <<object, event, heard, stands, overruled>>
  /\ UNCHANGED <<kind, slot, mark, row, grants>>

\* executeAccessGrant, then MarkAccessRequestExecuted for a request still approved.
Grant(d) ==
  /\ act[d].at = "granting"
  /\ act' = [act EXCEPT ![d].at = "decided"]
  /\ \/ object' = (IF object = "approved" THEN "yes" ELSE object) /\ UNCHANGED grants
     \/ /\ grants < MaxGrants /\ grants' = grants + 1
        /\ object' = IF object = "approved" THEN "failed" ELSE object
  /\ UNCHANGED <<kind, slot, mark, row, event, heard, stands, overruled>>

\* TransitionGoal reads the goal and checks the transition, then UpdateGoal
\* writes the whole row whatever its status has become.
ReadGoal(d) ==
  /\ act[d].at = "offered" /\ kind = "completion"
  /\ IF object = act[d].does THEN act' = [act EXCEPT ![d].at = "decided"]
     ELSE IF object = "open" THEN act' = [act EXCEPT ![d].at = "read"]
     ELSE Ends(d, "error")     \* "goal cannot go from done to ..." is not a stale answer
  /\ heard' = IF object = act[d].does THEN heard \cup {d} ELSE heard
  /\ UNCHANGED <<kind, object, slot, mark, row, event, stands, overruled, grants>>
WriteGoal(d) ==
  /\ act[d].at = "read"
  /\ object' = act[d].does /\ Takes(d) /\ event' = TRUE
  /\ act' = [act EXCEPT ![d].at = "decided"]
  /\ UNCHANGED <<kind, slot, mark, row, grants>>

\* A permission request waits in memory: decide puts the verdict into its
\* buffer, and the task the request moved to review is given back by whoever
\* takes the mark. Either counts as done.
Answer(d) ==
  /\ act[d].at = "offered" /\ kind = "permission"
  /\ LET into == object = "open" /\ slot = "-"
     IN /\ slot' = IF into THEN act[d].does ELSE slot
        /\ IF into THEN heard' = heard \cup {d} /\ stands' = d ELSE UNCHANGED <<heard, stands>>
        /\ act' = [act EXCEPT ![d].at = "read", ![d].reply = IF into THEN "ok" ELSE "-"]
  /\ UNCHANGED <<kind, object, mark, row, event, overruled, grants>>
TakeMark(d) ==
  /\ act[d].at = "read" /\ kind = "permission"
  /\ mark' = FALSE
  /\ IF mark \/ act[d].reply = "ok"
     THEN act' = [act EXCEPT ![d].at = "decided", ![d].reply = "-"]
     ELSE Ends(d, "stale")
  /\ UNCHANGED <<kind, object, slot, row, event, heard, stands, overruled, grants>>
\* The requester takes the verdict, or its turn ends or times out: denied.
Receive ==
  /\ kind = "permission" /\ object = "open"
  /\ object' = IF slot = "-" THEN "no" ELSE slot
  /\ UNCHANGED <<kind, slot, mark, row, act, event, heard, stands, overruled, grants>>

---------------------------------------------------------------------------
(* The notification follows. *)

Resolved == row' = IF row.state = "open" THEN [row EXCEPT !.state = "resolved"] ELSE row

\* The endpoint resolves the row itself and answers; the dashboard's permission
\* endpoint does the same, its other endpoints leave it to the event.
Reply(d) ==
  /\ act[d].at = "decided"
  /\ Ends(d, "ok")
  /\ IF d \in Phones \/ kind = "permission" THEN Resolved ELSE UNCHANGED row
  /\ UNCHANGED <<kind, object, slot, mark, event, heard, stands, overruled, grants>>

\* The engine handles the resolving event, or never sees it: its queue was full.
ResolveByResource ==
  /\ event /\ event' = FALSE
  /\ Resolved
  /\ UNCHANGED <<kind, object, slot, mark, act, heard, stands, overruled, grants>>
DropEvent ==
  /\ event /\ event' = FALSE
  /\ UNCHANGED <<kind, object, slot, mark, row, act, heard, stands, overruled, grants>>

\* The Notification Center: read, unread, read all; dismissing resolves the row
\* and leaves the object alone; old rows are pruned.
SetRead ==
  /\ row.state # "pruned"
  /\ row' = [row EXCEPT !.read = ~@]
  /\ UNCHANGED <<kind, object, slot, mark, act, event, heard, stands, overruled, grants>>
Dismiss ==
  /\ row.state = "open"
  /\ row' = [row EXCEPT !.state = "resolved"]
  /\ UNCHANGED <<kind, object, slot, mark, act, event, heard, stands, overruled, grants>>
Prune ==
  /\ row.state # "pruned"
  /\ row' = [state |-> "pruned", read |-> FALSE]
  /\ UNCHANGED <<kind, object, slot, mark, act, event, heard, stands, overruled, grants>>

DeviceStep(d) ==
  \/ \E does \in Verdicts \cup {"open"} : Begin(d, does)
  \/ Decide(d) \/ Grant(d) \/ ReadGoal(d) \/ (kind = "completion" /\ WriteGoal(d))
  \/ Answer(d) \/ TakeMark(d) \/ Reply(d)

ActionNext ==
  \/ \E d \in Devices : DeviceStep(d)
  \/ Receive \/ ResolveByResource \/ DropEvent \/ SetRead \/ Dismiss \/ Prune

ActionSpec == ActionInit /\ [][ActionNext]_actionVars

---------------------------------------------------------------------------
\* A device that is told "ok" about an action item, a question or an access
\* request is one whose verdict took effect, and no verdict is overwritten by
\* another: however the devices race, an object is decided once, and once more
\* for every grant that failed.
OneVerdictEach ==
  kind \in {"item", "question", "access", "secret"} =>
    /\ \A d \in Devices : act[d].reply = "ok" => d \in heard
    /\ overruled = {} /\ Cardinality(heard) <= 1 + grants

=============================================================================
