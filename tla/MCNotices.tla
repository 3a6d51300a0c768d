----------------------------- MODULE MCNotices ------------------------------
(***************************************************************************)
(* How the user hears of a decision and takes it, side by side: the        *)
(* notification engine, the verdicts of several devices on one object,     *)
(* the relay that reaches phones. The engine hands its events to the       *)
(* channels and the devices' verdicts come back as resolving events; each  *)
(* part takes them as inputs chosen freely. Which part runs is fixed at    *)
(* the start (focus).                                                      *)
(***************************************************************************)
EXTENDS Naturals, Sequences

CONSTANTS
  Asks, Channels, QueueDepth, MaxAsks, MaxPanics,   \* what is asked, how it is delivered
  Devices, Phones, Kinds, NoOne, MaxGrants,         \* who acts on which kind of object
  PhoneIds, MaxTokens, MaxPushes, MaxRequests, MaxFaults   \* phones behind the relay

ASSUME AsksAssumption ==
  Asks # {} /\ QueueDepth \in Nat /\ MaxAsks \in Nat \ {0} /\ MaxPanics \in Nat
ASSUME GrantsAssumption == MaxGrants \in Nat
ASSUME PhonesAssumption ==
  /\ PhoneIds # {} /\ MaxTokens \in Nat
  /\ MaxPushes \in Nat /\ MaxRequests \in Nat /\ MaxFaults \in Nat

VARIABLES
  focus,      \* the component that runs
  asks, asked, owed, queue, worker, rows, deliveries, said, panics,
  kind, object, slot, mark, row, act, event, heard, stands, overruled, grants,
  phones, records, dead, file, readable, memory, holder, tenants, used, pushing, request,
  answered, buzzes, work

Engine == INSTANCE Notifications
Decide == INSTANCE NotificationActions
Push == INSTANCE PushRelay WITH rows <- phones, worker <- pushing

engineVars ==
  <<asks, asked, owed, queue, worker, rows, deliveries, said, panics>>
actionsVars ==
  <<kind, object, slot, mark, row, act, event, heard, stands, overruled, grants>>
pushVars ==
  <<phones, records, dead, file, readable, memory, holder, tenants, used, pushing, request,
  answered, buzzes, work>>
vars == <<focus, engineVars, actionsVars, pushVars>>

\* The step is one of component c: the others rest.
Only(c) ==
  /\ focus = c /\ UNCHANGED focus
  /\ IF c = "engine" THEN TRUE ELSE UNCHANGED engineVars
  /\ IF c = "actions" THEN TRUE ELSE UNCHANGED actionsVars
  /\ IF c = "push" THEN TRUE ELSE UNCHANGED pushVars

Init ==
  /\ focus \in {"engine", "actions", "push"}
  /\ Engine!NoteInit
  /\ Decide!ActionInit
  /\ focus = "actions" \/ (kind = "item" /\ ~mark)
  /\ Push!RelayInit

Next ==
  \/ Only("engine") /\ Engine!NoteNext
  \/ Only("actions") /\ Decide!ActionNext
  \/ Only("push") /\ Push!RelayNext

Spec == Init /\ [][Next]_vars
FairSpec ==
  /\ Spec
  /\ WF_engineVars(focus = "engine" /\ \E ev \in owed : Engine!Publish(ev))
  /\ WF_engineVars(focus = "engine" /\ Engine!WorkerStep)

-----------------------------------------------------------------------------
\* The variables of the component that runs have their types.
TypeOK ==
  /\ focus = "engine" => Engine!NoteTypeOK
  /\ focus = "actions" => Decide!ActionTypeOK
  /\ focus = "push" => Push!RelayTypeOK

\* One pending decision is one notification, one verdict on it stands however many devices
\* answer, and a phone buzzes for it once (notify/engine.go:156-330, server/notification_actions.go,
\* notify/relay.go:215-345); and the relay knows the daemon by one tenant for ever
\* (notify/relay.go:404-442).
OneOfEach ==
  /\ Engine!OneNotificationPerAsk /\ Decide!OneVerdictEach
  /\ Push!OneBuzz /\ Push!OneTenant

\* A resolution the queue took resolves the notifications of its object in the end
\* (notify/engine.go:156-330).
QueuedResolutionSettles == Engine!QueuedResolutionSettles
=============================================================================
