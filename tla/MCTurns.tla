------------------------------ MODULE MCTurns -------------------------------
(***************************************************************************)
(* The parts of one turn inside Core and the server, side by side: which   *)
(* of them runs is fixed at the start (focus), the others rest in their    *)
(* initial state. What passes between them, the adapter's events, the      *)
(* stored rows, the plan's gate, is an input of the one that receives it   *)
(* and chosen freely there.                                                *)
(***************************************************************************)
EXTENDS Naturals, Sequences

CONSTANTS
  Says, Blank, MaxEvents, MaxParts,       \* what a provider says; bounds on events and attempts
  Targets, Home, Chain, Modes, FirstMode, \* provider/profile pairs, permission modes
  MaxTurns, MaxAttempts, MaxNotes, MaxEdits,
  Recent, MinMessages, Interval,          \* when the rolling summary is refreshed
  MaxMessages, MaxJobs,
  Callers, Plans, NoPlan, MaxOps,         \* requests on a plan, its contents, and none
  Permissions, Questions, Devices,        \* what a turn asks, who answers
  QueueCap, MaxCards

ASSUME RecentAssumption == Recent \in Nat \ {0}
ASSUME QueueCapAssumption == QueueCap \in Nat \ {0}
ASSUME MaxCardsAssumption == MaxCards \in Nat \ {0}
ASSUME HomeAssumption == Home \in Targets /\ FirstMode \in Modes
ASSUME BoundsAssumption ==
  /\ MaxEvents \in Nat /\ MaxParts \in Nat \ {0} /\ MaxEdits \in Nat
  /\ MaxMessages \in Nat \ {0}
ASSUME KindsDisjoint == Permissions \intersect Questions = {}

VARIABLES
  focus,      \* the component that runs
  segments, rows, phase, attempt, events,
  session, current, pc, attended, tried, cancelled, history, told, run, notes, turns, edits,
  count, covered, jobs, resume, replayed,
  gate, file, calls, approved, messages, task, ops,
  gated, loop, queue, requester, subscribed, outcome, slot, pending, meta, cards, device,
  boardTask

\* What TLC gives Says and Chain: only narration may be blank; a chain that comes back.
BlankNarration == [reasoning |-> {"a"}, narration |-> {"a", "_"}]
ChainOfThree == <<"b", "a", "b">>

Segments == INSTANCE TurnSegments WITH MaxAttempts <- MaxParts
Stream == INSTANCE TurnStream
Transcript == INSTANCE Replay
Gate == INSTANCE PlanGate
Broker == INSTANCE DecisionBroker WITH task <- boardTask

segmentsVars ==
  <<segments, rows, phase, attempt, events>>
streamVars ==
  <<session, current, pc, attended, tried, cancelled, history, told, run, notes, turns, edits>>
replayVars ==
  <<count, covered, jobs, resume, replayed>>
planVars ==
  <<gate, file, calls, approved, messages, task, ops>>
brokerVars ==
  <<gated, loop, queue, requester, subscribed, outcome, slot, pending, meta, cards, device,
  boardTask>>
vars ==
  <<focus, segmentsVars, streamVars, replayVars, planVars, brokerVars>>

\* The step is one of component c: the others rest.
Only(c) ==
  /\ focus = c /\ UNCHANGED focus
  /\ IF c = "segments" THEN TRUE ELSE UNCHANGED segmentsVars
  /\ IF c = "stream" THEN TRUE ELSE UNCHANGED streamVars
  /\ IF c = "replay" THEN TRUE ELSE UNCHANGED replayVars
  /\ IF c = "plan" THEN TRUE ELSE UNCHANGED planVars
  /\ IF c = "broker" THEN TRUE ELSE UNCHANGED brokerVars

Init ==
  /\ focus \in {"segments", "stream", "replay", "plan", "broker"}
  /\ Segments!SegInit
  /\ Stream!StreamInit
  /\ Transcript!ReplayInit
  /\ Gate!PlanInit
  /\ Broker!Init
  /\ focus = "broker" \/ gated = FALSE

Next ==
  \/ Only("segments") /\ Segments!SegNext
  \/ Only("stream") /\ Stream!StreamNext
  \/ Only("replay") /\ Transcript!ReplayNext
  \/ Only("plan") /\ Gate!PlanNext
  \/ Only("broker") /\ Broker!Next

Spec == Init /\ [][Next]_vars
FairSpec ==
  /\ Spec
  /\ WF_streamVars(focus = "stream" /\ Stream!Progress)

-----------------------------------------------------------------------------
\* The variables of the component that runs have their types.
TypeOK ==
  /\ focus = "segments" => Segments!SegTypeOK
  /\ focus = "stream" => Stream!StreamTypeOK
  /\ focus = "replay" => Transcript!ReplayTypeOK
  /\ focus = "plan" => Gate!PlanTypeOK
  /\ focus = "broker" => Broker!TypeOK

\* Working notes reach the history in the order the agent began them, the last
\* assistant row is the last thing it said, and a turn that ended normally lost
\* nothing of it (core/sessions.go:1203-1325).
NotesInOrder ==
  Segments!NotesInOrder /\ Segments!AnswerIsLastWord /\ Segments!NothingDropped

\* A resume handle belongs to the project the session is bound to, however late a
\* turn's event arrives; and an unattended turn never goes back to a target that
\* refused it (core/sessions.go:1363-1384, core/runtime.go:122-159).
HandleOfProject ==
  Stream!HandleOfProject /\ Stream!NeverBackUnattended

\* Every turn that begins comes to an end (core/sessions.go:564-848).
TurnEnds == Stream!TurnEnds

\* A turn that goes through fallbacks, notes, failures and stops implements the turn
\* of TurnContract (core/sessions.go:564-848).
KeepsContract == Stream!KeepsContract

\* A fresh provider session is never told a message twice, and a plan pinned into what it
\* is told is one the user approved (core/summary.go:26-127, core/plan.go:75-377).
ToldOnceAndApproved ==
  Transcript!NothingReplayedTwice /\ Gate!PinnedWasApproved

\* However many devices answer, the task is put back at most once for each card shown
\* (server/roadmap_questions.go:29-57).
RestoredOncePerCard == Broker!RestoredOncePerCard
=============================================================================
