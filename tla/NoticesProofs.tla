---------------------------- MODULE NoticesProofs -----------------------------
(***************************************************************************)
(* Proofs about MCNotices, for every value of its constants: that one      *)
(* pending decision is one notification, one verdict on it stands, one     *)
(* push buzzes a phone once, and the relay knows the daemon by one tenant. *)
(* Each part has an invariant of its own, proved under the names MCNotices *)
(* instantiates it by; a step of the whole is a step of one part, and the  *)
(* others rest (StepsOfOne).                                               *)
(***************************************************************************)
EXTENDS MCNotices, FiniteSets, FiniteSetTheorems, SequenceTheorems, TLAPS

\* A step of the whole is a step of one component, and the others rest.
LEMMA StepsOfOne ==
  ASSUME [Next]_vars
  PROVE  /\ [Engine!NoteNext]_engineVars
         /\ [Decide!ActionNext]_actionsVars
         /\ [Push!RelayNext]_pushVars
BY DEF Next, vars, Only

-----------------------------------------------------------------------------
(* The engine: its one worker looks for an unresolved notification and     *)
(* creates one in two steps, and nobody else creates any, so what it did   *)
(* not find is still not there (NoneYet).                                  *)

WorkerFields == {"at", "kind", "of", "left", "sends"}
WorkerRecord == worker = [f \in WorkerFields |-> worker[f]]

\* Between the look-up and the insert the worker's object has no row.
NoneYet == worker.at = "create" => \A a \in Asks : worker.of = a => rows[a] = 0

EngineInv ==
  /\ rows \in [Asks -> {0, 1}]
  /\ WorkerRecord
  /\ NoneYet

LEMMA WaitingIsIdle ==
  /\ Engine!Waiting = [f \in WorkerFields |-> Engine!Waiting[f]]
  /\ Engine!Waiting.at = "idle"
<1> DEFINE someone == CHOOSE a \in Asks : TRUE
<1>1. Engine!Waiting = [at |-> "idle", kind |-> "ask", of |-> someone, left |-> {}, sends |-> {}]
  BY DEF Engine!Waiting
<1> HIDE DEF someone
<1> QED
  BY <1>1 DEF WorkerFields

LEMMA InitEngineInv == Engine!NoteInit => EngineInv
<1> SUFFICES ASSUME Engine!NoteInit PROVE EngineInv
  OBVIOUS
<1>1. worker = Engine!Waiting /\ rows = [a \in Asks |-> 0]
  BY DEF Engine!NoteInit
<1> QED
  BY <1>1, WaitingIsIdle DEF EngineInv, WorkerRecord, NoneYet

\* A worker that is back at the queue, while rows were at most taken away.
LEMMA BackAtTheQueue ==
  ASSUME EngineInv, worker' = Engine!Waiting, rows' \in [Asks -> {0, 1}]
  PROVE  EngineInv'
BY WaitingIsIdle DEF EngineInv, WorkerRecord, NoneYet

\* The worker goes on with the event it has, and the rows stay.
LEMMA WorkerGoesOn ==
  ASSUME EngineInv, UNCHANGED rows,
         worker' = [f \in WorkerFields |-> worker'[f]],
         worker'.at # "create"
  PROVE  EngineInv'
BY DEF EngineInv, WorkerRecord, NoneYet

\* The producers touch neither the worker nor the rows.
LEMMA ProducersKeepInv ==
  ASSUME EngineInv, UNCHANGED <<worker, rows>>
  PROVE  EngineInv'
BY DEF EngineInv, WorkerRecord, NoneYet

LEMMA TakeKeepsInv ==
  ASSUME EngineInv, Engine!Take
  PROVE  EngineInv'
<1>1. worker' = [Engine!Waiting EXCEPT !.at = "took", !.kind = queue[Engine!Taken].kind,
                                       !.of = queue[Engine!Taken].of]
  BY DEF Engine!Take
<1>2. worker' = [f \in WorkerFields |-> worker'[f]] /\ worker'.at = "took"
  BY <1>1, WaitingIsIdle DEF WorkerFields
<1>3. UNCHANGED rows
  BY DEF Engine!Take
<1> QED
  BY <1>2, <1>3, WorkerGoesOn

LEMMA ResolveKeepsInv ==
  ASSUME EngineInv, Engine!Resolve
  PROVE  EngineInv'
<1>1. worker' = Engine!Waiting
  BY DEF Engine!Resolve
<1>2. rows' = [rows EXCEPT ![worker.of] = 0] \/ rows' = rows
  BY DEF Engine!Resolve
<1>3. rows' \in [Asks -> {0, 1}]
  BY <1>2 DEF EngineInv
<1> QED
  BY <1>1, <1>3, BackAtTheQueue

LEMMA DedupeKeepsInv ==
  ASSUME EngineInv, Engine!Dedupe
  PROVE  EngineInv'
<1>1. UNCHANGED rows /\ rows \in [Asks -> {0, 1}]
  BY DEF Engine!Dedupe, EngineInv
<1>2. CASE Engine!Repeats
  BY <1>1, <1>2, BackAtTheQueue DEF Engine!Dedupe
<1>3. CASE ~Engine!Repeats
  <2>1. worker' = [worker EXCEPT !.at = "create"]
    BY <1>3 DEF Engine!Dedupe
  <2>2. worker' = [f \in WorkerFields |-> worker'[f]] /\ worker'.of = worker.of
    BY <2>1 DEF EngineInv, WorkerRecord, WorkerFields
  <2>3. \A a \in Asks : worker.of = a => rows[a] = 0
    BY <1>1, <1>3 DEF Engine!Repeats
  <2> QED
    BY <1>1, <2>2, <2>3 DEF EngineInv, WorkerRecord, NoneYet
<1> QED
  BY <1>2, <1>3

LEMMA CreateKeepsInv ==
  ASSUME EngineInv, Engine!Create
  PROVE  EngineInv'
<1>0. rows \in [Asks -> {0, 1}]
  BY DEF EngineInv
<1>1. CASE UNCHANGED rows /\ worker' = Engine!Waiting
  BY <1>0, <1>1, BackAtTheQueue
<1>2. CASE /\ rows' = [rows EXCEPT ![worker.of] = @ + 1]
           /\ \E on \in SUBSET Channels :
                worker' = [worker EXCEPT !.at = "deliver", !.left = on]
  <2>1. worker' = [f \in WorkerFields |-> worker'[f]] /\ worker'.at = "deliver"
    BY <1>2 DEF EngineInv, WorkerRecord, WorkerFields
  <2>2. worker.at = "create"
    BY DEF Engine!Create
  <2>3. rows' \in [Asks -> {0, 1}]
    <3>1. CASE worker.of \in Asks
      <4>1. rows[worker.of] = 0
        BY <2>2, <3>1 DEF EngineInv, NoneYet
      <4>2. rows' = [rows EXCEPT ![worker.of] = 1]
        BY <1>2, <4>1
      <4> QED
        BY <4>2 DEF EngineInv
    <3>2. CASE worker.of \notin Asks
      BY <1>2, <3>2 DEF EngineInv
    <3> QED
      BY <3>1, <3>2
  <2> QED
    BY <2>1, <2>3 DEF EngineInv, WorkerRecord, NoneYet
<1> QED
  BY <1>1, <1>2 DEF Engine!Create

LEMMA DeliveryKeepsInv ==
  ASSUME EngineInv, Engine!Delivered \/ \E c \in Channels : Engine!Attempt(c) \/ Engine!Outcome(c)
  PROVE  EngineInv'
<1>1. CASE Engine!Delivered
  <2>1. PICK trimmed \in SUBSET (Asks \ {worker.of}) :
          rows' = [a \in Asks |-> IF a \in trimmed THEN 0 ELSE rows[a]]
    BY <1>1 DEF Engine!Delivered
  <2>2. rows' \in [Asks -> {0, 1}]
    BY <2>1 DEF EngineInv
  <2> QED
    BY <1>1, <2>2, BackAtTheQueue DEF Engine!Delivered
<1>2. ASSUME NEW c \in Channels, Engine!Attempt(c) \/ Engine!Outcome(c)
      PROVE  EngineInv'
  <2>1. UNCHANGED rows /\ worker.at = "deliver"
    BY <1>2 DEF Engine!Attempt, Engine!Outcome
  <2>2. \/ worker' = [worker EXCEPT !.sends = {c}]
        \/ worker' = [worker EXCEPT !.left = @ \ {c}]
        \/ worker' = [worker EXCEPT !.left = @ \ {c}, !.sends = {}]
    BY <1>2 DEF Engine!Attempt, Engine!Outcome
  <2>3. worker' = [f \in WorkerFields |-> worker'[f]] /\ worker'.at = "deliver"
    BY <2>1, <2>2 DEF EngineInv, WorkerRecord, WorkerFields
  <2> QED
    BY <2>1, <2>3, WorkerGoesOn
<1> QED
  BY <1>1, <1>2

LEMMA DismissKeepsInv ==
  ASSUME EngineInv, NEW a \in Asks, Engine!Dismiss(a)
  PROVE  EngineInv'
<1>1. rows[a] > 0 /\ rows' = [rows EXCEPT ![a] = @ - 1] /\ UNCHANGED worker
  BY DEF Engine!Dismiss
<1>2. rows \in [Asks -> {0, 1}]
  BY DEF EngineInv
<1>3. rows[a] - 1 = 0
  BY <1>1, <1>2
<1>4. rows' = [rows EXCEPT ![a] = 0]
  BY <1>1, <1>3
<1> QED
  BY <1>1, <1>2, <1>4 DEF EngineInv, WorkerRecord, NoneYet

\* Whoever starts the worker again leaves the rows as they are.
LEMMA StartingAgainKeepsInv ==
  ASSUME EngineInv, Engine!Panic \/ Engine!Restart
  PROVE  EngineInv'
<1>1. worker' = Engine!Waiting /\ UNCHANGED rows
  BY DEF Engine!Panic, Engine!AfterPanic, Engine!Restart
<1>2. rows' \in [Asks -> {0, 1}]
  BY <1>1 DEF EngineInv
<1> QED
  BY <1>1, <1>2, BackAtTheQueue

LEMMA NextEngineInv == EngineInv /\ [Engine!NoteNext]_engineVars => EngineInv'
<1> SUFFICES ASSUME EngineInv, [Engine!NoteNext]_engineVars PROVE EngineInv'
  OBVIOUS
<1>1. ASSUME NEW a \in Asks, Engine!Open(a) \/ Engine!Settle(a) \/ Engine!PublishAgain(a)
      PROVE  EngineInv'
  BY <1>1, ProducersKeepInv DEF Engine!Open, Engine!Settle, Engine!PublishAgain
<1>2. ASSUME NEW ev \in owed, Engine!Publish(ev) PROVE EngineInv'
  BY <1>2, ProducersKeepInv DEF Engine!Publish
<1>3. ASSUME NEW a \in Asks, Engine!Dismiss(a) PROVE EngineInv'
  BY <1>3, DismissKeepsInv
<1>4. CASE Engine!WorkerStep
  BY <1>4, TakeKeepsInv, ResolveKeepsInv, DedupeKeepsInv, CreateKeepsInv, DeliveryKeepsInv
     DEF Engine!WorkerStep
<1>5. CASE Engine!Panic \/ Engine!Restart
  BY <1>5, StartingAgainKeepsInv
<1>6. CASE UNCHANGED engineVars
  BY <1>6, ProducersKeepInv DEF engineVars
<1> QED
  BY <1>1, <1>2, <1>3, <1>4, <1>5, <1>6 DEF Engine!NoteNext

-----------------------------------------------------------------------------
(* Deciding from a notification: an object leaves "open" when a verdict    *)
(* takes effect and comes back to a state that can be decided only by a    *)
(* failed grant, so the verdicts heard are counted by the failed grants.   *)

VerdictKind == kind \in {"item", "question", "access", "secret"}
Requests ==
  [at : {"idle", "offered", "read", "granting", "decided", "told"},
   does : {"yes", "no", "open"}, reply : {"-", "ok", "stale", "error", "nav"}]

RequestTypes ==
  /\ act \in [Devices -> Requests]
  /\ \A d \in Devices : act[d].at = "offered" => act[d].does # "open"

\* A device whose request went through, or will, is one whose verdict was heard.
DoneIsHeard ==
  \A d \in Devices :
    act[d].at \in {"granting", "decided"} \/ act[d].reply = "ok" => d \in heard

\* What can still be decided has been decided only by verdicts whose grant failed.
HeardOnce ==
  /\ IsFiniteSet(heard) /\ grants \in Nat
  /\ object = "open" => heard = {}
  /\ object = "failed" => Cardinality(heard) <= grants
  /\ Cardinality(heard) <= 1 + grants

ActionsInv ==
  /\ RequestTypes
  /\ VerdictKind => DoneIsHeard /\ HeardOnce /\ overruled = {}

LEMMA SameCardinality == \A S : Decide!Cardinality(S) = Cardinality(S)
BY DEF Decide!Cardinality, Cardinality

LEMMA InitActionsInv == Decide!ActionInit => ActionsInv
<1> SUFFICES ASSUME Decide!ActionInit PROVE ActionsInv
  OBVIOUS
<1>1. act = [d \in Devices |-> [at |-> "idle", does |-> "open", reply |-> "-"]]
  BY DEF Decide!ActionInit
<1>2. heard = {} /\ grants = 0 /\ overruled = {}
  BY DEF Decide!ActionInit
<1>3. RequestTypes /\ DoneIsHeard
  BY <1>1 DEF RequestTypes, Requests, DoneIsHeard
<1>4. HeardOnce
  <2>1. IsFiniteSet({}) /\ Cardinality({}) = 0
    BY FS_EmptySet
  <2> QED
    BY <1>2, <2>1 DEF HeardOnce
<1> QED
  BY <1>2, <1>3, <1>4 DEF ActionsInv

\* A device's request goes one step further.
LEMMA RequestGoesOn ==
  ASSUME RequestTypes, NEW d \in Devices, NEW r \in Requests,
         act' = [act EXCEPT ![d] = r], r.at = "offered" => r.does # "open"
  PROVE  /\ RequestTypes'
         /\ \A e \in Devices : e # d => act'[e] = act[e]
         /\ act'[d] = r
BY DEF RequestTypes

\* A step in which nobody's verdict takes effect and no grant fails: the device's new
\* reply is "ok" only when its verdict was heard.
LEMMA NothingDecided ==
  ASSUME ActionsInv, NEW d \in Devices, NEW r \in Requests,
         act' = [act EXCEPT ![d] = r], r.at = "offered" => r.does # "open",
         UNCHANGED kind,
         VerdictKind => /\ UNCHANGED <<object, heard, overruled, grants>>
                        /\ r.at \in {"granting", "decided"} \/ r.reply = "ok" => d \in heard
  PROVE  ActionsInv'
<1>1. RequestTypes' /\ act'[d] = r /\ \A e \in Devices : e # d => act'[e] = act[e]
  BY RequestGoesOn DEF ActionsInv
<1>2. ASSUME VerdictKind PROVE DoneIsHeard' /\ HeardOnce' /\ overruled' = {}
  <2>1. HeardOnce'
    BY <1>2 DEF ActionsInv, HeardOnce
  <2>2. DoneIsHeard'
    BY <1>1, <1>2 DEF ActionsInv, DoneIsHeard
  <2> QED
    BY <1>2, <2>1, <2>2 DEF ActionsInv
<1> QED
  BY <1>1, <1>2 DEF ActionsInv, VerdictKind

\* The steps that leave the object and the devices alone.
LEMMA RowStepsKeepInv ==
  ASSUME ActionsInv, UNCHANGED <<kind, act>>,
         VerdictKind => UNCHANGED <<object, heard, overruled, grants>>
  PROVE  ActionsInv'
BY DEF ActionsInv, RequestTypes, VerdictKind, DoneIsHeard, HeardOnce

LEMMA RequestFields ==
  ASSUME NEW r \in Requests
  PROVE  r = [at |-> r.at, does |-> r.does, reply |-> r.reply]
BY DEF Requests

LEMMA BeginKeepsInv ==
  ASSUME ActionsInv, NEW d \in Devices, NEW does \in {"yes", "no", "open"},
         Decide!Begin(d, does)
  PROVE  ActionsInv'
<1>1. PICK r \in Requests :
        /\ act' = [act EXCEPT ![d] = r]
        /\ r.at = "offered" => r.does # "open"
        /\ r.at \in {"told", "offered"} /\ r.reply # "ok"
  <2>1. \E at \in {"told", "offered"}, reply \in {"-", "stale", "error", "nav"} :
          /\ act' = [act EXCEPT ![d] = [at |-> at, does |-> does, reply |-> reply]]
          /\ at = "offered" => does # "open"
    <3>1. CASE d \notin Phones
      BY <3>1 DEF Decide!Begin
    <3>2. CASE d \in Phones /\ row.state = "pruned"
      BY <3>2 DEF Decide!Begin
    <3>3. CASE d \in Phones /\ row.state # "pruned" /\ ~Decide!Offered(does)
      BY <3>3 DEF Decide!Begin
    <3>4. CASE d \in Phones /\ row.state # "pruned" /\ Decide!Offered(does) /\ does = "open"
      BY <3>4 DEF Decide!Begin
    <3>5. CASE d \in Phones /\ row.state # "pruned" /\ Decide!Offered(does) /\ does # "open"
      BY <3>5 DEF Decide!Begin
    <3> QED
      BY <3>1, <3>2, <3>3, <3>4, <3>5
  <2>2. PICK at \in {"told", "offered"}, reply \in {"-", "stale", "error", "nav"} :
          /\ act' = [act EXCEPT ![d] = [at |-> at, does |-> does, reply |-> reply]]
          /\ at = "offered" => does # "open"
    BY <2>1
  <2>3. [at |-> at, does |-> does, reply |-> reply] \in Requests
    BY DEF Requests
  <2> QED
    BY <2>2, <2>3
<1>2. UNCHANGED <<kind, object, heard, overruled, grants>>
  BY DEF Decide!Begin
<1> QED
  BY <1>1, <1>2, NothingDecided

\* The device's request is over, or its verdict has been written: only the place
\* and the reply change.
Moves(d, at, reply) == act' = [act EXCEPT ![d].at = at, ![d].reply = reply]
LEMMA RequestMoves ==
  ASSUME ActionsInv, NEW d \in Devices,
         NEW at \in {"read", "granting", "decided", "told"}, NEW reply \in {"-", "ok", "stale", "error"},
         Moves(d, at, reply)
  PROVE  \E r \in Requests :
           /\ act' = [act EXCEPT ![d] = r]
           /\ r.at = at /\ r.reply = reply
<1>1. act \in [Devices -> Requests]
  BY DEF ActionsInv, RequestTypes
<1> DEFINE r == [act[d] EXCEPT !.at = at, !.reply = reply]
<1>2. r \in Requests /\ r.at = at /\ r.reply = reply
  BY <1>1 DEF Requests
<1>3. act' = [act EXCEPT ![d] = r]
  BY <1>1 DEF Moves
<1> QED
  BY <1>2, <1>3

LEMMA PlaceMoves ==
  ASSUME ActionsInv, NEW d \in Devices, NEW at \in {"read", "granting", "decided", "told"},
         act' = [act EXCEPT ![d].at = at]
  PROVE  \E r \in Requests :
           /\ act' = [act EXCEPT ![d] = r]
           /\ r.at = at /\ r.reply = act[d].reply
<1>1. act \in [Devices -> Requests]
  BY DEF ActionsInv, RequestTypes
<1> DEFINE r == [act[d] EXCEPT !.at = at]
<1>2. r \in Requests /\ r.at = at /\ r.reply = act[d].reply
  BY <1>1 DEF Requests
<1>3. [act EXCEPT ![d].at = at] = [act EXCEPT ![d] = r]
  BY <1>1 DEF Requests
<1> QED
  BY <1>2, <1>3

\* The guarded update: whoever comes second finds the object decided.
LEMMA DecideKeepsInv ==
  ASSUME ActionsInv, NEW d \in Devices, Decide!Decide(d)
  PROVE  ActionsInv'
<1>1. CASE ~Decide!Guarded
  <2>1. Moves(d, "told", "stale")
    BY <1>1 DEF Decide!Decide, Decide!Ends, Moves
  <2>2. UNCHANGED <<kind, object, heard, overruled, grants>>
    BY <1>1 DEF Decide!Decide
  <2>3. PICK r \in Requests :
          act' = [act EXCEPT ![d] = r] /\ r.at = "told" /\ r.reply = "stale"
    BY <2>1, RequestMoves
  <2> QED
    BY <2>2, <2>3, NothingDecided
<1>2. CASE Decide!Guarded
  <2>1. VerdictKind /\ UNCHANGED <<kind, grants>> /\ act[d].at = "offered"
    BY DEF Decide!Decide, VerdictKind
  <2>2. object \in {"open", "failed"}
    BY <1>2 DEF Decide!Guarded
  <2>3. heard' = heard \cup {d} /\ overruled' = overruled
    BY <1>2, <2>2 DEF Decide!Decide, Decide!Takes, Decide!Settled
  <2>4. PICK at \in {"granting", "decided"} : act' = [act EXCEPT ![d].at = at]
    BY <1>2 DEF Decide!Decide
  <2>5. PICK r \in Requests : act' = [act EXCEPT ![d] = r] /\ r.at \in {"granting", "decided"}
    BY <2>4, PlaceMoves
  <2>6. RequestTypes' /\ act'[d] = r /\ \A e \in Devices : e # d => act'[e] = act[e]
    BY <2>5, RequestGoesOn DEF ActionsInv
  <2>7. DoneIsHeard'
    BY <2>1, <2>3, <2>6 DEF ActionsInv, DoneIsHeard
  <2>8. object' \notin {"open", "failed"}
    <3>1. act[d].does \in {"yes", "no"}
      BY <2>1 DEF ActionsInv, RequestTypes, Requests
    <3> QED
      BY <1>2, <3>1 DEF Decide!Decide
  <2>9. IsFiniteSet(heard') /\ Cardinality(heard') <= 1 + grants
    <3>1. IsFiniteSet(heard) /\ grants \in Nat
      BY <2>1 DEF ActionsInv, HeardOnce
    <3>2. Cardinality(heard) <= grants
      BY <2>1, <2>2, <3>1, FS_EmptySet DEF ActionsInv, HeardOnce
    <3>3. IsFiniteSet(heard') /\ Cardinality(heard') \in {Cardinality(heard), Cardinality(heard) + 1}
      BY <2>3, <3>1, FS_AddElement
    <3>4. Cardinality(heard) \in Nat
      BY <3>1, FS_CardinalityType
    <3> QED
      BY <3>1, <3>2, <3>3, <3>4
  <2>10. HeardOnce'
    BY <2>1, <2>8, <2>9 DEF ActionsInv, HeardOnce
  <2> QED
    BY <2>1, <2>3, <2>6, <2>7, <2>10 DEF ActionsInv
<1> QED
  BY <1>1, <1>2

\* A grant that fails opens the object once more, and is counted.
LEMMA GrantKeepsInv ==
  ASSUME ActionsInv, NEW d \in Devices, Decide!Grant(d)
  PROVE  ActionsInv'
<1>1. PICK r \in Requests : act' = [act EXCEPT ![d] = r] /\ r.at = "decided"
  BY PlaceMoves DEF Decide!Grant
<1>2. RequestTypes' /\ act'[d] = r /\ \A e \in Devices : e # d => act'[e] = act[e]
  BY <1>1, RequestGoesOn DEF ActionsInv
<1>3. UNCHANGED <<kind, heard, overruled>> /\ act[d].at = "granting"
  BY DEF Decide!Grant
<1>4. ASSUME VerdictKind PROVE DoneIsHeard' /\ HeardOnce'
  <2>1. DoneIsHeard'
    BY <1>2, <1>3, <1>4 DEF ActionsInv, DoneIsHeard
  <2>2. HeardOnce /\ IsFiniteSet(heard) /\ grants \in Nat
    BY <1>4 DEF ActionsInv, HeardOnce
  <2>3. Cardinality(heard) \in Nat
    BY <2>2, FS_CardinalityType
  <2>4. CASE object' = (IF object = "approved" THEN "yes" ELSE object) /\ UNCHANGED grants
    BY <1>3, <2>1, <2>2, <2>4 DEF HeardOnce
  <2>5. CASE /\ grants' = grants + 1
             /\ object' = IF object = "approved" THEN "failed" ELSE object
    <3>1. Cardinality(heard) <= 1 + grants /\ heard' = heard
      BY <1>3, <2>2 DEF HeardOnce
    <3>2. object' = "open" => heard' = {}
      BY <2>2, <2>5, <3>1 DEF HeardOnce
    <3> QED
      BY <2>1, <2>2, <2>3, <2>5, <3>1, <3>2 DEF HeardOnce
  <2> QED
    BY <2>1, <2>4, <2>5 DEF Decide!Grant
<1> QED
  BY <1>2, <1>3, <1>4 DEF ActionsInv, VerdictKind

\* Goals and permission requests are not decided by one guarded update.
LEMMA OtherKindsKeepInv ==
  ASSUME ActionsInv, NEW d \in Devices,
         \/ Decide!ReadGoal(d) \/ (kind = "completion" /\ Decide!WriteGoal(d))
         \/ Decide!Answer(d) \/ Decide!TakeMark(d)
  PROVE  ActionsInv'
<1>1. ~VerdictKind /\ UNCHANGED kind
  BY DEF Decide!ReadGoal, Decide!WriteGoal, Decide!Answer, Decide!TakeMark, VerdictKind
<1>2. \/ \E at \in {"read", "granting", "decided", "told"} : act' = [act EXCEPT ![d].at = at]
      \/ \E at \in {"read", "granting", "decided", "told"}, reply \in {"-", "ok", "stale", "error"} :
           Moves(d, at, reply)
  <2>1. CASE Decide!ReadGoal(d) \/ (kind = "completion" /\ Decide!WriteGoal(d))
    BY <2>1 DEF Decide!ReadGoal, Decide!WriteGoal, Decide!Ends, Moves
  <2>2. CASE Decide!Answer(d)
    BY <2>2 DEF Decide!Answer, Moves
  <2>3. CASE Decide!TakeMark(d)
    BY <2>3 DEF Decide!TakeMark, Decide!Ends, Moves
  <2> QED
    BY <2>1, <2>2, <2>3
<1>3. PICK r \in Requests : act' = [act EXCEPT ![d] = r] /\ r.at # "offered"
  BY <1>2, RequestMoves, PlaceMoves
<1> QED
  BY <1>1, <1>3, NothingDecided

LEMMA ReplyKeepsInv ==
  ASSUME ActionsInv, NEW d \in Devices, Decide!Reply(d)
  PROVE  ActionsInv'
<1>1. Moves(d, "told", "ok") /\ act[d].at = "decided"
  BY DEF Decide!Reply, Decide!Ends, Moves
<1>2. PICK r \in Requests : act' = [act EXCEPT ![d] = r] /\ r.at = "told"
  BY <1>1, RequestMoves
<1>3. UNCHANGED <<kind, object, heard, overruled, grants>>
  BY DEF Decide!Reply
<1>4. VerdictKind => d \in heard
  BY <1>1 DEF ActionsInv, DoneIsHeard
<1> QED
  BY <1>2, <1>3, <1>4, NothingDecided

LEMMA NextActionsInv == ActionsInv /\ [Decide!ActionNext]_actionsVars => ActionsInv'
<1> SUFFICES ASSUME ActionsInv, [Decide!ActionNext]_actionsVars PROVE ActionsInv'
  OBVIOUS
<1>1. ASSUME NEW d \in Devices, Decide!DeviceStep(d) PROVE ActionsInv'
  BY <1>1, BeginKeepsInv, DecideKeepsInv, GrantKeepsInv, OtherKindsKeepInv, ReplyKeepsInv
     DEF Decide!DeviceStep, Decide!Verdicts
<1>2. CASE Decide!Receive
  BY <1>2, RowStepsKeepInv DEF Decide!Receive, VerdictKind
<1>3. CASE \/ Decide!ResolveByResource \/ Decide!DropEvent
           \/ Decide!SetRead \/ Decide!Dismiss \/ Decide!Prune
  BY <1>3, RowStepsKeepInv
     DEF Decide!ResolveByResource, Decide!DropEvent, Decide!SetRead, Decide!Dismiss, Decide!Prune
<1>4. CASE UNCHANGED actionsVars
  BY <1>4, RowStepsKeepInv DEF actionsVars
<1> QED
  BY <1>1, <1>2, <1>3, <1>4 DEF Decide!ActionNext

LEMMA ActionsInvMeans == ActionsInv => Decide!OneVerdictEach
BY SameCardinality DEF ActionsInv, VerdictKind, DoneIsHeard, HeardOnce, Decide!OneVerdictEach

-----------------------------------------------------------------------------
(* The relay: whoever enrols holds the lock from the check to the file, so *)
(* nobody else knows a tenant meanwhile, and what is known ever after is   *)
(* the tenant on file (OneIsOnFile).                                       *)

PushFields == {"at", "tenant", "note", "attempt", "ids", "verdicts"}
RequestFieldNames == {"at", "tenant", "of", "token"}
Callers == {"worker", "request"}
TenantOf(c) == IF c = "worker" THEN pushing.tenant ELSE request.tenant

CallerTypes ==
  /\ pushing = [f \in PushFields |-> pushing[f]]
  /\ request = [f \in RequestFieldNames |-> request[f]]
  /\ tenants \in Nat

OneIsOnFile ==
  /\ memory \in {0, file}
  /\ \A t \in used : t = file /\ t # 0
  /\ \A c \in Callers :
       /\ Push!At(c) = "call" => TenantOf(c) = file /\ file # 0
       /\ Push!At(c) \in {"enroll", "save"} => holder = c /\ file = 0
       /\ Push!At(c) = "save" => TenantOf(c) # 0

\* What buzzed a phone is a push whose key the relay remembers.
BuzzedIsAnswered ==
  /\ buzzes \in [PhoneIds -> [1..MaxPushes -> {0, 1}]]
  /\ \A d \in PhoneIds : \A n \in 1..MaxPushes : buzzes[d][n] = 1 => <<n, 1>> \in answered

TenantInv == CallerTypes /\ OneIsOnFile
PushInv == TenantInv /\ BuzzedIsAnswered

LEMMA IdleCallers ==
  /\ Push!NoPush = [f \in PushFields |-> Push!NoPush[f]] /\ Push!NoPush.at = "idle"
  /\ Push!NoRequest = [f \in RequestFieldNames |-> Push!NoRequest[f]]
  /\ Push!NoRequest.at = "idle"
<1> DEFINE phone == CHOOSE d \in PhoneIds : TRUE
<1>1. Push!NoRequest = [at |-> "idle", tenant |-> 0, of |-> phone, token |-> 0]
  BY DEF Push!NoRequest
<1> HIDE DEF phone
<1>2. /\ Push!NoRequest = [f \in RequestFieldNames |-> Push!NoRequest[f]]
      /\ Push!NoRequest.at = "idle"
  BY <1>1 DEF RequestFieldNames
<1> QED
  BY <1>2 DEF Push!NoPush, PushFields

LEMMA InitPushInv == Push!RelayInit => PushInv
<1> SUFFICES ASSUME Push!RelayInit PROVE PushInv
  OBVIOUS
<1>1. pushing = Push!NoPush /\ request = Push!NoRequest /\ tenants = 0
  BY DEF Push!RelayInit
<1>2. memory = 0 /\ file = 0 /\ used = {}
  BY DEF Push!RelayInit
<1>3. CallerTypes
  BY <1>1, IdleCallers DEF CallerTypes
<1>4. \A c \in Callers : Push!At(c) = "idle"
  BY <1>1, IdleCallers DEF Push!At, Callers
<1>5. OneIsOnFile
  BY <1>2, <1>4 DEF OneIsOnFile
<1>6. buzzes = [d \in PhoneIds |-> [n \in 1..MaxPushes |-> 0]]
  BY DEF Push!RelayInit
<1>7. BuzzedIsAnswered
  BY <1>6 DEF BuzzedIsAnswered
<1> QED
  BY <1>3, <1>5, <1>7 DEF PushInv, TenantInv

\* Where a caller goes: the other one stays.
LEMMA CallerMoves ==
  ASSUME CallerTypes, NEW c \in Callers, NEW at, NEW tenant, Push!Move(c, at, tenant),
         tenants' \in Nat
  PROVE  /\ CallerTypes'
         /\ Push!At(c)' = at /\ TenantOf(c)' = tenant
         /\ \A o \in Callers : o # c => UNCHANGED <<Push!At(o), TenantOf(o)>>
<1>1. CASE c = "worker"
  <2>1. pushing' = [pushing EXCEPT !.at = at, !.tenant = tenant] /\ UNCHANGED request
    BY <1>1 DEF Push!Move
  <2>2. /\ pushing' = [f \in PushFields |-> pushing'[f]]
        /\ pushing'.at = at /\ pushing'.tenant = tenant
    BY <2>1 DEF CallerTypes, PushFields
  <2> QED
    BY <1>1, <2>1, <2>2 DEF CallerTypes, Push!At, TenantOf, Callers
<1>2. CASE c = "request"
  <2>1. request' = [request EXCEPT !.at = at, !.tenant = tenant] /\ UNCHANGED pushing
    BY <1>2 DEF Push!Move
  <2>2. /\ request' = [f \in RequestFieldNames |-> request'[f]]
        /\ request'.at = at /\ request'.tenant = tenant
    BY <2>1 DEF CallerTypes, RequestFieldNames
  <2> QED
    BY <1>2, <2>1, <2>2 DEF CallerTypes, Push!At, TenantOf, Callers
<1> QED
  BY <1>1, <1>2 DEF Callers

LEMMA CallerGivesUp ==
  ASSUME CallerTypes, NEW c \in Callers, Push!GiveUp(c), UNCHANGED tenants
  PROVE  /\ CallerTypes'
         /\ Push!At(c)' = "idle"
         /\ \A o \in Callers : o # c => UNCHANGED <<Push!At(o), TenantOf(o)>>
BY IdleCallers DEF CallerTypes, Push!GiveUp, Push!At, TenantOf, Callers

\* The steps of credential() and of whoever enrols.
LEMMA CredentialKeepsInv ==
  ASSUME TenantInv, NEW c \in Callers, Push!Credential(c)
  PROVE  TenantInv'
<1>0. CallerTypes /\ OneIsOnFile /\ UNCHANGED used
  BY DEF TenantInv, Push!Credential, Push!Known, Push!Unknown, Push!Unreadable, Push!Enroll,
         Push!EnrollFails, Push!Save, Push!SaveFails, Push!relaySide, Push!enrollment
<1>1. CASE Push!Known(c)
  <2>1. /\ Push!Move(c, "call", memory') /\ UNCHANGED <<file, holder, tenants>>
        /\ memory' = file /\ file # 0
    BY <1>0, <1>1 DEF Push!Known, OneIsOnFile
  <2>2. /\ CallerTypes' /\ Push!At(c)' = "call" /\ TenantOf(c)' = file
        /\ \A o \in Callers : o # c => UNCHANGED <<Push!At(o), TenantOf(o)>>
    BY <1>0, <2>1, CallerMoves DEF CallerTypes
  <2> QED
    BY <1>0, <2>1, <2>2 DEF TenantInv, OneIsOnFile
<1>2. CASE Push!Unknown(c)
  <2>1. /\ Push!Move(c, "enroll", 0) /\ UNCHANGED <<file, memory, tenants>>
        /\ holder = "nobody" /\ holder' = c /\ file = 0
    BY <1>2 DEF Push!Unknown, Push!Free, Push!MayEnroll
  <2>2. /\ CallerTypes' /\ Push!At(c)' = "enroll"
        /\ \A o \in Callers : o # c => UNCHANGED <<Push!At(o), TenantOf(o)>>
    BY <1>0, <2>1, CallerMoves DEF CallerTypes
  <2>3. \A o \in Callers : Push!At(o) \notin {"enroll", "save"}
    BY <1>0, <2>1 DEF OneIsOnFile, Callers
  <2> QED
    BY <1>0, <2>1, <2>2, <2>3 DEF TenantInv, OneIsOnFile
<1>3. CASE Push!Unreadable(c)
  <2>1. Push!GiveUp(c) /\ UNCHANGED <<file, memory, tenants, holder>>
    BY <1>3 DEF Push!Unreadable, Push!enrollment
  <2>2. /\ CallerTypes' /\ Push!At(c)' = "idle"
        /\ \A o \in Callers : o # c => UNCHANGED <<Push!At(o), TenantOf(o)>>
    BY <1>0, <2>1, CallerGivesUp
  <2> QED
    BY <1>0, <2>1, <2>2 DEF TenantInv, OneIsOnFile
<1>4. CASE Push!Enroll(c)
  <2>1. /\ Push!Move(c, "save", tenants + 1) /\ UNCHANGED <<file, memory, holder>>
        /\ Push!At(c) = "enroll" /\ tenants' = tenants + 1
    BY <1>4 DEF Push!Enroll
  <2>2. tenants' \in Nat /\ tenants + 1 # 0
    BY <1>0, <2>1 DEF CallerTypes
  <2>3. /\ CallerTypes' /\ Push!At(c)' = "save" /\ TenantOf(c)' = tenants + 1
        /\ \A o \in Callers : o # c => UNCHANGED <<Push!At(o), TenantOf(o)>>
    BY <1>0, <2>1, <2>2, CallerMoves
  <2> QED
    BY <1>0, <2>1, <2>2, <2>3 DEF TenantInv, OneIsOnFile
<1>5. CASE Push!EnrollFails(c) \/ Push!SaveFails(c)
  <2>1. /\ Push!GiveUp(c) /\ UNCHANGED <<memory, tenants>>
        /\ Push!At(c) \in {"enroll", "save"} /\ (file' = file \/ file' = 0)
    BY <1>5 DEF Push!EnrollFails, Push!SaveFails
  <2>2. file' = file /\ holder = c /\ \A o \in Callers : Push!At(o) \in {"enroll", "save"} => o = c
    BY <1>0, <2>1 DEF OneIsOnFile
  <2>3. /\ CallerTypes' /\ Push!At(c)' = "idle"
        /\ \A o \in Callers : o # c => UNCHANGED <<Push!At(o), TenantOf(o)>>
    BY <1>0, <2>1, CallerGivesUp
  <2> QED
    BY <1>0, <2>1, <2>2, <2>3 DEF TenantInv, OneIsOnFile
<1>6. CASE Push!Save(c)
  <2>1. /\ Push!At(c) = "save" /\ UNCHANGED tenants
        /\ file' = TenantOf(c) /\ memory' = TenantOf(c) /\ Push!Move(c, "call", TenantOf(c))
    BY <1>6 DEF Push!Save, TenantOf
  <2>2. /\ holder = c /\ file = 0 /\ TenantOf(c) # 0 /\ used = {}
        /\ \A o \in Callers : o # c => Push!At(o) \notin {"enroll", "save", "call"}
    BY <1>0, <2>1 DEF OneIsOnFile
  <2>3. /\ CallerTypes' /\ Push!At(c)' = "call" /\ TenantOf(c)' = TenantOf(c)
        /\ \A o \in Callers : o # c => UNCHANGED <<Push!At(o), TenantOf(o)>>
    BY <1>0, <2>1, CallerMoves DEF CallerTypes
  <2> QED
    BY <1>0, <2>1, <2>2, <2>3 DEF TenantInv, OneIsOnFile
<1> QED
  BY <1>1, <1>2, <1>3, <1>4, <1>5, <1>6 DEF Push!Credential

\* The other steps: a caller that goes on from a call goes where no tenant is used,
\* and what it used is the tenant on file.
LEMMA CallsKeepInv ==
  ASSUME TenantInv, UNCHANGED <<file, memory, tenants, holder>>,
         \A t \in used' : t \in used \/ \E c \in Callers : Push!At(c) = "call" /\ t = TenantOf(c),
         pushing' = [f \in PushFields |-> pushing'[f]],
         request' = [f \in RequestFieldNames |-> request'[f]],
         \A c \in Callers : \/ UNCHANGED <<Push!At(c), TenantOf(c)>>
                            \/ Push!At(c)' \notin {"enroll", "save", "call"}
  PROVE  TenantInv'
<1>1. CallerTypes'
  BY DEF TenantInv, CallerTypes
<1>2. OneIsOnFile'
  BY DEF TenantInv, OneIsOnFile
<1> QED
  BY <1>1, <1>2 DEF TenantInv

LEMMA PushStepsKeepTenant ==
  ASSUME TenantInv, Push!Push \/ Push!ReplyLost \/ Push!PushLost \/ Push!Refused
  PROVE  TenantInv'
<1>0. UNCHANGED <<file, memory, tenants, holder, request>> /\ pushing.at = "call"
  BY DEF Push!Push, Push!ReplyLost, Push!PushLost, Push!Refused, Push!Arrive, Push!enrollment
<1>1. used' = used \cup {pushing.tenant} \/ used' = used
  BY DEF Push!Push, Push!ReplyLost, Push!PushLost, Push!Refused, Push!Arrive, Push!relaySide
<1>2. /\ pushing' = [f \in PushFields |-> pushing'[f]]
      /\ pushing'.at \in {"apply", "idle"} \/ (pushing'.at = "call" /\ pushing'.tenant = pushing.tenant)
  <2>1. CASE Push!Push
    <3>1. pushing' = [pushing EXCEPT !.at = "apply",
                        !.verdicts = {<<d, Push!VerdictOn(d)>> : d \in pushing.ids}]
      BY <2>1 DEF Push!Push
    <3>2. PICK says : pushing' = [pushing EXCEPT !.at = "apply", !.verdicts = says]
      BY <3>1
    <3> QED
      BY <3>2 DEF TenantInv, CallerTypes, PushFields
  <2>2. CASE Push!ReplyLost \/ Push!PushLost \/ Push!Refused
    <3>1. pushing' = [pushing EXCEPT !.attempt = 2] \/ pushing' = Push!NoPush
      BY <2>2 DEF Push!ReplyLost, Push!PushLost, Push!Refused
    <3>2. CASE pushing' = [pushing EXCEPT !.attempt = 2]
      BY <1>0, <3>2 DEF TenantInv, CallerTypes, PushFields
    <3>3. CASE pushing' = Push!NoPush
      BY <3>3, IdleCallers
    <3> QED
      BY <3>1, <3>2, <3>3
  <2> QED
    BY <2>1, <2>2
<1>3. \A c \in Callers : \/ UNCHANGED <<Push!At(c), TenantOf(c)>>
                         \/ Push!At(c)' \notin {"enroll", "save", "call"}
  BY <1>0, <1>2 DEF Push!At, TenantOf
<1>4. \A t \in used' : t \in used \/ \E c \in Callers : Push!At(c) = "call" /\ t = TenantOf(c)
  BY <1>0, <1>1 DEF Push!At, TenantOf, Callers
<1>5. request' = [f \in RequestFieldNames |-> request'[f]]
  BY <1>0 DEF TenantInv, CallerTypes
<1> QED
  BY <1>0, <1>2, <1>3, <1>4, <1>5, CallsKeepInv

LEMMA ApplyAndSendKeepTenant ==
  ASSUME TenantInv,
         Push!Send \/ \E d \in PhoneIds, v \in Push!Verdicts : Push!Apply(d, v)
  PROVE  TenantInv'
<1>0. UNCHANGED <<file, memory, tenants, holder, request, used>>
  BY DEF Push!Send, Push!Apply, Push!enrollment, Push!relaySide
<1>1. /\ pushing' = [f \in PushFields |-> pushing'[f]]
      /\ pushing'.at \notin {"enroll", "save", "call"}
  <2>1. CASE Push!Send
    <3>1. PICK note, ids : pushing' = [Push!NoPush EXCEPT !.at = "credential", !.note = note, !.ids = ids]
      BY <2>1 DEF Push!Send
    <3> QED
      BY <3>1, IdleCallers DEF PushFields
  <2>2. ASSUME NEW d \in PhoneIds, NEW v \in Push!Verdicts, Push!Apply(d, v)
        PROVE  /\ pushing' = [f \in PushFields |-> pushing'[f]]
               /\ pushing'.at \notin {"enroll", "save", "call"}
    <3>1. /\ pushing.at = "apply"
          /\ \/ pushing' = Push!NoPush
             \/ pushing' = [pushing EXCEPT !.verdicts = @ \ {<<d, v>>}]
      BY <2>2 DEF Push!Apply
    <3>2. CASE pushing' = Push!NoPush
      BY <3>2, IdleCallers
    <3>3. CASE pushing' = [pushing EXCEPT !.verdicts = @ \ {<<d, v>>}]
      BY <3>1, <3>3 DEF TenantInv, CallerTypes, PushFields
    <3> QED
      BY <3>1, <3>2, <3>3
  <2> QED
    BY <2>1, <2>2
<1>2. \A c \in Callers : \/ UNCHANGED <<Push!At(c), TenantOf(c)>>
                         \/ Push!At(c)' \notin {"enroll", "save", "call"}
  BY <1>0, <1>1 DEF Push!At, TenantOf
<1>3. request' = [f \in RequestFieldNames |-> request'[f]]
  BY <1>0 DEF TenantInv, CallerTypes
<1> QED
  BY <1>0, <1>1, <1>2, <1>3, CallsKeepInv

LEMMA RequestsKeepTenant ==
  ASSUME TenantInv,
         \/ Push!Mirror
         \/ \E d \in PhoneIds : \/ Push!Remove(d) \/ Push!Mute(d)
                                \/ \E t \in Push!Tokens : Push!Register(d, t)
  PROVE  TenantInv'
<1>0. UNCHANGED <<file, memory, tenants, holder, pushing>>
  BY DEF Push!Mirror, Push!Remove, Push!Mute, Push!Register, Push!enrollment
<1>1. \/ UNCHANGED used
      \/ request.at = "call" /\ used' = used \cup {request.tenant}
  BY DEF Push!Mirror, Push!Remove, Push!Mute, Push!Register, Push!relaySide
<1>2. /\ request' = [f \in RequestFieldNames |-> request'[f]]
      /\ request' = request \/ request'.at \in {"idle", "credential"}
  <2>1. \/ request' = Push!NoRequest \/ request' = request
        \/ \E d \in PhoneIds, t \in Push!Tokens \cup {0} :
             request' = [at |-> "credential", tenant |-> 0, of |-> d, token |-> t]
    BY DEF Push!Mirror, Push!Remove, Push!Mute, Push!Register
  <2>2. CASE request' = Push!NoRequest
    BY <2>2, IdleCallers
  <2>3. CASE request' = request
    BY <2>3 DEF TenantInv, CallerTypes
  <2>4. CASE \E d \in PhoneIds, t \in Push!Tokens \cup {0} :
               request' = [at |-> "credential", tenant |-> 0, of |-> d, token |-> t]
    BY <2>4 DEF RequestFieldNames
  <2> QED
    BY <2>1, <2>2, <2>3, <2>4
<1>3. \A c \in Callers : \/ UNCHANGED <<Push!At(c), TenantOf(c)>>
                         \/ Push!At(c)' \notin {"enroll", "save", "call"}
  BY <1>0, <1>2 DEF Push!At, TenantOf
<1>4. \A t \in used' : t \in used \/ \E c \in Callers : Push!At(c) = "call" /\ t = TenantOf(c)
  BY <1>1 DEF Push!At, TenantOf, Callers
<1>5. pushing' = [f \in PushFields |-> pushing'[f]]
  BY <1>0 DEF TenantInv, CallerTypes
<1> QED
  BY <1>0, <1>2, <1>3, <1>4, <1>5, CallsKeepInv

\* The daemon comes back with nobody under way and nothing in memory.
LEMMA RestartKeepsTenant ==
  ASSUME TenantInv, Push!Restart
  PROVE  TenantInv'
<1>1. /\ memory' = 0 /\ pushing' = Push!NoPush /\ request' = Push!NoRequest
      /\ UNCHANGED <<file, tenants, used>>
  BY DEF Push!Restart, Push!relaySide
<1>2. CallerTypes'
  BY <1>1, IdleCallers DEF TenantInv, CallerTypes
<1>3. \A c \in Callers : Push!At(c)' = "idle"
  BY <1>1, IdleCallers DEF Push!At
<1>4. OneIsOnFile'
  BY <1>1, <1>3 DEF TenantInv, OneIsOnFile
<1> QED
  BY <1>2, <1>4 DEF TenantInv

\* Neither the provider nor the file system reaches the callers.
LEMMA RestKeepsTenant ==
  ASSUME TenantInv, UNCHANGED <<file, memory, holder, tenants, used, pushing, request>>
  PROVE  TenantInv'
<1>1. CallerTypes'
  BY DEF TenantInv, CallerTypes
<1>2. \A c \in Callers : UNCHANGED <<Push!At(c), TenantOf(c)>>
  BY DEF Push!At, TenantOf
<1> QED
  BY <1>1, <1>2 DEF TenantInv, OneIsOnFile

LEMMA NextTenantInv == TenantInv /\ [Push!RelayNext]_pushVars => TenantInv'
<1> SUFFICES ASSUME TenantInv, [Push!RelayNext]_pushVars PROVE TenantInv'
  OBVIOUS
<1>1. CASE Push!FileTrouble \/ \E t \in Push!Tokens : Push!Retire(t)
  BY <1>1, RestKeepsTenant DEF Push!FileTrouble, Push!Retire, Push!enrollment, Push!relaySide
<1>2. CASE Push!Send \/ \E d \in PhoneIds, v \in Push!Verdicts : Push!Apply(d, v)
  BY <1>2, ApplyAndSendKeepTenant
<1>3. CASE Push!Push \/ Push!ReplyLost \/ Push!PushLost \/ Push!Refused
  BY <1>3, PushStepsKeepTenant
<1>4. CASE Push!Mirror
  BY <1>4, RequestsKeepTenant
<1>5. ASSUME NEW d \in PhoneIds,
             Push!Remove(d) \/ Push!Mute(d) \/ \E t \in Push!Tokens : Push!Register(d, t)
      PROVE  TenantInv'
  BY <1>5, RequestsKeepTenant
<1>6. ASSUME NEW c \in {"worker", "request"}, Push!Credential(c) PROVE TenantInv'
  BY <1>6, CredentialKeepsInv DEF Callers
<1>7. CASE Push!Restart
  BY <1>7, RestartKeepsTenant
<1>8. CASE UNCHANGED pushVars
  BY <1>8, RestKeepsTenant DEF pushVars
<1> QED
  BY <1>1, <1>2, <1>3, <1>4, <1>5, <1>6, <1>7, <1>8 DEF Push!RelayNext

-----------------------------------------------------------------------------
\* A key the relay has answered buzzes nobody, and every attempt has the same key.
LEMMA ArriveKeepsBuzzes ==
  ASSUME BuzzedIsAnswered, Push!Arrive
  PROVE  BuzzedIsAnswered'
<1> DEFINE key == <<pushing.note, 1>>
<1>1. answered' = answered \cup {key}
  BY DEF Push!Arrive, Push!KeyOf
<1>2. PICK reached \in SUBSET PhoneIds :
        /\ buzzes' = [d \in PhoneIds |-> IF d \in reached
                        THEN [buzzes[d] EXCEPT ![pushing.note] = @ + 1] ELSE buzzes[d]]
        /\ reached # {} => key \notin answered
  <2> DEFINE says == {<<d, Push!VerdictOn(d)>> : d \in pushing.ids}
  <2> DEFINE all == {d \in PhoneIds : key \notin answered /\ <<d, "accepted">> \in says}
  <2>1. buzzes' = [d \in PhoneIds |-> IF key \notin answered /\ <<d, "accepted">> \in says
                     THEN [buzzes[d] EXCEPT ![pushing.note] = @ + 1] ELSE buzzes[d]]
    BY DEF Push!Arrive, Push!KeyOf
  <2> HIDE DEF says
  <2>2. buzzes' = [d \in PhoneIds |-> IF d \in all
                     THEN [buzzes[d] EXCEPT ![pushing.note] = @ + 1] ELSE buzzes[d]]
    BY <2>1
  <2>3. all \in SUBSET PhoneIds /\ (all # {} => key \notin answered)
    OBVIOUS
  <2> QED
    BY <2>2, <2>3
<1>3. ASSUME NEW d \in PhoneIds
      PROVE  /\ buzzes'[d] \in [1..MaxPushes -> {0, 1}]
             /\ \A n \in 1..MaxPushes : buzzes'[d][n] = 1 => <<n, 1>> \in answered'
  <2>1. buzzes[d] \in [1..MaxPushes -> {0, 1}]
    BY DEF BuzzedIsAnswered
  <2>2. CASE d \notin reached
    BY <1>1, <1>2, <2>1, <2>2 DEF BuzzedIsAnswered
  <2>3. CASE d \in reached /\ pushing.note \notin 1..MaxPushes
    <3>1. buzzes'[d] = buzzes[d]
      BY <1>2, <2>1, <2>3
    <3> QED
      BY <1>1, <2>1, <3>1 DEF BuzzedIsAnswered
  <2>4. CASE d \in reached /\ pushing.note \in 1..MaxPushes
    <3>1. buzzes[d][pushing.note] = 0
      BY <1>2, <2>1, <2>4 DEF BuzzedIsAnswered
    <3>2. buzzes'[d] = [buzzes[d] EXCEPT ![pushing.note] = 1]
      BY <1>2, <2>4, <3>1
    <3> QED
      BY <1>1, <2>1, <2>4, <3>2 DEF BuzzedIsAnswered
  <2> QED
    BY <2>2, <2>3, <2>4
<1>4. buzzes' = [d \in PhoneIds |-> buzzes'[d]]
  BY <1>2
<1>5. buzzes' \in [PhoneIds -> [1..MaxPushes -> {0, 1}]]
  BY <1>3, <1>4
<1> QED
  BY <1>3, <1>5 DEF BuzzedIsAnswered

LEMMA NextBuzzesInv == BuzzedIsAnswered /\ [Push!RelayNext]_pushVars => BuzzedIsAnswered'
<1> SUFFICES ASSUME BuzzedIsAnswered, [Push!RelayNext]_pushVars PROVE BuzzedIsAnswered'
  OBVIOUS
<1>1. CASE Push!Push \/ Push!ReplyLost
  BY <1>1, ArriveKeepsBuzzes DEF Push!Push, Push!ReplyLost
<1>2. CASE UNCHANGED <<buzzes, answered>>
  BY <1>2 DEF BuzzedIsAnswered
<1>3. ASSUME NEW c \in {"worker", "request"}, Push!Credential(c)
      PROVE  UNCHANGED <<buzzes, answered>>
  BY <1>3 DEF Push!Credential, Push!Known, Push!Unknown, Push!Unreadable, Push!Enroll,
              Push!EnrollFails, Push!Save, Push!SaveFails, Push!relaySide
<1>4. ASSUME NEW d \in PhoneIds,
             \/ Push!Remove(d) \/ Push!Mute(d) \/ (\E t \in Push!Tokens : Push!Register(d, t))
             \/ \E v \in Push!Verdicts : Push!Apply(d, v)
      PROVE  UNCHANGED <<buzzes, answered>>
  BY <1>4 DEF Push!Remove, Push!Mute, Push!Register, Push!Apply, Push!relaySide
<1>5. CASE \/ Push!FileTrouble \/ Push!Send \/ Push!Mirror \/ Push!PushLost \/ Push!Refused
           \/ Push!Restart \/ \E t \in Push!Tokens : Push!Retire(t)
  BY <1>2, <1>5
     DEF Push!FileTrouble, Push!Send, Push!Mirror, Push!PushLost, Push!Refused, Push!Restart,
         Push!Retire, Push!relaySide
<1>6. CASE UNCHANGED pushVars
  BY <1>2, <1>6 DEF pushVars
<1> QED
  BY <1>1, <1>2, <1>3, <1>4, <1>5, <1>6 DEF Push!RelayNext

LEMMA PushInvMeans == PushInv => Push!OneBuzz /\ Push!OneTenant
<1> SUFFICES ASSUME PushInv PROVE Push!OneBuzz /\ Push!OneTenant
  OBVIOUS
<1>1. Push!OneTenant
  BY DEF PushInv, TenantInv, OneIsOnFile, Push!OneTenant
<1>2. ASSUME NEW d \in PhoneIds, NEW n \in 1..MaxPushes PROVE buzzes[d][n] <= 1
  <2>1. buzzes[d] \in [1..MaxPushes -> {0, 1}]
    BY DEF PushInv, BuzzedIsAnswered
  <2>2. buzzes[d][n] \in {0, 1}
    BY <2>1
  <2> QED
    BY <2>2
<1> QED
  BY <1>1, <1>2 DEF Push!OneBuzz

-----------------------------------------------------------------------------
(* Types. What each part's own invariant says of the shape of its records  *)
(* carries its type invariant.                                             *)

LEMMA AppendFits ==
  ASSUME NEW S, NEW q \in Seq(S), NEW e \in S, NEW n \in Nat, Len(q) < n
  PROVE  Append(q, e) \in Seq(S) /\ Len(Append(q, e)) <= n
<1>1. Append(q, e) \in Seq(S) /\ Len(Append(q, e)) = Len(q) + 1
  OBVIOUS
<1>2. Len(q) \in Nat
  BY LenProperties
<1> QED
  BY <1>1, <1>2

\* Receiving takes the first and moves the others up.
LEMMA DropFirst ==
  ASSUME NEW S, NEW q \in Seq(S), q # <<>>, NEW n \in Nat, Len(q) <= n
  PROVE  LET r == [i \in 1..(Len(q) - 1) |-> q[i + 1]] IN r \in Seq(S) /\ Len(r) <= n
<1> DEFINE r == [i \in 1..(Len(q) - 1) |-> q[i + 1]]
<1>1. Len(q) \in Nat \ {0} /\ q \in [1..Len(q) -> S]
  BY LenProperties, EmptySeq
<1>2. PICK k \in Nat : Len(q) = k + 1
  <2> DEFINE m == Len(q)
  <2>1. m \in Nat \ {0}
    BY <1>1
  <2> HIDE DEF m
  <2>2. m - 1 \in Nat /\ m = (m - 1) + 1
    BY <2>1
  <2> QED
    BY <2>2 DEF m
<1>3. r \in [1..k -> S]
  BY <1>1, <1>2
<1>4. r \in Seq(S)
  BY <1>2, <1>3, SeqDef
<1>5. Len(r) = k
  <2>1. Len(r) \in Nat /\ DOMAIN r = 1..Len(r)
    BY <1>4, LenProperties
  <2>2. DOMAIN r = 1..k
    BY <1>3
  <2>3. \A m \in Nat : 1..m = 1..k => m = k
    <3> SUFFICES ASSUME NEW m \in Nat, 1..m = 1..k, m # k PROVE FALSE
      OBVIOUS
    <3>1. CASE m < k
      <4>1. k \in 1..k /\ k \notin 1..m
        BY <3>1
      <4> QED
        BY <4>1
    <3>2. CASE k < m
      <4>1. m \in 1..m /\ m \notin 1..k
        BY <3>2
      <4> QED
        BY <4>1
    <3> QED
      BY <3>1, <3>2
  <2> QED
    BY <2>1, <2>2, <2>3
<1> HIDE DEF r
<1>6. Len(r) <= n
  BY <1>1, <1>2, <1>5
<1> USE DEF r
<1> QED
  BY <1>4, <1>6

WorkerType ==
  [at: {"idle", "took", "create", "deliver"}, kind: {"ask", "resolve"},
   of: Asks, left: SUBSET Channels, sends: SUBSET Channels]

LEMMA WaitingTyped == Engine!Waiting \in WorkerType /\ Engine!Waiting.at = "idle"
<1> DEFINE someone == CHOOSE a \in Asks : TRUE
<1>1. someone \in Asks
  BY AsksAssumption
<1>2. Engine!Waiting = [at |-> "idle", kind |-> "ask", of |-> someone, left |-> {}, sends |-> {}]
  BY DEF Engine!Waiting
<1> HIDE DEF someone
<1> QED
  BY <1>1, <1>2 DEF WorkerType

QueueTyped(q) == q \in Seq(Engine!Event) /\ Len(q) <= QueueDepth

LEMMA InitNoteTyped == Engine!NoteInit => Engine!NoteTypeOK
<1> SUFFICES ASSUME Engine!NoteInit PROVE Engine!NoteTypeOK
  OBVIOUS
<1>1. QueueTyped(queue)
  BY AsksAssumption DEF Engine!NoteInit, QueueTyped
<1> QED
  BY <1>1, WaitingTyped, AsksAssumption
     DEF Engine!NoteInit, Engine!NoteTypeOK, WorkerType, QueueTyped

\* What the queue is after a publish and after a take.
LEMMA QueueStaysTyped ==
  ASSUME QueueTyped(queue),
         \/ \E ev \in Engine!Event : Len(queue) < QueueDepth /\ queue' = Append(queue, ev)
         \/ Engine!Take \/ queue' = <<>> \/ UNCHANGED queue
  PROVE  QueueTyped(queue')
<1>1. ASSUME NEW ev \in Engine!Event, Len(queue) < QueueDepth, queue' = Append(queue, ev)
      PROVE  QueueTyped(queue')
  BY <1>1, AppendFits, AsksAssumption DEF QueueTyped
<1>2. CASE Engine!Take
  <2>1. queue # <<>> /\ Len(queue) \in Nat
    BY <1>2, LenProperties DEF Engine!Take, QueueTyped
  <2>2. queue' = [i \in 1..(Len(queue) - 1) |-> queue[i + 1]]
    BY <1>2, <2>1 DEF Engine!Take, Engine!Taken
  <2> QED
    BY <2>1, <2>2, DropFirst, AsksAssumption DEF QueueTyped
<1>3. CASE queue' = <<>>
  BY <1>3, AsksAssumption DEF QueueTyped
<1>4. CASE UNCHANGED queue
  BY <1>4 DEF QueueTyped
<1> QED
  BY <1>1, <1>2, <1>3, <1>4

LEMMA NextNoteTyped ==
  ASSUME Engine!NoteTypeOK, EngineInv', [Engine!NoteNext]_engineVars
  PROVE  Engine!NoteTypeOK'
<1> DEFINE Rest == /\ asks \subseteq Asks /\ asked \in 0..MaxAsks
                   /\ owed \subseteq Engine!Event
                   /\ deliveries \in [Channels -> {"none", "pending", "accepted", "failed"}]
                   /\ said \in [Asks -> {"nothing", "ask", "resolve", "lost"}]
                   /\ panics \in 0..MaxPanics
<1>0. Rest /\ QueueTyped(queue) /\ worker \in WorkerType
  BY DEF Engine!NoteTypeOK, QueueTyped, WorkerType
<1>r. rows' \in [Asks -> 0..MaxAsks]
  <2>1. {0, 1} \subseteq 0..MaxAsks
    BY AsksAssumption
  <2> QED
    BY <2>1 DEF EngineInv
<1>s. SUFFICES Rest' /\ QueueTyped(queue') /\ (worker \in WorkerType)'
  BY <1>r DEF Engine!NoteTypeOK, QueueTyped, WorkerType
<1>1. ASSUME NEW a \in Asks, Engine!Open(a) \/ Engine!Settle(a) \/ Engine!PublishAgain(a) \/ Engine!Dismiss(a)
      PROVE  Rest' /\ QueueTyped(queue') /\ (worker \in WorkerType)'
  <2>1. QueueTyped(queue')
    BY <1>0, <1>1, QueueStaysTyped
       DEF Engine!Open, Engine!Settle, Engine!PublishAgain, Engine!Dismiss, Engine!Event
  <2> QED
    BY <1>0, <1>1, <2>1, AsksAssumption
       DEF Engine!Open, Engine!Settle, Engine!PublishAgain, Engine!Dismiss, Engine!Event
<1>2. ASSUME NEW ev \in owed, Engine!Publish(ev)
      PROVE  Rest' /\ QueueTyped(queue') /\ (worker \in WorkerType)'
  <2>1. QueueTyped(queue')
    BY <1>0, <1>2, QueueStaysTyped DEF Engine!Publish
  <2> QED
    BY <1>0, <1>2, <2>1 DEF Engine!Publish, Engine!Event
<1>3. CASE Engine!Take
  <2>1. QueueTyped(queue')
    BY <1>0, <1>3, QueueStaysTyped
  <2>2. queue[1] \in Engine!Event
    BY <1>0, <1>3, ElementOfSeq, EmptySeq DEF QueueTyped, Engine!Take
  <2>3. worker' = [Engine!Waiting EXCEPT !.at = "took", !.kind = queue[1].kind, !.of = queue[1].of]
    BY <1>3 DEF Engine!Take, Engine!Taken
  <2>4. worker' \in WorkerType
    BY <2>2, <2>3, WaitingTyped DEF WorkerType, Engine!Event
  <2> QED
    BY <1>0, <1>3, <2>1, <2>4 DEF Engine!Take
<1>4. CASE Engine!Resolve \/ Engine!Dedupe \/ Engine!Create \/ Engine!Delivered
  <2>1. UNCHANGED <<asks, asked, owed, queue, deliveries, panics>>
    BY <1>4 DEF Engine!Resolve, Engine!Dedupe, Engine!Create, Engine!Delivered
  <2>2. said' \in [Asks -> {"nothing", "ask", "resolve", "lost"}]
    BY <1>0, <1>4 DEF Engine!Resolve, Engine!Dedupe, Engine!Create, Engine!Delivered, Engine!Forget
  <2>3. worker' \in WorkerType
    <3>1. \/ worker' = Engine!Waiting \/ worker' = [worker EXCEPT !.at = "create"]
          \/ \E on \in SUBSET Channels : worker' = [worker EXCEPT !.at = "deliver", !.left = on]
      BY <1>4 DEF Engine!Resolve, Engine!Dedupe, Engine!Create, Engine!Delivered
    <3> QED
      BY <1>0, <3>1, WaitingTyped DEF WorkerType
  <2> QED
    BY <1>0, <2>1, <2>2, <2>3, QueueStaysTyped
<1>5. ASSUME NEW c \in Channels, Engine!Attempt(c) \/ Engine!Outcome(c)
      PROVE  Rest' /\ QueueTyped(queue') /\ (worker \in WorkerType)'
  <2>1. UNCHANGED <<asks, asked, owed, queue, said, panics>>
    BY <1>5 DEF Engine!Attempt, Engine!Outcome
  <2>2. deliveries' \in [Channels -> {"none", "pending", "accepted", "failed"}]
    BY <1>0, <1>5 DEF Engine!Attempt, Engine!Outcome
  <2>3. worker' \in WorkerType
    <3>1. \/ worker' = [worker EXCEPT !.sends = {c}]
          \/ worker' = [worker EXCEPT !.left = @ \ {c}]
          \/ worker' = [worker EXCEPT !.left = @ \ {c}, !.sends = {}]
      BY <1>5 DEF Engine!Attempt, Engine!Outcome
    <3>2. /\ worker.left \in SUBSET Channels /\ worker.sends \in SUBSET Channels
          /\ {c} \in SUBSET Channels /\ worker.left \ {c} \in SUBSET Channels
          /\ {} \in SUBSET Channels
      BY <1>0 DEF WorkerType
    <3>3. CASE worker' = [worker EXCEPT !.sends = {c}]
      BY <1>0, <3>2, <3>3 DEF WorkerType
    <3>4. CASE worker' = [worker EXCEPT !.left = @ \ {c}]
      BY <1>0, <3>2, <3>4 DEF WorkerType
    <3>5. CASE worker' = [worker EXCEPT !.left = @ \ {c}, !.sends = {}]
      BY <1>0, <3>2, <3>5 DEF WorkerType
    <3> QED
      BY <3>1, <3>3, <3>4, <3>5
  <2> QED
    BY <1>0, <2>1, <2>2, <2>3, QueueStaysTyped
<1>6. CASE Engine!Panic \/ Engine!Restart
  <2>1. QueueTyped(queue')
    BY <1>0, <1>6, QueueStaysTyped DEF Engine!Panic, Engine!Restart
  <2>2. worker' \in WorkerType
    BY <1>6, WaitingTyped DEF Engine!Panic, Engine!AfterPanic, Engine!Restart
  <2>3. said' \in [Asks -> {"nothing", "ask", "resolve", "lost"}]
    BY <1>0, <1>6 DEF Engine!Panic, Engine!Restart, Engine!Forget
  <2> QED
    BY <1>0, <1>6, <2>1, <2>2, <2>3, AsksAssumption DEF Engine!Panic, Engine!Restart
<1>7. CASE UNCHANGED engineVars
  <2>1. QueueTyped(queue')
    BY <1>0, <1>7, QueueStaysTyped DEF engineVars
  <2> QED
    BY <1>0, <1>7, <2>1 DEF engineVars
<1> QED
  BY <1>1, <1>2, <1>3, <1>4, <1>5, <1>6, <1>7 DEF Engine!NoteNext, Engine!WorkerStep

\* What an answer, a row or a verdict of the notification's object may be.
LEMMA InitActionTyped == Decide!ActionInit => Decide!ActionTypeOK
<1> SUFFICES ASSUME Decide!ActionInit PROVE Decide!ActionTypeOK
  OBVIOUS
<1>1. mark \in BOOLEAN
  BY DEF Decide!ActionInit
<1>2. act \in [Devices -> [at: {"idle", "offered", "read", "granting", "decided", "told"},
                          does: Decide!Verdicts \cup {"open"},
                          reply: {"-", "ok", "stale", "error", "nav"}]]
  BY DEF Decide!ActionInit, Decide!Verdicts
<1>3. 0 \in 0..MaxGrants
  BY GrantsAssumption
<1> QED
  BY <1>1, <1>2, <1>3 DEF Decide!ActionInit, Decide!ActionTypeOK

\* No step of a device gives the object, the buffer or the row a value of another type.
LEMMA NextActionTyped ==
  ASSUME Decide!ActionTypeOK, ActionsInv, ActionsInv', [Decide!ActionNext]_actionsVars
  PROVE  Decide!ActionTypeOK'
<1> DEFINE Objects == {"open", "approved", "failed", "yes", "no"}
<1> DEFINE Notices == [state: {"open", "resolved", "pruned"}, read: BOOLEAN]
<1> DEFINE Slots == {"yes", "no", "-"}
<1>0. /\ kind \in Kinds /\ object \in Objects /\ slot \in Slots /\ mark \in BOOLEAN
      /\ row \in Notices /\ event \in BOOLEAN /\ grants \in 0..MaxGrants
      /\ heard \subseteq Devices /\ overruled \subseteq Devices /\ stands \in Devices \cup {NoOne}
  BY DEF Decide!ActionTypeOK, Decide!Verdicts, Decide!Settled
<1>a. act \in [Devices -> Requests] /\ act' \in [Devices -> Requests]
  BY DEF ActionsInv, RequestTypes
<1>s. SUFFICES /\ kind' \in Kinds /\ object' \in Objects /\ slot' \in Slots /\ mark' \in BOOLEAN
               /\ row' \in Notices /\ event' \in BOOLEAN /\ grants' \in 0..MaxGrants
               /\ heard' \subseteq Devices /\ overruled' \subseteq Devices
               /\ stands' \in Devices \cup {NoOne}
  BY <1>a DEF Decide!ActionTypeOK, Decide!Verdicts, Decide!Settled, Requests
<1>1. ASSUME NEW d \in Devices, \/ \E does \in {"yes", "no", "open"} : Decide!Begin(d, does)
                                \/ Decide!TakeMark(d)
      PROVE  UNCHANGED <<kind, object, slot, row, event, heard, stands, overruled, grants>> /\ mark' \in BOOLEAN
  BY <1>0, <1>1 DEF Decide!Begin, Decide!TakeMark
<1>2. ASSUME NEW d \in Devices, Decide!Takes(d)
      PROVE  /\ heard' \subseteq Devices /\ overruled' \subseteq Devices
             /\ stands' \in Devices \cup {NoOne}
  BY <1>0, <1>2 DEF Decide!Takes
<1>3. ASSUME NEW d \in Devices, Decide!Decide(d)
      PROVE  /\ UNCHANGED <<kind, slot, mark, row, grants>>
             /\ object' \in Objects /\ event' \in BOOLEAN
             /\ heard' \subseteq Devices /\ overruled' \subseteq Devices
             /\ stands' \in Devices \cup {NoOne}
  <2>1. act[d].does \in {"yes", "no", "open"}
    BY <1>a DEF Requests
  <2>2. CASE Decide!Guarded
    BY <1>2, <1>3, <2>1, <2>2 DEF Decide!Decide
  <2>3. CASE ~Decide!Guarded
    BY <1>0, <1>3, <2>3 DEF Decide!Decide
  <2> QED
    BY <2>2, <2>3
<1>4. ASSUME NEW d \in Devices, Decide!Grant(d)
      PROVE  /\ UNCHANGED <<kind, slot, mark, row, event, heard, stands, overruled>>
             /\ object' \in Objects /\ grants' \in 0..MaxGrants
  BY <1>0, <1>4, GrantsAssumption DEF Decide!Grant
<1>5. ASSUME NEW d \in Devices, Decide!ReadGoal(d) \/ Decide!WriteGoal(d)
      PROVE  /\ UNCHANGED <<kind, slot, mark, row, grants>>
             /\ object' \in Objects /\ event' \in BOOLEAN
             /\ heard' \subseteq Devices /\ overruled' \subseteq Devices
             /\ stands' \in Devices \cup {NoOne}
  <2>1. act[d].does \in {"yes", "no", "open"}
    BY <1>a DEF Requests
  <2>2. CASE Decide!ReadGoal(d)
    BY <1>0, <2>2 DEF Decide!ReadGoal
  <2>3. CASE Decide!WriteGoal(d)
    BY <1>2, <2>1, <2>3 DEF Decide!WriteGoal
  <2> QED
    BY <1>5, <2>2, <2>3
<1>6. ASSUME NEW d \in Devices, Decide!Answer(d)
      PROVE  /\ UNCHANGED <<kind, object, mark, row, event, overruled, grants>>
             /\ slot' \in Slots /\ heard' \subseteq Devices /\ stands' \in Devices \cup {NoOne}
  <2>1. act[d].does \in {"yes", "no"}
    BY <1>a, <1>6 DEF Requests, ActionsInv, RequestTypes, Decide!Answer
  <2> QED
    BY <1>0, <1>6, <2>1 DEF Decide!Answer
<1>7. ASSUME \/ \E d \in Devices : Decide!Reply(d)
             \/ Decide!ResolveByResource \/ Decide!DropEvent
             \/ Decide!SetRead \/ Decide!Dismiss \/ Decide!Prune
      PROVE  /\ UNCHANGED <<kind, object, slot, mark, heard, stands, overruled, grants>>
             /\ row' \in Notices /\ event' \in BOOLEAN
  <2>1. /\ UNCHANGED <<kind, object, slot, mark, heard, stands, overruled, grants>>
        /\ event' = event \/ event' = FALSE
    BY <1>7 DEF Decide!Reply, Decide!ResolveByResource, Decide!DropEvent,
                Decide!SetRead, Decide!Dismiss, Decide!Prune
  <2>2. \/ row' = row \/ row' = [row EXCEPT !.state = "resolved"]
        \/ row' = [row EXCEPT !.read = ~@] \/ row' = [state |-> "pruned", read |-> FALSE]
    <3>1. Decide!Resolved => row' = row \/ row' = [row EXCEPT !.state = "resolved"]
      BY DEF Decide!Resolved
    <3>2. CASE \E d \in Devices : Decide!Reply(d)
      BY <3>1, <3>2 DEF Decide!Reply
    <3>3. CASE Decide!ResolveByResource \/ Decide!DropEvent
      BY <3>1, <3>3 DEF Decide!ResolveByResource, Decide!DropEvent
    <3>4. CASE Decide!SetRead \/ Decide!Dismiss \/ Decide!Prune
      BY <3>4 DEF Decide!SetRead, Decide!Dismiss, Decide!Prune
    <3> QED
      BY <1>7, <3>2, <3>3, <3>4
  <2>3. row' \in Notices
    <3>1. CASE row' = row \/ row' = [row EXCEPT !.state = "resolved"]
      BY <1>0, <3>1
    <3>2. CASE row' = [row EXCEPT !.read = ~@]
      <4>1. PICK b \in BOOLEAN : row' = [row EXCEPT !.read = b]
        BY <3>2
      <4> QED
        BY <1>0, <4>1
    <3>3. CASE row' = [state |-> "pruned", read |-> FALSE]
      BY <3>3
    <3> QED
      BY <2>2, <3>1, <3>2, <3>3
  <2> QED
    BY <1>0, <2>1, <2>3
<1>8. ASSUME Decide!Receive
      PROVE  /\ UNCHANGED <<kind, slot, mark, row, event, heard, stands, overruled, grants>>
             /\ object' \in Objects
  BY <1>0, <1>8 DEF Decide!Receive
<1> HIDE DEF Objects, Notices, Slots
<1>9. CASE \E d \in Devices : Decide!DeviceStep(d)
  <2>1. PICK d \in Devices : Decide!DeviceStep(d)
    BY <1>9
  <2>2. CASE (\E does \in {"yes", "no", "open"} : Decide!Begin(d, does)) \/ Decide!TakeMark(d)
    BY <1>0, <1>1, <2>2
  <2>3. CASE Decide!Decide(d) \/ Decide!ReadGoal(d) \/ Decide!WriteGoal(d)
    BY <1>0, <1>3, <1>5, <2>3
  <2>4. CASE Decide!Grant(d)
    BY <1>0, <1>4, <2>4
  <2>5. CASE Decide!Answer(d)
    BY <1>0, <1>6, <2>5
  <2>6. CASE Decide!Reply(d)
    BY <1>0, <1>7, <2>6
  <2>7. Decide!Verdicts \cup {"open"} = {"yes", "no", "open"}
    BY DEF Decide!Verdicts
  <2> QED
    BY <2>1, <2>2, <2>3, <2>4, <2>5, <2>6, <2>7 DEF Decide!DeviceStep
<1>10. CASE UNCHANGED actionsVars
  BY <1>0, <1>10 DEF actionsVars
<1> QED
  BY <1>0, <1>7, <1>8, <1>9, <1>10 DEF Decide!ActionNext

\* The types of the relay's callers depend on how many tenants there are.
PushType(n) ==
  [at: {"idle", "credential", "enroll", "save", "call", "apply"}, tenant: 0..n,
   note: 0..MaxPushes, attempt: 1..2, ids: SUBSET PhoneIds,
   verdicts: SUBSET (PhoneIds \X Push!Verdicts)]
RequestType(n) ==
  [at: {"idle", "credential", "enroll", "save", "call"}, tenant: 0..n,
   of: PhoneIds, token: 0..MaxTokens]
RowType == [token: 0..MaxTokens, enabled: BOOLEAN, status: {"active", "invalid"}]
RecordType == [tenant: Nat, token: 0..MaxTokens]
WorkType == [pushes: 0..MaxPushes, requests: 0..MaxRequests, faults: 0..MaxFaults]

\* The two callers, the numbers they hold, and what they share: rows and counters.
CallersTyped ==
  /\ pushing \in PushType(tenants) /\ request \in RequestType(tenants)
  /\ pushing.at # "idle" => pushing.note \in 1..MaxPushes
  /\ file \in 0..tenants /\ memory \in 0..tenants
  /\ holder \in {"nobody", "worker", "request"}
RowsTyped ==
  /\ phones \in [PhoneIds -> RowType] /\ records \in [PhoneIds -> RecordType]
  /\ dead \subseteq Push!Tokens /\ readable \in BOOLEAN
  /\ answered \subseteq Push!Keys /\ work \in WorkType

LEMMA RelayTyped ==
  ASSUME CallersTyped, RowsTyped, PushInv
  PROVE  Push!RelayTypeOK
<1>1. buzzes \in [PhoneIds -> [1..MaxPushes -> 0..2]]
  <2>1. {0, 1} \subseteq 0..2
    OBVIOUS
  <2> QED
    BY <2>1 DEF PushInv, BuzzedIsAnswered
<1>2. used \subseteq 1..tenants
  <2>1. \A t \in used : t = file /\ t # 0
    BY DEF PushInv, TenantInv, OneIsOnFile
  <2>2. tenants \in Nat /\ file \in 0..tenants
    BY DEF PushInv, TenantInv, CallerTypes, CallersTyped
  <2> QED
    BY <2>1, <2>2
<1> QED
  BY <1>1, <1>2
     DEF CallersTyped, RowsTyped, Push!RelayTypeOK, PushType, RequestType, RowType, RecordType, WorkType

LEMMA IdleTyped ==
  ASSUME NEW n \in Nat
  PROVE  /\ Push!NoPush \in PushType(n) /\ Push!NoRequest \in RequestType(n)
         /\ Push!NoPush.at = "idle" /\ Push!NoPush.tenant = 0
<1> DEFINE phone == CHOOSE d \in PhoneIds : TRUE
<1>1. phone \in PhoneIds
  BY PhonesAssumption
<1>2. Push!NoRequest = [at |-> "idle", tenant |-> 0, of |-> phone, token |-> 0]
  BY DEF Push!NoRequest
<1> HIDE DEF phone
<1>3. Push!NoRequest \in RequestType(n)
  BY <1>1, <1>2, PhonesAssumption DEF RequestType
<1> QED
  BY <1>3, PhonesAssumption DEF Push!NoPush, PushType

LEMMA InitRelayTyped == Push!RelayInit => CallersTyped /\ RowsTyped
<1> SUFFICES ASSUME Push!RelayInit PROVE CallersTyped /\ RowsTyped
  OBVIOUS
<1>1. pushing = Push!NoPush /\ request = Push!NoRequest /\ tenants = 0
  BY DEF Push!RelayInit
<1>2. CallersTyped
  BY <1>1, IdleTyped DEF CallersTyped, Push!RelayInit
<1>3. RowsTyped
  BY PhonesAssumption DEF RowsTyped, Push!RelayInit, RowType, RecordType, WorkType
<1> QED
  BY <1>2, <1>3

\* A tenant more changes no type.
LEMMA MoreTenants ==
  ASSUME NEW n \in Nat, NEW m \in Nat, n <= m
  PROVE  /\ 0..n \subseteq 0..m
         /\ PushType(n) \subseteq PushType(m) /\ RequestType(n) \subseteq RequestType(m)
<1>1. 0..n \subseteq 0..m
  OBVIOUS
<1> QED
  BY <1>1 DEF PushType, RequestType

LEMMA FaultTyped ==
  ASSUME work \in WorkType, Push!Fault
  PROVE  work' \in WorkType
<1>1. work.faults \in 0..MaxFaults /\ work.faults < MaxFaults
  BY DEF WorkType, Push!Fault
<1>2. work.faults + 1 \in 0..MaxFaults
  BY <1>1, PhonesAssumption
<1> QED
  BY <1>2 DEF WorkType, Push!Fault

LEMMA RowStepsTyped ==
  ASSUME RowsTyped, CallersTyped, tenants \in Nat,
         \/ \E t \in Push!Tokens : Push!Retire(t)
         \/ Push!FileTrouble \/ Push!Mirror
         \/ \E d \in PhoneIds : \/ Push!Remove(d) \/ Push!Mute(d)
                                \/ \E t \in Push!Tokens : Push!Register(d, t)
  PROVE  RowsTyped' /\ CallersTyped'
<1>0. UNCHANGED <<file, memory, holder, tenants, pushing>>
  BY DEF Push!Retire, Push!FileTrouble, Push!Mirror, Push!Remove, Push!Mute, Push!Register,
         Push!enrollment
<1>c. ASSUME request' \in RequestType(tenants) PROVE CallersTyped'
  BY <1>0, <1>c DEF CallersTyped
<1>w. ASSUME work' = [work EXCEPT !.requests = @ + 1], work.requests < MaxRequests
      PROVE  work' \in WorkType
  <2>1. work.requests \in 0..MaxRequests
    BY DEF RowsTyped, WorkType
  <2>2. work.requests + 1 \in 0..MaxRequests
    BY <1>w, <2>1, PhonesAssumption
  <2> QED
    BY <1>w, <2>2 DEF RowsTyped, WorkType
<1>1. ASSUME NEW t \in Push!Tokens, Push!Retire(t) PROVE RowsTyped' /\ CallersTyped'
  BY <1>0, <1>1 DEF Push!Retire, RowsTyped, CallersTyped, Push!relaySide, Push!Tokens
<1>2. CASE Push!FileTrouble
  <2>1. work' \in WorkType
    BY <1>2, FaultTyped DEF Push!FileTrouble, RowsTyped
  <2>2. readable' \in BOOLEAN
    BY <1>2 DEF Push!FileTrouble
  <2> QED
    BY <1>0, <1>2, <2>1, <2>2 DEF Push!FileTrouble, RowsTyped, CallersTyped, Push!relaySide
<1>3. CASE Push!Mirror
  <2>1. records' \in [PhoneIds -> RecordType]
    <3>1. /\ request.token \in 0..MaxTokens /\ request.tenant \in Nat /\ 0 \in 0..MaxTokens
      BY PhonesAssumption DEF CallersTyped, RequestType
    <3>2. PICK r \in RecordType : records' = [records EXCEPT ![request.of] = r] \/ records' = records
      BY <1>3, <3>1 DEF Push!Mirror, RecordType
    <3> QED
      BY <3>2 DEF RowsTyped
  <2>2. CallersTyped'
    BY <1>3, <1>c, IdleTyped DEF Push!Mirror
  <2> QED
    BY <1>3, <2>1, <2>2 DEF Push!Mirror, RowsTyped
<1>4. ASSUME NEW d \in PhoneIds, Push!Mute(d) PROVE RowsTyped' /\ CallersTyped'
  <2>1. PICK b \in BOOLEAN : phones' = [phones EXCEPT ![d].enabled = b]
    BY <1>4 DEF Push!Mute
  <2>2. phones' \in [PhoneIds -> RowType]
    BY <2>1 DEF RowsTyped, RowType
  <2>3. CallersTyped'
    BY <1>4, <1>c DEF Push!Mute, CallersTyped
  <2> QED
    BY <1>4, <1>w, <2>2, <2>3 DEF Push!Mute, RowsTyped, Push!relaySide
<1>5. ASSUME NEW d \in PhoneIds, Push!Remove(d) PROVE RowsTyped' /\ CallersTyped'
  <2>1. 0 \in 0..MaxTokens
    BY PhonesAssumption
  <2>2. phones' \in [PhoneIds -> RowType]
    BY <1>5, <2>1 DEF Push!Remove, RowsTyped, RowType
  <2>3. CallersTyped'
    BY <1>5, <1>c, <2>1 DEF Push!Remove, RequestType
  <2> QED
    BY <1>5, <1>w, <2>2, <2>3 DEF Push!Remove, RowsTyped, Push!relaySide
<1>6. ASSUME NEW d \in PhoneIds, NEW t \in Push!Tokens, Push!Register(d, t)
      PROVE  RowsTyped' /\ CallersTyped'
  <2>1. 0 \in 0..MaxTokens /\ t \in 0..MaxTokens
    BY PhonesAssumption DEF Push!Tokens
  <2>2. phones' \in [PhoneIds -> RowType]
    <3>1. \A e \in PhoneIds : phones'[e] \in RowType
      <4> TAKE e \in PhoneIds
      <4>1. phones[e] \in RowType /\ phones[d] \in RowType
        BY DEF RowsTyped
      <4>2. CASE e = d
        <5>1. PICK b \in BOOLEAN : phones'[e] = [token |-> t, enabled |-> b, status |-> "active"]
          <6>1. (phones[d].token = 0 \/ phones[d].enabled) \in BOOLEAN
            OBVIOUS
          <6> QED
            BY <1>6, <4>2, <6>1 DEF Push!Register, Push!Upserted
        <5> QED
          BY <2>1, <5>1 DEF RowType
      <4>3. CASE e # d
        BY <1>6, <2>1, <4>1, <4>3 DEF Push!Register, Push!Upserted, RowType
      <4> QED
        BY <4>2, <4>3
    <3> QED
      BY <1>6, <3>1 DEF Push!Register, Push!Upserted
  <2>3. CallersTyped'
    BY <1>6, <1>c, <2>1 DEF Push!Register, RequestType
  <2> QED
    BY <1>6, <1>w, <2>2, <2>3 DEF Push!Register, RowsTyped, Push!relaySide
<1> QED
  BY <1>1, <1>2, <1>3, <1>4, <1>5, <1>6

LEMMA PushesTyped ==
  ASSUME RowsTyped, CallersTyped, tenants \in Nat,
         \/ Push!Send \/ Push!Push \/ Push!ReplyLost \/ Push!PushLost \/ Push!Refused
         \/ \E d \in PhoneIds, v \in Push!Verdicts : Push!Apply(d, v)
  PROVE  RowsTyped' /\ CallersTyped'
<1> DEFINE Sent == /\ pushing' \in PushType(tenants)
                   /\ pushing'.at # "idle" => pushing'.note \in 1..MaxPushes
<1>0. UNCHANGED <<file, memory, holder, tenants, request>>
  BY DEF Push!Send, Push!Push, Push!ReplyLost, Push!PushLost, Push!Refused, Push!Apply, Push!Arrive,
         Push!enrollment
<1>c. ASSUME Sent PROVE CallersTyped'
  BY <1>0, <1>c DEF CallersTyped
<1>i. ASSUME pushing' = Push!NoPush PROVE Sent
  BY <1>i, IdleTyped
<1>a. ASSUME Push!Arrive, pushing.at = "call" PROVE answered' \subseteq Push!Keys
  <2>1. pushing.note \in 1..MaxPushes
    BY <1>a DEF CallersTyped
  <2> QED
    BY <1>a, <2>1 DEF Push!Arrive, Push!KeyOf, Push!Keys, RowsTyped
<1>r. ASSUME Push!Arrive PROVE UNCHANGED <<phones, records, dead, readable, work>>
  BY <1>r DEF Push!Arrive
<1>1. CASE Push!Send
  <2>1. work.pushes \in 0..MaxPushes /\ work.pushes < MaxPushes
    BY <1>1 DEF Push!Send, RowsTyped, WorkType
  <2>2. work.pushes + 1 \in 1..MaxPushes /\ 1..MaxPushes \subseteq 0..MaxPushes
    BY <2>1, PhonesAssumption
  <2>3. PICK ids \in SUBSET PhoneIds :
          pushing' = [Push!NoPush EXCEPT !.at = "credential", !.note = work.pushes + 1, !.ids = ids]
    BY <1>1 DEF Push!Send, Push!Reachable
  <2>4. Sent
    BY <2>2, <2>3, IdleTyped DEF PushType
  <2>5. work' \in WorkType
    BY <1>1, <2>2 DEF Push!Send, RowsTyped, WorkType
  <2> QED
    BY <1>1, <1>c, <2>4, <2>5 DEF Push!Send, RowsTyped, Push!relaySide
<1>2. CASE Push!Push
  <2>1. PICK says \in SUBSET (PhoneIds \X Push!Verdicts) :
          pushing' = [pushing EXCEPT !.at = "apply", !.verdicts = says]
    <3> DEFINE says == {<<d, Push!VerdictOn(d)>> : d \in pushing.ids}
    <3>1. pushing.ids \subseteq PhoneIds
      BY DEF CallersTyped, PushType
    <3>2. \A d \in PhoneIds : Push!VerdictOn(d) \in Push!Verdicts
      BY DEF Push!VerdictOn, Push!Verdicts
    <3>3. says \subseteq PhoneIds \X Push!Verdicts
      BY <3>1, <3>2
    <3>4. pushing' = [pushing EXCEPT !.at = "apply", !.verdicts = says]
      BY <1>2 DEF Push!Push
    <3> QED
      BY <3>3, <3>4
  <2>2. Sent
    BY <1>2, <2>1 DEF Push!Push, CallersTyped, PushType
  <2> QED
    BY <1>2, <1>a, <1>c, <1>r, <2>2 DEF Push!Push, RowsTyped
<1>3. CASE Push!ReplyLost \/ Push!PushLost \/ Push!Refused
  <2>1. Sent
    <3>1. CASE pushing' = Push!NoPush
      BY <1>i, <3>1
    <3>2. CASE pushing' = [pushing EXCEPT !.attempt = 2]
      BY <3>2 DEF CallersTyped, PushType
    <3> QED
      BY <1>3, <3>1, <3>2 DEF Push!ReplyLost, Push!PushLost, Push!Refused
  <2>2. answered' \subseteq Push!Keys /\ UNCHANGED <<phones, records, dead, readable, work>>
    BY <1>3, <1>a, <1>r DEF Push!ReplyLost, Push!PushLost, Push!Refused, RowsTyped, Push!relaySide
  <2> QED
    BY <1>c, <2>1, <2>2 DEF RowsTyped
<1>4. ASSUME NEW d \in PhoneIds, NEW v \in Push!Verdicts, Push!Apply(d, v)
      PROVE  RowsTyped' /\ CallersTyped'
  <2>1. Sent
    <3>1. CASE pushing' = Push!NoPush
      BY <1>i, <3>1
    <3>2. CASE pushing' = [pushing EXCEPT !.verdicts = @ \ {<<d, v>>}]
      BY <3>2 DEF CallersTyped, PushType
    <3> QED
      BY <1>4, <3>1, <3>2 DEF Push!Apply
  <2>2. phones' \in [PhoneIds -> RowType]
    BY <1>4 DEF Push!Apply, RowsTyped, RowType
  <2> QED
    BY <1>4, <1>c, <2>1, <2>2 DEF Push!Apply, RowsTyped, Push!relaySide
<1> QED
  BY <1>1, <1>2, <1>3, <1>4

\* Who asks for the credential and who writes it.
LEMMA CredentialTyped ==
  ASSUME RowsTyped, CallersTyped, tenants \in Nat, NEW c \in Callers, Push!Credential(c)
  PROVE  RowsTyped' /\ CallersTyped'
<1>0. UNCHANGED <<phones, records, dead, answered>>
  BY DEF Push!Credential, Push!Known, Push!Unknown, Push!Unreadable, Push!Enroll,
         Push!EnrollFails, Push!Save, Push!SaveFails, Push!relaySide
<1>1. RowsTyped'
  <2>1. readable' \in BOOLEAN
    BY DEF RowsTyped, Push!Credential, Push!Known, Push!Unknown, Push!Unreadable, Push!Enroll,
           Push!EnrollFails, Push!Save, Push!SaveFails
  <2>2. work' \in WorkType
    <3>1. UNCHANGED work \/ Push!Fault
      BY DEF Push!Credential, Push!Known, Push!Unknown, Push!Unreadable, Push!Enroll,
             Push!EnrollFails, Push!Save, Push!SaveFails
    <3> QED
      BY <3>1, FaultTyped DEF RowsTyped
  <2> QED
    BY <1>0, <2>1, <2>2 DEF RowsTyped
\* A caller that moves, or gives up.
<1>2. ASSUME NEW at \in {"call", "enroll", "save"}, NEW n \in 0..tenants', Push!Move(c, at, n),
             tenants' \in Nat, tenants <= tenants', Push!At(c) # "idle"
      PROVE  /\ pushing' \in PushType(tenants') /\ request' \in RequestType(tenants')
             /\ pushing'.at # "idle" => pushing'.note \in 1..MaxPushes
  <2>1. pushing \in PushType(tenants') /\ request \in RequestType(tenants')
    BY <1>2, MoreTenants DEF CallersTyped
  <2> QED
    BY <1>2, <2>1 DEF Push!Move, Push!At, CallersTyped, PushType, RequestType
<1>3. ASSUME Push!GiveUp(c), UNCHANGED tenants
      PROVE  /\ pushing' \in PushType(tenants') /\ request' \in RequestType(tenants')
             /\ pushing'.at # "idle" => pushing'.note \in 1..MaxPushes
  BY <1>3, IdleTyped DEF Push!GiveUp, CallersTyped
<1>4. CASE Push!Known(c)
  BY <1>1, <1>2, <1>4 DEF Push!Known, CallersTyped
<1>5. CASE Push!Unknown(c)
  <2>1. 0 \in 0..tenants
    OBVIOUS
  <2> QED
    BY <1>1, <1>2, <1>5, <2>1 DEF Push!Unknown, CallersTyped, Callers
<1>6. CASE Push!Unreadable(c)
  BY <1>1, <1>3, <1>6 DEF Push!Unreadable, CallersTyped, Push!enrollment
<1>7. CASE Push!Enroll(c)
  <2>1. tenants' = tenants + 1 /\ tenants' \in Nat /\ tenants <= tenants' /\ tenants + 1 \in 0..tenants'
    BY <1>7 DEF Push!Enroll
  <2>2. 0..tenants \subseteq 0..tenants'
    BY <2>1
  <2> QED
    BY <1>1, <1>2, <1>7, <2>1, <2>2 DEF Push!Enroll, CallersTyped
<1>8. CASE Push!EnrollFails(c) \/ Push!SaveFails(c)
  <2>1. 0 \in 0..tenants
    OBVIOUS
  <2> QED
    BY <1>1, <1>3, <1>8, <2>1 DEF Push!EnrollFails, Push!SaveFails, CallersTyped
<1>9. CASE Push!Save(c)
  <2>1. TenantOf(c) \in 0..tenants
    BY DEF TenantOf, CallersTyped, PushType, RequestType
  <2>2. /\ UNCHANGED tenants /\ file' = TenantOf(c) /\ memory' = TenantOf(c)
        /\ Push!Move(c, "call", TenantOf(c)) /\ holder' = "nobody" /\ Push!At(c) # "idle"
    BY <1>9 DEF Push!Save, TenantOf
  <2> QED
    BY <1>1, <1>2, <2>1, <2>2 DEF CallersTyped
<1> QED
  BY <1>4, <1>5, <1>6, <1>7, <1>8, <1>9 DEF Push!Credential

LEMMA NextRelayTyped ==
  ASSUME RowsTyped, CallersTyped, tenants \in Nat, [Push!RelayNext]_pushVars
  PROVE  RowsTyped' /\ CallersTyped'
<1>1. CASE Push!Restart
  <2>1. work' \in WorkType
    BY <1>1, FaultTyped DEF Push!Restart, RowsTyped
  <2>2. RowsTyped'
    BY <1>1, <2>1 DEF Push!Restart, RowsTyped, Push!relaySide
  <2>3. 0 \in 0..tenants
    OBVIOUS
  <2> QED
    BY <1>1, <2>2, <2>3, IdleTyped DEF Push!Restart, CallersTyped
<1>2. CASE UNCHANGED pushVars
  BY <1>2 DEF pushVars, RowsTyped, CallersTyped, Push!Tokens, Push!Keys
<1>3. ASSUME NEW d \in PhoneIds,
             Push!Remove(d) \/ Push!Mute(d) \/ \E t \in Push!Tokens : Push!Register(d, t)
      PROVE  RowsTyped' /\ CallersTyped'
  BY <1>3, RowStepsTyped
<1>4. CASE (\E t \in Push!Tokens : Push!Retire(t)) \/ Push!FileTrouble \/ Push!Mirror
  BY <1>4, RowStepsTyped
<1>5. CASE \/ Push!Send \/ Push!Push \/ Push!ReplyLost \/ Push!PushLost \/ Push!Refused
           \/ \E d \in PhoneIds, v \in Push!Verdicts : Push!Apply(d, v)
  BY <1>5, PushesTyped
<1>6. ASSUME NEW c \in {"worker", "request"}, Push!Credential(c) PROVE RowsTyped' /\ CallersTyped'
  BY <1>6, CredentialTyped DEF Callers
<1> QED
  BY <1>1, <1>2, <1>3, <1>4, <1>5, <1>6 DEF Push!RelayNext

-----------------------------------------------------------------------------
(* The theorems. *)

\* One of each (notify/engine.go:156-330, server/notification_actions.go,
\* notify/relay.go:215-345, 404-442): however often a producer fires and wherever the
\* worker is interrupted there is one notification of a pending decision; however many
\* devices answer one verdict stands, one more for every grant that failed; a push sent
\* twice buzzes a phone once; and every tenant anything was registered under is the one
\* on file, whoever enrols at once and wherever the daemon dies.
THEOREM OneOfEverything == Spec => []OneOfEach
<1>1. Init => EngineInv /\ ActionsInv /\ PushInv
  BY InitEngineInv, InitActionsInv, InitPushInv DEF Init
<1>2. EngineInv /\ [Next]_vars => EngineInv'
  BY StepsOfOne, NextEngineInv
<1>3. ActionsInv /\ [Next]_vars => ActionsInv'
  BY StepsOfOne, NextActionsInv
<1>4. PushInv /\ [Next]_vars => PushInv'
  BY StepsOfOne, NextTenantInv, NextBuzzesInv DEF PushInv
<1>5. EngineInv /\ ActionsInv /\ PushInv => OneOfEach
  <2>1. EngineInv => Engine!OneNotificationPerAsk
    BY DEF EngineInv, Engine!OneNotificationPerAsk
  <2> QED
    BY <2>1, ActionsInvMeans, PushInvMeans DEF OneOfEach
<1> QED
  BY <1>1, <1>2, <1>3, <1>4, <1>5, PTL DEF Spec

\* Types (notify/engine.go:156-330, server/notification_actions.go, notify/relay.go): an
\* event, a row, a request and a push are always of the kind the code declares them, and
\* every bound of the model is kept.
THEOREM TypeCorrect == Spec => []TypeOK
<1> DEFINE Invs == EngineInv /\ ActionsInv /\ PushInv
<1> DEFINE Typed == Engine!NoteTypeOK /\ Decide!ActionTypeOK /\ CallersTyped /\ RowsTyped
<1>1. Init => Invs /\ Typed
  BY InitEngineInv, InitActionsInv, InitPushInv, InitNoteTyped, InitActionTyped, InitRelayTyped
     DEF Init
<1>2. Invs /\ [Next]_vars => Invs'
  BY StepsOfOne, NextEngineInv, NextActionsInv, NextTenantInv, NextBuzzesInv DEF PushInv
<1>3. Invs /\ Typed /\ [Next]_vars => Typed'
  BY <1>2, StepsOfOne, NextNoteTyped, NextActionTyped, NextRelayTyped
     DEF PushInv, TenantInv, CallerTypes
<1>4. Invs /\ Typed => TypeOK
  BY RelayTyped DEF TypeOK
<1> QED
  BY <1>1, <1>2, <1>3, <1>4, PTL DEF Spec
===============================================================================
