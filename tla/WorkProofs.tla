----------------------------- MODULE WorkProofs ------------------------------
(***************************************************************************)
(* Proofs about MCWork, for every value of its constants: that nothing is  *)
(* lost where the daemon dies, and that what was agreed with an agent      *)
(* stands.  Each part has an invariant of its own, proved under the names  *)
(* MCWork instantiates it by; a step of the whole is a step of one part,   *)
(* and the others rest (StepsOfOne).                                       *)
(***************************************************************************)
EXTENDS MCWork, FiniteSetTheorems, TLAPS

\* A step of the whole is a step of one component, and the others rest.
LEMMA StepsOfOne ==
  ASSUME [Next]_vars
  PROVE  /\ [Cron!SchedNext]_schedulesVars
         /\ [Board!TaskNext]_tasksVars
         /\ [Night!DreamNext]_dreamsVars
         /\ [Talk!InterviewNext]_interviewVars
         /\ [Goals!BoardNext]_goalsVars
BY DEF Next, vars, Only

-----------------------------------------------------------------------------
(* Dreams: a session may be in a written memory without being marked only  *)
(* while the dream that wrote it is about to mark it, or because of a      *)
(* mishap (UnmarkedBound); there is one dream at a time (OneDream), so no  *)
(* other can pick the session up in between.                               *)

Memories == [holds : SUBSET Dreamt, wipes : Nat]

DreamStates ==
  [phase : Night!Phases, base : Memories, picked : SUBSET Dreamt,
   row : {"none", "running", "success", "errored"}, wrote : BOOLEAN]

NightTypes ==
  /\ memory \in Memories
  /\ dreams \in [Dreamers -> DreamStates]
  /\ folds \in [Dreamt -> Nat]
  /\ mishaps \in Nat
  /\ marked \subseteq Dreamt

\* The dreaming map holds the agent for the one dream that runs.
OneDream ==
  /\ \A d \in Dreamers : dreams[d].phase # "awake" => dreaming
  /\ \A d, e \in Dreamers : dreams[d].phase # "awake" /\ dreams[e].phase # "awake" => d = e

\* Nobody marks what a dream picked before that dream does.
PickedUnmarked ==
  \A d \in Dreamers : dreams[d].phase \in {"distilling", "checked", "written"} =>
                        dreams[d].picked \intersect marked = {}

WrittenIsFolded ==
  \A d \in Dreamers : dreams[d].phase = "written" => \A s \in dreams[d].picked : folds[s] > 0

AboutToMark(s) == \E d \in Dreamers : dreams[d].phase = "written" /\ s \in dreams[d].picked

UnmarkedBound == \A s \in Dreamt \ marked : folds[s] <= mishaps \/ AboutToMark(s)

FoldInv ==
  /\ NightTypes /\ OneDream /\ PickedUnmarked /\ WrittenIsFolded
  /\ UnmarkedBound /\ Night!MarkedWasRemembered /\ Night!FoldedOnce

-----------------------------------------------------------------------------
LEMMA AwakeTyped ==
  /\ Night!Awake \in DreamStates /\ Night!Awake.phase = "awake"
  /\ \A row \in {"none", "running", "success", "errored"}, wrote \in BOOLEAN :
       /\ [Night!Awake EXCEPT !.row = row, !.wrote = wrote] \in DreamStates
       /\ [Night!Awake EXCEPT !.row = row, !.wrote = wrote].phase = "awake"
  /\ [Night!Awake EXCEPT !.phase = "acquired"] \in DreamStates
  /\ [Night!Awake EXCEPT !.phase = "acquired"].phase = "acquired"
BY DEF Night!Awake, Night!Blank, DreamStates, Memories, Night!Phases

LEMMA InitFoldInv == Night!DreamInit => FoldInv
<1> SUFFICES ASSUME Night!DreamInit PROVE FoldInv
  OBVIOUS
<1>1. NightTypes
  BY AwakeTyped DEF Night!DreamInit, NightTypes, Night!Blank, Memories
<1>2. \A d \in Dreamers : dreams[d].phase = "awake"
  BY AwakeTyped DEF Night!DreamInit
<1>3. marked = {} /\ mishaps = 0 /\ \A s \in Dreamt : folds[s] = 0
  BY DEF Night!DreamInit
<1> QED
  BY <1>1, <1>2, <1>3 DEF FoldInv, OneDream, PickedUnmarked, WrittenIsFolded, UnmarkedBound,
     Night!MarkedWasRemembered, Night!FoldedOnce

\* One dream changes what it is doing, and nothing is written or marked: it may
\* claim the agent, pick unmarked sessions, or end; it stops being about to mark
\* only at the price of a mishap.
LEMMA UnwrittenKeepsInv ==
  ASSUME FoldInv, NEW d \in Dreamers, NEW state \in DreamStates,
         dreams' = [dreams EXCEPT ![d] = state],
         memory' \in Memories, UNCHANGED <<marked, folds>>,
         mishaps' \in Nat, mishaps' >= mishaps,
         dreams[d].phase = "written" => mishaps' = mishaps + 1,
         state.phase # "written",
         state.phase \in {"distilling", "checked"} => state.picked \intersect marked = {},
         \/ dreams[d].phase = "awake" /\ ~dreaming /\ dreaming'
         \/ dreams[d].phase # "awake" /\ dreaming' = dreaming
         \/ dreams[d].phase # "awake" /\ state.phase = "awake"
  PROVE  FoldInv'
<1>0. /\ dreams \in [Dreamers -> DreamStates] /\ folds \in [Dreamt -> Nat] /\ mishaps \in Nat
      /\ dreams'[d] = state /\ \A e \in Dreamers : e # d => dreams'[e] = dreams[e]
  BY DEF FoldInv, NightTypes
<1>1. NightTypes'
  BY <1>0 DEF FoldInv, NightTypes
<1>2. OneDream'
  BY <1>0 DEF FoldInv, OneDream
<1>3. PickedUnmarked' /\ WrittenIsFolded'
  BY <1>0 DEF FoldInv, PickedUnmarked, WrittenIsFolded
<1>4. Night!MarkedWasRemembered' /\ Night!FoldedOnce'
  BY <1>0 DEF FoldInv, Night!MarkedWasRemembered, Night!FoldedOnce
<1>5. UnmarkedBound'
  <2>1. CASE dreams[d].phase = "written"
    BY <1>0, <2>1 DEF FoldInv, UnmarkedBound, Night!FoldedOnce
  <2>2. CASE dreams[d].phase # "written"
    <3>1. \A s \in Dreamt : AboutToMark(s) => AboutToMark(s)'
      BY <1>0, <2>2 DEF AboutToMark
    <3> QED
      BY <1>0, <3>1 DEF FoldInv, UnmarkedBound
  <2> QED
    BY <2>1, <2>2
<1> QED
  BY <1>1, <1>2, <1>3, <1>4, <1>5 DEF FoldInv

LEMMA AcquireKeepsInv ==
  ASSUME FoldInv, NEW d \in Dreamers, Night!Acquire(d)
  PROVE  FoldInv'
<1> DEFINE state == [Night!Awake EXCEPT !.phase = "acquired"]
<1>1. state \in DreamStates /\ state.phase = "acquired"
  BY AwakeTyped
<1>2. /\ dreams' = [dreams EXCEPT ![d] = state] /\ dreams[d].phase = "awake"
      /\ ~dreaming /\ dreaming' /\ UNCHANGED <<memory, marked, folds, mishaps>>
  BY DEF Night!Acquire, Night!Held
<1>3. memory' \in Memories /\ mishaps' \in Nat /\ mishaps' >= mishaps
  BY <1>2 DEF FoldInv, NightTypes
<1>4. dreams[d].phase # "written" /\ state.phase \notin {"written", "distilling", "checked"}
  BY <1>1, <1>2
<1>5. UNCHANGED <<marked, folds>>
  BY <1>2
<1> HIDE DEF state
<1> QED
  BY <1>1, <1>2, <1>3, <1>4, <1>5, UnwrittenKeepsInv

LEMMA GatherKeepsInv ==
  ASSUME FoldInv, NEW d \in Dreamers, Night!Gather(d)
  PROVE  FoldInv'
<1>1. memory \in Memories /\ mishaps \in Nat
  BY DEF FoldInv, NightTypes
<1>2. /\ UNCHANGED <<memory, marked, folds, mishaps>> /\ dreams[d].phase = "acquired"
  BY DEF Night!Gather
<1>3. PICK state \in DreamStates :
        /\ dreams' = [dreams EXCEPT ![d] = state]
        /\ \/ state.phase = "awake"
           \/ state.phase = "distilling" /\ state.picked \intersect marked = {} /\ dreaming' = dreaming
  <2> DEFINE picked == Dreamt \ (marked \cup busy)
             opened == [phase |-> "distilling", base |-> memory, picked |-> picked,
                        row |-> "running", wrote |-> FALSE]
  <2>1. CASE picked = {}
    BY <2>1, AwakeTyped DEF Night!Gather, Night!Release
  <2>2. CASE picked # {}
    <3>1. opened \in DreamStates /\ opened.phase = "distilling" /\ opened.picked \intersect marked = {}
      BY <1>1 DEF DreamStates, Night!Phases
    <3> QED
      BY <2>2, <3>1 DEF Night!Gather
  <2> QED
    BY <2>1, <2>2
<1>4. memory' \in Memories /\ mishaps' \in Nat /\ mishaps' >= mishaps
  BY <1>1, <1>2
<1>5. /\ dreams[d].phase \notin {"awake", "written"} /\ state.phase # "written"
      /\ state.phase \in {"distilling", "checked"} => state.picked \intersect marked = {}
      /\ UNCHANGED <<marked, folds>>
  BY <1>2, <1>3
<1> QED
  BY <1>3, <1>4, <1>5, UnwrittenKeepsInv

\* The model or a statement fails, or the comparison has a result.
LEMMA PhaseKeepsInv ==
  ASSUME FoldInv, NEW d \in Dreamers, Night!ModelFails(d) \/ Night!Compare(d) \/ Night!StoreFails(d)
  PROVE  FoldInv'
<1>0. /\ memory \in Memories /\ mishaps \in Nat /\ dreams \in [Dreamers -> DreamStates]
  BY DEF FoldInv, NightTypes
<1>1. UNCHANGED <<memory, marked, folds, dreaming>> /\ dreams[d].phase # "awake"
  BY DEF Night!ModelFails, Night!Compare, Night!StoreFails
<1>2. /\ mishaps' \in Nat /\ mishaps' >= mishaps
      /\ dreams[d].phase = "written" => mishaps' = mishaps + 1
  BY <1>0 DEF Night!ModelFails, Night!Compare, Night!StoreFails
<1>3. PICK phase \in {"checked", "failed"} :
        /\ dreams' = [dreams EXCEPT ![d].phase = phase]
        /\ phase = "checked" => dreams[d].phase = "distilling"
  BY DEF Night!ModelFails, Night!Compare, Night!StoreFails, Night!Enters
<1> DEFINE state == [dreams[d] EXCEPT !.phase = phase]
<1>4. /\ state \in DreamStates /\ state.phase = phase /\ state.picked = dreams[d].picked
      /\ dreams' = [dreams EXCEPT ![d] = state]
  BY <1>0, <1>3 DEF DreamStates, Night!Phases
<1>5. state.phase \in {"distilling", "checked"} => state.picked \intersect marked = {}
  BY <1>3, <1>4 DEF FoldInv, PickedUnmarked
<1> HIDE DEF state
<1> QED
  BY <1>0, <1>1, <1>2, <1>3, <1>4, <1>5, UnwrittenKeepsInv

LEMMA FinishDreamKeepsInv ==
  ASSUME FoldInv, NEW d \in Dreamers, Night!Finish(d)
  PROVE  FoldInv'
<1>0. /\ memory \in Memories /\ mishaps \in Nat /\ dreams \in [Dreamers -> DreamStates]
  BY DEF FoldInv, NightTypes
<1>1. UNCHANGED <<memory, marked, folds, mishaps>> /\ dreams[d].phase \in {"marked", "failed"}
  BY DEF Night!Finish
<1> DEFINE state == [Night!Awake EXCEPT !.row = IF dreams[d].phase = "marked" THEN "success" ELSE "errored",
                                  !.wrote = dreams[d].wrote]
<1>2. dreams[d].wrote \in BOOLEAN
  BY <1>0 DEF DreamStates
<1>3. state \in DreamStates /\ state.phase = "awake"
  BY <1>2, AwakeTyped
<1>4. dreams' = [dreams EXCEPT ![d] = state]
  BY DEF Night!Finish, Night!Release
<1>5. memory' \in Memories /\ mishaps' \in Nat /\ mishaps' >= mishaps
  BY <1>0, <1>1
<1>6. /\ dreams[d].phase \notin {"awake", "written"}
      /\ state.phase \notin {"written", "distilling", "checked"} /\ UNCHANGED <<marked, folds>>
  BY <1>1, <1>3
<1> HIDE DEF state
<1> QED
  BY <1>3, <1>4, <1>5, <1>6, UnwrittenKeepsInv

\* The memory is written: its sessions were unmarked, and no other dream is
\* about to mark them.
LEMMA WriteKeepsInv ==
  ASSUME FoldInv, NEW d \in Dreamers, Night!WriteMemory(d)
  PROVE  FoldInv'
<1>0. /\ memory \in Memories /\ mishaps \in Nat /\ dreams \in [Dreamers -> DreamStates]
      /\ folds \in [Dreamt -> Nat] /\ marked \subseteq Dreamt
  BY DEF FoldInv, NightTypes
<1>1. /\ dreams[d].phase = "checked" /\ UNCHANGED <<marked, dreaming, mishaps>>
      /\ dreams' = [dreams EXCEPT ![d].phase = "written", ![d].wrote = TRUE]
      /\ folds' = [s \in Dreamt |-> IF s \in dreams[d].picked THEN folds[s] + 1 ELSE folds[s]]
      /\ memory' = [dreams[d].base EXCEPT !.holds = @ \cup dreams[d].picked]
  BY DEF Night!WriteMemory, Night!FirstStep
<1>2. /\ dreams'[d].phase = "written" /\ dreams'[d].picked = dreams[d].picked
      /\ dreams'[d] \in DreamStates
      /\ \A e \in Dreamers : e # d => dreams'[e] = dreams[e]
  BY <1>0, <1>1 DEF DreamStates, Night!Phases
<1>3. NightTypes'
  <2>1. memory' \in Memories
    BY <1>0, <1>1 DEF DreamStates, Memories
  <2>2. dreams' \in [Dreamers -> DreamStates]
    BY <1>0, <1>1, <1>2
  <2>3. folds' \in [Dreamt -> Nat]
    BY <1>0, <1>1
  <2> QED
    BY <1>0, <1>1, <2>1, <2>2, <2>3 DEF NightTypes
<1>4. OneDream'
  BY <1>1, <1>2 DEF FoldInv, OneDream
<1>5. PickedUnmarked'
  BY <1>1, <1>2 DEF FoldInv, PickedUnmarked
<1>6. \A e \in Dreamers : e # d => dreams[e].phase = "awake"
  BY <1>1 DEF FoldInv, OneDream
<1>7. WrittenIsFolded'
  BY <1>0, <1>1, <1>2, <1>6 DEF WrittenIsFolded, DreamStates
<1>8. \A s \in Dreamt : /\ s \in dreams[d].picked => folds'[s] = folds[s] + 1 /\ folds[s] <= mishaps
                        /\ s \notin dreams[d].picked => folds'[s] = folds[s]
  <2>1. \A s \in Dreamt : ~AboutToMark(s)
    BY <1>1, <1>6 DEF AboutToMark
  <2>2. dreams[d].picked \intersect marked = {}
    BY <1>1 DEF FoldInv, PickedUnmarked
  <2> QED
    BY <1>1, <2>1, <2>2 DEF FoldInv, UnmarkedBound
<1>9. Night!FoldedOnce'
  BY <1>0, <1>1, <1>8 DEF FoldInv, Night!FoldedOnce
<1>10. Night!MarkedWasRemembered'
  <2>1. ASSUME NEW s \in marked PROVE folds'[s] > 0
    <3>1. s \in Dreamt /\ folds[s] > 0 /\ folds[s] \in Nat
      BY <1>0, <2>1 DEF FoldInv, NightTypes, Night!MarkedWasRemembered
    <3> QED
      BY <1>8, <3>1
  <2> QED
    BY <1>1, <2>1 DEF Night!MarkedWasRemembered
<1>11. UnmarkedBound'
  <2>1. \A s \in Dreamt : s \in dreams[d].picked => AboutToMark(s)'
    BY <1>2 DEF AboutToMark
  <2>2. \A s \in Dreamt : ~AboutToMark(s)
    BY <1>1, <1>6 DEF AboutToMark
  <2> QED
    BY <1>0, <1>1, <1>8, <2>1, <2>2 DEF FoldInv, UnmarkedBound
<1> QED
  BY <1>3, <1>4, <1>5, <1>7, <1>9, <1>10, <1>11 DEF FoldInv

\* The sessions a dream wrote are marked: they were in its memory.
LEMMA MarkKeepsInv ==
  ASSUME FoldInv, NEW d \in Dreamers, Night!MarkDreamed(d)
  PROVE  FoldInv'
<1>0. /\ memory \in Memories /\ mishaps \in Nat /\ dreams \in [Dreamers -> DreamStates]
      /\ folds \in [Dreamt -> Nat] /\ marked \subseteq Dreamt
  BY DEF FoldInv, NightTypes
<1>1. /\ dreams[d].phase = "written" /\ UNCHANGED <<memory, dreaming, folds, mishaps>>
      /\ dreams' = [dreams EXCEPT ![d].phase = "marked"]
      /\ marked' = marked \cup dreams[d].picked
  BY DEF Night!MarkDreamed, Night!FirstStep, Night!Enters
<1>2. /\ dreams'[d].phase = "marked" /\ dreams'[d] \in DreamStates
      /\ \A e \in Dreamers : e # d => dreams'[e] = dreams[e] /\ dreams[e].phase = "awake"
  BY <1>0, <1>1 DEF DreamStates, Night!Phases, FoldInv, OneDream
<1>3. NightTypes'
  <2>1. dreams[d].picked \subseteq Dreamt
    BY <1>0 DEF DreamStates
  <2>2. dreams' \in [Dreamers -> DreamStates]
    BY <1>0, <1>1, <1>2
  <2> QED
    BY <1>0, <1>1, <2>1, <2>2 DEF NightTypes
<1>4. OneDream' /\ PickedUnmarked' /\ WrittenIsFolded'
  BY <1>1, <1>2 DEF FoldInv, OneDream, PickedUnmarked, WrittenIsFolded
<1>5. Night!MarkedWasRemembered' /\ Night!FoldedOnce'
  BY <1>1 DEF FoldInv, WrittenIsFolded, Night!MarkedWasRemembered, Night!FoldedOnce
<1>6. \A s \in Dreamt \ marked' : ~AboutToMark(s)
  BY <1>1, <1>2 DEF AboutToMark
<1>7. UnmarkedBound'
  BY <1>1, <1>6 DEF FoldInv, UnmarkedBound
<1> QED
  BY <1>3, <1>4, <1>5, <1>7 DEF FoldInv

\* The user, the turns and the daemon's death leave marks and folds alone; a
\* death is a mishap, and after it no dream is about to mark anything.
LEMMA OthersKeepInv ==
  ASSUME FoldInv,
         \/ Night!UserEdits \/ Night!DreamCrash
         \/ \E s \in Dreamt : Night!TurnStarts(s) \/ Night!TurnStops(s)
  PROVE  FoldInv'
<1>0. /\ memory \in Memories /\ mishaps \in Nat /\ dreams \in [Dreamers -> DreamStates]
      /\ folds \in [Dreamt -> Nat] /\ marked \subseteq Dreamt
  BY DEF FoldInv, NightTypes
<1>1. CASE Night!DreamCrash
  <2>1. \A d \in Dreamers : dreams'[d] \in DreamStates /\ dreams'[d].phase = "awake"
    <3> SUFFICES ASSUME NEW d \in Dreamers
                 PROVE  dreams'[d] \in DreamStates /\ dreams'[d].phase = "awake"
      OBVIOUS
    <3> DEFINE row == dreams[d].row
               wrote == dreams[d].wrote
    <3>1. row \in {"none", "running", "success", "errored"} /\ wrote \in BOOLEAN
      BY <1>0 DEF DreamStates
    <3>2. dreams'[d] = [Night!Awake EXCEPT !.row = row, !.wrote = wrote]
      BY <1>1 DEF Night!DreamCrash
    <3> HIDE DEF row, wrote
    <3> QED
      <4>1. dreams'[d] = [phase |-> "awake", base |-> Night!Blank, picked |-> {}, row |-> row, wrote |-> wrote]
        BY <3>2 DEF Night!Awake
      <4>2. Night!Blank \in Memories /\ "awake" \in Night!Phases
        BY DEF Night!Blank, Memories, Night!Phases
      <4> QED
        BY <3>1, <4>1, <4>2 DEF DreamStates
  <2>2. dreams' \in [Dreamers -> DreamStates]
    BY <1>1, <2>1 DEF Night!DreamCrash
  <2>3. UNCHANGED <<memory, marked, folds>> /\ mishaps' = mishaps + 1
    BY <1>1 DEF Night!DreamCrash
  <2>4. NightTypes' /\ OneDream' /\ PickedUnmarked' /\ WrittenIsFolded'
    BY <1>0, <2>1, <2>2, <2>3 DEF NightTypes, OneDream, PickedUnmarked, WrittenIsFolded
  <2>5. UnmarkedBound' /\ Night!MarkedWasRemembered' /\ Night!FoldedOnce'
    BY <1>0, <2>3 DEF FoldInv, UnmarkedBound, Night!MarkedWasRemembered, Night!FoldedOnce
  <2> QED
    BY <2>4, <2>5 DEF FoldInv
<1>2. CASE Night!UserEdits \/ \E s \in Dreamt : Night!TurnStarts(s) \/ Night!TurnStops(s)
  <2>1. /\ UNCHANGED <<marked, dreaming, dreams, folds>>
        /\ mishaps' \in Nat /\ mishaps' >= mishaps
    BY <1>0, <1>2 DEF Night!UserEdits, Night!TurnStarts, Night!TurnStops
  <2>2. memory' \in Memories
    BY <1>0, <1>2 DEF Night!UserEdits, Night!TurnStarts, Night!TurnStops, Memories
  <2>3. \A s \in Dreamt : AboutToMark(s) => AboutToMark(s)'
    BY <2>1 DEF AboutToMark
  <2>4. NightTypes' /\ OneDream' /\ PickedUnmarked' /\ WrittenIsFolded'
    BY <1>0, <2>1, <2>2 DEF FoldInv, NightTypes, OneDream, PickedUnmarked, WrittenIsFolded
  <2>5. UnmarkedBound' /\ Night!MarkedWasRemembered' /\ Night!FoldedOnce'
    BY <1>0, <2>1, <2>3 DEF FoldInv, UnmarkedBound, Night!MarkedWasRemembered, Night!FoldedOnce
  <2> QED
    BY <2>4, <2>5 DEF FoldInv
<1> QED
  BY <1>1, <1>2

LEMMA NextFoldInv == FoldInv /\ [Night!DreamNext]_dreamsVars => FoldInv'
<1> SUFFICES ASSUME FoldInv, [Night!DreamNext]_dreamsVars PROVE FoldInv'
  OBVIOUS
<1>1. CASE Night!DreamNext
  BY <1>1, AcquireKeepsInv, GatherKeepsInv, PhaseKeepsInv, FinishDreamKeepsInv, WriteKeepsInv,
     MarkKeepsInv, OthersKeepInv DEF Night!DreamNext, Night!DreamProgress
<1>2. CASE UNCHANGED dreamsVars
  BY <1>2 DEF dreamsVars, FoldInv, NightTypes, OneDream, PickedUnmarked, WrittenIsFolded, UnmarkedBound,
     AboutToMark, Night!MarkedWasRemembered, Night!FoldedOnce
<1> QED
  BY <1>1, <1>2

-----------------------------------------------------------------------------
(* Interviews: one question is open at a time as long as the record is     *)
(* there (OneOpen), and what beginQuestion checked still holds when the    *)
(* answer arrives (AskedFits), although the lock was free in between; a    *)
(* draft in rendering keeps the topics it was allowed for                  *)
(* (RenderedIsCovered), because topics are only ever added.                *)

IsOpen(c) == call[c].at \in {"begun", "waiting"}

Records ==
  [there : BOOLEAN, status : Talk!Statuses, answered : Nat, covered : SUBSET Topics,
   draft : BOOLEAN, pending : BOOLEAN, retries : Nat]

ToolCalls == [at : {"idle", "begun", "waiting", "rendering"}, topic : Topics \cup {Talk!Idle.topic}]

TalkTypes == record \in Records /\ call \in [Calls -> ToolCalls]

OneOpen ==
  /\ \A c \in Calls : IsOpen(c) => record.pending
  /\ \A c, d \in Calls : IsOpen(c) /\ IsOpen(d) => c = d

AskedFits ==
  \A c \in Calls : IsOpen(c) =>
    /\ record.answered < MaxQuestions /\ call[c].topic \in Topics
    /\ record.answered < Cardinality(Topics) => call[c].topic \notin record.covered

RenderedIsCovered == \A c \in Calls : call[c].at = "rendering" => record.covered = Topics

AnswersFit ==
  /\ record.answered <= MaxQuestions
  /\ record.answered <= Cardinality(Topics) => Cardinality(record.covered) = record.answered
  /\ record.draft => record.covered = Topics

\* Nothing is claimed once the session was deleted: its record never returns.
TalkInv ==
  TalkTypes /\ (record.there => OneOpen /\ AskedFits /\ RenderedIsCovered /\ AnswersFit)

-----------------------------------------------------------------------------
\* FiniteSets reaches Interview through its own EXTENDS.
LEMMA TalkCardinality == ASSUME NEW S PROVE Talk!Cardinality(S) = Cardinality(S)
BY DEF Talk!Cardinality, Cardinality

LEMMA InitTalkInv ==
  ASSUME MaxQuestions \in Nat
  PROVE  Talk!InterviewInit => TalkInv
<1> SUFFICES ASSUME Talk!InterviewInit PROVE TalkInv
  OBVIOUS
<1>1. /\ record \in Records /\ record.there /\ record.answered = 0 /\ record.covered = {} /\ ~record.draft
  BY DEF Talk!InterviewInit, Talk!NoRecord, Records, Talk!Statuses
<1>2. Talk!Idle \in ToolCalls /\ Talk!Idle.at = "idle"
  BY DEF Talk!Idle, ToolCalls
<1>3. call \in [Calls -> ToolCalls] /\ \A c \in Calls : call[c].at = "idle"
  BY <1>2 DEF Talk!InterviewInit
<1> QED
  BY <1>1, <1>3, FS_EmptySet
     DEF TalkInv, TalkTypes, OneOpen, AskedFits, RenderedIsCovered, AnswersFit, IsOpen

\* A question begins: it finds none open, because none is pending.
LEMMA BeginQuestionKeepsInv ==
  ASSUME TalkInv, NEW c \in Calls, NEW topic \in Topics, Talk!BeginQuestion(c, topic)
  PROVE  TalkInv'
<1>0. record \in Records /\ call \in [Calls -> ToolCalls]
  BY DEF TalkInv, TalkTypes
<1>1. /\ record' = [record EXCEPT !.pending = TRUE, !.status = "awaiting_answer"]
      /\ call' = [call EXCEPT ![c] = [at |-> "begun", topic |-> topic]]
      /\ record.there /\ ~record.pending /\ record.answered < MaxQuestions
      /\ record.answered < Cardinality(Topics) => topic \notin record.covered
  BY TalkCardinality DEF Talk!BeginQuestion, Talk!MayAsk
<1>2. /\ record' \in Records /\ record'.pending /\ record'.answered = record.answered
      /\ record'.covered = record.covered /\ record'.draft = record.draft
  BY <1>0, <1>1 DEF Records, Talk!Statuses
<1>3. /\ call' \in [Calls -> ToolCalls] /\ call'[c].at = "begun" /\ call'[c].topic = topic
      /\ \A d \in Calls : d # c => call'[d] = call[d]
  BY <1>0, <1>1 DEF ToolCalls
<1>4. \A d \in Calls : ~IsOpen(d)
  BY <1>1 DEF TalkInv, OneOpen
<1>5. \A d \in Calls : IsOpen(d)' => d = c
  BY <1>3, <1>4 DEF IsOpen
<1>6. OneOpen' /\ AskedFits'
  BY <1>1, <1>2, <1>3, <1>5 DEF OneOpen, AskedFits
<1>7. RenderedIsCovered' /\ AnswersFit'
  BY <1>1, <1>2, <1>3 DEF TalkInv, RenderedIsCovered, AnswersFit
<1> QED
  BY <1>2, <1>3, <1>6, <1>7 DEF TalkInv, TalkTypes

\* A question ends, with an answer or without one, and no other is open.
LEMMA FinishQuestionKeepsInv ==
  ASSUME IsFiniteSet(Topics), MaxQuestions \in Nat,
         TalkInv, NEW c \in Calls, NEW answered \in BOOLEAN, IsOpen(c),
         record' = Talk!Finished(c, answered), call' = [call EXCEPT ![c] = Talk!Idle]
  PROVE  TalkInv'
<1>0. record \in Records /\ call \in [Calls -> ToolCalls]
  BY DEF TalkInv, TalkTypes
<1>1. Talk!Idle \in ToolCalls /\ Talk!Idle.at = "idle"
  BY DEF Talk!Idle, ToolCalls
<1>2. /\ call' \in [Calls -> ToolCalls] /\ call'[c].at = "idle"
      /\ \A d \in Calls : d # c => call'[d] = call[d]
  BY <1>0, <1>1
<1>3. CASE ~record.there
  BY <1>0, <1>2, <1>3 DEF Talk!Finished, TalkInv, TalkTypes
<1>4. CASE record.there
  <2>1. call[c].topic \in Topics /\ record.answered < MaxQuestions
    BY <1>4 DEF TalkInv, AskedFits
  <2>2. /\ record' \in Records /\ record'.there /\ record'.draft = record.draft
        /\ record'.answered = IF answered THEN record.answered + 1 ELSE record.answered
        /\ record'.covered = IF answered THEN record.covered \cup {call[c].topic} ELSE record.covered
    <3> DEFINE base == [record EXCEPT !.pending = FALSE, !.status = "interviewing"]
    <3>1. /\ base \in Records /\ base.there /\ base.draft = record.draft
          /\ base.answered = record.answered /\ base.covered = record.covered
      BY <1>0, <1>4 DEF Records, Talk!Statuses
    <3>2. CASE ~answered
      <4>1. record' = [record EXCEPT !.pending = FALSE, !.status = "interviewing",
                                     !.answered = @, !.covered = @]
        BY <1>4, <3>2 DEF Talk!Finished
      <4> QED
        BY <1>0, <1>4, <3>2, <4>1 DEF Records, Talk!Statuses
    <3>3. CASE answered
      <4>1. record' = [base EXCEPT !.answered = @ + 1, !.covered = @ \cup {call[c].topic}]
        BY <1>0, <1>4, <3>1, <3>3 DEF Talk!Finished, Records
      <4> HIDE DEF base
      <4>2. base.answered + 1 \in Nat /\ base.covered \cup {call[c].topic} \in SUBSET Topics
        BY <2>1, <3>1 DEF Records
      <4>3. /\ record' \in Records /\ record'.there = base.there /\ record'.draft = base.draft
            /\ record'.answered = base.answered + 1
            /\ record'.covered = base.covered \cup {call[c].topic}
        BY <3>1, <4>1, <4>2 DEF Records
      <4> QED
        BY <3>1, <3>3, <4>3
    <3> QED
      BY <3>2, <3>3
  <2>3. \A d \in Calls : ~IsOpen(d)'
    BY <1>2, <1>4 DEF TalkInv, OneOpen, IsOpen
  <2>4. OneOpen' /\ AskedFits'
    BY <2>3 DEF OneOpen, AskedFits
  <2>5. record.covered \in SUBSET Topics /\ IsFiniteSet(record.covered) /\ record.answered \in Nat
    BY <1>0, FS_Subset DEF Records
  <2>6. RenderedIsCovered'
    <3>1. record.covered = Topics => record'.covered = Topics
      BY <2>1, <2>2
    <3> QED
      BY <1>2, <1>4, <3>1 DEF TalkInv, RenderedIsCovered
  <2>7. AnswersFit'
    <3>1. CASE ~answered
      BY <1>4, <2>2, <3>1 DEF TalkInv, AnswersFit
    <3>2. CASE answered
      <4>1. record'.answered = record.answered + 1 /\ record'.covered = record.covered \cup {call[c].topic}
        BY <2>2, <3>2
      <4>2. Cardinality(Topics) \in Nat
        BY FS_CardinalityType
      <4>3. ASSUME record'.answered <= Cardinality(Topics)
            PROVE  Cardinality(record'.covered) = record'.answered
        <5>1. record.answered < Cardinality(Topics)
          BY <2>5, <4>1, <4>2, <4>3
        <5>2. call[c].topic \notin record.covered
          BY <1>4, <5>1 DEF TalkInv, AskedFits
        <5>3. Cardinality(record.covered \cup {call[c].topic}) = Cardinality(record.covered) + 1
          BY <2>5, <5>2, FS_AddElement
        <5>4. Cardinality(record.covered) = record.answered
          BY <1>4, <2>5, <4>2, <5>1 DEF TalkInv, AnswersFit
        <5> QED
          BY <4>1, <5>3, <5>4
      <4>4. record'.answered <= MaxQuestions
        BY <2>1, <2>5, <4>1
      <4>5. record'.draft => record'.covered = Topics
        BY <1>4, <2>1, <2>2, <4>1 DEF TalkInv, AnswersFit
      <4> QED
        BY <4>3, <4>4, <4>5 DEF AnswersFit
    <3> QED
      BY <3>1, <3>2
  <2> QED
    BY <1>2, <2>2, <2>4, <2>6, <2>7 DEF TalkInv, TalkTypes
<1> QED
  BY <1>3, <1>4

\* A question waits for its answer, a draft is rendered or refused.
LEMMA CallKeepsInv ==
  ASSUME TalkInv, NEW c \in Calls, NEW state \in ToolCalls,
         call' = [call EXCEPT ![c] = state], record' \in Records,
         record'.there = record.there, record'.pending = record.pending,
         record'.answered = record.answered, record'.covered = record.covered,
         record'.draft => record.draft \/ (record.there => record.covered = Topics),
         state.at = "waiting" => IsOpen(c) /\ state.topic = call[c].topic,
         state.at # "begun",
         state.at = "rendering" => record.covered = Topics
  PROVE  TalkInv'
<1>0. /\ call \in [Calls -> ToolCalls] /\ call' \in [Calls -> ToolCalls] /\ call'[c] = state
      /\ \A d \in Calls : d # c => call'[d] = call[d]
  BY DEF TalkInv, TalkTypes
<1>1. \A d \in Calls : IsOpen(d)' => IsOpen(d) /\ call'[d].topic = call[d].topic
  BY <1>0 DEF IsOpen
<1>2. record.there => OneOpen' /\ AskedFits'
  BY <1>1 DEF TalkInv, OneOpen, AskedFits
<1>3. record.there => RenderedIsCovered' /\ AnswersFit'
  BY <1>0 DEF TalkInv, RenderedIsCovered, AnswersFit
<1> QED
  BY <1>0, <1>2, <1>3 DEF TalkInv, TalkTypes

\* Turns, recoveries and the deletion leave the calls alone.
LEMMA RecordKeepsInv ==
  ASSUME TalkInv, UNCHANGED call, record' \in Records,
         \/ ~record'.there
         \/ /\ record.there
            /\ record'.pending = record.pending /\ record'.answered = record.answered
            /\ record'.covered = record.covered /\ record'.draft = record.draft
  PROVE  TalkInv'
<1>1. \A d \in Calls : IsOpen(d)' = IsOpen(d)
  BY DEF IsOpen
<1> QED
  BY <1>1 DEF TalkInv, TalkTypes, OneOpen, AskedFits, RenderedIsCovered, AnswersFit

LEMMA NextTalkInv ==
  ASSUME IsFiniteSet(Topics), MaxQuestions \in Nat, TalkInv, [Talk!InterviewNext]_interviewVars
  PROVE  TalkInv'
<1>0. record \in Records /\ call \in [Calls -> ToolCalls]
  BY DEF TalkInv, TalkTypes
<1>1. CASE \/ Talk!Register \/ Talk!StopTurn \/ Talk!FinishTurn \/ Talk!SendTurn
           \/ UNCHANGED interviewVars
  <2>1. UNCHANGED <<record, call>>
    BY <1>1 DEF Talk!Register, Talk!StopTurn, Talk!FinishTurn, Talk!SendTurn, interviewVars
  <2>2. record.there \/ ~record'.there
    BY <2>1
  <2> QED
    BY <1>0, <2>1, <2>2, RecordKeepsInv
<1>2. CASE Talk!Attach \/ Talk!Resume
  <2>1. UNCHANGED call /\ Talk!Recover
    BY <1>2 DEF Talk!Attach, Talk!Resume
  <2>2. \/ record' = record
        \/ record.there /\ record' = [record EXCEPT !.status = "failed"]
        \/ record.there /\ record' = [record EXCEPT !.retries = 1, !.status = "recovering"]
    BY <2>1 DEF Talk!Recover
  <2>3. CASE record' = record
    BY <1>0, <2>1, <2>3, RecordKeepsInv
  <2>4. CASE record.there /\ record' = [record EXCEPT !.status = "failed"]
    <3>1. /\ record' \in Records
          /\ record'.pending = record.pending /\ record'.answered = record.answered
          /\ record'.covered = record.covered /\ record'.draft = record.draft
      BY <1>0, <2>4 DEF Records, Talk!Statuses
    <3> QED
      BY <2>1, <2>4, <3>1, RecordKeepsInv
  <2>5. CASE record.there /\ record' = [record EXCEPT !.retries = 1, !.status = "recovering"]
    <3>1. /\ record' \in Records
          /\ record'.pending = record.pending /\ record'.answered = record.answered
          /\ record'.covered = record.covered /\ record'.draft = record.draft
      BY <1>0, <2>5 DEF Records, Talk!Statuses
    <3> QED
      BY <2>1, <2>5, <3>1, RecordKeepsInv
  <2> QED
    BY <2>2, <2>3, <2>4, <2>5
<1>3. CASE Talk!Remove
  <2>1. UNCHANGED call /\ record' \in Records /\ ~record'.there
    BY <1>3 DEF Talk!Remove, Talk!NoRecord, Records, Talk!Statuses
  <2> QED
    BY <2>1, RecordKeepsInv
<1>4. ASSUME NEW c \in Calls, NEW t \in Topics, Talk!BeginQuestion(c, t) PROVE TalkInv'
  BY <1>4, BeginQuestionKeepsInv
<1>5. ASSUME NEW c \in Calls, Talk!PutQuestion(c) PROVE TalkInv'
  <2>1. IsOpen(c)
    BY <1>5 DEF Talk!PutQuestion, IsOpen
  <2>2. CASE turn = "running"
    <3> DEFINE state == [call[c] EXCEPT !.at = "waiting"]
    <3>1. /\ state \in ToolCalls /\ state.at = "waiting" /\ state.topic = call[c].topic
          /\ call' = [call EXCEPT ![c] = state] /\ record' = record
      BY <1>0, <1>5, <2>2 DEF Talk!PutQuestion, ToolCalls
    <3> HIDE DEF state
    <3> QED
      BY <1>0, <2>1, <3>1, CallKeepsInv
  <2>3. CASE turn # "running"
    BY <1>5, <2>1, <2>3, FinishQuestionKeepsInv DEF Talk!PutQuestion
  <2> QED
    BY <2>2, <2>3
<1>6. ASSUME NEW c \in Calls, NEW b \in BOOLEAN, Talk!FinishQuestion(c, b) PROVE TalkInv'
  <2>1. IsOpen(c)
    BY <1>6 DEF Talk!FinishQuestion, IsOpen
  <2> QED
    BY <1>6, <2>1, FinishQuestionKeepsInv DEF Talk!FinishQuestion
<1>7. ASSUME NEW c \in Calls, Talk!Submit(c) PROVE TalkInv'
  <2> DEFINE state == [call[c] EXCEPT !.at = "rendering"]
  <2>1. /\ state \in ToolCalls /\ state.at = "rendering"
        /\ call' = [call EXCEPT ![c] = state] /\ record' = record /\ record.covered = Topics
    BY <1>0, <1>7 DEF Talk!Submit, ToolCalls
  <2> HIDE DEF state
  <2> QED
    BY <1>0, <2>1, CallKeepsInv
<1>8. ASSUME NEW c \in Calls, NEW b \in BOOLEAN, Talk!StoreDraft(c, b) PROVE TalkInv'
  <2>1. Talk!Idle \in ToolCalls /\ Talk!Idle.at = "idle" /\ call' = [call EXCEPT ![c] = Talk!Idle]
    BY <1>8 DEF Talk!Idle, ToolCalls, Talk!StoreDraft
  <2>2. /\ record' \in Records /\ record'.there = record.there
        /\ record'.pending = record.pending /\ record'.answered = record.answered
        /\ record'.covered = record.covered
    BY <1>0, <1>8 DEF Talk!StoreDraft, Records, Talk!Statuses
  <2>3. record.there => record.covered = Topics
    BY <1>8 DEF Talk!StoreDraft, TalkInv, RenderedIsCovered
  <2> QED
    BY <2>1, <2>2, <2>3, CallKeepsInv
<1> QED
  BY <1>1, <1>2, <1>3, <1>4, <1>5, <1>6, <1>7, <1>8 DEF Talk!InterviewNext

LEMMA TalkInvSuffices == TalkInv => Talk!CoverageIsEarned
<1> SUFFICES ASSUME TalkInv, record.there
             PROVE  record.answered + Cardinality({c \in Calls : IsOpen(c)}) <= MaxQuestions
  BY TalkCardinality DEF TalkInv, AnswersFit, Talk!CoverageIsEarned, IsOpen
<1>0. record.answered \in Nat
  BY DEF TalkInv, TalkTypes, Records
<1>1. CASE \E c \in Calls : IsOpen(c)
  <2>1. PICK c \in Calls : IsOpen(c)
    BY <1>1
  <2>2. {d \in Calls : IsOpen(d)} = {c}
    BY <2>1 DEF TalkInv, OneOpen
  <2>3. Cardinality({c}) = 1
    BY FS_Singleton
  <2>4. record.answered < MaxQuestions
    BY <2>1 DEF TalkInv, AskedFits
  <2> QED
    BY QuestionsAssumption, <1>0, <2>2, <2>3, <2>4
<1>2. CASE \A c \in Calls : ~IsOpen(c)
  <2>1. {d \in Calls : IsOpen(d)} = {}
    BY <1>2
  <2>2. record.answered <= MaxQuestions
    BY DEF TalkInv, AnswersFit
  <2>3. Cardinality({}) = 0
    BY FS_EmptySet
  <2> QED
    BY QuestionsAssumption, <1>0, <2>1, <2>2, <2>3
<1> QED
  BY <1>1, <1>2
-----------------------------------------------------------------------------
(* Tasks: an archive folder holds every session that goes with its task,   *)
(* except those opened while it was written (LiveIsCopied).                *)

BoardTypes ==
  /\ sessions \in [Sessions -> [st : {"none", "open", "finished", "gone"}, copied : BOOLEAN,
                                late : BOOLEAN]]
  /\ DOMAIN hands = Board!Hands

Copier(h) == hands[h].step \in {"copied", "removed"}

LiveIsCopied ==
  (\E h \in Board!Hands : Copier(h)) =>
    \A s \in Sessions : sessions[s].st \in {"open", "finished"} =>
                          sessions[s].copied \/ sessions[s].late

ArchiveInv == BoardTypes /\ LiveIsCopied /\ Board!GoneWasArchived

LEMMA InitArchiveInv == Board!TaskInit => ArchiveInv
<1> SUFFICES ASSUME Board!TaskInit PROVE ArchiveInv
  OBVIOUS
<1>1. sessions = [s \in Sessions |-> [st |-> "none", copied |-> FALSE, late |-> FALSE]]
  BY DEF Board!TaskInit
<1>2. DOMAIN hands = Board!Hands
  BY DEF Board!TaskInit
<1> QED
  BY <1>1, <1>2 DEF ArchiveInv, BoardTypes, LiveIsCopied, Board!GoneWasArchived

\* A step that leaves the sessions alone and makes no hand a copier.
LEMMA HandKeepsArchiveInv ==
  ASSUME ArchiveInv, UNCHANGED sessions, DOMAIN hands' = Board!Hands,
         \A h \in Board!Hands : Copier(h)' => Copier(h)
  PROVE  ArchiveInv'
BY DEF ArchiveInv, BoardTypes, LiveIsCopied, Board!GoneWasArchived

LEMMA GoesKeepsDomain ==
  ASSUME ArchiveInv, NEW h \in Board!Hands, NEW rec, Board!Goes(h, rec)
  PROVE  /\ DOMAIN hands' = Board!Hands
         /\ hands'[h] = rec
         /\ \A g \in Board!Hands \ {h} : hands'[g] = hands[g]
BY DEF ArchiveInv, BoardTypes, Board!Goes

LEMMA NextArchiveInv == ArchiveInv /\ [Board!TaskNext]_tasksVars => ArchiveInv'
<1> SUFFICES ASSUME ArchiveInv, [Board!TaskNext]_tasksVars PROVE ArchiveInv'
  OBVIOUS
<1>0. DOMAIN hands = Board!Hands
  BY DEF ArchiveInv, BoardTypes
<1>e. Board!Empty.step = "idle"
  BY DEF Board!Empty
<1>p. Poll \in Board!Hands /\ Devices \subseteq Board!Hands
  BY DEF Board!Hands
<1>1. CASE Board!List
  <2>1. Board!Goes(Poll, [Board!Empty EXCEPT !.step = "listed", !.why = "start"]) /\ UNCHANGED sessions
    BY <1>1 DEF Board!List
  <2>2. [Board!Empty EXCEPT !.step = "listed", !.why = "start"].step = "listed"
    BY DEF Board!Empty
  <2> QED
    BY <2>1, <2>2, <1>p, GoesKeepsDomain, HandKeepsArchiveInv DEF Copier
<1>2. ASSUME NEW h \in Board!Hands, Board!TurnEndsUnattended(h) PROVE ArchiveInv'
  <2>1. Board!Goes(h, Board!Empty)
    BY <1>2 DEF Board!TurnEndsUnattended
  <2>2. \A g \in Board!Hands : Copier(g)' => Copier(g)
    BY <2>1, <1>e, GoesKeepsDomain DEF Copier
  <2>3. DOMAIN hands' = Board!Hands
    BY <2>1, GoesKeepsDomain
  <2>4. \A s \in Sessions :
          /\ sessions'[s] \in [st : {"none", "open", "finished", "gone"}, copied : BOOLEAN, late : BOOLEAN]
          /\ sessions'[s].copied = sessions[s].copied /\ sessions'[s].late = sessions[s].late
          /\ sessions'[s].st = "gone" => sessions[s].st = "gone"
          /\ sessions'[s].st \in {"open", "finished"} => sessions[s].st \in {"open", "finished"}
    BY <1>2 DEF Board!TurnEndsUnattended, ArchiveInv, BoardTypes
  <2>5. sessions' \in [Sessions -> [st : {"none", "open", "finished", "gone"}, copied : BOOLEAN,
                                    late : BOOLEAN]]
    BY <1>2, <2>4 DEF Board!TurnEndsUnattended
  <2> QED
    BY <2>2, <2>3, <2>4, <2>5 DEF ArchiveInv, BoardTypes, LiveIsCopied, Board!GoneWasArchived
<1>3. CASE Board!Crash
  <2>1. hands' = [h \in Board!Hands |-> Board!Empty] /\ UNCHANGED sessions
    BY <1>3 DEF Board!Crash
  <2> QED
    BY <2>1, <1>e, HandKeepsArchiveInv DEF Copier
<1>4. ASSUME NEW h \in Board!Hands, Board!ReadToStart(h) PROVE ArchiveInv'
  <2>1. PICK rec : Board!Goes(h, rec) /\ rec.step \in {"read", "idle"}
    BY <1>4, <1>e DEF Board!ReadToStart
  <2>2. UNCHANGED sessions
    BY <1>4 DEF Board!ReadToStart
  <2> QED
    BY <2>1, <2>2, GoesKeepsDomain, HandKeepsArchiveInv DEF Copier
<1>5. ASSUME NEW h \in Board!Hands, Board!OpenSession(h) PROVE ArchiveInv'
  <2>6. PICK s \in Sessions :
          /\ sessions[s].st = "none"
          /\ sessions' = [sessions EXCEPT ![s] = [st |-> "open", copied |-> FALSE,
                                                  late |-> Board!Copying # {}]]
          /\ Board!Goes(h, [step |-> "opened", why |-> "start",
                            want |-> Board!Claimed(hands[h].want), sess |-> {s}])
    BY <1>5 DEF Board!OpenSession
  <2>1. PICK rec : Board!Goes(h, rec) /\ rec.step = "opened"
    BY <2>6
  <2>2. (\E g \in Board!Hands : Copier(g)) => Board!Copying # {}
    BY DEF Copier, Board!Copying, Board!At
  <2>3. \A g \in Board!Hands : Copier(g)' => Copier(g)
    BY <2>1, GoesKeepsDomain DEF Copier
  <2>4. DOMAIN hands' = Board!Hands
    BY <2>1, GoesKeepsDomain
  <2>5. (Board!Copying # {}) \in BOOLEAN
    OBVIOUS
  <2> QED
    BY <2>6, <2>2, <2>3, <2>4, <2>5 DEF ArchiveInv, BoardTypes, LiveIsCopied, Board!GoneWasArchived
<1>6. ASSUME NEW h \in Board!Hands, Board!Check(h) PROVE ArchiveInv'
  <2>1. PICK rec : Board!Goes(h, rec) /\ rec \in {Board!Empty, [hands[h] EXCEPT !.step = "checked"]}
    BY <1>6 DEF Board!Check
  <2>2. UNCHANGED sessions /\ hands[h].step = "opened"
    BY <1>6 DEF Board!Check, Board!At
  <2>3. CASE rec = Board!Empty
    BY <2>1, <2>2, <2>3, <1>e, GoesKeepsDomain, HandKeepsArchiveInv DEF Copier
  <2>4. CASE rec = [hands[h] EXCEPT !.step = "checked"]
    <3>1. ~(rec.step \in {"copied", "removed"})
      BY <2>2, <2>4
    <3> QED
      BY <2>1, <2>2, <3>1, GoesKeepsDomain, HandKeepsArchiveInv DEF Copier
  <2> QED
    BY <2>1, <2>3, <2>4
<1>7. ASSUME NEW h \in Board!Hands, Board!Write(h) PROVE ArchiveInv'
  <2>1. PICK rec : Board!Goes(h, rec) /\ rec \in {Board!Empty, [hands[h] EXCEPT !.step = "running"]}
    BY <1>7 DEF Board!Write
  <2>2. UNCHANGED sessions /\ hands[h].step = "checked"
    BY <1>7 DEF Board!Write, Board!At
  <2>3. CASE rec = Board!Empty
    BY <2>1, <2>2, <2>3, <1>e, GoesKeepsDomain, HandKeepsArchiveInv DEF Copier
  <2>4. CASE rec = [hands[h] EXCEPT !.step = "running"]
    <3>1. ~(rec.step \in {"copied", "removed"})
      BY <2>2, <2>4
    <3> QED
      BY <2>1, <2>2, <3>1, GoesKeepsDomain, HandKeepsArchiveInv DEF Copier
  <2> QED
    BY <2>1, <2>3, <2>4
\* What is removed was in the archive, or is late.
<1>8. ASSUME NEW h \in Board!Hands, Board!RemoveSessions(h) PROVE ArchiveInv'
  <2>0. Copier(h)
    BY <1>8 DEF Board!RemoveSessions, Board!At, Copier
  <2>1. Board!Goes(h, [hands[h] EXCEPT !.step = "removed"])
    BY <1>8 DEF Board!RemoveSessions
  <2>2. \A g \in Board!Hands : Copier(g)' => Copier(g)
    BY <2>0, <2>1, GoesKeepsDomain DEF Copier
  <2>3. DOMAIN hands' = Board!Hands
    BY <2>1, GoesKeepsDomain
  <2>4. \A s \in Sessions :
          /\ sessions'[s] \in [st : {"none", "open", "finished", "gone"}, copied : BOOLEAN, late : BOOLEAN]
          /\ sessions'[s].copied = sessions[s].copied /\ sessions'[s].late = sessions[s].late
          /\ sessions'[s].st \in {"open", "finished"} => sessions[s].st \in {"open", "finished"}
          /\ sessions'[s].st = "gone" => sessions[s].st \in {"open", "finished", "gone"}
    BY <1>8 DEF Board!RemoveSessions, Board!Live, ArchiveInv, BoardTypes
  <2>5. sessions' \in [Sessions -> [st : {"none", "open", "finished", "gone"}, copied : BOOLEAN,
                                    late : BOOLEAN]]
    BY <1>8, <2>4 DEF Board!RemoveSessions
  <2> QED
    BY <2>0, <2>2, <2>3, <2>4, <2>5 DEF ArchiveInv, BoardTypes, LiveIsCopied, Board!GoneWasArchived
<1>9. ASSUME NEW h \in Board!Hands, Board!RemoveTask(h) PROVE ArchiveInv'
  BY <1>9, <1>e, GoesKeepsDomain, HandKeepsArchiveInv DEF Board!RemoveTask, Copier
<1>10. ASSUME NEW h \in Devices, Board!Patch(h) PROVE ArchiveInv'
  <2>1. PICK rec : Board!Goes(h, rec) /\ rec.step = "opened"
    BY <1>10 DEF Board!Patch
  <2> QED
    BY <2>1, <1>10, <1>p, GoesKeepsDomain, HandKeepsArchiveInv DEF Copier, Board!Patch
<1>11. ASSUME NEW h \in Devices, Board!MoveToReview(h) \/ Board!RestoreToInProgress(h) PROVE ArchiveInv'
  <2>1. PICK rec : Board!Goes(h, rec) /\ rec.step = "opened"
    BY <1>11 DEF Board!MoveToReview, Board!RestoreToInProgress, Board!Move
  <2>2. UNCHANGED sessions
    BY <1>11 DEF Board!MoveToReview, Board!RestoreToInProgress, Board!Move
  <2> QED
    BY <2>1, <2>2, <1>p, GoesKeepsDomain, HandKeepsArchiveInv DEF Copier
<1>12. ASSUME NEW h \in Devices, Board!DeleteTask(h) PROVE ArchiveInv'
  BY <1>12, <1>0, HandKeepsArchiveInv DEF Board!DeleteTask, Copier
\* Everything live is in the folder when it is renamed into place.
<1>13. ASSUME NEW h \in Devices, Board!Archive(h) PROVE ArchiveInv'
  <2>1. DOMAIN hands' = Board!Hands
    BY <1>13, <1>p, GoesKeepsDomain DEF Board!Archive
  <2>2. \A s \in Sessions :
          /\ sessions'[s] \in [st : {"none", "open", "finished", "gone"}, copied : BOOLEAN, late : BOOLEAN]
          /\ sessions'[s].st = sessions[s].st /\ sessions'[s].late = sessions[s].late
          /\ sessions[s].copied => sessions'[s].copied
          /\ sessions[s].st \in {"open", "finished"} => sessions'[s].copied
    BY <1>13 DEF Board!Archive, Board!Kept, Board!Live, ArchiveInv, BoardTypes
  <2>3. sessions' \in [Sessions -> [st : {"none", "open", "finished", "gone"}, copied : BOOLEAN,
                                    late : BOOLEAN]]
    BY <1>13, <2>2 DEF Board!Archive, Board!Kept
  <2> QED
    BY <2>1, <2>2, <2>3 DEF ArchiveInv, BoardTypes, LiveIsCopied, Board!GoneWasArchived
<1>14. CASE UNCHANGED tasksVars
  BY <1>14, <1>0, HandKeepsArchiveInv DEF tasksVars, Copier
<1> QED
  BY <1>1, <1>2, <1>3, <1>4, <1>5, <1>6, <1>7, <1>8, <1>9, <1>10, <1>11, <1>12, <1>13, <1>14
     DEF Board!TaskNext, Board!Going, Board!Removing

-----------------------------------------------------------------------------
(* A goal's decisions: a verdict is never changed, and while an approval   *)
(* is carried out it is the only one and nobody can decide again (Grant),  *)
(* because the request counts as approved until the outcome is marked.     *)

Requests ==
  [kind : Goals!Kinds, at : {"idle", "checked", "added", "read", "execute", "mark", "bad"},
   on : Notes \cup Metrics \cup {Goals!Idle.on}, long : BOOLEAN, row : [Metrics -> 0..1],
   saw : BOOLEAN]

GoalTypes ==
  /\ item \in [Items -> Goals!Verdicts \cup {"none", "open"}]
  /\ told \in [Items -> Goals!Verdicts \cup {"none"}]
  /\ metric \in [Metrics -> 0..1]
  /\ granted \in BOOLEAN
  /\ handler \in [Handlers -> Requests]

Granting(h) == handler[h].kind = "grant" /\ handler[h].at \in {"execute", "mark"}

Grant ==
  /\ \A h \in Handlers : Granting(h) => access = "approved"
  /\ \A h, g \in Handlers : Granting(h) /\ Granting(g) => h = g
  /\ \A h \in Handlers : Granting(h) /\ handler[h].at = "execute" => ~granted
  /\ \A h \in Handlers : Granting(h) /\ handler[h].at = "mark" => granted = handler[h].saw
  /\ access \in {"none", "pending", "failed"} => ~granted

DecisionInv == GoalTypes /\ Grant /\ Goals!DecisionsStand

-----------------------------------------------------------------------------
LEMMA IdleTyped ==
  /\ Goals!Idle \in Requests /\ Goals!Idle.at = "idle"
  /\ Goals!Idle = [kind |-> "add", at |-> "idle", on |-> Goals!Idle.on, long |-> FALSE,
                   row |-> [m \in Metrics |-> 0], saw |-> FALSE]
BY DEF Goals!Idle, Requests, Goals!Kinds

LEMMA InitDecisionInv == Goals!BoardInit => DecisionInv
<1> SUFFICES ASSUME Goals!BoardInit PROVE DecisionInv
  OBVIOUS
<1>1. handler = [h \in Handlers |-> Goals!Idle]
  BY DEF Goals!BoardInit
<1>2. GoalTypes
  <2>1. handler \in [Handlers -> Requests]
    BY <1>1, IdleTyped
  <2>2. metric \in [Metrics -> 0..1]
    BY DEF Goals!BoardInit
  <2>3. item \in [Items -> Goals!Verdicts \cup {"none", "open"}] /\ told \in [Items -> Goals!Verdicts \cup {"none"}]
    BY DEF Goals!BoardInit
  <2> QED
    BY <2>1, <2>2, <2>3 DEF Goals!BoardInit, GoalTypes
<1>3. Grant
  BY <1>1, IdleTyped DEF Goals!BoardInit, Grant, Granting
<1>4. Goals!DecisionsStand
  BY DEF Goals!BoardInit, Goals!DecisionsStand
<1> QED
  BY <1>2, <1>3, <1>4 DEF DecisionInv

\* A request that does not carry out a grant, before or after its step, and touches
\* neither the items nor the access request.
LEMMA BystanderKeepsDecisionInv ==
  ASSUME DecisionInv, NEW h \in Handlers, NEW r \in Requests,
         handler' = [handler EXCEPT ![h] = r], ~(r.kind = "grant" /\ r.at \in {"execute", "mark"}),
         UNCHANGED <<item, told, access, granted>>, metric' \in [Metrics -> 0..1]
  PROVE  DecisionInv'
<1>0. handler \in [Handlers -> Requests]
  BY DEF DecisionInv, GoalTypes
<1>1. \A g \in Handlers : Granting(g)' => g # h /\ Granting(g) /\ handler'[g] = handler[g]
  BY <1>0 DEF Granting
<1>2. GoalTypes'
  BY <1>0 DEF DecisionInv, GoalTypes
<1>3. Grant'
  BY <1>1 DEF DecisionInv, Grant
<1>4. Goals!DecisionsStand'
  BY DEF DecisionInv, Goals!DecisionsStand
<1> QED
  BY <1>2, <1>3, <1>4 DEF DecisionInv

\* A step that leaves every request as it is and decides nothing.
LEMMA QuietKeepsDecisionInv ==
  ASSUME DecisionInv, UNCHANGED <<handler, item, told, access, granted, metric>>
  PROVE  DecisionInv'
BY DEF DecisionInv, GoalTypes, Grant, Granting, Goals!DecisionsStand

\* Feedback: checking, adding, pinning and editing a note.
LEMMA NoteKeepsDecisionInv ==
  ASSUME DecisionInv, NEW h \in Handlers, NEW n \in Notes, NEW b \in BOOLEAN,
         \/ Goals!CheckNewDirective(h, n, b) \/ Goals!AddFeedback(h, n, b)
         \/ Goals!ReadForEdit(h, n, b) \/ Goals!ReadForPin(h, n) \/ Goals!Unpin(h, n)
  PROVE  DecisionInv'
<1>0. handler \in [Handlers -> Requests] /\ metric \in [Metrics -> 0..1]
  BY DEF DecisionInv, GoalTypes
<1>1. UNCHANGED <<item, told, access, granted, metric>>
  BY DEF Goals!CheckNewDirective, Goals!AddFeedback, Goals!ReadForEdit, Goals!ReadForPin, Goals!Unpin
<1>2. \/ UNCHANGED handler
      \/ \E r \in Requests : /\ handler' = [handler EXCEPT ![h] = r]
                             /\ ~(r.kind = "grant" /\ r.at \in {"execute", "mark"})
  <2>1. CASE Goals!CheckNewDirective(h, n, b)
    <3>1. [Goals!Idle EXCEPT !.at = "checked", !.on = n] \in Requests
      BY IdleTyped DEF Requests
    <3>2. [Goals!Idle EXCEPT !.at = "checked", !.on = n].at = "checked"
      BY IdleTyped
    <3> QED
      BY <2>1, <3>1, <3>2 DEF Goals!CheckNewDirective
  <2>2. CASE Goals!AddFeedback(h, n, b)
    <3>1. [handler[h] EXCEPT !.kind = "add", !.at = "added"] \in Requests
      BY <1>0 DEF Requests, Goals!Kinds
    <3>2. [handler[h] EXCEPT !.kind = "add", !.at = "added"].at = "added"
      BY <1>0 DEF Requests
    <3>3. UNCHANGED handler \/ handler' = [handler EXCEPT ![h] = [handler[h] EXCEPT !.kind = "add", !.at = "added"]]
      BY <1>0, <2>2 DEF Goals!AddFeedback, Goals!Now, Requests
    <3> QED
      BY <3>1, <3>2, <3>3
  <2>3. CASE Goals!ReadForEdit(h, n, b)
    <3>1. [Goals!Idle EXCEPT !.kind = "edit", !.at = "read", !.on = n, !.long = b] \in Requests
      BY IdleTyped DEF Requests, Goals!Kinds
    <3>2. [Goals!Idle EXCEPT !.kind = "edit", !.at = "read", !.on = n, !.long = b].at = "read"
      BY IdleTyped
    <3> QED
      BY <2>3, <3>1, <3>2 DEF Goals!ReadForEdit
  <2>4. CASE Goals!ReadForPin(h, n)
    <3>1. [Goals!Idle EXCEPT !.kind = "pin", !.at = "read", !.on = n] \in Requests
      BY IdleTyped DEF Requests, Goals!Kinds
    <3>2. [Goals!Idle EXCEPT !.kind = "pin", !.at = "read", !.on = n].at = "read"
      BY IdleTyped
    <3>3. [handler[h] EXCEPT !.at = "bad"] \in Requests /\ [handler[h] EXCEPT !.at = "bad"].at = "bad"
      BY <1>0 DEF Requests
    <3>4. PICK r \in {[Goals!Idle EXCEPT !.kind = "pin", !.at = "read", !.on = n],
                      [handler[h] EXCEPT !.at = "bad"], Goals!Idle} :
            handler' = [handler EXCEPT ![h] = r]
      BY <1>0, <2>4 DEF Goals!ReadForPin
    <3> QED
      BY <3>1, <3>2, <3>3, <3>4, IdleTyped
  <2>5. CASE Goals!Unpin(h, n)
    BY <2>5 DEF Goals!Unpin
  <2> QED
    BY <2>1, <2>2, <2>3, <2>4, <2>5
<1> QED
  BY <1>0, <1>1, <1>2, BystanderKeepsDecisionInv, QuietKeepsDecisionInv

\* The steps that only answer the caller.
LEMMA ReplyKeepsDecisionInv ==
  ASSUME DecisionInv, NEW h \in Handlers, Goals!Replied(h),
         UNCHANGED <<item, told, access, granted>>, metric' \in [Metrics -> 0..1]
  PROVE  DecisionInv'
BY IdleTyped, BystanderKeepsDecisionInv DEF Goals!Replied

\* Metrics and the goal's row.
LEMMA MetricKeepsDecisionInv ==
  ASSUME DecisionInv, NEW h \in Handlers,
         \/ \E m \in Metrics : Goals!ReadMetrics(h, m)
         \/ Goals!RecordProgress(h) \/ Goals!ReadGoal(h) \/ Goals!UpdateGoal(h)
  PROVE  DecisionInv'
<1>0. handler[h] \in Requests /\ metric \in [Metrics -> 0..1]
  BY DEF DecisionInv, GoalTypes
<1>1. ASSUME NEW m \in Metrics, Goals!ReadMetrics(h, m) PROVE DecisionInv'
  <2>1. [Goals!Idle EXCEPT !.kind = "progress", !.at = "read", !.on = m, !.row = metric] \in Requests
    BY <1>0, IdleTyped DEF Requests, Goals!Kinds
  <2>2. [Goals!Idle EXCEPT !.kind = "progress", !.at = "read", !.on = m, !.row = metric].at = "read"
    BY IdleTyped
  <2> QED
    BY <1>0, <1>1, <2>1, <2>2, BystanderKeepsDecisionInv DEF Goals!ReadMetrics
<1>2. CASE Goals!RecordProgress(h)
  <2>0. handler[h].row \in [Metrics -> 0..1]
    BY <1>0 DEF Requests
  <2>1. metric' \in [Metrics -> 0..1]
    <3>1. metric' = [handler[h].row EXCEPT ![handler[h].on] = 1]
      BY <1>2 DEF Goals!RecordProgress
    <3>2. 1 \in 0..1
      OBVIOUS
    <3> QED
      BY <2>0, <3>1, <3>2
  <2> QED
    BY <1>2, <2>1, ReplyKeepsDecisionInv DEF Goals!RecordProgress
<1>3. CASE Goals!ReadGoal(h)
  <2>1. [Goals!Idle EXCEPT !.kind = "touch", !.at = "read", !.row = metric] \in Requests
    BY <1>0, IdleTyped DEF Requests, Goals!Kinds
  <2>2. [Goals!Idle EXCEPT !.kind = "touch", !.at = "read", !.row = metric].at = "read"
    BY IdleTyped
  <2> QED
    BY <1>0, <1>3, <2>1, <2>2, BystanderKeepsDecisionInv DEF Goals!ReadGoal
<1>4. CASE Goals!UpdateGoal(h)
  <2>1. metric' \in [Metrics -> 0..1]
    BY <1>0, <1>4 DEF Goals!UpdateGoal, Requests
  <2> QED
    BY <1>4, <2>1, ReplyKeepsDecisionInv DEF Goals!UpdateGoal
<1> QED
  BY <1>1, <1>2, <1>3, <1>4

\* An item is filed once, and answered once.
LEMMA ItemKeepsDecisionInv ==
  ASSUME DecisionInv, NEW i \in Items,
         \/ \E h \in Handlers : Goals!RequestAction(h, i)
         \/ \E h \in Handlers, v \in Goals!Verdicts : Goals!Respond(h, i, v)
  PROVE  DecisionInv'
<1>0. item \in [Items -> Goals!Verdicts \cup {"none", "open"}]
  BY DEF DecisionInv, GoalTypes
<1>1. item[i] \in {"none", "open"} /\ "none" \notin Goals!Verdicts /\ "open" \notin Goals!Verdicts
  BY DEF Goals!RequestAction, Goals!Respond, Goals!Answerable, Goals!Verdicts
<1>2. PICK v \in Goals!Verdicts \cup {"none", "open"} : item' = [item EXCEPT ![i] = v]
  BY DEF Goals!RequestAction, Goals!Respond
<1>3. UNCHANGED <<handler, told, access, granted, metric>>
  BY DEF Goals!RequestAction, Goals!Respond
<1>4. told \in [Items -> Goals!Verdicts \cup {"none"}]
  BY DEF DecisionInv, GoalTypes
<1>5. told[i] = "none"
  BY <1>1, <1>4 DEF DecisionInv, Goals!DecisionsStand
<1>6. Goals!DecisionsStand'
  BY <1>0, <1>2, <1>3, <1>5 DEF DecisionInv, Goals!DecisionsStand
<1>7. GoalTypes' /\ Grant'
  BY <1>0, <1>2, <1>3 DEF DecisionInv, GoalTypes, Grant, Granting
<1> QED
  BY <1>6, <1>7 DEF DecisionInv

LEMMA ReviewKeepsDecisionInv == ASSUME DecisionInv, Goals!Review PROVE DecisionInv'
<1>0. /\ item \in [Items -> Goals!Verdicts \cup {"none", "open"}]
      /\ told \in [Items -> Goals!Verdicts \cup {"none"}]
  BY DEF DecisionInv, GoalTypes
<1>1. UNCHANGED <<item, access, granted, metric, handler>>
  BY DEF Goals!Review
<1>2. told' = [i \in Items |-> IF item[i] \in Goals!Verdicts THEN item[i] ELSE told[i]]
  BY DEF Goals!Review
<1>3. \A i \in Items : told'[i] # "none" => item[i] = told'[i]
  BY <1>2 DEF DecisionInv, Goals!DecisionsStand
<1>4. told' \in [Items -> Goals!Verdicts \cup {"none"}]
  BY <1>0, <1>2
<1> QED
  BY <1>0, <1>1, <1>3, <1>4 DEF DecisionInv, GoalTypes, Grant, Granting, Goals!DecisionsStand

\* The access request: decided while nobody carries an approval out.
LEMMA AccessKeepsDecisionInv ==
  ASSUME DecisionInv, NEW h \in Handlers,
         \/ Goals!CreateAccessRequest(h)
         \/ \E b \in BOOLEAN : Goals!Decide(h, b) \/ Goals!Execute(h, b)
         \/ Goals!MarkExecuted(h)
  PROVE  DecisionInv'
<1>0. handler \in [Handlers -> Requests] /\ granted \in BOOLEAN
  BY DEF DecisionInv, GoalTypes
<1>1. CASE Goals!CreateAccessRequest(h)
  BY <1>1 DEF Goals!CreateAccessRequest, DecisionInv, GoalTypes, Grant, Granting, Goals!DecisionsStand
<1>2. ASSUME NEW b \in BOOLEAN, Goals!Decide(h, b) PROVE DecisionInv'
  <2>1. ~granted /\ \A g \in Handlers : ~Granting(g)
    BY <1>2 DEF Goals!Decide, Goals!Decidable, DecisionInv, Grant
  <2>2. UNCHANGED <<item, told, granted, metric>>
    BY <1>2 DEF Goals!Decide
  <2>3. CASE b
    <3>1. [Goals!Idle EXCEPT !.kind = "grant", !.at = "execute"] \in Requests
      BY IdleTyped DEF Requests, Goals!Kinds
    <3>2. [Goals!Idle EXCEPT !.kind = "grant", !.at = "execute"].at = "execute"
      BY IdleTyped
    <3>3. access' = "approved" /\ handler' = [handler EXCEPT ![h] = [Goals!Idle EXCEPT !.kind = "grant", !.at = "execute"]]
      BY <1>2, <2>3 DEF Goals!Decide
    <3>4. handler' \in [Handlers -> Requests]
      BY <1>0, <3>1, <3>3
    <3>5. \A g \in Handlers : Granting(g)' => g = h /\ handler'[g].at = "execute"
      BY <1>0, <2>1, <3>2, <3>3 DEF Granting
    <3> QED
      BY <2>1, <2>2, <3>3, <3>4, <3>5 DEF DecisionInv, GoalTypes, Grant, Goals!DecisionsStand
  <2>4. CASE ~b
    <3>1. access' = "denied" /\ UNCHANGED handler
      BY <1>2, <2>4 DEF Goals!Decide
    <3>2. GoalTypes'
      BY <2>2, <3>1 DEF DecisionInv, GoalTypes
    <3>3. \A g \in Handlers : ~Granting(g)'
      BY <2>1, <3>1 DEF Granting
    <3> QED
      BY <2>1, <2>2, <3>1, <3>2, <3>3 DEF DecisionInv, Grant, Goals!DecisionsStand
  <2> QED
    BY <2>3, <2>4
<1>3. ASSUME NEW b \in BOOLEAN, Goals!Execute(h, b) PROVE DecisionInv'
  <2>1. Granting(h) /\ handler[h].at = "execute"
    BY <1>3 DEF Goals!Execute, Goals!At, Granting
  <2>2. access = "approved" /\ ~granted /\ \A g \in Handlers : Granting(g) => g = h
    BY <2>1 DEF DecisionInv, Grant
  <2>3. UNCHANGED <<item, told, access, metric>> /\ granted' = b
    BY <1>0, <1>3, <2>2 DEF Goals!Execute
  <2>4. [handler[h] EXCEPT !.at = "mark", !.saw = b] \in Requests
    BY <1>0 DEF Requests
  <2>5. handler' = [handler EXCEPT ![h] = [handler[h] EXCEPT !.at = "mark", !.saw = b]]
    BY <1>0, <1>3 DEF Goals!Execute, Requests
  <2>6. handler'[h].at = "mark" /\ handler'[h].saw = b
    BY <1>0, <2>5 DEF Requests
  <2>7. handler' \in [Handlers -> Requests]
    BY <1>0, <2>4, <2>5
  <2>8. \A g \in Handlers : Granting(g)' => g = h
    BY <1>0, <2>2, <2>5 DEF Granting
  <2> QED
    BY <2>2, <2>3, <2>6, <2>7, <2>8 DEF DecisionInv, GoalTypes, Grant, Goals!DecisionsStand
<1>4. CASE Goals!MarkExecuted(h)
  <2>1. Granting(h) /\ handler[h].at = "mark"
    BY <1>4 DEF Goals!MarkExecuted, Goals!At, Granting
  <2>2. access = "approved" /\ granted = handler[h].saw /\ \A g \in Handlers : Granting(g) => g = h
    BY <2>1 DEF DecisionInv, Grant
  <2>3. UNCHANGED <<item, told, granted, metric>> /\ access' = IF granted THEN "executed" ELSE "failed"
    BY <1>4, <2>2 DEF Goals!MarkExecuted
  <2>4. handler' = [handler EXCEPT ![h] = Goals!Idle]
    BY <1>4 DEF Goals!MarkExecuted, Goals!Replied
  <2>5. \A g \in Handlers : ~Granting(g)'
    BY <1>0, <2>2, <2>4, IdleTyped DEF Granting
  <2>6. handler' \in [Handlers -> Requests]
    BY <1>0, <2>4, IdleTyped
  <2> QED
    BY <2>2, <2>3, <2>5, <2>6 DEF DecisionInv, GoalTypes, Grant, Goals!DecisionsStand
<1> QED
  BY <1>1, <1>2, <1>3, <1>4

LEMMA NextDecisionInv == DecisionInv /\ [Goals!BoardNext]_goalsVars => DecisionInv'
<1> SUFFICES ASSUME DecisionInv, [Goals!BoardNext]_goalsVars PROVE DecisionInv'
  OBVIOUS
<1>0. handler \in [Handlers -> Requests] /\ metric \in [Metrics -> 0..1]
  BY DEF DecisionInv, GoalTypes
<1>1. CASE Goals!Review
  BY <1>1, ReviewKeepsDecisionInv
<1>2. ASSUME NEW h \in Handlers, NEW n \in Notes, NEW b \in BOOLEAN,
             \/ Goals!CheckNewDirective(h, n, b) \/ Goals!AddFeedback(h, n, b)
             \/ Goals!ReadForEdit(h, n, b) \/ Goals!ReadForPin(h, n) \/ Goals!Unpin(h, n)
      PROVE  DecisionInv'
  BY <1>2, NoteKeepsDecisionInv
<1>3. ASSUME NEW h \in Handlers,
             Goals!Refuse(h) \/ Goals!Pin(h) \/ Goals!Edit(h) \/ Goals!Acknowledge(h) \/ Goals!Cut(h)
      PROVE  DecisionInv'
  <2>1. Goals!Replied(h) /\ UNCHANGED <<item, told, access, granted, metric>>
    BY <1>3 DEF Goals!Refuse, Goals!Pin, Goals!Edit, Goals!Acknowledge, Goals!Cut
  <2> QED
    BY <1>0, <2>1, ReplyKeepsDecisionInv
<1>4. ASSUME NEW h \in Handlers,
             \/ \E m \in Metrics : Goals!ReadMetrics(h, m)
             \/ Goals!RecordProgress(h) \/ Goals!ReadGoal(h) \/ Goals!UpdateGoal(h)
      PROVE  DecisionInv'
  BY <1>4, MetricKeepsDecisionInv
<1>5. ASSUME NEW h \in Handlers, NEW i \in Items,
             Goals!RequestAction(h, i) \/ \E v \in Goals!Verdicts : Goals!Respond(h, i, v)
      PROVE  DecisionInv'
  BY <1>5, ItemKeepsDecisionInv
<1>6. ASSUME NEW h \in Handlers,
             \/ Goals!CreateAccessRequest(h)
             \/ \E b \in BOOLEAN : Goals!Decide(h, b) \/ Goals!Execute(h, b)
             \/ Goals!MarkExecuted(h)
      PROVE  DecisionInv'
  BY <1>6, AccessKeepsDecisionInv
<1>7. CASE UNCHANGED goalsVars
  BY <1>7, QuietKeepsDecisionInv DEF goalsVars
<1>8. TRUE \in BOOLEAN
  OBVIOUS
<1> QED
  BY <1>1, <1>2, <1>3, <1>4, <1>5, <1>6, <1>7, <1>8 DEF Goals!BoardNext

-----------------------------------------------------------------------------
(* Types.  Most hold step by step from the types themselves.  Three do     *)
(* not: how often a session is folded is bounded since a repetition costs  *)
(* a mishap (FoldedOnce), how many questions are answered since one is     *)
(* open at a time (AnswersFit), and the goroutines of an interview's turns *)
(* since each but the first was paid for by a resume (TurnsBound).         *)
ThreadStates ==
  [step : Cron!Steps, name : Names, file : Cron!File \cup {NoFile},
   scan : [Names -> Cron!File \cup {NoFile}], then : Cron!Thens]
RunStates ==
  [work : {"free", "parsed", "working", "over"}, name : Names,
   trigger : {"cron", "manual", "webhook"}, live : BOOLEAN, row : Cron!Rows]
Directories == [Names -> Cron!File \cup {NoFile}]

LEMMA RestingTyped == Cron!Resting \in ThreadStates /\ Cron!Unused \in RunStates
BY PartsAssumption DEF Cron!Resting, Cron!Unused, ThreadStates, RunStates, Cron!Steps, Cron!Thens, Cron!Rows

LEMMA RegisteredTyped ==
  ASSUME NEW scan \in Directories
  PROVE  /\ Cron!Desired(scan) \in [Names -> Timings \cup {""}]
         /\ Cron!Registered(scan) = Cron!Desired(scan)
BY DEF Cron!Desired, Cron!Registered, Directories, Cron!File

LEMMA InitCronTyped == Cron!SchedInit => Cron!SchedTypeOK
<1> SUFFICES ASSUME Cron!SchedInit PROVE Cron!SchedTypeOK
  OBVIOUS
<1>1. files \in Directories
  BY DEF Cron!SchedInit, Directories
<1>2. jobs \in [Names -> Timings \cup {""}]
  BY <1>1, RegisteredTyped DEF Cron!SchedInit
<1>3. threads \in [Cron!Threads -> ThreadStates] /\ runs \in [Slots -> RunStates]
  BY RestingTyped DEF Cron!SchedInit
<1>4. edits \in 0..MaxFileEdits /\ boots \in 0..MaxBoots
  BY BoundsAssumption DEF Cron!SchedInit
<1> QED
  BY <1>1, <1>2, <1>3, <1>4 DEF Cron!SchedTypeOK, Directories, ThreadStates, RunStates

LEMMA NextCronTyped == Cron!SchedTypeOK /\ [Cron!SchedNext]_schedulesVars => Cron!SchedTypeOK'
<1> SUFFICES ASSUME Cron!SchedTypeOK, [Cron!SchedNext]_schedulesVars PROVE Cron!SchedTypeOK'
  OBVIOUS
<1> DEFINE Typed(fs, js, ts, rs) ==
      /\ fs \in Directories /\ js \in [Names -> Timings \cup {""}]
      /\ ts \in [Cron!Threads -> ThreadStates] /\ rs \in [Slots -> RunStates]
<1>1. /\ files \in Directories /\ jobs \in [Names -> Timings \cup {""}]
      /\ threads \in [Cron!Threads -> ThreadStates] /\ runs \in [Slots -> RunStates]
      /\ edits \in 0..MaxFileEdits /\ boots \in 0..MaxBoots
  BY DEF Cron!SchedTypeOK, Directories, ThreadStates, RunStates
<1>0. edits \in 0..MaxFileEdits /\ boots \in 0..MaxBoots
  BY <1>1
<1>2. SUFFICES /\ Typed(files', jobs', threads', runs')
               /\ edits' \in 0..MaxFileEdits /\ boots' \in 0..MaxBoots
  BY DEF Cron!SchedTypeOK, Directories, ThreadStates, RunStates
<1>3. \A t \in Callers : t \in Cron!Threads
  BY DEF Cron!Threads
<1>4. ASSUME NEW t \in Cron!Threads, Cron!Sync(t) \/ Cron!Rescan(t) \/ \E n \in Names : Cron!RunNow(t, n)
      PROVE  Typed(files', jobs', threads', runs') /\ UNCHANGED <<edits, boots>>
  <2>1. threads[t].then \in Cron!Thens /\ threads[t].name \in Names /\ {"", "run"} \subseteq Cron!Thens
    BY <1>1 DEF ThreadStates, Cron!Thens
  <2>2. PICK n \in Names, then \in Cron!Thens :
          threads' = [threads EXCEPT ![t] = [step |-> "scanned", name |-> n, file |-> NoFile,
                                             scan |-> files, then |-> then]]
    BY <1>4, <2>1 DEF Cron!Sync, Cron!Rescan, Cron!RunNow, Cron!Scanned
  <2>3. [step |-> "scanned", name |-> n, file |-> NoFile, scan |-> files, then |-> then] \in ThreadStates
    BY <1>1 DEF ThreadStates, Directories, Cron!Steps
  <2>4. UNCHANGED <<files, jobs, runs, edits, boots>>
    BY <1>4 DEF Cron!Sync, Cron!Rescan, Cron!RunNow
  <2> QED
    BY <1>1, <2>2, <2>3, <2>4
<1>5. ASSUME NEW t \in Cron!Threads, Cron!Apply(t)
      PROVE  Typed(files', jobs', threads', runs') /\ UNCHANGED <<edits, boots>>
  <2>1. threads[t].scan \in Directories /\ threads[t].name \in Names
    BY <1>1 DEF ThreadStates, Directories
  <2>2. UNCHANGED <<files, edits, boots>> /\ jobs' \in [Names -> Timings \cup {""}]
    BY <1>5, <2>1, RegisteredTyped DEF Cron!Apply
  <2>3. threads' \in [Cron!Threads -> ThreadStates]
    BY <1>1, <1>5, RestingTyped DEF Cron!Apply
  <2>4. runs' \in [Slots -> RunStates]
    <3>1. CASE UNCHANGED runs
      BY <1>1, <3>1
    <3>2. CASE runs' = [r \in Slots |-> IF runs[r].name = threads[t].name /\ runs[r].row # "none"
                                        THEN [runs[r] EXCEPT !.row = "deleted"] ELSE runs[r]]
      BY <1>1, <3>2 DEF RunStates, Cron!Rows
    <3>3. ASSUME NEW r \in Slots,
                 runs' = [runs EXCEPT ![r] = [Cron!Unused EXCEPT !.work = "parsed", !.trigger = "manual",
                                                                 !.name = threads[t].name]]
          PROVE  runs' \in [Slots -> RunStates]
      <4>1. [Cron!Unused EXCEPT !.work = "parsed", !.trigger = "manual", !.name = threads[t].name] \in RunStates
        BY <2>1, RestingTyped DEF RunStates
      <4> QED
        BY <1>1, <3>3, <4>1
    <3> QED
      BY <1>5, <3>1, <3>2, <3>3 DEF Cron!Apply
  <2> QED
    BY <1>1, <2>2, <2>3, <2>4
<1>6. ASSUME NEW t \in Cron!Threads, Cron!Write(t)
      PROVE  Typed(files', jobs', threads', runs') /\ UNCHANGED <<edits, boots>>
  <2>1. threads[t].file \in Cron!File \cup {NoFile}
    BY <1>1 DEF ThreadStates
  <2>2. files' \in Directories
    BY <1>1, <1>6, <2>1 DEF Cron!Write, Directories
  <2>3. [threads[t] EXCEPT !.step = "changed", !.then = ""] \in ThreadStates
    BY <1>1 DEF ThreadStates, Cron!Steps, Cron!Thens
  <2>4. threads' = [threads EXCEPT ![t] = [threads[t] EXCEPT !.step = "changed", !.then = ""]]
    BY <1>1, <1>6 DEF Cron!Write
  <2>5. threads' \in [Cron!Threads -> ThreadStates]
    BY <1>1, <2>3, <2>4
  <2> QED
    BY <1>1, <1>6, <2>2, <2>5 DEF Cron!Write
<1>7. ASSUME NEW t \in Cron!Threads, NEW n \in Names,
             Cron!CreateStart(t, n) \/ Cron!UpdateStart(t, n) \/ Cron!Delete(t, n)
      PROVE  Typed(files', jobs', threads', runs') /\ edits' \in 0..MaxFileEdits /\ UNCHANGED boots
  <2>0. Cron!Edit
    BY <1>7 DEF Cron!CreateStart, Cron!UpdateStart, Cron!Delete
  <2>1. edits' \in 0..MaxFileEdits
    <3>1. edits < MaxFileEdits /\ edits' = edits + 1
      BY <2>0 DEF Cron!Edit
    <3> QED
      BY <1>0, <3>1, BoundsAssumption
  <2>2. CASE Cron!Delete(t, n)
    <3>1. files' \in Directories
      BY <1>1, <2>2 DEF Cron!Delete, Directories
    <3> DEFINE state == [threads[t] EXCEPT !.step = "changed", !.name = n, !.then = "forget"]
    <3>2. state \in ThreadStates
      BY <1>1 DEF ThreadStates, Cron!Steps, Cron!Thens
    <3>3. threads' = [threads EXCEPT ![t] = state]
      BY <1>1, <2>2 DEF Cron!Delete
    <3>4. threads' \in [Cron!Threads -> ThreadStates]
      BY <1>1, <3>2, <3>3
    <3> QED
      BY <1>1, <2>1, <2>2, <3>1, <3>4 DEF Cron!Delete
  <2>3. CASE Cron!CreateStart(t, n) \/ Cron!UpdateStart(t, n)
    <3>1. PICK f \in Cron!File, step \in {"create", "patch"} :
            threads' = [threads EXCEPT ![t].step = step, ![t].name = n, ![t].file = f]
      <4>1. CASE Cron!CreateStart(t, n)
        BY <4>1 DEF Cron!CreateStart
      <4>2. CASE Cron!UpdateStart(t, n)
        BY <4>2 DEF Cron!UpdateStart, Cron!Valid
      <4> QED
        BY <2>3, <4>1, <4>2
    <3> DEFINE state == [threads[t] EXCEPT !.step = step, !.name = n, !.file = f]
    <3>2. state \in ThreadStates
      BY <1>1 DEF ThreadStates, Cron!Steps
    <3>3. threads' = [threads EXCEPT ![t] = state]
      BY <1>1, <3>1
    <3>4. threads' \in [Cron!Threads -> ThreadStates]
      BY <1>1, <3>2, <3>3
    <3>5. UNCHANGED <<files, jobs, runs, boots>>
      BY <2>3 DEF Cron!CreateStart, Cron!UpdateStart
    <3> QED
      BY <1>1, <2>1, <3>4, <3>5
  <2> QED
    BY <1>7, <2>2, <2>3
<1>8. ASSUME NEW r \in Slots,
             \/ \E n \in Names : Cron!Fire(n, r) \/ Cron!Webhook(n, r)
             \/ Cron!RunProgress(r) \/ Cron!CallerLeaves(r)
      PROVE  Typed(files', jobs', threads', runs') /\ UNCHANGED <<edits, boots>>
  <2>1. UNCHANGED <<files, jobs, threads, edits, boots>>
    BY <1>8 DEF Cron!Fire, Cron!Webhook, Cron!RunProgress, Cron!Record, Cron!Execute, Cron!CallerLeaves
  <2>2. ASSUME NEW n \in Names, Cron!Fire(n, r) \/ Cron!Webhook(n, r)
        PROVE  runs' \in [Slots -> RunStates]
    <3>1. /\ [Cron!Unused EXCEPT !.work = "parsed", !.name = n] \in RunStates
          /\ [Cron!Unused EXCEPT !.work = "parsed", !.name = n, !.trigger = "webhook"] \in RunStates
      BY RestingTyped DEF RunStates
    <3> QED
      BY <1>1, <2>2, <3>1 DEF Cron!Fire, Cron!Webhook
  <2>3. \A work \in {"over", "working"}, row \in Cron!Rows :
          [runs[r] EXCEPT !.work = work, !.row = row] \in RunStates
    BY <1>1 DEF RunStates
  <2>4. ASSUME NEW work \in {"over", "working"}, NEW row \in Cron!Rows,
               runs' = [runs EXCEPT ![r].work = work, ![r].row = row]
        PROVE  runs' \in [Slots -> RunStates]
    <3>1. runs' = [runs EXCEPT ![r] = [runs[r] EXCEPT !.work = work, !.row = row]]
      BY <1>1, <2>4
    <3> QED
      BY <1>1, <2>3, <3>1
  <2>5. ASSUME Cron!Record(r) PROVE runs' \in [Slots -> RunStates]
    <3>1. (IF runs[r].live THEN "running" ELSE "none") \in Cron!Rows
      BY DEF Cron!Rows
    <3> QED
      BY <2>5, <2>4, <3>1 DEF Cron!Record
  <2>6. ASSUME Cron!Execute(r) PROVE runs' \in [Slots -> RunStates]
    <3>1. runs[r].row \in Cron!Rows /\ {"success", "error"} \subseteq Cron!Rows
      BY <1>1 DEF RunStates, Cron!Rows
    <3>2. \A v \in {"success", "error"} : Cron!Finished(r, v) \in Cron!Rows
      BY <3>1 DEF Cron!Finished
    <3> QED
      BY <2>6, <2>4, <3>2 DEF Cron!Execute
  <2>7. CASE Cron!CallerLeaves(r)
    BY <1>1, <2>7 DEF Cron!CallerLeaves, RunStates
  <2> QED
    BY <1>1, <1>8, <2>1, <2>2, <2>5, <2>6, <2>7 DEF Cron!RunProgress
<1>9. CASE Cron!Restart
  <2>0. UNCHANGED <<files, edits>> /\ boots < MaxBoots /\ boots' = boots + 1
    BY <1>9 DEF Cron!Restart
  <2>1. UNCHANGED <<files, edits>> /\ boots' \in 0..MaxBoots
    BY <1>0, <2>0, BoundsAssumption
  <2>2. jobs' \in [Names -> Timings \cup {""}] /\ threads' \in [Cron!Threads -> ThreadStates]
    BY <1>1, <1>9, RestingTyped, RegisteredTyped DEF Cron!Restart
  <2>3. runs' \in [Slots -> RunStates]
    BY <1>1, <1>9 DEF Cron!Restart, RunStates
  <2> QED
    BY <1>1, <2>1, <2>2, <2>3
<1>10. CASE UNCHANGED schedulesVars
  BY <1>1, <1>10 DEF schedulesVars
<1>11. CASE Cron!SchedNext
  <2> HIDE DEF Typed
  <2> QED
    BY <1>1, <1>3, <1>4, <1>5, <1>6, <1>7, <1>8, <1>9, <1>11 DEF Cron!SchedNext, Cron!SchedProgress
<1> QED
  BY <1>10, <1>11

-----------------------------------------------------------------------------
(* Tasks *)
TaskRows == [status : Board!Statuses, locked : 0..MaxTaskEdits, due : BOOLEAN]
HandStates == [step : Board!Steps, why : Board!Whys, want : TaskRows, sess : SUBSET Sessions]
SessionStates == [st : {"none", "open", "finished", "gone"}, copied : BOOLEAN, late : BOOLEAN]

TaskTyped(row, ss, hs, n, m) ==
  /\ row \in TaskRows /\ ss \in [Sessions -> SessionStates]
  /\ hs \in [Board!Hands -> HandStates] /\ n \in 0..MaxTaskEdits /\ m \in 0..MaxCrashes

LEMMA TaskTypedIs ==
  /\ Board!TaskTypeOK <=> TaskTyped(task, sessions, hands, changes, crashes)
  /\ Board!TaskTypeOK' <=> TaskTyped(task', sessions', hands', changes', crashes')
BY DEF Board!TaskTypeOK, TaskTyped, Board!Row, TaskRows, HandStates, SessionStates

LEMMA EmptyHand == Board!FreshTask \in TaskRows /\ Board!Empty \in HandStates
BY BoundsAssumption
   DEF Board!FreshTask, Board!Empty, TaskRows, HandStates, Board!Statuses, Board!Steps, Board!Whys

LEMMA InitTaskTyped == Board!TaskInit => Board!TaskTypeOK
<1> SUFFICES ASSUME Board!TaskInit PROVE TaskTyped(task, sessions, hands, changes, crashes)
  BY TaskTypedIs
<1>1. task \in TaskRows
  BY EmptyHand DEF Board!TaskInit, TaskRows
<1> QED
  BY <1>1, EmptyHand, BoundsAssumption DEF Board!TaskInit, TaskTyped, SessionStates

\* A call in the middle of which a hand is.
LEMMA NextTaskTyped == Board!TaskTypeOK /\ [Board!TaskNext]_tasksVars => Board!TaskTypeOK'
<1> SUFFICES ASSUME TaskTyped(task, sessions, hands, changes, crashes), [Board!TaskNext]_tasksVars
             PROVE  TaskTyped(task', sessions', hands', changes', crashes')
  BY TaskTypedIs
<1> DEFINE Typed == TaskTyped(task', sessions', hands', changes', crashes')
<1>1. /\ task \in TaskRows /\ sessions \in [Sessions -> SessionStates]
      /\ hands \in [Board!Hands -> HandStates]
      /\ changes \in 0..MaxTaskEdits /\ crashes \in 0..MaxCrashes
  BY DEF TaskTyped
<1>2. ASSUME NEW h \in Board!Hands, NEW rec \in HandStates, Board!Goes(h, rec)
      PROVE  hands' \in [Board!Hands -> HandStates]
  BY <1>1, <1>2 DEF Board!Goes
<1>3. \A h \in Devices : h \in Board!Hands
  BY DEF Board!Hands
<1>4. Poll \in Board!Hands
  BY DEF Board!Hands
<1>5. CASE Board!List
  <2>1. [Board!Empty EXCEPT !.step = "listed", !.why = "start"] \in HandStates
    BY EmptyHand DEF HandStates, Board!Steps, Board!Whys
  <2> QED
    BY <1>1, <1>2, <1>4, <1>5, <2>1 DEF Board!List, TaskTyped
<1>6. CASE Board!Crash
  <2>1. hands' \in [Board!Hands -> HandStates] /\ crashes' \in 0..MaxCrashes
    BY <1>1, <1>6, EmptyHand, BoundsAssumption DEF Board!Crash
  <2> QED
    BY <1>1, <1>6, <2>1 DEF Board!Crash, TaskTyped
<1>7. ASSUME NEW h \in Board!Hands, Board!ReadToStart(h) PROVE Typed
  <2>1. [step |-> "read", why |-> "start", want |-> task, sess |-> {}] \in HandStates
    BY <1>1 DEF HandStates, Board!Steps, Board!Whys
  <2>2. changes' \in 0..MaxTaskEdits
    BY <1>1, <1>7, BoundsAssumption DEF Board!ReadToStart
  <2>3. hands' \in [Board!Hands -> HandStates]
    BY <1>2, <1>7, <2>1, EmptyHand DEF Board!ReadToStart
  <2> QED
    BY <1>1, <1>7, <2>2, <2>3 DEF Board!ReadToStart, TaskTyped
<1>8. ASSUME NEW h \in Board!Hands, Board!OpenSession(h) PROVE Typed
  <2>1. PICK s \in Sessions :
          /\ sessions' = [sessions EXCEPT ![s] = [st |-> "open", copied |-> FALSE, late |-> Board!Copying # {}]]
          /\ Board!Goes(h, [step |-> "opened", why |-> "start", want |-> Board!Claimed(hands[h].want),
                            sess |-> {s}])
    BY <1>8 DEF Board!OpenSession
  <2>2. Board!Claimed(hands[h].want) \in TaskRows
    BY <1>1 DEF Board!Claimed, HandStates, TaskRows, Board!Statuses
  <2>3. [step |-> "opened", why |-> "start", want |-> Board!Claimed(hands[h].want), sess |-> {s}] \in HandStates
    BY <2>2 DEF HandStates, Board!Steps, Board!Whys
  <2>4. [st |-> "open", copied |-> FALSE, late |-> Board!Copying # {}] \in SessionStates
    BY DEF SessionStates
  <2>5. sessions' \in [Sessions -> SessionStates]
    BY <1>1, <2>1, <2>4
  <2> QED
    BY <1>1, <1>2, <1>8, <2>1, <2>3, <2>5 DEF Board!OpenSession, TaskTyped
<1>9. ASSUME NEW h \in Board!Hands, Board!Check(h) \/ Board!Write(h) PROVE Typed
  <2>1. task' \in TaskRows
    BY <1>1, <1>9 DEF Board!Check, Board!Write, HandStates
  <2>2. hands' \in [Board!Hands -> HandStates]
    <3>1. /\ hands[h] \in HandStates
          /\ \A step \in {"checked", "running"} : [hands[h] EXCEPT !.step = step] \in HandStates
      BY <1>1 DEF HandStates, Board!Steps
    <3>2. PICK rec \in HandStates : Board!Goes(h, rec)
      BY <1>9, <3>1, EmptyHand DEF Board!Check, Board!Write
    <3> QED
      BY <1>2, <3>2
  <2> QED
    BY <1>1, <1>9, <2>1, <2>2 DEF Board!Check, Board!Write, TaskTyped
<1>10. ASSUME NEW h \in Board!Hands, Board!TurnEndsUnattended(h) PROVE Typed
  <2>1. sessions' \in [Sessions -> SessionStates]
    BY <1>1, <1>10 DEF Board!TurnEndsUnattended, SessionStates
  <2> QED
    BY <1>1, <1>2, <1>10, <2>1, EmptyHand DEF Board!TurnEndsUnattended, TaskTyped
<1>11. ASSUME NEW h \in Board!Hands, Board!Removing(h) PROVE Typed
  <2>1. CASE Board!RemoveSessions(h)
    <3>1. sessions' \in [Sessions -> SessionStates]
      BY <1>1, <2>1 DEF Board!RemoveSessions, SessionStates
    <3>2. [hands[h] EXCEPT !.step = "removed"] \in HandStates
      BY <1>1 DEF HandStates, Board!Steps
    <3> QED
      BY <1>1, <1>2, <2>1, <3>1, <3>2 DEF Board!RemoveSessions, TaskTyped
  <2>2. CASE Board!RemoveTask(h)
    <3>1. task' \in TaskRows
      BY <1>1, <2>2 DEF Board!RemoveTask, TaskRows, Board!Statuses
    <3> QED
      BY <1>1, <1>2, <2>2, <3>1, EmptyHand DEF Board!RemoveTask, TaskTyped
  <2> QED
    BY <1>11, <2>1, <2>2 DEF Board!Removing
<1>12. ASSUME NEW h \in Board!Hands, Board!Patch(h) PROVE Typed
  <2>1. changes' \in 0..MaxTaskEdits
    BY <1>1, <1>12, BoundsAssumption DEF Board!Patch
  <2>2. PICK row \in Board!Patches :
          Board!Goes(h, [step |-> "opened", why |-> "patch", want |-> row, sess |-> {}])
    BY <1>12 DEF Board!Patch
  <2>3. row \in TaskRows
    BY <1>1, <2>1 DEF Board!Patches, TaskRows
  <2>4. [step |-> "opened", why |-> "patch", want |-> row, sess |-> {}] \in HandStates
    BY <2>3 DEF HandStates, Board!Steps, Board!Whys
  <2> QED
    BY <1>1, <1>2, <1>12, <2>1, <2>2, <2>4 DEF Board!Patch, TaskTyped
<1>13. ASSUME NEW h \in Board!Hands, NEW from, NEW to \in {"review", "in_progress"},
              NEW why \in {"review", "restore"}, Board!Move(h, from, to, why)
       PROVE  Typed
  <2>1. changes' \in 0..MaxTaskEdits
    BY <1>1, <1>13, BoundsAssumption DEF Board!Move
  <2>2. [task EXCEPT !.status = to] \in TaskRows
    BY <1>1 DEF TaskRows, Board!Statuses
  <2>3. [step |-> "opened", why |-> why, want |-> [task EXCEPT !.status = to], sess |-> {}] \in HandStates
    BY <2>2 DEF HandStates, Board!Steps, Board!Whys
  <2> QED
    BY <1>1, <1>2, <1>13, <2>1, <2>3 DEF Board!Move, TaskTyped
<1>14. ASSUME NEW h \in Board!Hands, Board!DeleteTask(h) PROVE Typed
  <2>1. changes' \in 0..MaxTaskEdits /\ task' \in TaskRows
    BY <1>1, <1>14, BoundsAssumption DEF Board!DeleteTask, TaskRows, Board!Statuses
  <2> QED
    BY <1>1, <1>14, <2>1 DEF Board!DeleteTask, TaskTyped
<1>15. ASSUME NEW h \in Board!Hands, Board!Archive(h) PROVE Typed
  <2>1. sessions' \in [Sessions -> SessionStates]
    BY <1>1, <1>15 DEF Board!Archive, Board!Kept, SessionStates
  <2>2. [Board!Empty EXCEPT !.step = "copied", !.sess = Board!Live] \in HandStates
    BY EmptyHand DEF HandStates, Board!Steps, Board!Live
  <2> QED
    BY <1>1, <1>2, <1>15, <2>1, <2>2 DEF Board!Archive, TaskTyped
<1>16. CASE UNCHANGED tasksVars
  BY <1>1, <1>16 DEF tasksVars, TaskTyped
<1>17. ASSUME NEW h \in Board!Hands, Board!MoveToReview(h) \/ Board!RestoreToInProgress(h) PROVE Typed
  BY <1>13, <1>17 DEF Board!MoveToReview, Board!RestoreToInProgress
<1>18. ASSUME NEW h \in Board!Hands, Board!Going(h) PROVE Typed
  BY <1>7, <1>8, <1>9, <1>18 DEF Board!Going
<1> HIDE DEF Typed
<1>19. CASE Board!TaskNext
  <2>1. ASSUME NEW h \in Board!Hands, Board!Going(h) \/ Board!TurnEndsUnattended(h) \/ Board!Removing(h)
        PROVE  Typed
    BY <1>10, <1>11, <1>18, <2>1
  <2>2. ASSUME NEW h \in Devices,
               \/ Board!Patch(h) \/ Board!MoveToReview(h) \/ Board!RestoreToInProgress(h)
               \/ Board!DeleteTask(h) \/ Board!Archive(h)
        PROVE  Typed
    BY <1>3, <1>12, <1>14, <1>15, <1>17, <2>2
  <2> QED
    BY <1>5, <1>6, <1>19, <2>1, <2>2 DEF Board!TaskNext, Typed
<1> QED
  BY <1>16, <1>19 DEF Typed

-----------------------------------------------------------------------------
(* Dreams *)
DreamTyped(mem, bs, dg, ds, n) ==
  /\ mem \in Night!Memory /\ bs \subseteq Dreamt /\ dg \in BOOLEAN /\ n \in 0..MaxTurns
  /\ ds \in [Dreamers -> [phase : Night!Phases, base : Night!Memory, picked : SUBSET Dreamt,
                          row : {"none", "running", "success", "errored"}, wrote : BOOLEAN]]

NightBounds ==
  DreamTyped(memory, busy, dreaming, dreams, begun) /\ mishaps \in 0..MaxMishaps

LEMMA NightTyped == FoldInv /\ NightBounds => Night!DreamTypeOK
<1> SUFFICES ASSUME FoldInv, NightBounds PROVE Night!DreamTypeOK
  OBVIOUS
<1>1. folds \in [Dreamt -> 0..(MaxMishaps + 2)]
  BY BoundsAssumption DEF FoldInv, NightTypes, Night!FoldedOnce, NightBounds
<1> QED
  BY <1>1 DEF FoldInv, NightTypes, NightBounds, DreamTyped, Night!DreamTypeOK

LEMMA BlankTyped ==
  /\ Night!Blank \in Night!Memory
  /\ Night!Awake \in [phase : Night!Phases, base : Night!Memory, picked : SUBSET Dreamt,
                      row : {"none", "running", "success", "errored"}, wrote : BOOLEAN]
BY BoundsAssumption DEF Night!Blank, Night!Awake, Night!Memory, Night!Phases

LEMMA InitNightTyped == Night!DreamInit => NightBounds
<1> SUFFICES ASSUME Night!DreamInit PROVE NightBounds
  OBVIOUS
<1>1. /\ memory = Night!Blank /\ busy \in SUBSET Dreamt /\ dreaming = FALSE /\ begun = 0 /\ mishaps = 0
      /\ dreams = [d \in Dreamers |-> Night!Awake]
  BY DEF Night!DreamInit
<1>2. begun \in 0..MaxTurns /\ mishaps \in 0..MaxMishaps
  BY <1>1, BoundsAssumption
<1>3. dreaming \in BOOLEAN
  BY <1>1
<1>4. dreams \in [Dreamers -> [phase : Night!Phases, base : Night!Memory, picked : SUBSET Dreamt,
                     row : {"none", "running", "success", "errored"}, wrote : BOOLEAN]]
  BY <1>1, BlankTyped
<1> QED
  BY <1>1, <1>2, <1>3, <1>4, BlankTyped DEF NightBounds, DreamTyped

LEMMA NextNightTyped == FoldInv /\ NightBounds /\ [Night!DreamNext]_dreamsVars => NightBounds'
<1> SUFFICES ASSUME FoldInv, NightBounds, [Night!DreamNext]_dreamsVars PROVE NightBounds'
  OBVIOUS
<1> DEFINE States == [phase : Night!Phases, base : Night!Memory, picked : SUBSET Dreamt,
                      row : {"none", "running", "success", "errored"}, wrote : BOOLEAN]
<1>1. /\ memory \in Night!Memory /\ busy \subseteq Dreamt /\ dreaming \in BOOLEAN
      /\ dreams \in [Dreamers -> States] /\ begun \in 0..MaxTurns /\ mishaps \in 0..MaxMishaps
  BY DEF NightBounds, DreamTyped
<1>2. SUFFICES /\ memory' \in Night!Memory /\ busy' \subseteq Dreamt /\ dreaming' \in BOOLEAN
               /\ dreams' \in [Dreamers -> States] /\ begun' \in 0..MaxTurns /\ mishaps' \in 0..MaxMishaps
  BY DEF NightBounds, DreamTyped
<1> DEFINE Typed == /\ memory' \in Night!Memory /\ busy' \subseteq Dreamt /\ dreaming' \in BOOLEAN
                    /\ dreams' \in [Dreamers -> States] /\ begun' \in 0..MaxTurns /\ mishaps' \in 0..MaxMishaps
<1>3. ASSUME NEW d \in Dreamers, Night!Acquire(d) PROVE Typed
  <2>1. [Night!Awake EXCEPT !.phase = "acquired"] \in States
    BY BlankTyped DEF Night!Phases
  <2> QED
    BY <1>1, <1>3, <2>1 DEF Night!Acquire
<1>4. ASSUME NEW d \in Dreamers, Night!Gather(d) PROVE Typed
  <2> DEFINE picked == Dreamt \ (marked \cup busy)
             opened == [phase |-> "distilling", base |-> memory, picked |-> picked,
                        row |-> "running", wrote |-> FALSE]
  <2>1. opened \in States
    BY <1>1 DEF Night!Phases
  <2>2. UNCHANGED <<memory, busy, begun, mishaps>>
    BY <1>4 DEF Night!Gather
  <2>3. CASE picked = {}
    BY <1>1, <1>4, <2>2, <2>3, BlankTyped DEF Night!Gather, Night!Release, Night!FreedAfter
  <2>4. CASE picked # {}
    BY <1>1, <1>4, <2>1, <2>2, <2>4 DEF Night!Gather
  <2> QED
    BY <2>3, <2>4
<1>5. ASSUME NEW d \in Dreamers,
             Night!ModelFails(d) \/ Night!Compare(d) \/ Night!StoreFails(d) \/ Night!MarkDreamed(d)
      PROVE  Typed
  <2>1. PICK phase \in Night!Phases : dreams' = [dreams EXCEPT ![d].phase = phase]
    BY <1>5 DEF Night!ModelFails, Night!Compare, Night!StoreFails, Night!MarkDreamed, Night!Enters,
                Night!Phases, Night!FirstStep
  <2>2. dreams' \in [Dreamers -> States]
    BY <1>1, <2>1
  <2>3. mishaps' \in 0..MaxMishaps
    BY <1>1, <1>5, BoundsAssumption
       DEF Night!ModelFails, Night!Compare, Night!StoreFails, Night!MarkDreamed
  <2>4. UNCHANGED <<memory, busy, dreaming, begun>>
    BY <1>5 DEF Night!ModelFails, Night!Compare, Night!StoreFails, Night!MarkDreamed
  <2> QED
    BY <1>1, <2>2, <2>3, <2>4
<1>6. ASSUME NEW d \in Dreamers, Night!WriteMemory(d) PROVE Typed
  <2>1. memory' \in Night!Memory
    BY <1>1, <1>6 DEF Night!WriteMemory, Night!Memory
  <2>2. [dreams[d] EXCEPT !.phase = "written", !.wrote = TRUE] \in States
    BY <1>1 DEF Night!Phases
  <2>3. dreams' = [dreams EXCEPT ![d] = [dreams[d] EXCEPT !.phase = "written", !.wrote = TRUE]]
    BY <1>1, <1>6 DEF Night!WriteMemory, Night!FirstStep
  <2>4. dreams' \in [Dreamers -> States]
    BY <1>1, <2>2, <2>3
  <2> QED
    BY <1>1, <1>6, <2>1, <2>4 DEF Night!WriteMemory
<1>7. ASSUME NEW d \in Dreamers, Night!Finish(d) PROVE Typed
  <2> DEFINE rest == [Night!Awake EXCEPT !.row = IF dreams[d].phase = "marked" THEN "success" ELSE "errored",
                                         !.wrote = dreams[d].wrote]
  <2>1. rest \in States
    BY <1>1, BlankTyped
  <2>2. dreams' = [dreams EXCEPT ![d] = rest] /\ dreaming' = FALSE
    BY <1>7 DEF Night!Finish, Night!Release, Night!FreedAfter
  <2> HIDE DEF rest
  <2> QED
    BY <1>1, <1>7, <2>1, <2>2 DEF Night!Finish
<1>8. CASE Night!UserEdits
  <2>1. PICK kept \in SUBSET memory.holds : memory' = [holds |-> kept, wipes |-> memory.wipes + 1]
    BY <1>8 DEF Night!UserEdits
  <2>2. memory' \in Night!Memory
    BY <1>1, <1>8, <2>1, BoundsAssumption DEF Night!UserEdits, Night!Memory
  <2> QED
    BY <1>1, <1>8, <2>2 DEF Night!UserEdits
<1>9. ASSUME NEW s \in Dreamt, Night!TurnStarts(s) \/ Night!TurnStops(s) PROVE Typed
  <2>1. begun' \in 0..MaxTurns /\ busy' \subseteq Dreamt
    BY <1>1, <1>9, BoundsAssumption DEF Night!TurnStarts, Night!TurnStops
  <2> QED
    BY <1>1, <1>9, <2>1 DEF Night!TurnStarts, Night!TurnStops
<1>10. CASE Night!DreamCrash
  <2>1. dreams' \in [Dreamers -> States]
    BY <1>1, <1>10, BlankTyped DEF Night!DreamCrash
  <2>2. mishaps < MaxMishaps /\ mishaps' = mishaps + 1
    BY <1>10 DEF Night!DreamCrash
  <2>3. mishaps' \in 0..MaxMishaps
    BY <1>1, <2>2, BoundsAssumption
  <2> QED
    BY <1>1, <1>10, <2>1, <2>3 DEF Night!DreamCrash
<1>11. CASE UNCHANGED dreamsVars
  BY <1>1, <1>11 DEF dreamsVars
<1> HIDE DEF Typed
<1>12. CASE Night!DreamNext
  <2>1. ASSUME NEW d \in Dreamers,
               Night!Acquire(d) \/ Night!DreamProgress(d) \/ Night!ModelFails(d) \/ Night!StoreFails(d)
        PROVE  Typed
    BY <1>3, <1>4, <1>5, <1>6, <1>7, <2>1 DEF Night!DreamProgress
  <2> QED
    BY <1>8, <1>9, <1>10, <1>12, <2>1 DEF Night!DreamNext, Typed
<1> QED
  BY <1>11, <1>12 DEF Typed

-----------------------------------------------------------------------------
(* Interviews: every goroutine of a turn was paid for by a resume, but the first (TurnsBound). *)
TurnsBound ==
  /\ starting \in Nat /\ running \in Nat /\ resumes \in 0..MaxResumes
  /\ starting + running <= resumes + 1

TurnTyped == turn \in {"none", "running", "stopped"} /\ agent \in BOOLEAN

RecordBound == record.answered <= MaxQuestions /\ record.retries <= 1

LEMMA TalkTyped == TalkInv /\ TurnsBound /\ TurnTyped /\ RecordBound => Talk!InterviewTypeOK
<1> SUFFICES ASSUME TalkInv, TurnsBound, TurnTyped, RecordBound PROVE Talk!InterviewTypeOK
  OBVIOUS
<1>1. Talk!Idle.topic \in Topics
  BY PartsAssumption DEF Talk!Idle
<1>2. call \in [Calls -> [at : {"idle", "begun", "waiting", "rendering"}, topic : Topics]]
  BY <1>1 DEF TalkInv, TalkTypes, ToolCalls
<1>3. record \in [there : BOOLEAN, status : Talk!Statuses, answered : 0..MaxQuestions, covered : SUBSET Topics,
                  draft : BOOLEAN, pending : BOOLEAN, retries : 0..1]
  BY QuestionsAssumption DEF TalkInv, TalkTypes, Records, RecordBound
<1>4. starting \in 0..MaxResumes + 1 /\ running \in 0..MaxResumes + 1
  BY BoundsAssumption DEF TurnsBound
<1> QED
  BY <1>2, <1>3, <1>4 DEF TurnsBound, TurnTyped, Talk!InterviewTypeOK

LEMMA InitTurnsBound == Talk!InterviewInit => TurnsBound /\ TurnTyped /\ RecordBound
<1> SUFFICES ASSUME Talk!InterviewInit PROVE TurnsBound /\ TurnTyped /\ RecordBound
  OBVIOUS
<1>1. turn = "none" /\ agent = FALSE /\ starting \in 0..1 /\ running = 0 /\ resumes = 0
  BY DEF Talk!InterviewInit
<1>2. record.answered = 0 /\ record.retries = 0
  BY DEF Talk!InterviewInit, Talk!NoRecord
<1>3. TurnsBound
  BY <1>1, BoundsAssumption DEF TurnsBound
<1>4. TurnTyped
  BY <1>1 DEF TurnTyped
<1>5. RecordBound
  BY <1>2, QuestionsAssumption DEF RecordBound
<1> QED
  BY <1>3, <1>4, <1>5

LEMMA NextTurnsBound == TurnsBound /\ [Talk!InterviewNext]_interviewVars => TurnsBound'
<1> SUFFICES ASSUME TurnsBound, [Talk!InterviewNext]_interviewVars PROVE TurnsBound'
  OBVIOUS
<1> USE BoundsAssumption DEF TurnsBound
<1>1. CASE Talk!Register
  <2>1. /\ UNCHANGED resumes /\ starting > 0 /\ starting' = starting - 1
        /\ running' = running \/ running' = running + 1
    BY <1>1 DEF Talk!Register
  <2> QED
    BY <2>1
<1>2. CASE Talk!StopTurn \/ Talk!FinishTurn \/ Talk!Remove \/ Talk!SendTurn
  BY <1>2 DEF Talk!StopTurn, Talk!FinishTurn, Talk!Remove, Talk!SendTurn
<1>3. CASE Talk!Attach \/ Talk!Resume
  <2>1. starting' \in {starting, starting + 1}
    BY <1>3 DEF Talk!Attach, Talk!Resume, Talk!Recover
  <2> QED
    BY <1>3, <2>1 DEF Talk!Attach, Talk!Resume
<1>4. ASSUME NEW c \in Calls,
             \/ \E t \in Topics : Talk!BeginQuestion(c, t)
             \/ Talk!PutQuestion(c) \/ \E b \in BOOLEAN : Talk!FinishQuestion(c, b) \/ Talk!StoreDraft(c, b)
             \/ Talk!Submit(c)
      PROVE  TurnsBound'
  BY <1>4 DEF Talk!BeginQuestion, Talk!PutQuestion, Talk!FinishQuestion, Talk!StoreDraft, Talk!Submit
<1>5. CASE UNCHANGED interviewVars
  BY <1>5 DEF interviewVars
<1> QED
  BY <1>1, <1>2, <1>3, <1>4, <1>5 DEF Talk!InterviewNext

LEMMA NextTurnTyped == TurnTyped /\ [Talk!InterviewNext]_interviewVars => TurnTyped'
<1> SUFFICES ASSUME TurnTyped, [Talk!InterviewNext]_interviewVars PROVE TurnTyped'
  OBVIOUS
<1>1. /\ turn' = turn \/ turn' \in {"none", "running", "stopped"}
      /\ agent' = agent \/ agent' = TRUE
  BY DEF Talk!InterviewNext, interviewVars, Talk!Register, Talk!StopTurn, Talk!FinishTurn, Talk!Remove,
     Talk!SendTurn, Talk!Attach, Talk!Resume, Talk!BeginQuestion, Talk!PutQuestion,
     Talk!FinishQuestion, Talk!StoreDraft, Talk!Submit
<1> QED
  BY <1>1 DEF TurnTyped

\* A record that is there is bounded by AnswersFit; one that is not is NoRecord or as it was.
LEMMA NextRecordBound ==
  TalkInv /\ TalkInv' /\ RecordBound /\ [Talk!InterviewNext]_interviewVars => RecordBound'
<1> SUFFICES ASSUME TalkInv, TalkInv', RecordBound, [Talk!InterviewNext]_interviewVars PROVE RecordBound'
  OBVIOUS
<1>1. record \in Records /\ record' \in Records /\ (record'.there => record'.answered <= MaxQuestions)
  BY DEF TalkInv, TalkTypes, AnswersFit
<1>2. /\ record'.retries \in {0, 1, record.retries}
      /\ record'.there \/ record' = record \/ record' = Talk!NoRecord
  <2>1. CASE Talk!Register \/ Talk!StopTurn \/ Talk!FinishTurn \/ Talk!SendTurn \/ UNCHANGED interviewVars
    BY <2>1 DEF Talk!Register, Talk!StopTurn, Talk!FinishTurn, Talk!SendTurn, interviewVars
  <2>2. CASE Talk!Remove
    BY <2>2 DEF Talk!Remove, Talk!NoRecord
  <2>3. CASE Talk!Attach \/ Talk!Resume
    BY <1>1, <2>3 DEF Talk!Attach, Talk!Resume, Talk!Recover, Records
  <2>4. ASSUME NEW c \in Calls, NEW t \in Topics, Talk!BeginQuestion(c, t)
        PROVE  record'.retries = record.retries /\ record'.there
    BY <1>1, <2>4 DEF Talk!BeginQuestion, Talk!MayAsk, Records
  <2>5. ASSUME NEW c \in Calls, NEW b \in BOOLEAN, record' = Talk!Finished(c, b)
        PROVE  record'.retries = record.retries /\ (record'.there \/ record' = record)
    BY <1>1, <2>5 DEF Talk!Finished, Records
  <2>6. ASSUME NEW c \in Calls, NEW b \in BOOLEAN, Talk!StoreDraft(c, b)
        PROVE  record'.retries = record.retries /\ (record'.there \/ record' = record)
    BY <1>1, <2>6 DEF Talk!StoreDraft, Records
  <2>7. ASSUME NEW c \in Calls,
               \/ \E t \in Topics : Talk!BeginQuestion(c, t)
               \/ Talk!PutQuestion(c) \/ \E b \in BOOLEAN : Talk!FinishQuestion(c, b) \/ Talk!StoreDraft(c, b)
               \/ Talk!Submit(c)
        PROVE  record'.retries = record.retries /\ (record'.there \/ record' = record)
    <3>1. CASE Talk!PutQuestion(c)
      BY <2>5, <3>1 DEF Talk!PutQuestion
    <3>2. CASE Talk!Submit(c)
      BY <3>2 DEF Talk!Submit
    <3>3. ASSUME NEW b \in BOOLEAN, Talk!FinishQuestion(c, b)
          PROVE  record'.retries = record.retries /\ (record'.there \/ record' = record)
      BY <2>5, <3>3 DEF Talk!FinishQuestion
    <3> QED
      BY <2>4, <2>6, <2>7, <3>1, <3>2, <3>3
  <2> QED
    BY <2>1, <2>2, <2>3, <2>7 DEF Talk!InterviewNext
<1>3. record' = Talk!NoRecord => record'.answered = 0
  BY DEF Talk!NoRecord
<1> QED
  BY <1>1, <1>2, <1>3, QuestionsAssumption DEF RecordBound, Records

-----------------------------------------------------------------------------
(* A goal's board *)
NoteRows == [there : BOOLEAN, pinned : BOOLEAN, long : BOOLEAN, read : BOOLEAN]
RequestStates ==
  [kind : Goals!Kinds, at : {"idle", "checked", "added", "read", "execute", "mark", "bad"},
   on : Notes \cup Metrics, long : BOOLEAN, row : [Metrics -> 0..1], saw : BOOLEAN]

BoardTyped(ns, is, ts, ac, gr, ms, tl, hs, n) ==
  /\ ns \in [Notes -> NoteRows]
  /\ is \in [Items -> Goals!Verdicts \cup {"none", "open"}] /\ ts \in [Items -> Goals!Verdicts \cup {"none"}]
  /\ ac \in {"none", "pending", "approved", "denied", "executed", "failed"} /\ gr \in BOOLEAN
  /\ ms \in [Metrics -> 0..1] /\ tl \in [Metrics -> 0..1] /\ n \in 0..MaxCalls
  /\ hs \in [Handlers -> RequestStates]

LEMMA BoardTypedIs ==
  /\ Goals!BoardTypeOK <=> BoardTyped(note, item, told, access, granted, metric, timeline, handler, calls)
  /\ Goals!BoardTypeOK' <=>
       BoardTyped(note', item', told', access', granted', metric', timeline', handler', calls')
BY DEF Goals!BoardTypeOK, BoardTyped, NoteRows, RequestStates

LEMMA IdleRequest == Goals!Idle \in RequestStates /\ Goals!Nothing \in NoteRows
BY PartsAssumption DEF Goals!Idle, Goals!Nothing, RequestStates, NoteRows, Goals!Kinds

LEMMA InitBoardTyped == Goals!BoardInit => Goals!BoardTypeOK
<1> SUFFICES ASSUME Goals!BoardInit
             PROVE  BoardTyped(note, item, told, access, granted, metric, timeline, handler, calls)
  BY BoardTypedIs
<1>1. note \in [Notes -> NoteRows] /\ handler \in [Handlers -> RequestStates]
  BY IdleRequest DEF Goals!BoardInit
<1>2. item \in [Items -> Goals!Verdicts \cup {"none", "open"}] /\ told \in [Items -> Goals!Verdicts \cup {"none"}]
  BY DEF Goals!BoardInit
<1>3. metric \in [Metrics -> 0..1] /\ timeline \in [Metrics -> 0..1]
  BY DEF Goals!BoardInit
<1>4. calls \in 0..MaxCalls
  BY BoundsAssumption DEF Goals!BoardInit
<1>5. access = "none" /\ granted \in BOOLEAN
  BY DEF Goals!BoardInit
<1> QED
  BY <1>1, <1>2, <1>3, <1>4, <1>5 DEF BoardTyped

LEMMA NextBoardTyped == Goals!BoardTypeOK /\ [Goals!BoardNext]_goalsVars => Goals!BoardTypeOK'
<1> DEFINE Typed == BoardTyped(note', item', told', access', granted', metric', timeline', handler', calls')
<1> SUFFICES ASSUME BoardTyped(note, item, told, access, granted, metric, timeline, handler, calls),
                    [Goals!BoardNext]_goalsVars
             PROVE  Typed
  BY BoardTypedIs
<1>1. /\ note \in [Notes -> NoteRows] /\ handler \in [Handlers -> RequestStates]
      /\ item \in [Items -> Goals!Verdicts \cup {"none", "open"}] /\ told \in [Items -> Goals!Verdicts \cup {"none"}]
      /\ access \in {"none", "pending", "approved", "denied", "executed", "failed"} /\ granted \in BOOLEAN
      /\ metric \in [Metrics -> 0..1] /\ timeline \in [Metrics -> 0..1] /\ calls \in 0..MaxCalls
  BY DEF BoardTyped
<1>2. ASSUME NEW h \in Handlers, Goals!Replied(h) PROVE handler' \in [Handlers -> RequestStates]
  BY <1>1, <1>2, IdleRequest DEF Goals!Replied
<1>3. ASSUME NEW h \in Handlers, Goals!Serve(h) PROVE calls' \in 0..MaxCalls
  BY <1>1, <1>3, BoundsAssumption DEF Goals!Serve
<1>4. ASSUME NEW h \in Handlers, NEW rec \in RequestStates, handler' = [handler EXCEPT ![h] = rec]
      PROVE  handler' \in [Handlers -> RequestStates]
  BY <1>1, <1>4
<1>5. ASSUME NEW h \in Handlers, NEW n \in Notes, NEW b \in BOOLEAN, Goals!CheckNewDirective(h, n, b)
      PROVE  Typed
  <2>1. [Goals!Idle EXCEPT !.at = "checked", !.on = n] \in RequestStates
    BY IdleRequest DEF RequestStates
  <2>2. handler' \in [Handlers -> RequestStates]
    BY <1>1, <1>4, <1>5, <2>1 DEF Goals!CheckNewDirective
  <2> QED
    BY <1>1, <1>3, <1>5, <2>2 DEF Goals!CheckNewDirective, BoardTyped
<1>6. ASSUME NEW h \in Handlers, NEW n \in Notes, NEW b \in BOOLEAN, Goals!AddFeedback(h, n, b)
      PROVE  Typed
  <2>1. handler' \in [Handlers -> RequestStates]
    BY <1>1, <1>6 DEF Goals!AddFeedback, Goals!Now, RequestStates, Goals!Kinds
  <2>2. [Goals!Nothing EXCEPT !.there = TRUE, !.long = b] \in NoteRows
    BY IdleRequest DEF NoteRows
  <2>3. note' \in [Notes -> NoteRows]
    BY <1>1, <1>6, <2>2 DEF Goals!AddFeedback
  <2>4. calls' \in 0..MaxCalls
    BY <1>1, <1>3, <1>6 DEF Goals!AddFeedback
  <2> QED
    BY <1>1, <1>6, <2>1, <2>3, <2>4 DEF Goals!AddFeedback, BoardTyped
<1>7. ASSUME NEW h \in Handlers, NEW n \in Notes, Goals!ReadForPin(h, n) PROVE Typed
  <2>1. /\ [Goals!Idle EXCEPT !.kind = "pin", !.at = "read", !.on = n] \in RequestStates
        /\ [handler[h] EXCEPT !.at = "bad"] \in RequestStates
    BY <1>1, IdleRequest DEF RequestStates, Goals!Kinds
  <2>2. handler' \in [Handlers -> RequestStates]
    <3>1. PICK rec \in RequestStates : handler' = [handler EXCEPT ![h] = rec]
      BY <1>1, <1>7, <2>1, IdleRequest DEF Goals!ReadForPin
    <3> QED
      BY <1>4, <3>1
  <2>3. calls' \in 0..MaxCalls
    BY <1>1, <1>3, <1>7 DEF Goals!ReadForPin
  <2> QED
    BY <1>1, <1>7, <2>2, <2>3 DEF Goals!ReadForPin, BoardTyped
<1>8. ASSUME NEW h \in Handlers, Goals!Refuse(h) \/ Goals!Acknowledge(h) \/ Goals!Cut(h) PROVE Typed
  BY <1>1, <1>2, <1>8 DEF Goals!Refuse, Goals!Acknowledge, Goals!Cut, BoardTyped
<1>9. ASSUME NEW h \in Handlers, Goals!Pin(h) PROVE Typed
  <2>1. note' \in [Notes -> NoteRows]
    BY <1>1, <1>9 DEF Goals!Pin, NoteRows
  <2> QED
    BY <1>1, <1>2, <1>9, <2>1 DEF Goals!Pin, BoardTyped
<1>10. ASSUME NEW h \in Handlers, NEW n \in Notes, Goals!Unpin(h, n) PROVE Typed
  <2>1. note' \in [Notes -> NoteRows]
    BY <1>1, <1>10 DEF Goals!Unpin, NoteRows
  <2> QED
    BY <1>1, <1>3, <1>10, <2>1 DEF Goals!Unpin, BoardTyped
<1>11. ASSUME NEW h \in Handlers, NEW n \in Notes, NEW b \in BOOLEAN, Goals!ReadForEdit(h, n, b)
       PROVE  Typed
  <2>1. [Goals!Idle EXCEPT !.kind = "edit", !.at = "read", !.on = n, !.long = b] \in RequestStates
    BY IdleRequest DEF RequestStates, Goals!Kinds
  <2>2. handler' \in [Handlers -> RequestStates]
    BY <1>4, <1>11, <2>1 DEF Goals!ReadForEdit
  <2> QED
    BY <1>1, <1>3, <1>11, <2>2 DEF Goals!ReadForEdit, BoardTyped
<1>12. ASSUME NEW h \in Handlers, Goals!Edit(h) PROVE Typed
  <2>1. handler[h].long \in BOOLEAN
    BY <1>1 DEF RequestStates
  <2>2. note' \in [Notes -> NoteRows]
    BY <1>1, <1>12, <2>1 DEF Goals!Edit, NoteRows
  <2> QED
    BY <1>1, <1>2, <1>12, <2>2 DEF Goals!Edit, BoardTyped
<1>13. ASSUME NEW h \in Handlers, NEW m \in Metrics, Goals!ReadMetrics(h, m) PROVE Typed
  <2>1. [Goals!Idle EXCEPT !.kind = "progress", !.at = "read", !.on = m, !.row = metric] \in RequestStates
    BY <1>1, IdleRequest DEF RequestStates, Goals!Kinds
  <2>2. handler' \in [Handlers -> RequestStates]
    BY <1>4, <1>13, <2>1 DEF Goals!ReadMetrics
  <2> QED
    BY <1>1, <1>3, <1>13, <2>2 DEF Goals!ReadMetrics, BoardTyped
<1>14. ASSUME NEW h \in Handlers, Goals!ReadGoal(h) PROVE Typed
  <2>1. [Goals!Idle EXCEPT !.kind = "touch", !.at = "read", !.row = metric] \in RequestStates
    BY <1>1, IdleRequest DEF RequestStates, Goals!Kinds
  <2>2. handler' \in [Handlers -> RequestStates]
    BY <1>4, <1>14, <2>1 DEF Goals!ReadGoal
  <2> QED
    BY <1>1, <1>3, <1>14, <2>2 DEF Goals!ReadGoal, BoardTyped
<1>15. ASSUME NEW h \in Handlers, Goals!RecordProgress(h) \/ Goals!UpdateGoal(h) PROVE Typed
  <2>1. handler[h].row \in [Metrics -> 0..1]
    BY <1>1 DEF RequestStates
  <2>2. metric' \in [Metrics -> 0..1] /\ timeline' \in [Metrics -> 0..1]
    BY <1>1, <1>15, <2>1 DEF Goals!RecordProgress, Goals!UpdateGoal
  <2>3. handler' \in [Handlers -> RequestStates]
    BY <1>2, <1>15 DEF Goals!RecordProgress, Goals!UpdateGoal
  <2> QED
    BY <1>1, <1>15, <2>2, <2>3 DEF Goals!RecordProgress, Goals!UpdateGoal, BoardTyped
<1>16. ASSUME NEW h \in Handlers, NEW i \in Items,
              Goals!RequestAction(h, i) \/ \E v \in Goals!Verdicts : Goals!Respond(h, i, v)
       PROVE  Typed
  <2>1. item' \in [Items -> Goals!Verdicts \cup {"none", "open"}]
    BY <1>1, <1>16 DEF Goals!RequestAction, Goals!Respond
  <2>2. calls' \in 0..MaxCalls /\ UNCHANGED <<note, told, access, granted, metric, timeline, handler>>
    BY <1>3, <1>16 DEF Goals!RequestAction, Goals!Respond
  <2> QED
    BY <1>1, <2>1, <2>2 DEF BoardTyped
<1>17. CASE Goals!Review
  <2>1. told' \in [Items -> Goals!Verdicts \cup {"none"}]
    BY <1>1, <1>17 DEF Goals!Review
  <2>2. note' \in [Notes -> NoteRows]
    BY <1>1, <1>17 DEF Goals!Review, NoteRows
  <2> QED
    BY <1>1, <1>17, <2>1, <2>2 DEF Goals!Review, BoardTyped
<1>18. ASSUME NEW h \in Handlers, Goals!CreateAccessRequest(h) PROVE Typed
  BY <1>1, <1>3, <1>18 DEF Goals!CreateAccessRequest, BoardTyped
<1>19. ASSUME NEW h \in Handlers, NEW b \in BOOLEAN, Goals!Decide(h, b) PROVE Typed
  <2>1. [Goals!Idle EXCEPT !.kind = "grant", !.at = "execute"] \in RequestStates
    BY IdleRequest DEF RequestStates, Goals!Kinds
  <2>2. handler' \in [Handlers -> RequestStates]
    BY <1>1, <1>4, <1>19, <2>1 DEF Goals!Decide
  <2> QED
    BY <1>1, <1>3, <1>19, <2>2 DEF Goals!Decide, BoardTyped
<1>20. ASSUME NEW h \in Handlers, NEW b \in BOOLEAN, Goals!Execute(h, b) PROVE Typed
  <2>1. handler' \in [Handlers -> RequestStates]
    <3>1. [handler[h] EXCEPT !.at = "mark", !.saw = b] \in RequestStates
      BY <1>1 DEF RequestStates
    <3>2. handler' = [handler EXCEPT ![h] = [handler[h] EXCEPT !.at = "mark", !.saw = b]]
      BY <1>1, <1>20 DEF Goals!Execute
    <3> QED
      BY <1>4, <3>1, <3>2
  <2>2. granted' \in BOOLEAN
    BY <1>1, <1>20 DEF Goals!Execute
  <2> QED
    BY <1>1, <1>20, <2>1, <2>2 DEF Goals!Execute, BoardTyped
<1>21. ASSUME NEW h \in Handlers, Goals!MarkExecuted(h) PROVE Typed
  BY <1>1, <1>2, <1>21 DEF Goals!MarkExecuted, BoardTyped
<1>22. CASE UNCHANGED goalsVars
  BY <1>1, <1>22 DEF goalsVars, BoardTyped
<1> HIDE DEF Typed
<1>23. CASE Goals!BoardNext
  BY <1>5, <1>6, <1>7, <1>8, <1>9, <1>10, <1>11, <1>12, <1>13, <1>14, <1>15, <1>16, <1>17, <1>18, <1>19,
     <1>20, <1>21, <1>23 DEF Goals!BoardNext
<1> QED
  BY <1>22, <1>23

-----------------------------------------------------------------------------
\* Wherever the daemon dies or a statement fails: a task's session is gone only once it is
\* archived, a session counts as dreamed only once a memory that holds it is written, and
\* it goes into one memory (core/projects.go:687-760, core/dream.go:177-330).
THEOREM NothingLost == Spec => []NothingIsLost
<1>1. Init => ArchiveInv /\ FoldInv
  BY InitArchiveInv, InitFoldInv DEF Init
<1>2. ArchiveInv /\ FoldInv /\ [Next]_vars => (ArchiveInv /\ FoldInv)'
  BY StepsOfOne, NextArchiveInv, NextFoldInv
<1>3. ArchiveInv /\ FoldInv => NothingIsLost
  BY DEF ArchiveInv, FoldInv, NothingIsLost
<1> QED
  BY <1>1, <1>2, <1>3, PTL DEF Spec

\* However calls overlap: interview questions, answered topics and the draft stay in step,
\* and a verdict a goal's run was told, a denial and a recorded grant are what the store
\* says (server/interview.go:117-182, store/goal_action_items.go:82-84,
\* store/access_requests.go:87-117).
THEOREM AgreementsHold == Spec => []AgreementsStand
<1>1. Init => TalkInv /\ DecisionInv
  BY InitTalkInv, InitDecisionInv, QuestionsAssumption DEF Init
<1>2. TalkInv /\ DecisionInv /\ [Next]_vars => (TalkInv /\ DecisionInv)'
  BY StepsOfOne, NextTalkInv, NextDecisionInv, TopicsAssumption, QuestionsAssumption
<1>3. TalkInv /\ DecisionInv => AgreementsStand
  BY TalkInvSuffices DEF DecisionInv, AgreementsStand
<1> QED
  BY <1>1, <1>2, <1>3, PTL DEF Spec

\* The variables of the component that runs have their types: however calls overlap and
\* wherever the daemon dies, what a handler read and still has to write is a row of its
\* table, and no counter passes its bound (schedule/scheduler.go:181-560,
\* core/projects.go:531-760, core/dream.go:147-330, server/interview.go:36-182).
THEOREM TypeCorrect == Spec => []TypeOK
<1> DEFINE Invs == FoldInv /\ TalkInv
<1> DEFINE Typed == /\ Cron!SchedTypeOK /\ Board!TaskTypeOK /\ NightBounds
                    /\ TurnsBound /\ TurnTyped /\ RecordBound /\ Goals!BoardTypeOK
<1>1. Init => Invs /\ Typed
  BY InitFoldInv, InitTalkInv, QuestionsAssumption, InitCronTyped, InitTaskTyped, InitNightTyped,
     InitTurnsBound, InitBoardTyped DEF Init
<1>2. Invs /\ [Next]_vars => Invs'
  BY StepsOfOne, NextFoldInv, NextTalkInv, TopicsAssumption, QuestionsAssumption
<1>3. Invs /\ Typed /\ [Next]_vars => Typed'
  BY <1>2, StepsOfOne, NextCronTyped, NextTaskTyped, NextNightTyped, NextTurnsBound, NextTurnTyped,
     NextRecordBound, NextBoardTyped
<1>4. Invs /\ Typed => TypeOK
  BY NightTyped, TalkTyped DEF TypeOK
<1> QED
  BY <1>1, <1>2, <1>3, <1>4, PTL DEF Spec
=============================================================================
