------------------------- MODULE GoalLifecycleProofs -------------------------
(***************************************************************************)
(* Proofs about GoalLifecycle, for any workers, requests and bounds.  A    *)
(* row that was read may be written much later, so what holds of the goal  *)
(* has to hold of every row in flight as well (RowsEarned).  A run is      *)
(* running only while its owner waits for its turn (RunningAtWork), so a   *)
(* session is never exchanged under a running run; and a block of the rate *)
(* limit that started a retry stays resolved (RetriesResolved).            *)
(***************************************************************************)
EXTENDS GoalLifecycle, TLAPS

Earned(row) == row.status \in {"review", "done"} => committed # {}

\* The goal and every row somebody still holds.
RowsEarned ==
    /\ Earned(goal)
    /\ \A w \in Workers : Earned(worker[w].row) /\ Earned(tool[w].row)
    /\ \A c \in Calls : Earned(call[c].row)
    /\ \A q \in Repairers : Earned(repair[q].row)

LastCommitted == memory.last \in Workers => memory.last \in committed

CommitsInBounds == \A w \in Workers : tool[w].at = "commit" => tool[w].revision < MaxRevision

RunningAtWork ==
    /\ \A w \in Workers : run[w] = "running" => worker[w].at = "running"
    /\ \A q \in Repairers : run[q] = "running" => repair[q].at = "running"

IdleUncaused == \A w \in Workers : worker[w].at = "idle" => worker[w].cause = None

ResolvesABlock ==
    \A c \in Calls :
        /\ call[c].op = "resolve" => call[c].run \in Workers
        /\ call[c].at = "resolving" => call[c].op = "resolve"

RetriesResolved ==
    \A w \in Workers : worker[w].cause \in Workers => limit[worker[w].cause] = "resolved"

USE PlannerAssumption, CallOpsAssumption, RunnersDisjoint, NamesFree, BoundsAssumption

-----------------------------------------------------------------------------
\* The rows and records an action builds are well typed.
LEMMA RowTypes ==
  ASSUME TypeOK
  PROVE  /\ NoRow \in Rows
         /\ NoTool \in ToolStates
         /\ \A every \in BOOLEAN : NextReviewFrom(every) \in 0 .. MaxTime + 1
         /\ [goal EXCEPT !.status = "paused", !.next = NoReview] \in Rows
         /\ [goal EXCEPT !.status = "review", !.next = NoReview] \in Rows
         /\ \A status \in Statuses, next \in 0 .. MaxTime + 1 :
              [goal EXCEPT !.status = status, !.next = next] \in Rows
         /\ \A next \in 0 .. MaxTime + 1 :
              [goal EXCEPT !.every = ~ @, !.next = next] \in Rows
<1>1. NoRow \in Rows
  BY DEF NoRow, Rows, Statuses, NoReview, None
<1>2. NoTool \in ToolStates
  <2>1. {} \in SUBSET Workers /\ 0 \in 0 .. MaxRevision
    OBVIOUS
  <2> QED
    BY <1>1, <2>1 DEF NoTool, ToolStates, None
<1>3. \A every \in BOOLEAN : NextReviewFrom(every) \in 0 .. MaxTime + 1
  BY DEF TypeOK, NextReviewFrom, NoReview
<1>4. goal \in Rows
  BY DEF TypeOK
<1>5. \A status \in Statuses, next \in 0 .. MaxTime + 1 :
        [goal EXCEPT !.status = status, !.next = next] \in Rows
  BY <1>4 DEF Rows
<1>6. \A next \in 0 .. MaxTime + 1 : [goal EXCEPT !.every = ~ @, !.next = next] \in Rows
  BY <1>4 DEF Rows
<1>7. "paused" \in Statuses /\ "review" \in Statuses /\ NoReview \in 0 .. MaxTime + 1
  BY DEF Statuses, NoReview
<1> QED
  BY <1>1, <1>2, <1>3, <1>5, <1>6, <1>7

\* Starting and planning or reviewing keep the types.
LEMMA WorkerTyped ==
  ASSUME TypeOK, NEW w \in Workers, ListDue(w) \/ ReviewNow(w) \/ WorkerStep(w)
  PROVE  TypeOK'
<1> USE DEF TypeOK, rowVars, runVars, agentVars, apiVars, Move
<1>0. /\ worker[w] \in WorkerStates
      /\ NoRow \in Rows
      /\ worker[w].row \in Rows
      /\ goal.next \in 0 .. MaxTime + 1
      /\ \A every \in BOOLEAN : NextReviewFrom(every) \in 0 .. MaxTime + 1
  BY RowTypes DEF WorkerStates, Rows
<1>1. CASE ListDue(w)
  <2>1. worker' = [worker EXCEPT ![w] = [worker[w] EXCEPT !.at = "listed", !.cause = "scheduler"]]
    BY <1>1 DEF ListDue
  <2> QED
    BY <1>0, <1>1, <2>1 DEF ListDue, WorkerStates, WorkerPlaces
<1>2. CASE ReviewNow(w)
  BY <1>0, <1>2 DEF ReviewNow, WorkerStates, WorkerPlaces
<1>3. CASE AdvanceRead(w)
  BY <1>0, <1>3 DEF AdvanceRead, WorkerStates, WorkerPlaces
<1>4. CASE AdvanceWrite(w)
  <2>1. goal' \in Rows
    BY <1>0, <1>4, RowTypes DEF AdvanceWrite, Rows
  <2> QED
    BY <1>0, <1>4, <2>1 DEF AdvanceWrite, WorkerStates, WorkerPlaces
<1>5. CASE LoadPlanning(w)
  BY <1>0, <1>5 DEF LoadPlanning, WorkerStates, WorkerPlaces
<1>6. CASE LoadReview(w)
  <2>1. PICK place \in {"loaded", "validating", "blocking"} :
          worker' = [worker EXCEPT ![w].at = place, ![w].row = goal]
    BY <1>6, Zenon DEF LoadReview
  <2> QED
    BY <1>0, <1>6, <2>1 DEF LoadReview, WorkerStates, WorkerPlaces
<1>7. CASE RefuseReview(w)
  BY <1>0, <1>7 DEF RefuseReview, WorkerStates, WorkerPlaces
<1>8. CASE SetValidating(w)
  <2>1. memory' \in Memories
    BY <1>8 DEF SetValidating, Memories
  <2>2. PICK place \in {"loaded", "blocking"} : worker' = [worker EXCEPT ![w].at = place]
    BY <1>8 DEF SetValidating
  <2>3. worker' \in [Workers -> WorkerStates]
    BY <1>0, <2>2 DEF WorkerStates, WorkerPlaces
  <2> QED
    BY <1>8, <2>1, <2>3 DEF SetValidating
<1>9. CASE EnsureLead(w)
  <2>1. goal' \in Rows /\ session' \in [Runners -> Runners \union {None}]
    BY <1>0, <1>9 DEF EnsureLead, Rows, Runners
  <2> QED
    BY <1>0, <1>9, <2>1 DEF EnsureLead, WorkerStates, WorkerPlaces
<1>10. CASE BeginRun(w)
  <2>1. run' \in [Runners -> TurnResults \union {None, "running"}]
    BY <1>10 DEF BeginRun, Runners
  <2> QED
    BY <1>0, <1>10, <2>1 DEF BeginRun, WorkerStates, WorkerPlaces
<1>11. CASE CheckMemory(w)
  BY <1>0, <1>11 DEF CheckMemory, WorkerStates, WorkerPlaces
<1>12. CASE BlockMemory(w)
  <2>1. [goal EXCEPT !.status = "paused", !.next = NoReview] \in Rows
    BY RowTypes
  <2>2. memory' \in Memories
    BY <1>12 DEF BlockMemory, PauseForMemory, Memories
  <2> QED
    BY <1>0, <1>12, <2>1, <2>2 DEF BlockMemory, PauseForMemory, WorkerStates, WorkerPlaces
<1>13. CASE CreateLimit(w)
  BY <1>0, <1>13 DEF CreateLimit, WorkerStates, WorkerPlaces
<1>14. CASE \E status \in TurnResults : TurnEnds(w, status)
  <2>1. PICK status \in TurnResults : TurnEnds(w, status)
    BY <1>14
  <2>2. AfterTurn(status) \in WorkerPlaces
    BY DEF AfterTurn, WorkerPlaces
  <2>3. worker' \in [Workers -> WorkerStates]
    BY <1>0, <2>1, <2>2 DEF TurnEnds, WorkerStates
  <2> QED
    BY <2>1, <2>3 DEF TurnEnds, Runners
<1> QED
  BY <1>1, <1>2, <1>3, <1>4, <1>5, <1>6, <1>7, <1>8, <1>9, <1>10, <1>11, <1>12, <1>13,
     <1>14 DEF WorkerStep

\* The agent's tool calls keep the types.
LEMMA AgentTyped ==
  ASSUME TypeOK, CommitsInBounds, NEW w \in Workers, AgentStep(w)
  PROVE  TypeOK'
<1> USE DEF TypeOK, rowVars, runVars, agentVars, apiVars
<1>0. /\ tool[w] \in ToolStates
      /\ tool[w].row \in Rows
      /\ NoTool \in ToolStates
      /\ memory.revision \in 0 .. MaxRevision
      /\ memory.doc \subseteq Workers
  <2>1. tool[w] \in ToolStates
    OBVIOUS
  <2>2. NoTool \in ToolStates
    BY RowTypes
  <2>3. memory.revision \in 0 .. MaxRevision /\ memory.doc \subseteq Workers
    BY DEF Memories
  <2> QED
    BY <2>1, <2>2, <2>3 DEF ToolStates
<1>1. CASE CommitRead(w)
  <2>1. tool' = [tool EXCEPT ![w] = [tool[w] EXCEPT !.at = "commit",
                    !.revision = memory.revision, !.doc = memory.doc \union {w}]]
    BY <1>1 DEF CommitRead
  <2> QED
    BY <1>0, <1>1, <2>1 DEF CommitRead, ToolStates
<1>2. CASE CommitWrite(w)
  <2>1. tool' \in [Workers -> ToolStates]
    BY <1>0, <1>2 DEF CommitWrite
  <2>2. CASE tool[w].revision = memory.revision
    <3>1. memory' \in Memories /\ committed' \subseteq Workers
      BY <1>0, <1>2, <2>2 DEF CommitWrite, Publish, CommitsInBounds, Memories, ToolStates
    <3> QED
      BY <1>2, <2>1, <3>1 DEF CommitWrite
  <2>3. CASE tool[w].revision # memory.revision
    BY <1>2, <2>1, <2>3 DEF CommitWrite
  <2> QED
    BY <2>2, <2>3
<1>3. CASE ProposeRead(w)
  <2>1. [goal EXCEPT !.status = "review", !.next = NoReview] \in Rows
    BY RowTypes
  <2>2. tool' = [tool EXCEPT ![w] = [tool[w] EXCEPT !.at = "propose",
                    !.row = [goal EXCEPT !.status = "review", !.next = NoReview]]]
    BY <1>3 DEF ProposeRead
  <2> QED
    BY <1>0, <1>3, <2>1, <2>2 DEF ProposeRead, ToolStates
<1>4. CASE ProposeWrite(w)
  <2>1. [NoTool EXCEPT !.at = "clearing"] \in ToolStates
    BY <1>0 DEF ToolStates
  <2> QED
    BY <1>0, <1>4, <2>1 DEF ProposeWrite
<1>5. CASE ProposeClear(w)
  BY <1>0, <1>5 DEF ProposeClear
<1>6. CASE RecordNextStep(w)
  BY <1>6 DEF RecordNextStep
<1> QED
  BY <1>1, <1>2, <1>3, <1>4, <1>5, <1>6 DEF AgentStep

\* The requests of the API keep the types.
LEMMA CallTyped ==
  ASSUME TypeOK, ResolvesABlock, NEW c \in Calls, CallStep(c)
  PROVE  TypeOK'
<1> USE DEF TypeOK, rowVars, runVars, agentVars, apiVars
<1>0. /\ call[c] \in CallStates
      /\ IdleCall \in CallStates
      /\ NoRow \in Rows
  BY RowTypes DEF CallStates, IdleCall, None
<1>1. ASSUME NEW op \in CallOps, ReadForTransition(c, op)
      PROVE  TypeOK'
  <2>1. [goal EXCEPT !.status = op, !.next = NextReviewFrom(op = "active" /\ goal.every)] \in Rows
    <3>1. NextReviewFrom(op = "active" /\ goal.every) \in 0 .. MaxTime + 1
      BY RowTypes
    <3> QED
      BY <1>1, <3>1, RowTypes DEF ReadForTransition
  <2> DEFINE row == [goal EXCEPT !.status = op, !.next = NextReviewFrom(op = "active" /\ goal.every)]
  <2> HIDE DEF row
  <2>2. call' = [call EXCEPT ![c].at = "writing", ![c].op = op, ![c].row = row]
    BY <1>1 DEF ReadForTransition, Hold, row
  <2>3. row \in Rows
    BY <2>1 DEF row
  <2>4. call' \in [Calls -> CallStates]
    BY <1>0, <2>2, <2>3 DEF CallStates
  <2> QED
    BY <1>1, <2>4 DEF ReadForTransition
<1>2. ASSUME NEW op \in CallOps, ReadForPatch(c, op)
      PROVE  TypeOK'
  <2>1. Patched(op) \in Rows
    <3>1. NextReviewFrom(~ goal.every) \in 0 .. MaxTime + 1 /\ goal.next \in 0 .. MaxTime + 1
      BY RowTypes DEF Rows
    <3>2. [goal EXCEPT !.lead = None] \in Rows
      BY DEF Rows
    <3>3. CASE op = "cadence"
      <4> DEFINE next == IF goal.status = "active" THEN NextReviewFrom(~ goal.every)
                         ELSE goal.next
      <4>1. next \in 0 .. MaxTime + 1
        BY <3>1
      <4>2. Patched(op) = [goal EXCEPT !.every = ~ @, !.next = next]
        BY <3>3 DEF Patched
      <4> HIDE DEF next
      <4> QED
        <5>1. [goal EXCEPT !.every = ~ @, !.next = next] \in Rows
          BY <4>1, RowTypes
        <5> QED
          BY <4>2, <5>1
    <3> QED
      BY <1>2, <3>2, <3>3 DEF ReadForPatch, Patches, Patched
  <2> DEFINE row == Patched(op)
  <2> HIDE DEF row
  <2>2. call' = [call EXCEPT ![c].at = "writing", ![c].op = op, ![c].row = row]
    BY <1>2 DEF ReadForPatch, Hold, row
  <2>3. row \in Rows
    BY <2>1 DEF row
  <2>4. call' \in [Calls -> CallStates]
    BY <1>0, <2>2, <2>3 DEF CallStates
  <2> QED
    BY <1>2, <2>4 DEF ReadForPatch
<1>3. ASSUME "resolve" \in CallOps, NEW w \in Workers, ReadForResolve(c, w)
      PROVE  TypeOK'
  BY <1>3 DEF ReadForResolve, CallStates
<1>4. CASE Write(c)
  <2>1. goal' \in Rows
    BY <1>0, <1>4 DEF Write, CallStates
  <2>2. call' \in [Calls -> CallStates]
    <3>1. CASE call' = [call EXCEPT ![c] = IdleCall]
      BY <1>0, <3>1
    <3>2. CASE call' = [call EXCEPT ![c].at = AfterWrite(call[c].op), ![c].row = NoRow]
      <4>1. AfterWrite(call[c].op) \in {"idle", "closing", "resolving"}
        BY DEF AfterWrite
      <4> QED
        BY <1>0, <3>2, <4>1 DEF CallStates
    <3> QED
      BY <1>4, <3>1, <3>2 DEF Write
  <2> QED
    BY <1>4, <2>1, <2>2 DEF Write
<1>5. CASE ClearNextStep(c)
  BY <1>0, <1>5 DEF ClearNextStep
<1>6. CASE ResolveLimit(c)
  <2>1. worker' \in [Workers -> WorkerStates]
    <3>1. CASE UNCHANGED worker
      BY <3>1
    <3>2. CASE Retry(call[c].run) /\ limit[call[c].run] = "pending"
      <4>1. PICK v \in Workers :
               \/ UNCHANGED worker
               \/ worker' = [worker EXCEPT ![v].at = "starting",
                     ![v].kind = worker[call[c].run].kind, ![v].cause = call[c].run]
        BY <3>2, PlannerAssumption DEF Retry
      <4>2. call[c].run \in Workers
        BY <1>6 DEF ResolveLimit, ResolvesABlock
      <4> QED
        BY <4>1, <4>2 DEF WorkerStates, WorkerPlaces
    <3> QED
      BY <1>6, <3>1, <3>2 DEF ResolveLimit
  <2> QED
    BY <1>0, <1>6, <2>1 DEF ResolveLimit
<1> QED
  BY <1>1, <1>2, <1>3, <1>4, <1>5, <1>6 DEF CallStep

\* A repair keeps the types.
LEMMA RepairTyped ==
  ASSUME TypeOK, NEW q \in Repairers, RepairStep(q)
  PROVE  TypeOK'
<1> USE DEF TypeOK, rowVars, runVars, agentVars, RepairTo
<1>0. /\ repair[q] \in RepairStates
      /\ NoRow \in Rows
      /\ memory.doc \subseteq Workers
      /\ memory.revision \in 0 .. MaxRevision
  BY RowTypes DEF Memories
<1>1. CASE RepairStart(q)
  <2>1. PICK row \in Rows, place \in {"loading", "pausing"} :
          repair' = [repair EXCEPT ![q].at = place, ![q].row = row]
    <3>1. CASE goal.status = "paused"
      BY <1>1, <3>1 DEF RepairStart
    <3>2. CASE goal.status # "paused"
      BY <1>1, <3>2, RowTypes DEF RepairStart
    <3> QED
      BY <3>1, <3>2
  <2>2. [repair[q] EXCEPT !.at = place, !.row = row] \in RepairStates
    BY <1>0 DEF RepairStates, RepairPlaces
  <2>3. repair' = [repair EXCEPT ![q] = [repair[q] EXCEPT !.at = place, !.row = row]]
    BY <2>1
  <2>4. repair' \in [Repairers -> RepairStates]
    BY <2>2, <2>3
  <2> QED
    BY <1>1, <2>4 DEF RepairStart
<1>2. CASE RepairPause(q)
  <2>1. [goal EXCEPT !.status = "paused", !.next = NoReview] \in Rows
    BY RowTypes
  <2>2. memory' \in Memories
    BY <1>2 DEF RepairPause, PauseForMemory, Memories
  <2>3. repair' \in [Repairers -> RepairStates]
    BY <1>0, <1>2 DEF RepairPause, RepairStates, RepairPlaces
  <2>4. goal' \in Rows
    BY <1>2, <2>1 DEF RepairPause, PauseForMemory
  <2>5. UNCHANGED <<nextStep, now, run, session, limit, worker, tool, committed, call, restarts>>
    BY <1>2 DEF RepairPause
  <2> QED
    BY <2>2, <2>3, <2>4, <2>5
<1>3. CASE RepairLoad(q)
  BY <1>0, <1>3 DEF RepairLoad, RepairStates, RepairPlaces
<1>4. CASE RepairLead(q)
  <2>1. goal' \in Rows /\ session' \in [Runners -> Runners \union {None}]
    BY <1>0, <1>4 DEF RepairLead, RepairStates, Rows, Runners
  <2> QED
    BY <1>0, <1>4, <2>1 DEF RepairLead, RepairStates, RepairPlaces
<1>5. CASE RepairAsk(q)
  <2>1. run' \in [Runners -> TurnResults \union {None, "running"}]
    BY <1>5 DEF RepairAsk, Runners
  <2> QED
    BY <1>0, <1>5, <2>1 DEF RepairAsk, RepairStates, RepairPlaces
<1>6. CASE RepairBase(q)
  BY <1>0, <1>6 DEF RepairBase, RepairStates, RepairPlaces
<1>7. CASE RepairCommit(q)
  <2>1. repair' \in [Repairers -> RepairStates]
    BY <1>0, <1>7 DEF RepairCommit, RepairStates, RepairPlaces
  <2>2. memory' \in Memories
    BY <1>0, <1>7 DEF RepairCommit, Publish, Memories, RepairStates
  <2> QED
    BY <1>7, <2>1, <2>2 DEF RepairCommit
<1>8. CASE \E status \in TurnResults : RepairAnswered(q, status)
  <2>1. run' \in [Runners -> TurnResults \union {None, "running"}]
    BY <1>8 DEF RepairAnswered, Runners
  <2> QED
    BY <1>0, <1>8, <2>1 DEF RepairAnswered, RepairStates, RepairPlaces
<1> QED
  BY <1>1, <1>2, <1>3, <1>4, <1>5, <1>6, <1>7, <1>8 DEF RepairStep

\* A restart keeps the types.
LEMMA RestartTyped ==
  ASSUME TypeOK, Restart
  PROVE  TypeOK'
<1>0. /\ NoRow \in Rows
      /\ {} \in SUBSET Workers
      /\ 0 \in 0 .. MaxRevision
      /\ restarts \in 0 .. MaxRestarts
      /\ restarts < MaxRestarts
      /\ restarts' = restarts + 1
  <2>1. {} \in SUBSET Workers /\ 0 \in 0 .. MaxRevision
    OBVIOUS
  <2>2. restarts \in 0 .. MaxRestarts /\ restarts < MaxRestarts /\ restarts' = restarts + 1
    BY DEF TypeOK, Restart
  <2> QED
    BY <2>1, <2>2, RowTypes
<1>7. restarts' \in 0 .. MaxRestarts
  BY <1>0
<1> USE DEF TypeOK, Restart
<1>1. run' \in [Runners -> TurnResults \union {None, "running"}]
  BY DEF InterruptRunningRuns, TurnResults
<1>2. limit' \in [Workers -> {None, "pending", "resolved"}]
  BY DEF ReconcileLimits
<1>3. worker' \in [Workers -> WorkerStates]
  <2>1. \A state \in WorkerStates : [state EXCEPT !.at = "over", !.row = NoRow] \in WorkerStates
    BY <1>0 DEF WorkerStates, WorkerPlaces
  <2> QED
    BY <2>1
<1>4. repair' \in [Repairers -> RepairStates]
  <2>1. [IdleRepair EXCEPT !.at = "over"] \in RepairStates
    BY <1>0 DEF IdleRepair, RepairStates, RepairPlaces
  <2> QED
    BY <2>1
<1>5. tool' \in [Workers -> ToolStates]
  BY RowTypes
<1>6. call' \in [Calls -> CallStates]
  BY RowTypes DEF IdleCall, CallStates, None
<1>8. /\ goal' \in Rows /\ nextStep' \in BOOLEAN /\ memory' \in Memories
      /\ now' \in 0 .. MaxTime /\ committed' \subseteq Workers
      /\ session' \in [Runners -> Runners \union {None}]
  BY DEF rowVars
<1> QED
  BY <1>1, <1>2, <1>3, <1>4, <1>5, <1>6, <1>7, <1>8

\* Every step keeps the types.
LEMMA NextTyped ==
  ASSUME TypeOK, CommitsInBounds, ResolvesABlock, [Next]_vars
  PROVE  TypeOK'
<1>1. CASE Tick
  BY <1>1 DEF Tick, TypeOK, rowVars, runVars, agentVars, apiVars
<1>2. CASE UNCHANGED vars
  BY <1>2 DEF vars, TypeOK
<1> QED
  BY <1>1, <1>2, WorkerTyped, AgentTyped, CallTyped, RepairTyped, RestartTyped DEF Next

-----------------------------------------------------------------------------
(***************************************************************************)
(* The bookkeeping of those who are in flight.                             *)
(***************************************************************************)
\* What a request resolves is a block it read.
LEMMA ResolvesStep ==
  ASSUME TypeOK, ResolvesABlock, [Next]_vars
  PROVE  ResolvesABlock'
<1> USE DEF ResolvesABlock
<1>1. ASSUME NEW c \in Calls, CallStep(c)
      PROVE  ResolvesABlock'
  <2> USE DEF TypeOK, CallStates, IdleCall, None
  <2>1. ASSUME NEW op \in CallOps, ReadForTransition(c, op) \/ ReadForPatch(c, op)
        PROVE  ResolvesABlock'
    <3>1. op # "resolve"
      BY <2>1 DEF ReadForTransition, ReadForPatch, Statuses, Patches
    <3>2. call'[c].at = "writing" /\ call'[c].op = op
      BY <2>1 DEF ReadForTransition, ReadForPatch, Hold
    <3>3. \A d \in Calls : d # c => call'[d] = call[d]
      BY <2>1 DEF ReadForTransition, ReadForPatch, Hold
    <3> QED
      BY <3>1, <3>2, <3>3
  <2>2. ASSUME NEW w \in Workers, ReadForResolve(c, w)
        PROVE  ResolvesABlock'
    BY <2>2 DEF ReadForResolve
  <2>3. CASE Write(c)
    <3>1. \A d \in Calls : d # c => call'[d] = call[d]
      BY <2>3 DEF Write
    <3>2. \/ call'[c] = IdleCall
          \/ /\ call'[c].op = call[c].op /\ call'[c].run = call[c].run
             /\ call'[c].at = AfterWrite(call[c].op)
      BY <2>3 DEF Write
    <3> QED
      BY <3>1, <3>2 DEF AfterWrite
  <2>4. CASE ClearNextStep(c) \/ ResolveLimit(c)
    BY <2>4 DEF ClearNextStep, ResolveLimit
  <2> QED
    BY <1>1, <2>1, <2>2, <2>3, <2>4 DEF CallStep
<1>2. CASE Restart
  BY <1>2 DEF Restart, IdleCall, None
<1>3. CASE UNCHANGED call
  BY <1>3
<1>4. ASSUME NEW w \in Workers, ListDue(w) \/ ReviewNow(w) \/ WorkerStep(w) \/ AgentStep(w)
      PROVE  UNCHANGED call
  BY <1>4 DEF ListDue, ReviewNow, WorkerStep, AgentStep, AdvanceRead, AdvanceWrite,
     LoadPlanning, LoadReview, RefuseReview, SetValidating, EnsureLead, BeginRun, TurnEnds,
     CheckMemory, BlockMemory, CreateLimit, CommitRead, CommitWrite, ProposeRead,
     ProposeWrite, ProposeClear, RecordNextStep, apiVars
<1>5. ASSUME NEW q \in Repairers, RepairStep(q)
      PROVE  UNCHANGED call
  BY <1>5 DEF RepairStep, RepairStart, RepairPause, RepairLoad, RepairLead, RepairAsk,
     RepairAnswered, RepairBase, RepairCommit
<1> QED
  BY <1>1, <1>2, <1>3, <1>4, <1>5 DEF Next, Tick, vars, apiVars

\* What is left alone by those who plan, review, ask or repair.
LEMMA AgentFrame ==
  ASSUME [Next]_vars, ~ Restart, \A w \in Workers : ~ AgentStep(w)
  PROVE  UNCHANGED <<tool, committed>>
<1>1. ASSUME NEW w \in Workers, ListDue(w) \/ ReviewNow(w) \/ WorkerStep(w)
      PROVE  UNCHANGED <<tool, committed>>
  BY <1>1 DEF ListDue, ReviewNow, WorkerStep, AdvanceRead, AdvanceWrite, LoadPlanning,
     LoadReview, RefuseReview, SetValidating, EnsureLead, BeginRun, TurnEnds, CheckMemory,
     BlockMemory, CreateLimit, agentVars
<1>2. ASSUME NEW c \in Calls, CallStep(c)
      PROVE  UNCHANGED <<tool, committed>>
  BY <1>2 DEF CallStep, ReadForTransition, ReadForPatch, ReadForResolve, Write,
     ClearNextStep, ResolveLimit, agentVars
<1>3. ASSUME NEW q \in Repairers, RepairStep(q)
      PROVE  UNCHANGED <<tool, committed>>
  BY <1>3 DEF RepairStep, RepairStart, RepairPause, RepairLoad, RepairLead, RepairAsk,
     RepairAnswered, RepairBase, RepairCommit, agentVars
<1> QED
  BY <1>1, <1>2, <1>3 DEF Next, Tick, vars, agentVars

\* Only a commit, or that of a repair, changes what the memory carries.
LEMMA MemoryFrame ==
  ASSUME [Next]_vars, TypeOK,
         \A w \in Workers : ~ CommitWrite(w), \A q \in Repairers : ~ RepairCommit(q)
  PROVE  /\ memory'.last = memory.last
         /\ memory'.revision = memory.revision
         /\ memory'.doc = memory.doc
<1> DEFINE Carries == /\ memory'.last = memory.last
                      /\ memory'.revision = memory.revision
                      /\ memory'.doc = memory.doc
<1>0. memory \in Memories
  BY DEF TypeOK
<1>1. ASSUME NEW w \in Workers, ListDue(w) \/ ReviewNow(w) \/ WorkerStep(w)
      PROVE  Carries
  <2>1. CASE SetValidating(w) \/ BlockMemory(w)
    BY <1>0, <2>1 DEF SetValidating, BlockMemory, PauseForMemory, Memories
  <2>2. CASE ~ (SetValidating(w) \/ BlockMemory(w))
    BY <1>1, <2>2 DEF ListDue, ReviewNow, WorkerStep, AdvanceRead, AdvanceWrite,
       LoadPlanning, LoadReview, RefuseReview, EnsureLead, BeginRun, TurnEnds, CheckMemory,
       CreateLimit
  <2> QED
    BY <2>1, <2>2
<1>2. ASSUME NEW w \in Workers, AgentStep(w)
      PROVE  Carries
  BY <1>2 DEF AgentStep, CommitRead, ProposeRead, ProposeWrite, ProposeClear, RecordNextStep
<1>3. ASSUME NEW c \in Calls, CallStep(c)
      PROVE  Carries
  BY <1>3 DEF CallStep, ReadForTransition, ReadForPatch, ReadForResolve, Write,
     ClearNextStep, ResolveLimit
<1>4. ASSUME NEW q \in Repairers, RepairStep(q)
      PROVE  Carries
  <2>1. CASE RepairPause(q)
    BY <1>0, <2>1 DEF RepairPause, PauseForMemory, Memories
  <2>2. CASE ~ RepairPause(q)
    BY <1>4, <2>2 DEF RepairStep, RepairStart, RepairLoad, RepairLead, RepairAsk,
       RepairAnswered, RepairBase
  <2> QED
    BY <2>1, <2>2
<1> QED
  BY <1>1, <1>2, <1>3, <1>4 DEF Next, Tick, Restart, vars

\* A commit in flight read its revision below the bound.
LEMMA CommitsInBoundsStep ==
  ASSUME TypeOK, CommitsInBounds, [Next]_vars
  PROVE  CommitsInBounds'
<1> USE DEF CommitsInBounds
<1>1. ASSUME NEW w \in Workers, AgentStep(w)
      PROVE  CommitsInBounds'
  <2>1. \A v \in Workers : v # w => tool'[v] = tool[v]
    BY <1>1 DEF AgentStep, CommitRead, CommitWrite, ProposeRead, ProposeWrite,
       ProposeClear, RecordNextStep, agentVars, TypeOK
  <2>2. \/ tool'[w].at # "commit"
        \/ tool'[w].revision = memory.revision /\ memory.revision < MaxRevision
        \/ tool'[w] = tool[w]
    BY <1>1 DEF AgentStep, CommitRead, CommitWrite, ProposeRead, ProposeWrite,
       ProposeClear, RecordNextStep, agentVars, TypeOK, ToolStates, NoTool, None
  <2> QED
    BY <2>1, <2>2
<1>2. CASE Restart
  BY <1>2 DEF Restart, NoTool, None
<1> QED
  BY <1>1, <1>2, AgentFrame

\* No step forgets an accepted commit.
LEMMA CommittedGrows ==
  ASSUME [Next]_vars
  PROVE  committed \subseteq committed'
<1>1. ASSUME NEW w \in Workers, AgentStep(w)
      PROVE  committed \subseteq committed'
  BY <1>1 DEF AgentStep, CommitRead, CommitWrite, ProposeRead, ProposeWrite,
     ProposeClear, RecordNextStep, agentVars
<1>2. CASE Restart
  BY <1>2 DEF Restart
<1> QED
  BY <1>1, <1>2, AgentFrame

\* The run the memory names committed it.
LEMMA LastCommittedStep ==
  ASSUME TypeOK, LastCommitted, [Next]_vars
  PROVE  LastCommitted'
<1> USE DEF LastCommitted
<1>1. committed \subseteq committed'
  BY CommittedGrows
<1>2. ASSUME NEW w \in Workers, CommitWrite(w)
      PROVE  LastCommitted'
  BY <1>1, <1>2 DEF CommitWrite, Publish
<1>3. ASSUME NEW q \in Repairers, RepairCommit(q)
      PROVE  LastCommitted'
  BY <1>1, <1>3 DEF RepairCommit, Publish
<1> QED
  BY <1>1, <1>2, <1>3, MemoryFrame

-----------------------------------------------------------------------------
(***************************************************************************)
(* The goal is proposed as complete only with its memory saved.            *)
(***************************************************************************)
\* A row stays earned when it is kept, or gets another lead or review time.
LEMMA EarnedRows ==
  ASSUME TypeOK, [Next]_vars
  PROVE  /\ \A row \in Rows : Earned(row) => Earned(row)'
         /\ \A row \in Rows : row.status \notin {"review", "done"} => Earned(row)'
         /\ \A row, old \in Rows : row.status = old.status /\ Earned(old) => Earned(row)'
<1>1. committed \subseteq committed'
  BY CommittedGrows
<1> QED
  BY <1>1 DEF Earned

\* Planning and reviews write rows that are earned.
LEMMA WorkerEarned ==
  ASSUME TypeOK, RowsEarned, [Next]_vars,
         NEW w \in Workers, ListDue(w) \/ ReviewNow(w) \/ WorkerStep(w)
  PROVE  Earned(goal)' /\ \A v \in Workers : Earned(worker[v].row)'
<1> USE DEF RowsEarned
<1>0. /\ TypeOK' /\ goal \in Rows /\ goal' \in Rows /\ NoRow \in Rows
      /\ \A v \in Workers : worker[v].row \in Rows /\ worker'[v].row \in Rows
  <2>1. TypeOK'
    BY WorkerTyped
  <2> QED
    BY <2>1, RowTypes DEF TypeOK, WorkerStates
<1>1. goal'.status = goal.status \/ goal'.status = worker[w].row.status
        \/ goal'.status = "paused"
  <2>1. CASE AdvanceWrite(w)
    BY <1>0, <2>1 DEF AdvanceWrite, Rows
  <2>2. CASE EnsureLead(w)
    BY <1>0, <2>2 DEF EnsureLead, Rows
  <2>3. CASE BlockMemory(w)
    BY <1>0, <2>3 DEF BlockMemory, PauseForMemory, Rows
  <2>4. CASE ~ (AdvanceWrite(w) \/ EnsureLead(w) \/ BlockMemory(w))
    BY <2>4 DEF ListDue, ReviewNow, WorkerStep, AdvanceRead, LoadPlanning, LoadReview,
       RefuseReview, SetValidating, BeginRun, TurnEnds, CheckMemory, CreateLimit, rowVars
  <2> QED
    BY <2>1, <2>2, <2>3, <2>4
<1>2. \A v \in Workers : v # w => worker'[v] = worker[v]
  BY DEF ListDue, ReviewNow, WorkerStep, AdvanceRead, AdvanceWrite, LoadPlanning,
     LoadReview, RefuseReview, SetValidating, EnsureLead, BeginRun, TurnEnds, CheckMemory,
     BlockMemory, CreateLimit, Move, TypeOK
<1>3. worker'[w].row \in {worker[w].row, goal, NoRow}
  <2> USE DEF TypeOK, WorkerStates
  <2>1. CASE AdvanceRead(w) \/ LoadPlanning(w) \/ LoadReview(w)
    BY <2>1 DEF AdvanceRead, LoadPlanning, LoadReview
  <2>2. CASE AdvanceWrite(w) \/ EnsureLead(w) \/ BlockMemory(w)
    BY <2>2 DEF AdvanceWrite, EnsureLead, BlockMemory
  <2>3. CASE ListDue(w) \/ ReviewNow(w)
    BY <2>3 DEF ListDue, ReviewNow
  <2>4. CASE RefuseReview(w) \/ SetValidating(w) \/ BeginRun(w) \/ CheckMemory(w)
               \/ CreateLimit(w) \/ \E status \in TurnResults : TurnEnds(w, status)
    BY <2>4 DEF RefuseReview, SetValidating, BeginRun, TurnEnds, CheckMemory, CreateLimit, Move
  <2> QED
    BY <2>1, <2>2, <2>3, <2>4 DEF WorkerStep
<1>4. NoRow.status = "active"
  BY DEF NoRow
<1> QED
  BY <1>0, <1>1, <1>2, <1>3, <1>4, EarnedRows DEF TypeOK

\* The agent proposes a row only after its own run saved its memory.
LEMMA AgentEarned ==
  ASSUME TypeOK, CommitsInBounds, LastCommitted, RowsEarned, [Next]_vars,
         NEW w \in Workers, AgentStep(w)
  PROVE  Earned(goal)' /\ \A v \in Workers : Earned(tool[v].row)'
<1> USE DEF RowsEarned
<1>0. /\ TypeOK' /\ goal \in Rows /\ goal' \in Rows /\ NoRow \in Rows
      /\ \A v \in Workers : tool[v].row \in Rows /\ tool'[v].row \in Rows
  <2>1. TypeOK'
    BY AgentTyped
  <2> QED
    BY <2>1, RowTypes DEF TypeOK, ToolStates
<1>1. goal' = goal \/ goal' = tool[w].row
  BY DEF AgentStep, CommitRead, CommitWrite, ProposeRead, ProposeWrite, ProposeClear,
     RecordNextStep, rowVars
<1>2. \A v \in Workers : v # w => tool'[v] = tool[v]
  BY DEF AgentStep, CommitRead, CommitWrite, ProposeRead, ProposeWrite, ProposeClear,
     RecordNextStep, agentVars, TypeOK
<1>3. \/ tool'[w].row \in {tool[w].row, NoRow}
      \/ w \in committed'
  <2>1. CASE ProposeRead(w)
    BY <2>1, CommittedGrows DEF ProposeRead, LastCommitted
  <2>2. CASE ~ ProposeRead(w)
    BY <2>2 DEF AgentStep, CommitRead, CommitWrite, ProposeWrite, ProposeClear,
       RecordNextStep, agentVars, NoTool, TypeOK, ToolStates
  <2> QED
    BY <2>1, <2>2
<1>4. NoRow.status = "active"
  BY DEF NoRow
<1>5. w \in committed' => \A row \in Rows : Earned(row)'
  BY DEF Earned
<1> QED
  BY <1>0, <1>1, <1>2, <1>3, <1>4, <1>5, EarnedRows

\* A request closes a goal as done only from review.
LEMMA CallEarned ==
  ASSUME TypeOK, ResolvesABlock, RowsEarned, [Next]_vars, NEW c \in Calls, CallStep(c)
  PROVE  Earned(goal)' /\ \A d \in Calls : Earned(call[d].row)'
<1> USE DEF RowsEarned
<1>0. /\ TypeOK' /\ goal \in Rows /\ goal' \in Rows /\ NoRow \in Rows
      /\ \A d \in Calls : call[d].row \in Rows /\ call'[d].row \in Rows
  <2>1. TypeOK'
    BY CallTyped
  <2> QED
    BY <2>1, RowTypes DEF TypeOK, CallStates
<1>1. goal' = goal \/ goal' = call[c].row
  BY DEF CallStep, ReadForTransition, ReadForPatch, ReadForResolve, Write, ClearNextStep,
     ResolveLimit, rowVars
<1>2. \A d \in Calls : d # c => call'[d] = call[d]
  BY DEF CallStep, ReadForTransition, ReadForPatch, ReadForResolve, Write, ClearNextStep,
     ResolveLimit, Hold, TypeOK
<1>3. NoRow.status = "active"
  BY DEF NoRow
<1>4. \/ call'[c].row \in {call[c].row, goal, NoRow}
      \/ call'[c].row.status = goal.status
      \/ call'[c].row.status \notin {"review", "done"}
      \/ call'[c].row.status = "done" /\ goal.status = "review"
  <2> USE <1>0 DEF TypeOK, CallStates
  <2>1. ASSUME NEW op \in CallOps, ReadForTransition(c, op)
        PROVE  \/ call'[c].row.status \notin {"review", "done"}
               \/ call'[c].row.status = "done" /\ goal.status = "review"
    <3>1. call'[c].row = [goal EXCEPT !.status = op, !.next = NextReviewFrom(op = "active" /\ goal.every)]
      BY <2>1 DEF ReadForTransition, Hold
    <3>2. call'[c].row.status = op
      BY <3>1 DEF Rows
    <3> QED
      BY <2>1, <3>2 DEF ReadForTransition, GoalTransitionAllowed
  <2>2. ASSUME NEW op \in CallOps, ReadForPatch(c, op)
        PROVE  call'[c].row.status = goal.status
    <3>1. call'[c].row = Patched(op)
      BY <2>2 DEF ReadForPatch, Hold
    <3>2. op \in Patches
      BY <2>2 DEF ReadForPatch
    <3>3. Patched(op).status = goal.status
      BY <3>2 DEF Patched, Patches, Rows
    <3> QED
      BY <3>1, <3>3
  <2>3. ASSUME NEW w \in Workers, ReadForResolve(c, w)
        PROVE  call'[c].row = goal
    BY <2>3 DEF ReadForResolve
  <2>4. CASE Write(c) \/ ClearNextStep(c) \/ ResolveLimit(c)
    BY <2>4 DEF Write, ClearNextStep, ResolveLimit, IdleCall
  <2> QED
    BY <2>1, <2>2, <2>3, <2>4 DEF CallStep
<1>5. \A row \in Rows : goal.status = "review" => Earned(row)'
  BY CommittedGrows DEF Earned
<1> QED
  BY <1>0, <1>1, <1>2, <1>3, <1>4, <1>5, EarnedRows

\* A repair writes the row it read, or pauses the goal.
LEMMA RepairEarned ==
  ASSUME TypeOK, RowsEarned, [Next]_vars, NEW q \in Repairers, RepairStep(q)
  PROVE  Earned(goal)' /\ \A p \in Repairers : Earned(repair[p].row)'
<1> USE DEF RowsEarned
<1>0. /\ TypeOK' /\ goal \in Rows /\ goal' \in Rows /\ NoRow \in Rows
      /\ \A p \in Repairers : repair[p].row \in Rows /\ repair'[p].row \in Rows
  <2>1. TypeOK'
    BY RepairTyped
  <2> QED
    BY <2>1, RowTypes DEF TypeOK, RepairStates
<1>1. goal'.status \in {goal.status, repair[q].row.status, "paused"}
  <2>1. CASE RepairPause(q)
    BY <1>0, <2>1 DEF RepairPause, PauseForMemory, Rows
  <2>2. CASE RepairLead(q)
    BY <1>0, <2>2 DEF RepairLead, Rows
  <2>3. CASE ~ (RepairPause(q) \/ RepairLead(q))
    BY <2>3 DEF RepairStep, RepairStart, RepairLoad, RepairAsk, RepairAnswered, RepairBase,
       RepairCommit, rowVars
  <2> QED
    BY <2>1, <2>2, <2>3
<1>2. \A p \in Repairers : p # q => repair'[p] = repair[p]
  BY DEF RepairStep, RepairStart, RepairPause, RepairLoad, RepairLead, RepairAsk,
     RepairAnswered, RepairBase, RepairCommit, RepairTo, TypeOK
<1>3. \/ repair'[q].row \in {repair[q].row, goal, NoRow}
      \/ repair'[q].row.status = "paused"
  <2> USE <1>0 DEF TypeOK, RepairStates
  <2>1. CASE RepairStart(q)
    <3>1. repair'[q].row \in {goal, [goal EXCEPT !.status = "paused", !.next = NoReview]}
      BY <2>1 DEF RepairStart
    <3> QED
      BY <3>1 DEF Rows
  <2>2. CASE ~ RepairStart(q)
    BY <2>2 DEF RepairStep, RepairPause, RepairLoad, RepairLead, RepairAsk, RepairAnswered,
       RepairBase, RepairCommit, RepairTo
  <2> QED
    BY <2>1, <2>2
<1>4. NoRow.status = "active"
  BY DEF NoRow
<1> QED
  BY <1>0, <1>1, <1>2, <1>3, <1>4, EarnedRows

\* Whose step it is, and what it leaves to the others.
LEMMA RowFrame ==
  ASSUME [Next]_vars
  PROVE  \/ \E w \in Workers :
              (ListDue(w) \/ ReviewNow(w) \/ WorkerStep(w)) /\ UNCHANGED <<tool, call, repair>>
         \/ \E w \in Workers : AgentStep(w) /\ UNCHANGED <<worker, call, repair>>
         \/ \E c \in Calls : CallStep(c) /\ UNCHANGED <<tool, repair>>
         \/ \E q \in Repairers : RepairStep(q) /\ UNCHANGED <<worker, tool, call>>
         \/ Restart
         \/ UNCHANGED <<goal, worker, tool, call, repair>>
<1>1. ASSUME NEW w \in Workers, ListDue(w) \/ ReviewNow(w) \/ WorkerStep(w)
      PROVE  UNCHANGED <<tool, call, repair>>
  BY <1>1 DEF ListDue, ReviewNow, WorkerStep, AdvanceRead, AdvanceWrite, LoadPlanning,
     LoadReview, RefuseReview, SetValidating, EnsureLead, BeginRun, TurnEnds, CheckMemory,
     BlockMemory, CreateLimit, agentVars, apiVars
<1>2. ASSUME NEW w \in Workers, AgentStep(w)
      PROVE  UNCHANGED <<worker, call, repair>>
  BY <1>2 DEF AgentStep, CommitRead, CommitWrite, ProposeRead, ProposeWrite, ProposeClear,
     RecordNextStep, agentVars, apiVars
<1>3. ASSUME NEW c \in Calls, CallStep(c)
      PROVE  UNCHANGED <<tool, repair>>
  BY <1>3 DEF CallStep, ReadForTransition, ReadForPatch, ReadForResolve, Write,
     ClearNextStep, ResolveLimit, agentVars
<1>4. ASSUME NEW q \in Repairers, RepairStep(q)
      PROVE  UNCHANGED <<worker, tool, call>>
  BY <1>4 DEF RepairStep, RepairStart, RepairPause, RepairLoad, RepairLead, RepairAsk,
     RepairAnswered, RepairBase, RepairCommit, agentVars
<1> QED
  BY <1>1, <1>2, <1>3, <1>4 DEF Next, Tick, vars, rowVars, agentVars, apiVars

\* A request touches a goroutine only to start the retry of a block's run.
LEMMA CallLeavesWorkers ==
  ASSUME TypeOK, ResolvesABlock, NEW c \in Calls, CallStep(c)
  PROVE  \/ UNCHANGED worker
         \/ \E v \in Workers, kind \in {"planning", "review"}, cause \in Workers :
              /\ worker[v].at = "idle"
              /\ limit[cause] = "pending" /\ limit' = [limit EXCEPT ![cause] = "resolved"]
              /\ worker' = [worker EXCEPT ![v].at = "starting", ![v].kind = kind,
                                          ![v].cause = cause]
<1>1. CASE ResolveLimit(c)
  <2> DEFINE b == call[c].run
  <2>1. b \in Workers
    BY <1>1 DEF ResolveLimit, ResolvesABlock
  <2>2. worker[b].kind \in {"planning", "review"}
    BY <2>1 DEF TypeOK, WorkerStates
  <2>3. \/ UNCHANGED worker
        \/ /\ limit[b] = "pending" /\ limit' = [limit EXCEPT ![b] = "resolved"]
           /\ Retry(b)
    BY <1>1 DEF ResolveLimit
  <2> QED
    BY <2>1, <2>2, <2>3 DEF Retry
<1>2. CASE ~ ResolveLimit(c)
  BY <1>2 DEF CallStep, ReadForTransition, ReadForPatch, ReadForResolve, Write, ClearNextStep
<1> QED
  BY <1>1, <1>2

\* Every row, held or written, stays earned.
LEMMA RowsEarnedStep ==
  ASSUME TypeOK, CommitsInBounds, ResolvesABlock, LastCommitted, RowsEarned, [Next]_vars
  PROVE  RowsEarned'
<1>0. /\ goal \in Rows
      /\ \A w \in Workers : worker[w].row \in Rows /\ tool[w].row \in Rows
      /\ \A c \in Calls : call[c].row \in Rows
      /\ \A q \in Repairers : repair[q].row \in Rows
      /\ NoRow \in Rows /\ NoRow.status = "active"
  BY RowTypes DEF TypeOK, WorkerStates, ToolStates, CallStates, RepairStates, NoRow
<1>1. \A row \in Rows : Earned(row) => Earned(row)'
  BY EarnedRows
<1>2. UNCHANGED worker => \A w \in Workers : Earned(worker[w].row)'
  BY <1>0, <1>1 DEF RowsEarned
<1>3. UNCHANGED tool => \A w \in Workers : Earned(tool[w].row)'
  BY <1>0, <1>1 DEF RowsEarned
<1>4. UNCHANGED call => \A c \in Calls : Earned(call[c].row)'
  BY <1>0, <1>1 DEF RowsEarned
<1>5. UNCHANGED repair => \A q \in Repairers : Earned(repair[q].row)'
  BY <1>0, <1>1 DEF RowsEarned
<1>6. UNCHANGED goal => Earned(goal)'
  BY <1>0, <1>1 DEF RowsEarned
<1>7. ASSUME NEW w \in Workers, ListDue(w) \/ ReviewNow(w) \/ WorkerStep(w),
             UNCHANGED <<tool, call, repair>>
      PROVE  RowsEarned'
  BY <1>3, <1>4, <1>5, <1>7, WorkerEarned DEF RowsEarned
<1>8. ASSUME NEW w \in Workers, AgentStep(w), UNCHANGED <<worker, call, repair>>
      PROVE  RowsEarned'
  BY <1>2, <1>4, <1>5, <1>8, AgentEarned DEF RowsEarned
<1>9. ASSUME NEW c \in Calls, CallStep(c), UNCHANGED <<tool, repair>>
      PROVE  RowsEarned'
  <2>1. \A w \in Workers : worker'[w].row = worker[w].row
    <3>1. CASE UNCHANGED worker
      BY <3>1
    <3>2. CASE worker' # worker
      <4>0. PICK v \in Workers, kind \in {"planning", "review"}, cause \in Workers :
              worker' = [worker EXCEPT ![v].at = "starting", ![v].kind = kind,
                                       ![v].cause = cause]
        <5>1. CallStep(c)
          BY <1>9
        <5> QED
          BY <3>2, <5>1, CallLeavesWorkers
      <4>1. worker[v] \in WorkerStates /\ worker \in [Workers -> WorkerStates]
        BY DEF TypeOK
      <4>2. worker'[v] = [worker[v] EXCEPT !.at = "starting", !.kind = kind, !.cause = cause]
        BY <4>0, <4>1
      <4>3. worker'[v].row = worker[v].row
        BY <4>1, <4>2 DEF WorkerStates
      <4>4. \A w \in Workers : w # v => worker'[w] = worker[w]
        BY <4>0, <4>1
      <4> QED
        BY <4>3, <4>4
    <3> QED
      BY <3>1, <3>2
  <2>2. \A w \in Workers : Earned(worker[w].row)'
    BY <1>0, <1>1, <2>1 DEF RowsEarned, Earned
  <2> QED
    BY <1>3, <1>5, <1>9, <2>2, CallEarned DEF RowsEarned
<1>10. ASSUME NEW q \in Repairers, RepairStep(q), UNCHANGED <<worker, tool, call>>
       PROVE  RowsEarned'
  BY <1>2, <1>3, <1>4, <1>10, RepairEarned DEF RowsEarned
<1>11. CASE Restart
  <2>1. UNCHANGED <<goal, committed>>
    BY <1>11 DEF Restart, rowVars
  <2>2. ASSUME NEW w \in Workers
        PROVE  worker'[w].row \in {worker[w].row, NoRow}
    <3>1. worker[w] \in WorkerStates
      BY DEF TypeOK
    <3>2. worker'[w] \in {worker[w], [worker[w] EXCEPT !.at = "over", !.row = NoRow]}
      BY <1>11 DEF Restart
    <3> QED
      BY <3>1, <3>2 DEF WorkerStates
  <2>3. \A w \in Workers : tool'[w].row = NoRow
    BY <1>11 DEF Restart, NoTool
  <2>4. \A c \in Calls : call'[c].row = NoRow
    BY <1>11 DEF Restart, IdleCall
  <2>5. \A q \in Repairers : repair'[q].row \in {repair[q].row, NoRow}
    BY <1>11 DEF Restart, IdleRepair
  <2> QED
    BY <1>0, <2>1, <2>2, <2>3, <2>4, <2>5 DEF RowsEarned, Earned
<1> QED
  BY <1>2, <1>3, <1>4, <1>5, <1>6, <1>7, <1>8, <1>9, <1>10, <1>11, RowFrame DEF RowsEarned

-----------------------------------------------------------------------------
(***************************************************************************)
(* Turns exclude each other.                                               *)
(***************************************************************************)
\* What a step of a worker does to the runs, and to the other workers.
LEMMA WorkerRuns ==
  ASSUME TypeOK, RunningAtWork, NEW w \in Workers, ListDue(w) \/ ReviewNow(w) \/ WorkerStep(w)
  PROVE  /\ \A v \in Workers : v # w => worker'[v] = worker[v]
         /\ \A r \in Runners : r # w => run'[r] = run[r] /\ session'[r] = session[r]
         /\ UNCHANGED repair
         /\ run'[w] = "running" =>
               /\ worker'[w].at = "running"
               /\ session'[w] = session[w]
               /\ run[w] = "running" \/ RunFree(w)
<1> USE DEF TypeOK, Runners
<1>0. worker[w] \in WorkerStates
  OBVIOUS
<1>1. CASE BeginRun(w)
  BY <1>0, <1>1 DEF BeginRun, Move, apiVars, WorkerStates, RunningAtWork
<1>2. CASE \E status \in TurnResults : TurnEnds(w, status)
  BY <1>2 DEF TurnEnds, Move, apiVars, TurnResults
<1>3. CASE EnsureLead(w)
  BY <1>3 DEF EnsureLead, apiVars, RunningAtWork
<1>4. CASE \/ ListDue(w) \/ ReviewNow(w) \/ AdvanceRead(w) \/ AdvanceWrite(w)
           \/ LoadPlanning(w) \/ LoadReview(w) \/ RefuseReview(w) \/ SetValidating(w)
           \/ CheckMemory(w) \/ BlockMemory(w) \/ CreateLimit(w)
  <2>1. worker[w].at # "running"
    BY <1>4 DEF ListDue, ReviewNow, AdvanceRead, AdvanceWrite, LoadPlanning, LoadReview,
       RefuseReview, SetValidating, CheckMemory, BlockMemory, CreateLimit
  <2>2. UNCHANGED <<run, session, repair>>
    BY <1>4 DEF ListDue, ReviewNow, AdvanceRead, AdvanceWrite, LoadPlanning, LoadReview,
       RefuseReview, SetValidating, CheckMemory, BlockMemory, CreateLimit, runVars, apiVars
  <2>3. \A v \in Workers : v # w => worker'[v] = worker[v]
    BY <1>4 DEF ListDue, ReviewNow, AdvanceRead, AdvanceWrite, LoadPlanning, LoadReview,
       RefuseReview, SetValidating, CheckMemory, BlockMemory, CreateLimit, Move
  <2> QED
    BY <2>1, <2>2, <2>3 DEF RunningAtWork
<1> QED
  BY <1>1, <1>2, <1>3, <1>4 DEF WorkerStep

\* What a step of a repair does to the runs.
LEMMA RepairRuns ==
  ASSUME TypeOK, RunningAtWork, NEW q \in Repairers, RepairStep(q)
  PROVE  /\ \A p \in Repairers : p # q => repair'[p] = repair[p]
         /\ \A r \in Runners : r # q => run'[r] = run[r] /\ session'[r] = session[r]
         /\ UNCHANGED worker
         /\ run'[q] = "running" =>
               /\ repair'[q].at = "running"
               /\ session'[q] = session[q]
               /\ run[q] = "running" \/ RunFree(q)
<1> USE DEF TypeOK, Runners, RepairTo
<1>0. repair[q] \in RepairStates
  OBVIOUS
<1>1. CASE RepairAsk(q)
  BY <1>0, <1>1 DEF RepairAsk, RepairStates, RunningAtWork
<1>2. CASE \E status \in TurnResults : RepairAnswered(q, status)
  BY <1>2 DEF RepairAnswered, TurnResults
<1>3. CASE RepairLead(q)
  BY <1>3 DEF RepairLead, RunningAtWork
<1>4. CASE RepairStart(q) \/ RepairPause(q) \/ RepairLoad(q) \/ RepairBase(q) \/ RepairCommit(q)
  BY <1>4 DEF RepairStart, RepairPause, RepairLoad, RepairBase, RepairCommit, runVars,
     RunningAtWork
<1> QED
  BY <1>1, <1>2, <1>3, <1>4 DEF RepairStep

\* The requests and the agents start and end no run.
LEMMA OthersRun ==
  ASSUME [Next]_vars, ~ Restart,
         \A w \in Workers : ~ (ListDue(w) \/ ReviewNow(w) \/ WorkerStep(w)),
         \A q \in Repairers : ~ RepairStep(q)
  PROVE  /\ UNCHANGED <<run, session, repair>>
         /\ UNCHANGED worker \/ \E c \in Calls : CallStep(c)
<1>1. ASSUME NEW w \in Workers, AgentStep(w)
      PROVE  UNCHANGED <<run, session, repair, worker>>
  BY <1>1 DEF AgentStep, CommitRead, CommitWrite, ProposeRead, ProposeWrite, ProposeClear,
     RecordNextStep, runVars, apiVars
<1>2. ASSUME NEW c \in Calls, CallStep(c)
      PROVE  UNCHANGED <<run, session, repair>>
  BY <1>2 DEF CallStep, ReadForTransition, ReadForPatch, ReadForResolve, Write,
     ClearNextStep, ResolveLimit, runVars
<1> QED
  BY <1>1, <1>2 DEF Next, Tick, vars, runVars, apiVars

\* A request never touches a goroutine that runs.
LEMMA RetryStartsIdle ==
  ASSUME TypeOK, ResolvesABlock, NEW c \in Calls, CallStep(c), NEW w \in Workers,
         worker[w].at = "running"
  PROVE  worker'[w] = worker[w]
<1>1. CASE worker' # worker
  <2>1. PICK v \in Workers, kind \in {"planning", "review"}, cause \in Workers :
          /\ worker[v].at = "idle"
          /\ worker' = [worker EXCEPT ![v].at = "starting", ![v].kind = kind,
                                      ![v].cause = cause]
    BY <1>1, CallLeavesWorkers
  <2> QED
    BY <2>1 DEF TypeOK
<1> QED
  BY <1>1

\* A running run is that of a goroutine or a repair that waits for its turn,
\* and no two of them share a conversation or the goal's planning and reviews.
LEMMA ExclusionStep ==
  ASSUME TypeOK, ResolvesABlock, RunningAtWork, TurnsAreExclusive, [Next]_vars
  PROVE  RunningAtWork' /\ TurnsAreExclusive'
<1>1. ASSUME NEW w \in Workers, ListDue(w) \/ ReviewNow(w) \/ WorkerStep(w)
      PROVE  RunningAtWork' /\ TurnsAreExclusive'
  <2>1. RunningAtWork'
    BY <1>1, WorkerRuns DEF RunningAtWork, Runners
  <2>2. TurnsAreExclusive'
    BY <1>1, WorkerRuns DEF TurnsAreExclusive, Runners, RunFree
  <2> QED
    BY <2>1, <2>2
<1>2. ASSUME NEW q \in Repairers, RepairStep(q)
      PROVE  RunningAtWork' /\ TurnsAreExclusive'
  <2>1. RunningAtWork'
    BY <1>2, RepairRuns DEF RunningAtWork, Runners
  <2>2. TurnsAreExclusive'
    BY <1>2, RepairRuns DEF TurnsAreExclusive, Runners, RunFree
  <2> QED
    BY <2>1, <2>2
<1>3. CASE Restart
  <2>1. \A r \in Runners : run'[r] # "running"
    BY <1>3 DEF Restart, InterruptRunningRuns
  <2> QED
    BY <2>1 DEF RunningAtWork, TurnsAreExclusive, Runners
<1>4. CASE /\ ~ Restart
           /\ \A w \in Workers : ~ (ListDue(w) \/ ReviewNow(w) \/ WorkerStep(w))
           /\ \A q \in Repairers : ~ RepairStep(q)
  <2>1. UNCHANGED <<run, session, repair>>
    BY <1>4, OthersRun
  <2>2. ASSUME NEW w \in Workers, worker[w].at = "running"
        PROVE  worker'[w].at = "running"
    BY <1>4, <2>2, OthersRun, RetryStartsIdle
  <2> QED
    BY <2>1, <2>2 DEF RunningAtWork, TurnsAreExclusive
<1> QED
  BY <1>1, <1>2, <1>3, <1>4

-----------------------------------------------------------------------------
(***************************************************************************)
(* A rate-limited run is retried once.                                     *)
(***************************************************************************)
\* A goroutine's own steps give it no run to retry, and reopen no block.
LEMMA WorkerCauses ==
  ASSUME TypeOK, IdleUncaused, NEW w \in Workers, ListDue(w) \/ ReviewNow(w) \/ WorkerStep(w)
  PROVE  /\ \A v \in Workers : v # w => worker'[v] = worker[v]
         /\ worker'[w].cause = worker[w].cause \/ worker'[w].cause \notin Workers
         /\ worker'[w].at # "idle"
         /\ \A v \in Workers : limit[v] = "resolved" => limit'[v] = "resolved"
<1> USE DEF TypeOK
<1>0. worker[w] \in WorkerStates
  OBVIOUS
<1>1. CASE ListDue(w) \/ ReviewNow(w)
  BY <1>0, <1>1 DEF ListDue, ReviewNow, WorkerStates, runVars
<1>2. CASE \/ AdvanceRead(w) \/ AdvanceWrite(w) \/ LoadPlanning(w) \/ RefuseReview(w)
           \/ SetValidating(w) \/ EnsureLead(w)
  BY <1>0, <1>2 DEF AdvanceRead, AdvanceWrite, LoadPlanning, RefuseReview, SetValidating,
     EnsureLead, Move, WorkerStates, runVars
<1>3. CASE LoadReview(w)
  <2>1. PICK place \in {"loaded", "validating", "blocking"} :
          worker' = [worker EXCEPT ![w].at = place, ![w].row = goal]
    BY <1>3, Zenon DEF LoadReview
  <2> QED
    BY <1>0, <1>3, <2>1 DEF LoadReview, WorkerStates, runVars
<1>4. CASE BeginRun(w) \/ CheckMemory(w)
  <2>1. PICK place \in {"running", "over", "blocking"} : Move(w, place)
    BY <1>4 DEF BeginRun, CheckMemory
  <2>2. UNCHANGED limit
    BY <1>4 DEF BeginRun, CheckMemory, runVars
  <2> QED
    BY <1>0, <2>1, <2>2 DEF Move, WorkerStates
<1>6. CASE BlockMemory(w) \/ CreateLimit(w)
  BY <1>0, <1>6 DEF BlockMemory, CreateLimit, Move, WorkerStates, runVars, None
<1>5. ASSUME NEW status \in TurnResults, TurnEnds(w, status)
      PROVE  /\ \A v \in Workers : v # w => worker'[v] = worker[v]
             /\ worker'[w].cause = worker[w].cause
             /\ worker'[w].at # "idle"
             /\ UNCHANGED limit
  <2>1. AfterTurn(status) # "idle"
    BY DEF AfterTurn
  <2> QED
    BY <1>0, <1>5, <2>1 DEF TurnEnds, Move, WorkerStates
<1> QED
  BY <1>1, <1>2, <1>3, <1>4, <1>5, <1>6 DEF WorkerStep

\* Goroutines and blocks are otherwise touched by requests and restarts.
LEMMA OthersCauses ==
  ASSUME [Next]_vars, ~ Restart,
         \A w \in Workers : ~ (ListDue(w) \/ ReviewNow(w) \/ WorkerStep(w))
  PROVE  UNCHANGED <<worker, limit>> \/ \E c \in Calls : CallStep(c)
<1>1. ASSUME NEW w \in Workers, AgentStep(w)
      PROVE  UNCHANGED <<worker, limit>>
  BY <1>1 DEF AgentStep, CommitRead, CommitWrite, ProposeRead, ProposeWrite, ProposeClear,
     RecordNextStep, runVars
<1>2. ASSUME NEW q \in Repairers, RepairStep(q)
      PROVE  UNCHANGED <<worker, limit>>
  BY <1>2 DEF RepairStep, RepairStart, RepairPause, RepairLoad, RepairLead, RepairAsk,
     RepairAnswered, RepairBase, RepairCommit, runVars
<1> QED
  BY <1>1, <1>2 DEF Next, Tick, vars, runVars

\* A block that was resolved stays so, and only resolving it retries its run.
LEMMA RetriesStep ==
  ASSUME TypeOK, ResolvesABlock, IdleUncaused, RetriesResolved, RetriedOnce, [Next]_vars
  PROVE  IdleUncaused' /\ RetriesResolved' /\ RetriedOnce'
<1> USE DEF IdleUncaused, RetriesResolved, RetriedOnce
<1>1. ASSUME NEW w \in Workers, ListDue(w) \/ ReviewNow(w) \/ WorkerStep(w)
      PROVE  IdleUncaused' /\ RetriesResolved' /\ RetriedOnce'
  BY <1>1, WorkerCauses
<1>2. ASSUME NEW c \in Calls, CallStep(c)
      PROVE  IdleUncaused' /\ RetriesResolved' /\ RetriedOnce'
  <2>1. CASE UNCHANGED worker
    <3>1. \A v \in Workers : limit[v] = "resolved" => limit'[v] = "resolved"
      BY <1>2 DEF CallStep, ReadForTransition, ReadForPatch, ReadForResolve, Write,
         ClearNextStep, ResolveLimit, runVars, TypeOK
    <3> QED
      BY <2>1, <3>1
  <2>2. CASE worker' # worker
    <3>1. PICK v \in Workers, kind \in {"planning", "review"}, cause \in Workers :
            /\ worker[v].at = "idle"
            /\ limit[cause] = "pending" /\ limit' = [limit EXCEPT ![cause] = "resolved"]
            /\ worker' = [worker EXCEPT ![v].at = "starting", ![v].kind = kind,
                                        ![v].cause = cause]
      BY <1>2, <2>2, CallLeavesWorkers
    <3>2. /\ worker'[v].at = "starting" /\ worker'[v].cause = cause
          /\ \A u \in Workers : u # v => worker'[u] = worker[u]
      <4>1. worker[v] \in WorkerStates
        BY DEF TypeOK
      <4> QED
        BY <3>1, <4>1 DEF TypeOK, WorkerStates
    <3>3. \A u \in Workers : worker[u].cause # cause
      BY <3>1
    <3>4. /\ limit'[cause] = "resolved"
          /\ \A u \in Workers : limit[u] = "resolved" => limit'[u] = "resolved"
      BY <3>1 DEF TypeOK
    <3> QED
      BY <3>2, <3>3, <3>4
  <2> QED
    BY <2>1, <2>2
<1>3. CASE Restart
  <2>1. \A w \in Workers : worker'[w].cause = worker[w].cause
                           /\ (worker'[w].at = "idle" => worker[w].at = "idle")
    <3>1. SUFFICES ASSUME NEW w \in Workers
                   PROVE  worker'[w].cause = worker[w].cause
                          /\ (worker'[w].at = "idle" => worker[w].at = "idle")
      OBVIOUS
    <3>2. worker[w] \in WorkerStates
      BY DEF TypeOK
    <3>3. worker'[w] = IF worker[w].at = "idle" THEN worker[w]
                       ELSE [worker[w] EXCEPT !.at = "over", !.row = NoRow]
      BY <1>3 DEF Restart
    <3> QED
      BY <3>2, <3>3 DEF WorkerStates
  <2>2. \A w \in Workers : limit[w] = "resolved" => limit'[w] = "resolved"
    <3>1. PICK blocked \in SUBSET Workers :
            /\ \A w \in blocked : w \in LeadRuns(session[w]) /\ NeedsBlock(session[w])
            /\ limit' = [w \in Workers |-> IF w \in blocked THEN "pending" ELSE limit[w]]
      BY <1>3, Zenon DEF Restart, ReconcileLimits
    <3>2. \A w \in blocked : limit[w] = None
      BY <3>1 DEF NeedsBlock
    <3> QED
      BY <3>1, <3>2 DEF None
  <2> QED
    BY <2>1, <2>2
<1>4. CASE UNCHANGED <<worker, limit>>
  BY <1>4
<1> QED
  BY <1>1, <1>2, <1>3, <1>4, OthersCauses

-----------------------------------------------------------------------------
(***************************************************************************)
(* Acknowledged feedback is carried, as long as nobody repairs the memory. *)
(***************************************************************************)
\* A commit that may still be accepted carries all that the memory carries.
CommitsCarry ==
    \A w \in Workers :
        tool[w].at = "commit" =>
            /\ w \in tool[w].doc
            /\ tool[w].revision <= memory.revision
            /\ tool[w].revision = memory.revision => memory.doc \subseteq tool[w].doc

\* A commit, current or in flight on the current revision, carries the memory.
LEMMA CarriedStep ==
  ASSUME Repairers = {}, TypeOK, CommitsInBounds, CommitsCarry, AcknowledgedIsCarried, [Next]_vars
  PROVE  CommitsCarry' /\ AcknowledgedIsCarried'
<1> USE DEF CommitsCarry, AcknowledgedIsCarried
<1>0. /\ tool \in [Workers -> ToolStates]
      /\ memory.revision \in Nat
      /\ \A w \in Workers : tool[w].revision \in Nat
  BY DEF TypeOK, Memories, ToolStates
<1>1. ASSUME NEW w \in Workers, CommitWrite(w)
      PROVE  CommitsCarry' /\ AcknowledgedIsCarried'
  <2>1. \A v \in Workers : v # w => tool'[v] = tool[v]
    BY <1>0, <1>1 DEF CommitWrite
  <2>2. tool'[w].at # "commit"
    BY <1>0, <1>1 DEF CommitWrite, NoTool, None
  <2>3. CASE tool[w].revision = memory.revision
    <3>1. /\ memory'.revision = memory.revision + 1
          /\ memory'.doc = tool[w].doc
          /\ committed' = committed \union {w}
      BY <1>1, <2>3 DEF CommitWrite, Publish
    <3>2. AcknowledgedIsCarried'
      BY <1>1, <2>3, <3>1 DEF CommitWrite
    <3>3. ASSUME NEW v \in Workers, tool'[v].at = "commit"
          PROVE  /\ v \in tool'[v].doc
                 /\ tool'[v].revision < memory'.revision
      <4>1. v # w /\ tool'[v] = tool[v]
        BY <2>1, <2>2, <3>3
      <4>2. v \in tool[v].doc /\ tool[v].revision <= memory.revision
        BY <3>3, <4>1
      <4> QED
        BY <1>0, <3>1, <4>1, <4>2
    <3>4. \A v \in Workers : tool'[v].revision \in Nat /\ memory'.revision \in Nat
      <4>1. tool' \in [Workers -> ToolStates]
        BY <1>0, <1>1, RowTypes DEF CommitWrite
      <4> QED
        BY <1>0, <3>1, <4>1 DEF ToolStates
    <3>5. CommitsCarry'
      BY <3>3, <3>4
    <3> QED
      BY <3>2, <3>5
  <2>4. CASE tool[w].revision # memory.revision
    BY <1>1, <2>1, <2>2, <2>4 DEF CommitWrite
  <2> QED
    BY <2>3, <2>4
<1>2. CASE \A w \in Workers : ~ CommitWrite(w)
  <2>1. memory'.revision = memory.revision /\ memory'.doc = memory.doc
    BY <1>2, MemoryFrame
  <2>2. ASSUME NEW w \in Workers, CommitRead(w)
        PROVE  CommitsCarry' /\ AcknowledgedIsCarried'
    <3>1. \A v \in Workers : v # w => tool'[v] = tool[v]
      BY <1>0, <2>2 DEF CommitRead
    <3>2. tool'[w].revision = memory.revision /\ tool'[w].doc = memory.doc \union {w}
      BY <1>0, <2>2 DEF CommitRead, ToolStates
    <3>3. UNCHANGED committed
      BY <2>2 DEF CommitRead
    <3> QED
      BY <1>0, <2>1, <3>1, <3>2, <3>3
  <2>3. ASSUME NEW w \in Workers, AgentStep(w), ~ CommitRead(w)
        PROVE  CommitsCarry' /\ AcknowledgedIsCarried'
    <3>1. \A v \in Workers : tool'[v] = tool[v] \/ tool'[v].at # "commit"
      BY <1>0, <1>2, <2>3 DEF AgentStep, ProposeRead, ProposeWrite, ProposeClear,
         RecordNextStep, agentVars, ToolStates, NoTool, None
    <3>2. UNCHANGED committed
      BY <1>2, <2>3 DEF AgentStep, ProposeRead, ProposeWrite, ProposeClear, RecordNextStep,
         agentVars
    <3> QED
      BY <2>1, <3>1, <3>2
  <2>4. CASE Restart
    <3>1. \A w \in Workers : tool'[w].at # "commit"
      BY <2>4 DEF Restart, NoTool, None
    <3>2. UNCHANGED committed
      BY <2>4 DEF Restart
    <3> QED
      BY <2>1, <3>1, <3>2
  <2>5. CASE UNCHANGED <<tool, committed>>
    BY <2>1, <2>5
  <2> QED
    BY <2>2, <2>3, <2>4, <2>5, AgentFrame
<1> QED
  BY <1>1, <1>2

-----------------------------------------------------------------------------
(***************************************************************************)
(* The inductive invariant and the theorems.                               *)
(***************************************************************************)
IInv ==
    /\ TypeOK
    /\ CommitsInBounds
    /\ ResolvesABlock
    /\ LastCommitted
    /\ RowsEarned
    /\ RunningAtWork
    /\ TurnsAreExclusive
    /\ IdleUncaused
    /\ RetriesResolved
    /\ RetriedOnce

\* The row CreateGoal inserts is earned, and nothing runs yet.
LEMMA InitIInv ==
  ASSUME Init
  PROVE  IInv
<1> USE DEF Init
<1>0. None \notin Workers /\ None \notin Repairers /\ {"creation", None} \intersect Workers = {}
  BY DEF None
<1>1. goal \in Rows /\ goal.status = "active" /\ NoRow.status = "active" /\ NoRow \in Rows
  <2>1. now + 1 \in 0 .. MaxTime + 1 /\ NoReview \in 0 .. MaxTime + 1
    BY DEF NoReview
  <2> QED
    BY <2>1 DEF Rows, Statuses, NextReviewFrom, NoReview, NoRow, None
<1>2. worker \in [Workers -> WorkerStates]
      /\ \A w \in Workers : worker[w].row = NoRow /\ worker[w].cause \notin Workers
                            /\ (worker[w].at = "idle" => worker[w].cause = None)
  <2>1. NoReview \in 0 .. MaxTime + 1
    BY DEF NoReview
  <2>2. /\ IdleWorker \in WorkerStates
        /\ [IdleWorker EXCEPT !.at = "starting", !.kind = "planning", !.cause = "creation"]
              \in WorkerStates
    BY <1>1, <2>1 DEF IdleWorker, WorkerStates, WorkerPlaces, None
  <2> QED
    BY <1>0, <2>2 DEF IdleWorker
<1>3. tool \in [Workers -> ToolStates] /\ \A w \in Workers : tool[w] = NoTool
  <2>1. {} \in SUBSET Workers /\ 0 \in 0 .. MaxRevision
    OBVIOUS
  <2> QED
    BY <1>1, <2>1 DEF NoTool, ToolStates, None
<1>4. call \in [Calls -> CallStates] /\ \A c \in Calls : call[c] = IdleCall
  BY <1>1 DEF IdleCall, CallStates, None
<1>5. repair \in [Repairers -> RepairStates] /\ \A q \in Repairers : repair[q] = IdleRepair
  <2>1. {} \in SUBSET Workers /\ 0 \in 0 .. MaxRevision
    OBVIOUS
  <2> QED
    BY <1>1, <2>1 DEF IdleRepair, RepairStates, RepairPlaces
<1>6. memory \in Memories
  <2>1. {} \in SUBSET Workers /\ 0 \in 0 .. MaxRevision
    OBVIOUS
  <2> QED
    BY <2>1 DEF Memories, None
<1>7. TypeOK
  <2>1. /\ run \in [Runners -> TurnResults \union {None, "running"}]
        /\ session \in [Runners -> Runners \union {None}]
        /\ limit \in [Workers -> {None, "pending", "resolved"}]
    BY DEF Runners
  <2>2. /\ nextStep \in BOOLEAN /\ committed \subseteq Workers
        /\ now \in 0 .. MaxTime /\ restarts \in 0 .. MaxRestarts
    <3>1. 0 \in 0 .. MaxTime /\ 0 \in 0 .. MaxRestarts
      <4> HIDE DEF Init
      <4> QED OBVIOUS
    <3>2. now = 0 /\ restarts = 0 /\ nextStep = FALSE /\ committed = {}
      OBVIOUS
    <3> HIDE DEF Init
    <3> QED
      BY <3>1, <3>2
  <2> HIDE DEF Init
  <2> QED
    BY <1>1, <1>2, <1>3, <1>4, <1>5, <1>6, <2>1, <2>2 DEF TypeOK
<1>8. CommitsInBounds /\ ResolvesABlock
  BY <1>3, <1>4 DEF CommitsInBounds, ResolvesABlock, NoTool, IdleCall, None
<1>9. LastCommitted
  BY <1>0 DEF LastCommitted
<1>10. RowsEarned
  BY <1>1, <1>2, <1>3, <1>4, <1>5 DEF RowsEarned, Earned, NoTool, IdleCall, IdleRepair
<1>11. RunningAtWork /\ TurnsAreExclusive
  BY DEF RunningAtWork, TurnsAreExclusive, Runners, None
<1>12. IdleUncaused /\ RetriesResolved /\ RetriedOnce
  BY <1>2 DEF IdleUncaused, RetriesResolved, RetriedOnce
<1> QED
  BY <1>7, <1>8, <1>9, <1>10, <1>11, <1>12 DEF IInv

\* Every step keeps the inductive invariant: one lemma for each of its parts.
LEMMA IInvStep ==
  ASSUME IInv, [Next]_vars
  PROVE  IInv'
BY NextTyped, CommitsInBoundsStep, ResolvesStep, LastCommittedStep, RowsEarnedStep,
   ExclusionStep, RetriesStep DEF IInv

\* The inductive invariant holds of the goal and of every row and run in flight
\* (core/goals.go, core/goal_sessions.go, core/goal_memory.go).
THEOREM Invariance == Spec => []IInv
<1>1. Init => IInv
  BY InitIInv
<1>2. IInv /\ [Next]_vars => IInv'
  BY IInvStep
<1> QED
  BY <1>1, <1>2, PTL DEF Spec

\* Every variable keeps its type.
THEOREM TypeCorrect == Spec => []TypeOK
<1>1. IInv => TypeOK
  BY DEF IInv
<1> QED
  BY <1>1, Invariance, PTL

\* A goal waits for a verdict, or is done, only after a run saved its memory.
THEOREM CompletionEarned == Spec => []CompletionIsEarned
<1>1. IInv => CompletionIsEarned
  BY DEF IInv, RowsEarned, Earned, CompletionIsEarned
<1> QED
  BY <1>1, Invariance, PTL

\* Turns of the goal's workers and repairs exclude each other.
THEOREM TurnsExclusive == Spec => []TurnsAreExclusive
<1>1. IInv => TurnsAreExclusive
  BY DEF IInv
<1> QED
  BY <1>1, Invariance, PTL

\* A rate-limited run is retried at most once.
THEOREM RetriesOnce == Spec => []RetriedOnce
<1>1. IInv => RetriedOnce
  BY DEF IInv
<1> QED
  BY <1>1, Invariance, PTL

\* While nobody repairs the memory, it carries every accepted commit.
THEOREM CommitsCarried ==
  ASSUME Repairers = {}
  PROVE  Spec => []AcknowledgedIsCarried
<1> DEFINE CInv == IInv /\ CommitsCarry /\ AcknowledgedIsCarried
<1>1. Init => CInv
  <2>1. Init => CommitsCarry /\ AcknowledgedIsCarried
    BY DEF Init, CommitsCarry, AcknowledgedIsCarried, NoTool, None
  <2> QED
    BY <2>1, InitIInv
<1>2. CInv /\ [Next]_vars => CInv'
  BY IInvStep, CarriedStep DEF IInv
<1>3. CInv => AcknowledgedIsCarried
  OBVIOUS
<1> QED
  BY <1>1, <1>2, <1>3, PTL DEF Spec

=============================================================================
