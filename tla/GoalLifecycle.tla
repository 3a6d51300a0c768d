---------------------------- MODULE GoalLifecycle ----------------------------
(***************************************************************************)
(* One goal: its row, its working memory, and everything that reads and    *)
(* writes them at once (internal/core/goals.go, goal_sessions.go,          *)
(* goal_memory.go, goal_runs.go and the statements of internal/store they  *)
(* issue).                                                                 *)
(*                                                                         *)
(* A worker is one goroutine that plans or reviews the goal, and it makes  *)
(* at most one run.  A call is an API request of the user or of an agent.  *)
(* Each reads the whole row, decides, and writes the whole row back in a   *)
(* statement of its own: a transaction or a statement that writes is a     *)
(* step, and so are the reads before it.  A tool call of a run's agent     *)
(* goes on although the run may end.                                       *)
(*                                                                         *)
(* Abstracted: the descriptive columns, the run target and the closing     *)
(* report are part of a row nobody tells apart; a memory document is the   *)
(* set of runs whose commits it carries; time is counted in review         *)
(* periods.  Left out: deletion, the timeline, directives and access       *)
(* requests, pending questions, the archive flag of the lead conversation, *)
(* the turns a user starts in it, and statements the database refuses, so  *)
(* that a deadline ends turns and nothing else.                            *)
(***************************************************************************)
EXTENDS Naturals, FiniteSets

CONSTANTS
    Workers,      \* goroutines that plan or review the goal; also their runs
    Planner,      \* the worker that goal creation starts
    Calls,        \* API requests in flight
    CallOps,      \* what the requests ask for
    Repairers,    \* requests that repair the memory; also their runs
    MaxTime,      \* bound on the review periods that pass
    MaxRevision,  \* bound on the memory's revision
    MaxRestarts   \* bound on the restarts of the daemon

Statuses == {"active", "paused", "review", "done", "abandoned"}

Patches == {"title", "cadence", "lead"}

ASSUME PlannerAssumption == Planner \in Workers
ASSUME CallOpsAssumption == CallOps \subseteq Statuses \union Patches \union {"resolve"}
ASSUME RunnersDisjoint == Workers \intersect Repairers = {}
ASSUME NamesFree == {"none", "repair", "creation", "scheduler", "manual"}
                        \intersect (Workers \union Repairers) = {}
ASSUME BoundsAssumption == MaxTime \in Nat /\ MaxRevision \in Nat /\ MaxRestarts \in Nat

VARIABLES
    goal,      \* the row of the goal
    nextStep,  \* its next-step columns are set
    memory,    \* the row of its memory
    now,       \* the time
    run,       \* run[r]: status of the run of r in goal_runs
    session,   \* session[r]: the lead session r runs in
    limit,     \* limit[w]: the rate-limit block of w's run
    worker,    \* worker[w]: where the goroutine is, and the row it read
    tool,      \* tool[w]: a tool call of w's agent in flight
    call,      \* call[c]: where the API request is, and the row it will write
    repair,    \* repair[q]: where the repair is, and its draft
    restarts,  \* how often the daemon restarted
    committed  \* runs whose commit was accepted, hence acknowledged feedback

vars == <<goal, nextStep, memory, now, run, session, limit, worker, tool, call,
          repair, restarts, committed>>

-----------------------------------------------------------------------------
Runners == Workers \union Repairers

None == "none"

NoReview == 0   \* next_review_at is NULL

Rows == [status : Statuses, next : 0 .. MaxTime + 1, every : BOOLEAN,
         lead : Runners \union {None}]

NoRow == [status |-> "active", next |-> NoReview, every |-> FALSE, lead |-> None]

WorkerPlaces == {"idle", "listed", "advancing", "starting", "validating", "loaded",
                 "ready", "running", "checking", "limiting", "blocking", "over"}

RepairPlaces == {"idle", "pausing", "loading", "drafted", "asking", "running",
                 "validated", "committing", "over"}

Memories == [status : {"pending_backfill", "validating", "ready", "blocked"},
             revision : 0 .. MaxRevision, last : Workers \union {None, "repair"},
             doc : SUBSET Workers]

WorkerStates == [at : WorkerPlaces, kind : {"planning", "review"},
                 cause : Workers \union {"creation", "scheduler", "manual", None},
                 row : Rows]

ToolStates == [at : {None, "commit", "propose", "clearing"}, revision : 0 .. MaxRevision,
               doc : SUBSET Workers, row : Rows]

CallStates == [at : {"idle", "writing", "closing", "resolving"},
               op : CallOps \union {None}, row : Rows, run : Workers \union {None}]

RepairStates == [at : RepairPlaces, doc : SUBSET Workers, revision : 0 .. MaxRevision,
                 row : Rows]

TurnResults == {"succeeded", "failed", "interrupted", "rate_limited"}

TypeOK ==
    /\ goal \in Rows
    /\ nextStep \in BOOLEAN
    /\ memory \in Memories
    /\ now \in 0 .. MaxTime
    /\ run \in [Runners -> TurnResults \union {None, "running"}]
    /\ session \in [Runners -> Runners \union {None}]
    /\ limit \in [Workers -> {None, "pending", "resolved"}]
    /\ worker \in [Workers -> WorkerStates]
    /\ tool \in [Workers -> ToolStates]
    /\ call \in [Calls -> CallStates]
    /\ repair \in [Repairers -> RepairStates]
    /\ restarts \in 0 .. MaxRestarts
    /\ committed \subseteq Workers

IdleWorker == [at |-> "idle", kind |-> "review", cause |-> None, row |-> NoRow]

NoTool == [at |-> None, revision |-> 0, doc |-> {}, row |-> NoRow]

IdleCall == [at |-> "idle", op |-> None, row |-> NoRow, run |-> None]

IdleRepair == [at |-> "idle", doc |-> {}, revision |-> 0, row |-> NoRow]

\* nextReviewFrom
NextReviewFrom(every) == IF every THEN now + 1 ELSE NoReview

\* The state CreateGoal leaves, its planning goroutine about to start.
Init ==
    /\ now = 0
    /\ \E every \in BOOLEAN :
         goal = [status |-> "active", next |-> NextReviewFrom(every),
                 every |-> every, lead |-> None]
    /\ nextStep = FALSE
    /\ memory = [status |-> "pending_backfill", revision |-> 0, last |-> None, doc |-> {}]
    /\ run = [r \in Runners |-> None]
    /\ session = [r \in Runners |-> None]
    /\ limit = [w \in Workers |-> None]
    /\ worker = [w \in Workers |->
                   IF w = Planner
                   THEN [IdleWorker EXCEPT !.at = "starting", !.kind = "planning", !.cause = "creation"]
                   ELSE IdleWorker]
    /\ tool = [w \in Workers |-> NoTool]
    /\ call = [c \in Calls |-> IdleCall]
    /\ repair = [q \in Repairers |-> IdleRepair]
    /\ restarts = 0
    /\ committed = {}

runVars == <<run, session, limit>>
rowVars == <<goal, nextStep>>
agentVars == <<tool, committed>>
apiVars == <<call, repair>>

Move(w, place) == worker' = [worker EXCEPT ![w].at = place]

\* BlockGoalMemory: one transaction blocks the memory and pauses the goal.
PauseForMemory ==
    /\ memory' = [memory EXCEPT !.status = "blocked"]
    /\ goal' = [goal EXCEPT !.status = "paused", !.next = NoReview]

-----------------------------------------------------------------------------
(***************************************************************************)
(* Starting: the scheduler's poll and the Review now button.  The poll     *)
(* runs its reviews in its own loop, one after the other.                  *)
(***************************************************************************)
Tick ==
    /\ now < MaxTime
    /\ now' = now + 1
    /\ UNCHANGED <<rowVars, memory, runVars, worker, agentVars, apiVars, restarts>>

Due ==
    /\ goal.status = "active"
    /\ goal.next # NoReview
    /\ goal.next <= now
    /\ \A w \in Workers : limit[w] # "pending"

SchedulerFree ==
    \A w \in Workers : worker[w].cause = "scheduler" => worker[w].at = "over"

ListDue(w) ==
    /\ worker[w].at = "idle"
    /\ SchedulerFree
    /\ Due
    /\ worker' = [worker EXCEPT ![w].at = "listed", ![w].cause = "scheduler"]
    /\ UNCHANGED <<rowVars, memory, now, runVars, agentVars, apiVars, restarts>>

AdvanceRead(w) ==
    /\ worker[w].at = "listed"
    /\ worker' = [worker EXCEPT ![w].at = "advancing", ![w].row = goal]
    /\ UNCHANGED <<rowVars, memory, now, runVars, agentVars, apiVars, restarts>>

AdvanceWrite(w) ==
    /\ worker[w].at = "advancing"
    /\ goal' = [goal EXCEPT !.next = NextReviewFrom(worker[w].row.every)]
    /\ worker' = [worker EXCEPT ![w].at = "starting", ![w].row = NoRow]
    /\ UNCHANGED <<nextStep, memory, now, runVars, agentVars, apiVars, restarts>>

ReviewNow(w) ==
    /\ worker[w].at = "idle"
    /\ goal.status = "active"
    /\ \A r \in Runners : run[r] # "running"
    /\ worker' = [worker EXCEPT ![w].at = "starting", ![w].cause = "manual"]
    /\ UNCHANGED <<rowVars, memory, now, runVars, agentVars, apiVars, restarts>>

-----------------------------------------------------------------------------
(***************************************************************************)
(* A worker: StartGoalPlanning or RunGoalReview, then runGoalSession.      *)
(***************************************************************************)
LoadPlanning(w) ==
    /\ worker[w].at = "starting"
    /\ worker[w].kind = "planning"
    /\ worker' = [worker EXCEPT ![w].at = "loaded", ![w].row = goal]
    /\ UNCHANGED <<rowVars, memory, now, runVars, agentVars, apiVars, restarts>>

\* A review whose packet is too large, or whose memory cannot be read, blocks.
LoadReview(w) ==
    /\ worker[w].at = "starting"
    /\ worker[w].kind = "review"
    /\ goal.status = "active"
    /\ \E place \in {IF memory.status = "ready" THEN "loaded" ELSE "validating", "blocking"} :
         worker' = [worker EXCEPT ![w].at = place, ![w].row = goal]
    /\ UNCHANGED <<rowVars, memory, now, runVars, agentVars, apiVars, restarts>>

RefuseReview(w) ==
    /\ worker[w].at = "starting"
    /\ worker[w].kind = "review"
    /\ goal.status # "active"
    /\ Move(w, "over")
    /\ UNCHANGED <<rowVars, memory, now, runVars, agentVars, apiVars, restarts>>

SetValidating(w) ==
    /\ worker[w].at = "validating"
    /\ memory' = [memory EXCEPT !.status = "validating"]
    /\ \E place \in {"loaded", "blocking"} : Move(w, place)
    /\ UNCHANGED <<rowVars, now, runVars, agentVars, apiVars, restarts>>

\* Without a lead session the row read at the start is written back with one.
EnsureLead(w) ==
    /\ worker[w].at = "loaded"
    /\ LET row == worker[w].row
           lead == IF row.lead = None THEN w ELSE row.lead
       IN  /\ goal' = IF row.lead = None THEN [row EXCEPT !.lead = lead] ELSE goal
           /\ session' = [session EXCEPT ![w] = lead]
    /\ worker' = [worker EXCEPT ![w].at = "ready", ![w].row = NoRow]
    /\ UNCHANGED <<nextStep, memory, now, run, limit, agentVars, apiVars, restarts>>

\* Mutation of RunFree: no index on the running runs.
RunFreeAlways(r) == r \in Runners

\* The partial unique indexes of goal_runs: one running run per session, one
\* running planning or review run per goal.
RunFree(r) ==
    \A other \in Runners :
        run[other] = "running" =>
            /\ session[other] # session[r]
            /\ ~ (r \in Workers /\ other \in Workers)

\* Before this the conversation may be compacted, which takes a model turn.
BeginRun(w) ==
    /\ worker[w].at = "ready"
    /\ \/ RunFree(w) /\ run' = [run EXCEPT ![w] = "running"] /\ Move(w, "running")
       \/ ~ RunFree(w) /\ Move(w, "over") /\ UNCHANGED run
    /\ UNCHANGED <<rowVars, memory, now, session, limit, agentVars, apiVars, restarts>>

AfterTurn(status) ==
    CASE status = "succeeded"    -> "checking"
      [] status = "rate_limited" -> "limiting"
      [] OTHER                   -> "over"

\* Mutation of TurnEnds: a failed turn leaves its run running.
TurnEndsReleasing(w, status) ==
    /\ worker[w].at = "running"
    /\ run' = [run EXCEPT ![w] = IF status = "failed" THEN @ ELSE status]
    /\ Move(w, AfterTurn(status))
    /\ UNCHANGED <<rowVars, memory, now, session, limit, agentVars, apiVars, restarts>>

\* StreamTurn's deferred finishGoalRun; interrupted is a turn out of time.
TurnEnds(w, status) ==
    /\ worker[w].at = "running"
    /\ run' = [run EXCEPT ![w] = status]
    /\ Move(w, AfterTurn(status))
    /\ UNCHANGED <<rowVars, memory, now, session, limit, agentVars, apiVars, restarts>>

\* Mutation of CheckMemory: any commit since the start will do.
CheckMemoryLoosely(w) ==
    /\ worker[w].at = "checking"
    /\ Move(w, IF memory.status = "ready" THEN "over" ELSE "blocking")
    /\ UNCHANGED <<rowVars, memory, now, runVars, agentVars, apiVars, restarts>>

CheckMemory(w) ==
    /\ worker[w].at = "checking"
    /\ Move(w, IF memory.last = w THEN "over" ELSE "blocking")
    /\ UNCHANGED <<rowVars, memory, now, runVars, agentVars, apiVars, restarts>>

BlockMemory(w) ==
    /\ worker[w].at = "blocking"
    /\ PauseForMemory
    /\ worker' = [worker EXCEPT ![w].at = "over", ![w].row = NoRow]
    /\ UNCHANGED <<nextStep, now, runVars, agentVars, apiVars, restarts>>

\* ensureGoalRateLimitBlock; run_id is unique.
CreateLimit(w) ==
    /\ worker[w].at = "limiting"
    /\ limit' = [limit EXCEPT ![w] = IF @ = None THEN "pending" ELSE @]
    /\ Move(w, "over")
    /\ UNCHANGED <<rowVars, memory, now, run, session, agentVars, apiVars, restarts>>

-----------------------------------------------------------------------------
(***************************************************************************)
(* The tool calls of a run's agent.                                        *)
(***************************************************************************)
CommitRead(w) ==
    /\ tool[w].at = None
    /\ run[w] = "running"
    /\ memory.revision < MaxRevision
    /\ tool' = [tool EXCEPT ![w].at = "commit", ![w].revision = memory.revision,
                            ![w].doc = memory.doc \union {w}]
    /\ UNCHANGED <<rowVars, memory, now, runVars, worker, apiVars, restarts, committed>>

Publish(last, doc) ==
    memory' = [status |-> "ready", revision |-> memory.revision + 1, last |-> last, doc |-> doc]

\* Mutation of CommitWrite: the transaction does not compare the revision.
CommitWriteBlindly(w) ==
    /\ tool[w].at = "commit"
    /\ Publish(w, tool[w].doc)
    /\ committed' = committed \union {w}
    /\ tool' = [tool EXCEPT ![w] = NoTool]
    /\ UNCHANGED <<rowVars, now, runVars, worker, apiVars, restarts>>

\* The transaction of the store; a commit on an old revision is refused.
CommitWrite(w) ==
    /\ tool[w].at = "commit"
    /\ tool' = [tool EXCEPT ![w] = NoTool]
    /\ \/ /\ tool[w].revision = memory.revision
          /\ Publish(w, tool[w].doc)
          /\ committed' = committed \union {w}
       \/ /\ tool[w].revision # memory.revision
          /\ UNCHANGED <<memory, committed>>
    /\ UNCHANGED <<rowVars, now, runVars, worker, apiVars, restarts>>

\* Mutation of ProposeRead: the run need not have committed its memory.
ProposeReadUnsaved(w) ==
    /\ tool[w].at = None
    /\ goal.status = "active"
    /\ run[w] = "running"
    /\ tool' = [tool EXCEPT ![w].at = "propose",
                            ![w].row = [goal EXCEPT !.status = "review", !.next = NoReview]]
    /\ UNCHANGED <<rowVars, memory, now, runVars, worker, apiVars, restarts, committed>>

ProposeRead(w) ==
    /\ tool[w].at = None
    /\ goal.status = "active"
    /\ run[w] = "running"
    /\ memory.last = w
    /\ tool' = [tool EXCEPT ![w].at = "propose",
                            ![w].row = [goal EXCEPT !.status = "review", !.next = NoReview]]
    /\ UNCHANGED <<rowVars, memory, now, runVars, worker, apiVars, restarts, committed>>

ProposeWrite(w) ==
    /\ tool[w].at = "propose"
    /\ goal' = tool[w].row
    /\ tool' = [tool EXCEPT ![w] = [NoTool EXCEPT !.at = "clearing"]]
    /\ UNCHANGED <<nextStep, memory, now, runVars, worker, apiVars, restarts, committed>>

ProposeClear(w) ==
    /\ tool[w].at = "clearing"
    /\ nextStep' = FALSE
    /\ tool' = [tool EXCEPT ![w] = NoTool]
    /\ UNCHANGED <<goal, memory, now, runVars, worker, apiVars, restarts, committed>>

\* RecordGoalProgress with a next step: it never looks at the status.
RecordNextStep(w) ==
    /\ run[w] = "running"
    /\ nextStep' = TRUE
    /\ UNCHANGED <<goal, memory, now, runVars, worker, agentVars, apiVars, restarts>>

-----------------------------------------------------------------------------
(***************************************************************************)
(* API requests: TransitionGoal, UpdateGoal and ResolveGoalRateLimit.      *)
(***************************************************************************)
GoalTransitionAllowed(from, to) ==
    \/ to = "active" /\ from \in {"paused", "review", "done", "abandoned"}
    \/ to = "paused" /\ from \in {"active", "review"}
    \/ to = "done" /\ from = "review"
    \/ to = "abandoned" /\ from \in {"active", "paused", "review"}

Hold(c, op, row) == call' = [call EXCEPT ![c].at = "writing", ![c].op = op, ![c].row = row]

ReadForTransition(c, to) ==
    /\ call[c].at = "idle"
    /\ to \in Statuses
    /\ GoalTransitionAllowed(goal.status, to)
    /\ ~ (goal.status = "paused" /\ to = "active" /\ memory.status = "blocked")
    /\ Hold(c, to, [goal EXCEPT !.status = to,
                       !.next = NextReviewFrom(to = "active" /\ goal.every)])
    /\ UNCHANGED <<rowVars, memory, now, runVars, worker, agentVars, repair, restarts>>

Patched(op) ==
    CASE op = "title"   -> goal
      [] op = "lead"    -> [goal EXCEPT !.lead = None]
      [] op = "cadence" -> [goal EXCEPT !.every = ~ @,
                               !.next = IF goal.status = "active"
                                        THEN NextReviewFrom(~ goal.every) ELSE @]

ReadForPatch(c, op) ==
    /\ call[c].at = "idle"
    /\ op \in Patches
    /\ Hold(c, op, Patched(op))
    /\ UNCHANGED <<rowVars, memory, now, runVars, worker, agentVars, repair, restarts>>

ReadForResolve(c, w) ==
    /\ call[c].at = "idle"
    /\ limit[w] = "pending"
    /\ call' = [call EXCEPT ![c] = [at |-> "writing", op |-> "resolve", row |-> goal, run |-> w]]
    /\ UNCHANGED <<rowVars, memory, now, runVars, worker, agentVars, repair, restarts>>

AfterWrite(op) ==
    CASE op \in {"done", "abandoned"} -> "closing"
      [] op = "resolve"               -> "resolving"
      [] OTHER                        -> "idle"

Write(c) ==
    /\ call[c].at = "writing"
    /\ goal' = call[c].row
    /\ LET at == AfterWrite(call[c].op)
       IN  call' = IF at = "idle" THEN [call EXCEPT ![c] = IdleCall]
                   ELSE [call EXCEPT ![c].at = at, ![c].row = NoRow]
    /\ UNCHANGED <<nextStep, memory, now, runVars, worker, agentVars, repair, restarts>>

ClearNextStep(c) ==
    /\ call[c].at = "closing"
    /\ nextStep' = FALSE
    /\ call' = [call EXCEPT ![c] = IdleCall]
    /\ UNCHANGED <<goal, memory, now, runVars, worker, agentVars, repair, restarts>>

\* retryGoalRateLimit: a new goroutine repeats the phase.
Retry(w) ==
    \/ UNCHANGED worker
    \/ \E v \in Workers :
         /\ worker[v].at = "idle"
         /\ worker' = [worker EXCEPT ![v].at = "starting", ![v].kind = worker[w].kind,
                                     ![v].cause = w]

\* Mutation of ResolveLimit: the update does not ask for a pending block.
ResolveLimitAlways(c) ==
    /\ call[c].at = "resolving"
    /\ limit' = [limit EXCEPT ![call[c].run] = "resolved"]
    /\ Retry(call[c].run)
    /\ call' = [call EXCEPT ![c] = IdleCall]
    /\ UNCHANGED <<rowVars, memory, now, run, session, agentVars, repair, restarts>>

\* Only the request that finds the block pending resolves it and may retry.
ResolveLimit(c) ==
    /\ call[c].at = "resolving"
    /\ call' = [call EXCEPT ![c] = IdleCall]
    /\ \/ /\ limit[call[c].run] = "pending"
          /\ limit' = [limit EXCEPT ![call[c].run] = "resolved"]
          /\ Retry(call[c].run)
       \/ /\ limit[call[c].run] # "pending"
          /\ UNCHANGED <<limit, worker>>
    /\ UNCHANGED <<rowVars, memory, now, run, session, agentVars, repair, restarts>>

-----------------------------------------------------------------------------
(***************************************************************************)
(* RepairGoalMemory: the draft is built first, the lead model confirms it  *)
(* in a turn of its own, and only then is the base revision read.          *)
(***************************************************************************)
RepairTo(q, place) == repair' = [repair EXCEPT ![q].at = place]

RepairStart(q) ==
    /\ repair[q].at = "idle"
    /\ memory.status = "blocked"
    /\ repair' = [repair EXCEPT
                    ![q].at = IF goal.status = "paused" THEN "loading" ELSE "pausing",
                    ![q].row = IF goal.status = "paused" THEN goal
                               ELSE [goal EXCEPT !.status = "paused", !.next = NoReview]]
    /\ UNCHANGED <<rowVars, memory, now, runVars, worker, agentVars, call, restarts>>

RepairPause(q) ==
    /\ repair[q].at = "pausing"
    /\ PauseForMemory
    /\ RepairTo(q, "loading")
    /\ UNCHANGED <<nextStep, now, runVars, worker, agentVars, call, restarts>>

RepairLoad(q) ==
    /\ repair[q].at = "loading"
    /\ repair' = [repair EXCEPT ![q].at = "drafted", ![q].doc = memory.doc]
    /\ UNCHANGED <<rowVars, memory, now, runVars, worker, agentVars, call, restarts>>

RepairLead(q) ==
    /\ repair[q].at = "drafted"
    /\ LET row == repair[q].row
           lead == IF row.lead = None THEN q ELSE row.lead
       IN  /\ goal' = IF row.lead = None THEN [row EXCEPT !.lead = lead] ELSE goal
           /\ session' = [session EXCEPT ![q] = lead]
    /\ repair' = [repair EXCEPT ![q].at = "asking", ![q].row = NoRow]
    /\ UNCHANGED <<nextStep, memory, now, run, limit, worker, agentVars, call, restarts>>

RepairAsk(q) ==
    /\ repair[q].at = "asking"
    /\ \/ RunFree(q) /\ run' = [run EXCEPT ![q] = "running"] /\ RepairTo(q, "running")
       \/ ~ RunFree(q) /\ RepairTo(q, "over") /\ UNCHANGED run
    /\ UNCHANGED <<rowVars, memory, now, session, limit, worker, agentVars, call, restarts>>

\* The turn that validates the draft ends; only its confirmation goes on.
RepairAnswered(q, status) ==
    /\ repair[q].at = "running"
    /\ run' = [run EXCEPT ![q] = status]
    /\ \/ status = "succeeded" /\ RepairTo(q, "validated")
       \/ RepairTo(q, "over")
    /\ UNCHANGED <<rowVars, memory, now, session, limit, worker, agentVars, call, restarts>>

RepairBase(q) ==
    /\ repair[q].at = "validated"
    /\ repair' = [repair EXCEPT ![q].at = "committing", ![q].revision = memory.revision]
    /\ UNCHANGED <<rowVars, memory, now, runVars, worker, agentVars, call, restarts>>

RepairCommit(q) ==
    /\ repair[q].at = "committing"
    /\ RepairTo(q, "over")
    /\ \/ /\ repair[q].revision = memory.revision
          /\ memory.revision < MaxRevision
          /\ Publish("repair", repair[q].doc)
       \/ /\ repair[q].revision # memory.revision
          /\ UNCHANGED memory
    /\ UNCHANGED <<rowVars, now, runVars, worker, agentVars, call, restarts>>

-----------------------------------------------------------------------------
(***************************************************************************)
(* The daemon restarts: what was in flight is gone, running runs are       *)
(* interrupted, and an open goal whose lead session ended a run at its     *)
(* rate limit, and has no block at all, gets one.                          *)
(***************************************************************************)
LeadRuns(s) == {w \in Workers : session[w] = s /\ run[w] # None}

NeedsBlock(s) ==
    /\ goal.status \notin {"done", "abandoned"}
    /\ \E w \in LeadRuns(s) : run[w] = "rate_limited"
    /\ \A w \in LeadRuns(s) : limit[w] = None

\* The block names the oldest lead run of the session, one of LeadRuns.
ReconcileLimits ==
    \E blocked \in SUBSET Workers :
        /\ \A w \in blocked : w \in LeadRuns(session[w]) /\ NeedsBlock(session[w])
        /\ \A s \in Runners : NeedsBlock(s) => Cardinality(blocked \intersect LeadRuns(s)) = 1
        /\ limit' = [w \in Workers |-> IF w \in blocked THEN "pending" ELSE limit[w]]

\* InterruptRunningGoalRuns
InterruptRunningRuns ==
    run' = [r \in Runners |-> IF run[r] = "running" THEN "interrupted" ELSE run[r]]

Restart ==
    /\ restarts < MaxRestarts
    /\ restarts' = restarts + 1
    /\ InterruptRunningRuns
    /\ ReconcileLimits
    /\ worker' = [w \in Workers |-> IF worker[w].at = "idle" THEN worker[w]
                    ELSE [worker[w] EXCEPT !.at = "over", !.row = NoRow]]
    /\ repair' = [q \in Repairers |-> IF repair[q].at = "idle" THEN repair[q]
                    ELSE [IdleRepair EXCEPT !.at = "over"]]
    /\ tool' = [w \in Workers |-> NoTool]
    /\ call' = [c \in Calls |-> IdleCall]
    /\ UNCHANGED <<rowVars, memory, now, session, committed>>

-----------------------------------------------------------------------------
\* What a worker does by itself once it is started.
WorkerStep(w) ==
    \/ AdvanceRead(w) \/ AdvanceWrite(w)
    \/ LoadPlanning(w) \/ LoadReview(w) \/ RefuseReview(w)
    \/ SetValidating(w) \/ EnsureLead(w) \/ BeginRun(w)
    \/ CheckMemory(w) \/ BlockMemory(w) \/ CreateLimit(w)
    \/ \E status \in TurnResults : TurnEnds(w, status)

AgentStep(w) ==
    \/ CommitRead(w) \/ CommitWrite(w)
    \/ ProposeRead(w) \/ ProposeWrite(w) \/ ProposeClear(w)
    \/ RecordNextStep(w)

CallStep(c) ==
    \/ \E op \in CallOps : ReadForTransition(c, op) \/ ReadForPatch(c, op)
    \/ "resolve" \in CallOps /\ \E w \in Workers : ReadForResolve(c, w)
    \/ Write(c) \/ ClearNextStep(c) \/ ResolveLimit(c)

RepairStep(q) ==
    \/ RepairStart(q) \/ RepairPause(q) \/ RepairLoad(q) \/ RepairLead(q)
    \/ RepairAsk(q) \/ RepairBase(q) \/ RepairCommit(q)
    \/ \E status \in TurnResults : RepairAnswered(q, status)

Next ==
    \/ Tick
    \/ Restart
    \/ \E w \in Workers : ListDue(w) \/ ReviewNow(w) \/ WorkerStep(w) \/ AgentStep(w)
    \/ \E c \in Calls : CallStep(c)
    \/ \E q \in Repairers : RepairStep(q)

Spec == Init /\ [][Next]_vars

\* Goroutines run, and every turn ends: planning, manual and retried runs
\* carry a deadline of 30 minutes, a scheduled one relies on the provider.
Fairness == \A w \in Workers : WF_vars(WorkerStep(w))

FairSpec == Spec /\ Fairness

-----------------------------------------------------------------------------
(***************************************************************************)
(* Properties.                                                             *)
(***************************************************************************)

\* Feedback is acknowledged together with the commit that carries its effect
\* (store.CommitGoalMemory), and never shown to an agent again: the memory
\* still carries every commit that was accepted.  With Repairers it does not,
\* a repair publishes a draft older than the revision it compares.
AcknowledgedIsCarried == committed \subseteq memory.doc

\* A goal waits for the user's verdict, or is done, only after one of its runs
\* saved its memory (ProposeGoalCompletion), whoever wrote the row since.
CompletionIsEarned == goal.status \in {"review", "done"} => committed # {}

\* The retry of a rate-limited run is started by the one request that resolved
\* its block, however many devices resolve it at once (ResolveGoalRateLimit).
RetriedOnce ==
    \A v, w \in Workers :
        v # w /\ worker[v].cause \in Workers => worker[v].cause # worker[w].cause

\* Planning, reviews and repairs of a goal come from the scheduler, the API and
\* retries, each checking for itself; two of them never run a turn at once in
\* one conversation, and no two of the goal's workers run at once (BeginRun).
TurnsAreExclusive ==
    \A r, s \in Runners :
        r # s /\ run[r] = "running" /\ run[s] = "running" =>
            session[r] # session[s] /\ {r, s} \cap Repairers # {}

\* A worker that starts ends, also when its run fails or is refused: the
\* scheduler's poll waits for it (pickupDueGoalReviews), and its run is released.
WorkersEnd ==
    \A w \in Workers :
        worker[w].at \notin {"idle", "over"} ~> worker[w].at = "over" /\ run[w] # "running"

\* A run that succeeded without saving the memory pauses the goal with its
\* memory blocked (runGoalSession), unless its late tool call still saves it.
UnsavedRunBlocks ==
    \A w \in Workers :
        worker[w].at = "checking" /\ w \notin committed
            ~> memory.status = "blocked" \/ w \in committed
=============================================================================
