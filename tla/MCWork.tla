------------------------------- MODULE MCWork -------------------------------
(***************************************************************************)
(* What agents do on their own and what is agreed with them beforehand,    *)
(* side by side: schedules, roadmap tasks, the nightly dream, the          *)
(* interview a new agent is made in, and a goal's feedback, action items   *)
(* and access requests. They share one store and nothing else; which part  *)
(* runs is fixed at the start (focus), the others rest in their initial    *)
(* state.                                                                  *)
(***************************************************************************)
EXTENDS Naturals, Sequences, FiniteSets

CONSTANTS
  Names, NoFile, Timings,         \* schedules, the file of one that is not there, cadences
  Poll, Callers, Slots,           \* the scheduler's goroutine, requests, runs
  MaxFileEdits, MaxBoots,
  Devices, Sessions, MaxTaskEdits, MaxCrashes,   \* who acts on a task, its sessions; bounds
  Dreamers, Nightly, Dreamt,      \* who dreams for an agent, its sessions
  MaxWipes, MaxTurns, MaxMishaps,
  Calls, Topics, MaxQuestions, MaxResumes,       \* tool calls of an interview, what it covers
  Handlers, Notes, Items, Metrics, MaxDirectives, MaxCalls   \* requests on a goal, its parts

ASSUME NightlyAssumption == Nightly \in Dreamers
ASSUME TopicsAssumption == IsFiniteSet(Topics)
ASSUME QuestionsAssumption == MaxQuestions \in Nat
ASSUME PartsAssumption == Names # {} /\ Topics # {} /\ Notes # {}
ASSUME BoundsAssumption ==
  /\ MaxFileEdits \in Nat /\ MaxBoots \in Nat /\ MaxTaskEdits \in Nat /\ MaxCrashes \in Nat
  /\ MaxWipes \in Nat /\ MaxTurns \in Nat /\ MaxMishaps \in Nat /\ MaxResumes \in Nat
  /\ MaxCalls \in Nat

VARIABLES
  focus,      \* the component that runs
  files, jobs, threads, runs, edits, boots,
  task, sessions, hands, changes, crashes,
  memory, marked, busy, dreaming, dreams, folds, begun, mishaps,
  record, turn, starting, running, agent, call, resumes,
  note, item, told, access, granted, metric, timeline, handler, calls

Cron == INSTANCE Scheduler WITH MaxEdits <- MaxFileEdits
Board == INSTANCE TaskBoard WITH MaxEdits <- MaxTaskEdits
Night == INSTANCE Dream
Talk == INSTANCE Interview
Goals == INSTANCE GoalBoard

schedulesVars ==
  <<files, jobs, threads, runs, edits, boots>>
tasksVars ==
  <<task, sessions, hands, changes, crashes>>
dreamsVars ==
  <<memory, marked, busy, dreaming, dreams, folds, begun, mishaps>>
interviewVars ==
  <<record, turn, starting, running, agent, call, resumes>>
goalsVars ==
  <<note, item, told, access, granted, metric, timeline, handler, calls>>
vars ==
  <<focus, schedulesVars, tasksVars, dreamsVars, interviewVars, goalsVars>>

\* The step is one of component c: the others rest.
Only(c) ==
  /\ focus = c /\ UNCHANGED focus
  /\ IF c = "schedules" THEN TRUE ELSE UNCHANGED schedulesVars
  /\ IF c = "tasks" THEN TRUE ELSE UNCHANGED tasksVars
  /\ IF c = "dreams" THEN TRUE ELSE UNCHANGED dreamsVars
  /\ IF c = "interview" THEN TRUE ELSE UNCHANGED interviewVars
  /\ IF c = "goals" THEN TRUE ELSE UNCHANGED goalsVars

Init ==
  /\ focus \in {"schedules", "tasks", "dreams", "interview", "goals"}
  /\ Cron!SchedInit
  /\ focus = "schedules" \/ files = [n \in Names |-> NoFile]
  /\ Board!TaskInit
  /\ focus = "tasks" \/ ~task.due
  /\ Night!DreamInit
  /\ focus = "dreams" \/ busy = {}
  /\ Talk!InterviewInit
  /\ Goals!BoardInit

Next ==
  \/ Only("schedules") /\ Cron!SchedNext
  \/ Only("tasks") /\ Board!TaskNext
  \/ Only("dreams") /\ Night!DreamNext
  \/ Only("interview") /\ Talk!InterviewNext
  \/ Only("goals") /\ Goals!BoardNext

Spec == Init /\ [][Next]_vars
FairSpec ==
  /\ Spec
  /\ \A t \in Callers \cup {Poll} : WF_schedulesVars(focus = "schedules" /\ (Cron!Apply(t) \/ Cron!Write(t) \/ Cron!Rescan(t)))
  /\ WF_schedulesVars(focus = "schedules" /\ Cron!Sync(Poll))
  /\ \A s \in Slots : WF_schedulesVars(focus = "schedules" /\ Cron!RunProgress(s))
  /\ WF_tasksVars(focus = "tasks" /\ Board!PollProgress)
  /\ \A d \in Devices : WF_tasksVars(focus = "tasks" /\ (Board!Check(d) \/ Board!Write(d) \/ Board!Removing(d)))
  /\ SF_dreamsVars(focus = "dreams" /\ Night!Acquire(Nightly))
  /\ \A d \in Dreamers : WF_dreamsVars(focus = "dreams" /\ Night!DreamProgress(d))
  /\ \A s \in Dreamt : WF_dreamsVars(focus = "dreams" /\ Night!TurnStops(s))

-----------------------------------------------------------------------------
\* The variables of the component that runs have their types.
TypeOK ==
  /\ focus = "schedules" => Cron!SchedTypeOK
  /\ focus = "tasks" => Board!TaskTypeOK
  /\ focus = "dreams" => Night!DreamTypeOK
  /\ focus = "interview" => Talk!InterviewTypeOK
  /\ focus = "goals" => Goals!BoardTypeOK

\* Wherever the daemon dies or a statement fails: a task's session is gone only once it is
\* archived, a session counts as dreamed only once a memory that holds it is written, and
\* it goes into one memory (core/projects.go:687-760, core/dream.go:177-330).
NothingIsLost ==
  Board!GoneWasArchived /\ Night!MarkedWasRemembered /\ Night!FoldedOnce

\* However calls overlap: interview questions, answered topics and the draft stay in step,
\* and a verdict a goal's run was told, a denial and a recorded grant are what the store
\* says (server/interview.go:117-182, store/goal_action_items.go:82-84,
\* store/access_requests.go:87-117).
AgreementsStand == Talk!CoverageIsEarned /\ Goals!DecisionsStand

\* Cron ends up with the jobs the files ask for and a scheduled run with a terminal status,
\* a due task leaves the backlog, every session is dreamed (schedule/scheduler.go:181-560,
\* core/tasks.go:60-140, core/dream.go:147-260).
DueWorkIsDone ==
  /\ focus = "schedules" => Cron!JobsFollowFiles /\ Cron!RunsEnd
  /\ focus = "tasks" => Board!DueTaskIsStarted
  /\ focus = "dreams" => Night!AllIsDreamed
=============================================================================
