----------------------------- MODULE TaskBoard -----------------------------
(***************************************************************************)
(* The roadmap's tasks: internal/core/projects.go (UpdateTask, StartTask,  *)
(* RunTaskTurn, DeleteTask, ArchiveDoneTasks and the moves in and out of   *)
(* review), internal/store/tasks.go, the handlers of server/projects.go,   *)
(* and the scheduler's pickupDueTasks.                                     *)
(*                                                                         *)
(* No lock or transaction spans a call: a caller reads the task, decides,  *)
(* and later writes the whole row. The scheduler works through a list it   *)
(* read at the start of its tick, running each task to its end before it   *)
(* looks at the next, so an entry may be hours old when its turn comes.    *)
(***************************************************************************)
EXTENDS Naturals, FiniteSets

CONSTANTS
  Poll,         \* the scheduler's goroutine
  Devices,      \* request handlers, and turns that end, at the same time
  Sessions,     \* sessions, each used once
  MaxEdits,     \* bound on what users do
  MaxCrashes    \* bound on restarts of the daemon

VARIABLES
  task,         \* the row: status, the fields a session locks, whether it is due
  sessions,     \* the sessions started from it
  hands,        \* goroutines in the middle of a call
  changes, crashes

taskVars == <<task, sessions, hands, changes, crashes>>

Hands == {Poll} \cup Devices
Statuses == {"backlog", "in_progress", "review", "done", "gone"}
Row == [status: Statuses, locked: 0..MaxEdits, due: BOOLEAN]
Steps == {"idle", "listed", "read", "opened", "checked", "running", "copied", "removed"}
Whys == {"", "start", "patch", "review", "restore"}

TaskTypeOK ==
  /\ task \in Row
  \* open: its turn may run; finished: archived in the app; gone: deleted.
  \* copied: it is in an archive folder; late: opened while its task was being archived
  /\ sessions \in [Sessions -> [st: {"none", "open", "finished", "gone"},
                                copied: BOOLEAN, late: BOOLEAN]]
  /\ hands \in [Hands -> [step: Steps, why: Whys, want: Row, sess: SUBSET Sessions]]
  /\ changes \in 0..MaxEdits
  /\ crashes \in 0..MaxCrashes

FreshTask == [status |-> "backlog", locked |-> 0, due |-> FALSE]
Empty == [step |-> "idle", why |-> "", want |-> FreshTask, sess |-> {}]

TaskInit ==
  /\ task \in {[FreshTask EXCEPT !.due = b] : b \in BOOLEAN}
  /\ sessions = [s \in Sessions |-> [st |-> "none", copied |-> FALSE, late |-> FALSE]]
  /\ hands = [h \in Hands |-> Empty]
  /\ changes = 0
  /\ crashes = 0

Exists == task.status # "gone"
Live == {s \in Sessions : sessions[s].st \in {"open", "finished"}}
\* taskHasSession.
HasSession == Live # {}
Due == task.status = "backlog" /\ task.due

Goes(h, rec) == hands' = [hands EXCEPT ![h] = rec]
At(h, step) == hands[h].step = step

---------------------------------------------------------------------------
\* pickupDueTasks: ListDueTasks reads the due backlog tasks once for the tick.
List ==
  /\ At(Poll, "idle")
  /\ Due
  /\ Goes(Poll, [Empty EXCEPT !.step = "listed", !.why = "start"])
  /\ UNCHANGED <<task, sessions, changes, crashes>>

\* StartTask reads the task by its id; nothing asks whether it is still due, or
\* still in the backlog.
ReadToStart(h) ==
  /\ \/ h = Poll /\ At(h, "listed") /\ UNCHANGED changes
     \/ h \in Devices /\ At(h, "idle") /\ changes < MaxEdits /\ changes' = changes + 1
  /\ Goes(h, IF Exists THEN [step |-> "read", why |-> "start", want |-> task, sess |-> {}]
                       ELSE Empty)
  /\ UNCHANGED <<task, sessions, crashes>>

\* Mutation of Claimed: the pickup time is cleared with it, which the check of
\* the locked fields refuses once the session exists.
ClaimedUndue(row) == [row EXCEPT !.status = "in_progress", !.due = FALSE,
                               !.locked = (row.locked + 1) % (MaxEdits + 1)]
\* What StartTask writes: the row it read, moved to in_progress.
Claimed(row) == [row EXCEPT !.status = "in_progress"]

Copying == {h \in Hands : At(h, "copied") \/ At(h, "removed")}

\* CreateSession comes before the status moves: a StartTask that fails after it
\* leaves the session behind.
OpenSession(h) ==
  /\ At(h, "read") /\ hands[h].why = "start"
  /\ \E s \in Sessions :
       /\ sessions[s].st = "none"
       /\ sessions' = [sessions EXCEPT ![s] = [st |-> "open", copied |-> FALSE,
                                               late |-> Copying # {}]]
       /\ Goes(h, [step |-> "opened", why |-> "start", want |-> Claimed(hands[h].want),
                   sess |-> {s}])
  /\ UNCHANGED <<task, changes, crashes>>

\* UpdateTask reads the row again and refuses to change what a session locks.
Refused(want) == ~Exists \/ (HasSession /\ want.locked # task.locked)
Check(h) ==
  /\ At(h, "opened")
  /\ Goes(h, IF Refused(hands[h].want) THEN Empty ELSE [hands[h] EXCEPT !.step = "checked"])
  /\ UNCHANGED <<task, sessions, changes, crashes>>

\* store.UpdateTask writes every column. Who started the task then runs the turn:
\* the scheduler always, a device when it asked for it unattended; otherwise the
\* turn is left to its user.
Write(h) ==
  /\ At(h, "checked")
  /\ task' = IF Exists THEN hands[h].want ELSE task
  /\ \/ Exists /\ hands[h].why = "start" /\ Goes(h, [hands[h] EXCEPT !.step = "running"])
     \/ (Exists => h # Poll) /\ Goes(h, Empty)
  /\ UNCHANGED <<sessions, changes, crashes>>

\* RunTaskTurn drains the turn and archives the finished session.
TurnEndsUnattended(h) ==
  /\ At(h, "running")
  /\ sessions' = [s \in Sessions |-> IF s \in hands[h].sess /\ sessions[s].st = "open"
                                     THEN [sessions[s] EXCEPT !.st = "finished"] ELSE sessions[s]]
  /\ Goes(h, Empty)
  /\ UNCHANGED <<task, changes, crashes>>

---------------------------------------------------------------------------
\* PATCH /api/tasks/<id>: the handler reads the row and applies what was sent: a
\* new status, a new pickup time, or a field a session locks.
Patches == {[task EXCEPT !.status = x] : x \in Statuses \ {"gone"}}
             \cup {[task EXCEPT !.due = ~task.due, !.locked = changes']}
             \cup {[task EXCEPT !.locked = changes']}
Patch(h) ==
  /\ h \in Devices /\ At(h, "idle") /\ Exists
  /\ changes < MaxEdits /\ changes' = changes + 1
  /\ \E row \in Patches : row # task
       /\ Goes(h, [step |-> "opened", why |-> "patch", want |-> row, sess |-> {}])
  /\ UNCHANGED <<task, sessions, crashes>>

\* MoveRoadmapSessionTaskToReview, when the turn of an open session asks the user
\* or ends; and RestoreRoadmapSessionTaskToInProgress, after the answer.
Move(h, from, to, why) ==
  /\ h \in Devices /\ At(h, "idle")
  /\ changes < MaxEdits /\ changes' = changes + 1
  /\ \E s \in Sessions : sessions[s].st = "open"
  /\ task.status = from
  /\ Goes(h, [step |-> "opened", why |-> why, want |-> [task EXCEPT !.status = to], sess |-> {}])
  /\ UNCHANGED <<task, sessions, crashes>>
MoveToReview(h) == Move(h, "in_progress", "review", "review")
RestoreToInProgress(h) == Move(h, "review", "in_progress", "restore")

\* DeleteTask refuses a task in progress; its sessions stay.
DeleteTask(h) ==
  /\ h \in Devices /\ At(h, "idle")
  /\ changes < MaxEdits /\ changes' = changes + 1
  /\ Exists /\ task.status # "in_progress"
  /\ task' = [task EXCEPT !.status = "gone"]
  /\ UNCHANGED <<sessions, hands, crashes>>

\* Mutation of Kept: the archive folder is renamed into place only after the rows are gone.
KeptLater(picked) == sessions
\* archiveTasks: what is in the archive once its folder was renamed into place.
Kept(picked) ==
  [s \in Sessions |-> IF s \in picked THEN [sessions[s] EXCEPT !.copied = TRUE] ELSE sessions[s]]

\* ArchiveDoneTasks lists the done tasks and writes every one with its sessions
\* into a folder, renamed into place before anything is deleted.
Archive(h) ==
  /\ h \in Devices /\ At(h, "idle")
  /\ task.status = "done"
  /\ sessions' = Kept(Live)
  /\ Goes(h, [Empty EXCEPT !.step = "copied", !.sess = Live])
  /\ UNCHANGED <<task, changes, crashes>>

\* Then the sessions go, whatever they are by now, and after them the task,
\* whatever its status has become.
RemoveSessions(h) ==
  /\ At(h, "copied")
  /\ sessions' = [s \in Sessions |-> IF s \in Live THEN [sessions[s] EXCEPT !.st = "gone"]
                                                  ELSE sessions[s]]
  /\ Goes(h, [hands[h] EXCEPT !.step = "removed"])
  /\ UNCHANGED <<task, changes, crashes>>
RemoveTask(h) ==
  /\ At(h, "removed")
  /\ task' = [task EXCEPT !.status = "gone"]
  /\ Goes(h, Empty)
  /\ UNCHANGED <<sessions, changes, crashes>>

\* The daemon dies between two steps; rows and archive folders stay.
Crash ==
  /\ crashes < MaxCrashes /\ crashes' = crashes + 1
  /\ hands' = [h \in Hands |-> Empty]
  /\ UNCHANGED <<task, sessions, changes>>

Going(h) == ReadToStart(h) \/ OpenSession(h) \/ Check(h) \/ Write(h)
Removing(h) == RemoveSessions(h) \/ RemoveTask(h)

TaskNext ==
  \/ List \/ Crash
  \/ \E h \in Hands : Going(h) \/ TurnEndsUnattended(h) \/ Removing(h)
  \/ \E h \in Devices : Patch(h) \/ MoveToReview(h) \/ RestoreToInProgress(h)
                        \/ DeleteTask(h) \/ Archive(h)

TaskSpec == TaskInit /\ [][TaskNext]_taskVars

\* The scheduler ticks on and its turns end; handlers finish what they began.
PollProgress == List \/ Going(Poll) \/ TurnEndsUnattended(Poll)
TaskFairSpec ==
  /\ TaskSpec
  /\ WF_taskVars(PollProgress)
  /\ \A h \in Devices : WF_taskVars(Check(h) \/ Write(h) \/ Removing(h))

---------------------------------------------------------------------------
\* Archiving loses nothing, wherever the daemon dies: a session that is gone is
\* in an archive folder, unless it was opened while that folder was written.
GoneWasArchived ==
  \A s \in Sessions : sessions[s].st = "gone" => sessions[s].copied \/ sessions[s].late

\* A due task leaves the backlog, or stops being due, whatever edits, failed
\* starts and restarts come in between: a start that keeps failing would use up
\* a session every tick, and Sessions is larger than edits and crashes can cost.
DueTaskIsStarted == Due ~> ~Due

=============================================================================
