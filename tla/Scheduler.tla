----------------------------- MODULE Scheduler -----------------------------
(***************************************************************************)
(* The scheduler of internal/schedule/scheduler.go: schedule files on disk *)
(* (schedule.go), the cron jobs registered from them, and the runs they    *)
(* produce (internal/store/schedule_runs.go).                              *)
(*                                                                         *)
(* Sync reads the directory before it takes the lock, so two syncs may     *)
(* apply their scans in the other order; Create, Update and Delete read    *)
(* and write a file with no lock at all; cron, a user and a webhook start  *)
(* runs of one schedule side by side; and a run works under a context that *)
(* a shutdown, or the departure of the caller who asked for it, cancels.   *)
(***************************************************************************)
EXTENDS Naturals

CONSTANTS
  Names,      \* schedule names: the stems of the files
  Poll,       \* the goroutine of resyncLoop
  Callers,    \* request handlers that may work at the same time
  Slots,      \* runs, each used once
  Timings,    \* cadences a file may carry
  NoFile,     \* no such file
  MaxEdits,   \* bound on the calls that change files
  MaxBoots    \* bound on restarts of the daemon

VARIABLES
  files,      \* the directory: NoFile or the parsed file of every name
  jobs,       \* s.jobs: the spec registered with cron, "" when there is none
  threads,    \* the goroutines that call Sync, and what each holds
  runs,       \* every run: what works on it and its row
  edits, boots

schedVars == <<files, jobs, threads, runs, edits, boots>>

Threads == {Poll} \cup Callers

\* A schedule file. CronSpec is "" for a file with no cadence, which only a
\* webhook triggers. parked files have enabled: false.
File == [timing: Timings \cup {""}, enabled: BOOLEAN, webhook: BOOLEAN]
Valid(f) == f \in File /\ (f.timing # "" \/ f.webhook)
Steps == {"idle", "create", "patch", "changed", "scanned"}
Thens == {"", "forget", "run"}
Rows == {"none", "running", "success", "error", "deleted"}

SchedTypeOK ==
  /\ files \in [Names -> File \cup {NoFile}]
  /\ jobs \in [Names -> Timings \cup {""}]
  /\ threads \in [Threads -> [step: Steps, name: Names, file: File \cup {NoFile},
                              scan: [Names -> File \cup {NoFile}], then: Thens]]
  /\ runs \in [Slots -> [work: {"free", "parsed", "working", "over"}, name: Names,
                         trigger: {"cron", "manual", "webhook"}, live: BOOLEAN, row: Rows]]
  /\ edits \in 0..MaxEdits
  /\ boots \in 0..MaxBoots

\* What one Sync registers: the enabled files that have a cadence. Dropping
\* the jobs that are gone, parked or retimed and registering the others
\* leaves exactly these.
Desired(scan) == [n \in Names |-> IF scan[n] # NoFile /\ scan[n].enabled
                                  THEN scan[n].timing ELSE ""]
\* Mutation of Registered: a job that is registered is left alone when its timing changed.
RegisteredKeeping(scan) ==
  [n \in Names |-> IF jobs[n] # "" /\ Desired(scan)[n] # "" THEN jobs[n] ELSE Desired(scan)[n]]
Registered(scan) == Desired(scan)

Resting == [step |-> "idle", name |-> CHOOSE n \in Names : TRUE, file |-> NoFile,
            scan |-> [n \in Names |-> NoFile], then |-> ""]
Unused == [work |-> "free", name |-> CHOOSE n \in Names : TRUE, trigger |-> "cron",
           live |-> TRUE, row |-> "none"]

\* Start: the first Sync is done before cron runs.
SchedInit ==
  /\ files \in [Names -> {f \in File : Valid(f)} \cup {NoFile}]
  /\ jobs = Desired(files)
  /\ threads = [t \in Threads |-> Resting]
  /\ runs = [r \in Slots |-> Unused]
  /\ edits = 0
  /\ boots = 0

Idle(t) == threads[t].step = "idle"
Edit == edits < MaxEdits /\ edits' = edits + 1

\* Scanning is the first half of Sync, the read of the directory outside the lock.
Scanned(t, fs, then, n) ==
  threads' = [threads EXCEPT ![t] = [step |-> "scanned", name |-> n, file |-> NoFile,
                                     scan |-> fs, then |-> then]]

---------------------------------------------------------------------------
\* resyncLoop's tick, and the reads (List, Status) that resync first.
Sync(t) ==
  /\ Idle(t)
  /\ \E n \in Names : Scanned(t, files, "", n)
  /\ UNCHANGED <<files, jobs, runs, edits, boots>>

\* Sync's second half under s.mu, with the rest of the call that wanted it:
\* Delete then clears the run history, RunNow then looks for the file and
\* starts the run.
Apply(t) ==
  /\ threads[t].step = "scanned"
  /\ jobs' = Registered(threads[t].scan)
  /\ threads' = [threads EXCEPT ![t] = Resting]
  /\ \/ threads[t].then = "" /\ UNCHANGED runs
     \/ threads[t].then = "forget"
        /\ runs' = [r \in Slots |-> IF runs[r].name = threads[t].name /\ runs[r].row # "none"
                                    THEN [runs[r] EXCEPT !.row = "deleted"] ELSE runs[r]]
     \/ threads[t].then = "run" /\ files[threads[t].name] = NoFile /\ UNCHANGED runs
     \/ /\ threads[t].then = "run"
        /\ files[threads[t].name] # NoFile
        /\ \E r \in Slots : runs[r].work = "free" /\
             runs' = [runs EXCEPT ![r] = [Unused EXCEPT !.work = "parsed", !.trigger = "manual",
                                                        !.name = threads[t].name]]
     \* only the bound: no slot is left for the run
     \/ /\ threads[t].then = "run" /\ files[threads[t].name] # NoFile
        /\ \A r \in Slots : runs[r].work # "free"
        /\ UNCHANGED runs
  /\ UNCHANGED <<files, edits, boots>>

\* Create looks for the file, validates and renders; then writes. A created
\* schedule is always armed.
CreateStart(t, n) ==
  /\ t \in Callers /\ Idle(t) /\ Edit
  /\ files[n] = NoFile
  /\ \E f \in File : Valid(f) /\ f.enabled
       /\ threads' = [threads EXCEPT ![t].step = "create", ![t].name = n, ![t].file = f]
  /\ UNCHANGED <<files, jobs, runs, boots>>

\* The fields one PATCH may carry.
Patched(f) == {[f EXCEPT !.enabled = b] : b \in BOOLEAN}
                \cup {[f EXCEPT !.timing = c] : c \in Timings}
                \cup {[f EXCEPT !.webhook = b] : b \in BOOLEAN}

\* Update reads the whole file, applies the fields of the call and renders it
\* anew; the write comes later and replaces whatever is there by then, or
\* brings back a file that was deleted meanwhile.
UpdateStart(t, n) ==
  /\ t \in Callers /\ Idle(t) /\ Edit
  /\ files[n] # NoFile
  /\ \E f \in Patched(files[n]) : f # files[n] /\ Valid(f)
       /\ threads' = [threads EXCEPT ![t].step = "patch", ![t].name = n, ![t].file = f]
  /\ UNCHANGED <<files, jobs, runs, boots>>

\* os.WriteFile, then Sync.
Write(t) ==
  /\ threads[t].step \in {"create", "patch"}
  /\ files' = [files EXCEPT ![threads[t].name] = threads[t].file]
  /\ threads' = [threads EXCEPT ![t].step = "changed", ![t].then = ""]
  /\ UNCHANGED <<jobs, runs, edits, boots>>

\* Delete: the file goes first, then Sync, then the run history.
Delete(t, n) ==
  /\ t \in Callers /\ Idle(t) /\ Edit
  /\ files[n] # NoFile
  /\ files' = [files EXCEPT ![n] = NoFile]
  /\ threads' = [threads EXCEPT ![t].step = "changed", ![t].name = n, ![t].then = "forget"]
  /\ UNCHANGED <<jobs, runs, boots>>

\* The scan of the Sync that follows a change of the files.
Rescan(t) ==
  /\ threads[t].step = "changed"
  /\ Scanned(t, files, threads[t].then, threads[t].name)
  /\ UNCHANGED <<files, jobs, runs, edits, boots>>

RunNow(t, n) ==
  /\ t \in Callers /\ Idle(t)
  /\ Scanned(t, files, "run", n)
  /\ UNCHANGED <<files, jobs, runs, edits, boots>>

---------------------------------------------------------------------------
\* fire: cron calls back for a registered job, and run reads the file again: a
\* parked file never fires, even while its job outlives a resync.
Fire(n, r) ==
  /\ jobs[n] # ""
  /\ runs[r].work = "free"
  /\ files[n] # NoFile /\ files[n].enabled
  /\ runs' = [runs EXCEPT ![r] = [Unused EXCEPT !.work = "parsed", !.name = n]]
  /\ UNCHANGED <<files, jobs, threads, edits, boots>>

\* PrepareWebhookRun: the secret fits, the trigger is on, the file is not parked.
Webhook(n, r) ==
  /\ runs[r].work = "free"
  /\ files[n] # NoFile /\ files[n].webhook /\ files[n].enabled
  /\ runs' = [runs EXCEPT ![r] = [Unused EXCEPT !.work = "parsed", !.name = n,
                                                !.trigger = "webhook"]]
  /\ UNCHANGED <<files, jobs, threads, edits, boots>>

\* CreateScheduleRun, after the file was read: a Delete that has come and gone
\* in between leaves this row behind. Under a cancelled context the insert
\* fails and there is no run.
Record(r) ==
  /\ runs[r].work = "parsed"
  /\ runs' = [runs EXCEPT ![r].work = IF runs[r].live THEN "working" ELSE "over",
                          ![r].row = IF runs[r].live THEN "running" ELSE "none"]
  /\ UNCHANGED <<files, jobs, threads, edits, boots>>

\* Mutation of Finished: a session that failed returns before the row is written.
FinishedUnlessFailed(r, verdict) ==
  IF runs[r].live /\ runs[r].row = "running" /\ verdict = "success"
  THEN verdict ELSE runs[r].row
\* FinishScheduleRun writes the terminal status under the run's own context: it
\* fails once that is cancelled, and finds no row when a Delete took it.
Finished(r, verdict) ==
  IF runs[r].live /\ runs[r].row = "running" THEN verdict ELSE runs[r].row

\* execute: RunScheduled drains the session, then the status is persisted.
Execute(r) ==
  /\ runs[r].work = "working"
  /\ \E verdict \in {"success", "error"} :
       runs' = [runs EXCEPT ![r].work = "over", ![r].row = Finished(r, verdict)]
  /\ UNCHANGED <<files, jobs, threads, edits, boots>>

\* The caller of RunNow goes away: the request's context is the run's context.
CallerLeaves(r) ==
  /\ runs[r].work \in {"parsed", "working"} /\ runs[r].trigger = "manual" /\ runs[r].live
  /\ runs' = [runs EXCEPT ![r].live = FALSE]
  /\ UNCHANGED <<files, jobs, threads, edits, boots>>

\* The daemon stops and starts again: jobs and goroutines are gone, the files
\* and the rows stay; Start scans the directory before cron runs.
Restart ==
  /\ boots < MaxBoots
  /\ boots' = boots + 1
  /\ jobs' = Desired(files)
  /\ threads' = [t \in Threads |-> Resting]
  /\ runs' = [r \in Slots |-> IF runs[r].work \in {"parsed", "working"}
                              THEN [runs[r] EXCEPT !.work = "over", !.live = FALSE] ELSE runs[r]]
  /\ UNCHANGED <<files, edits>>

SchedProgress(t) == Sync(t) \/ Apply(t) \/ Write(t) \/ Rescan(t)
RunProgress(r) == Record(r) \/ Execute(r)

SchedNext ==
  \/ \E t \in Threads : SchedProgress(t)
  \/ \E t \in Callers, n \in Names :
       CreateStart(t, n) \/ UpdateStart(t, n) \/ Delete(t, n) \/ RunNow(t, n)
  \/ \E n \in Names, r \in Slots : Fire(n, r) \/ Webhook(n, r)
  \/ \E r \in Slots : RunProgress(r) \/ CallerLeaves(r)
  \/ Restart

SchedSpec == SchedInit /\ [][SchedNext]_schedVars

\* Handlers and runs run to their end; the poll loop never stops syncing.
SchedFairSpec ==
  /\ SchedSpec
  /\ \A t \in Threads : WF_schedVars(Apply(t) \/ Write(t) \/ Rescan(t))
  /\ WF_schedVars(Sync(Poll))
  /\ \A r \in Slots : WF_schedVars(RunProgress(r))

---------------------------------------------------------------------------
\* Once nobody edits the schedules any more, cron ends up with exactly the jobs
\* the files ask for, whatever scans were applied late and out of order.
JobsFollowFiles == <>[](jobs = Desired(files))

\* A run whose context lives gets a terminal status, unless its history is
\* cleared under it: success and failure alike reach FinishScheduleRun.
RunsEnd ==
  \A r \in Slots : (runs[r].row = "running") ~> (runs[r].row # "running" \/ ~runs[r].live)

=============================================================================
