-------------------------------- MODULE Boot --------------------------------
(***************************************************************************)
(* Starting and stopping podiomd: run in cmd/podiomd/main.go, core.New and *)
(* Server.Start/Shutdown.  A daemon opens the database, releases the run   *)
(* locks it finds, clears unknown attachment folders, starts its loops and *)
(* binds its port last.  Nothing but the port keeps two daemons apart.     *)
(***************************************************************************)
EXTENDS Naturals, FiniteSets

CONSTANTS
  Daemons,   \* processes started on one storage root
  Runs,      \* goal runs, one goal session
  Lan,       \* is there a LAN listener as well (Home Assistant)
  MaxStarts  \* bound on starts

VARIABLES
  stage,   \* Daemons -> how far its run() is
  row,     \* Runs -> the goal_runs row: "none", "running", "interrupted", "done"
  worker,  \* Runs -> the daemon whose goroutine executes it, or Nobody
  upload,  \* an attachment being stored: "none", "files", "row"
  folder,  \* is its folder on disk
  sender,  \* the daemon storing it
  starts

bootVars == <<stage, row, worker, upload, folder, sender, starts>>

CONSTANT Nobody  \* no daemon

Stages == {"off", "opened", "released", "swept", "looping", "bound", "serving", "closing"}
BootTypeOK ==
  /\ stage \in [Daemons -> Stages] /\ row \in [Runs -> {"none", "running", "interrupted", "done"}]
  /\ worker \in [Runs -> Daemons \cup {Nobody}] /\ upload \in {"none", "files", "row"}
  /\ folder \in BOOLEAN /\ sender \in Daemons \cup {Nobody} /\ starts \in 0..MaxStarts

BootInit ==
  /\ stage = [d \in Daemons |-> "off"] /\ row = [r \in Runs |-> "none"]
  /\ worker = [r \in Runs |-> Nobody] /\ upload = "none" /\ folder = FALSE /\ sender = Nobody /\ starts = 0

---------------------------------------------------------------------------
To(d, s) == stage' = [stage EXCEPT ![d] = s]
Listening == {d \in Daemons : stage[d] \in {"bound", "serving"}}
\* The process ends: its goroutines with it.
Ends(d) ==
  /\ To(d, "off") /\ worker' = [r \in Runs |-> IF worker[r] = d THEN Nobody ELSE worker[r]]
  /\ sender' = IF sender = d THEN Nobody ELSE sender
  /\ upload' = IF sender = d /\ upload = "files" THEN "none" ELSE upload

Launch(d) ==
  /\ stage[d] = "off" /\ starts < MaxStarts /\ starts' = starts + 1 /\ To(d, "opened")
  /\ UNCHANGED <<row, worker, upload, folder, sender>>
\* Mutation of Released: a start leaves the rows alone.
ReleasedNever(r) == row[r]
\* InterruptRunningGoalRuns, in core.New.
Released(r) == IF row[r] = "running" THEN "interrupted" ELSE row[r]
Release(d) ==
  /\ stage[d] = "opened" /\ To(d, "released") /\ row' = [r \in Runs |-> Released(r)]
  /\ UNCHANGED <<worker, upload, folder, sender, starts>>
\* CleanupAttachments: a folder without a row goes. attachmentMu is this process's.
Sweep(d) ==
  /\ stage[d] = "released" /\ sender # d /\ To(d, "swept")
  /\ folder' = (folder /\ upload = "row")
  /\ UNCHANGED <<row, worker, upload, sender, starts>>
\* scheduler.Start, usageTracker.Start, dreamRunner.Start.
StartLoops(d) ==
  /\ stage[d] = "swept" /\ To(d, "looping")
  /\ UNCHANGED <<row, worker, upload, folder, sender, starts>>
\* Server.Start: the listeners; without them run returns and the process ends.
Listen(d) ==
  /\ stage[d] = "looping"
  /\ IF Listening = {} THEN To(d, IF Lan THEN "bound" ELSE "serving") /\ UNCHANGED <<worker, upload, sender>> ELSE Ends(d)
  /\ UNCHANGED <<row, folder, starts>>
ListenLan(d, ok) ==
  /\ stage[d] = "bound"
  /\ IF ok THEN To(d, "serving") /\ UNCHANGED <<worker, upload, sender>> ELSE Ends(d)
  /\ UNCHANGED <<row, folder, starts>>

\* A goal run: one running row per session (the partial unique index).
StartRun(d, r) ==
  /\ stage[d] \in {"looping", "bound", "serving"} /\ row[r] = "none" /\ \A q \in Runs : row[q] # "running"
  /\ row' = [row EXCEPT ![r] = "running"] /\ worker' = [worker EXCEPT ![r] = d]
  /\ UNCHANGED <<stage, upload, folder, sender, starts>>
\* FinishGoalRun updates a running row only.
FinishRun(r) ==
  /\ worker[r] # Nobody /\ worker' = [worker EXCEPT ![r] = Nobody]
  /\ row' = [row EXCEPT ![r] = IF @ = "running" THEN "done" ELSE @]
  /\ UNCHANGED <<stage, upload, folder, sender, starts>>
\* CreateAttachment: the files, then the row.
Upload(d) ==
  /\ stage[d] = "serving" /\ upload = "none" /\ upload' = "files" /\ folder' = TRUE /\ sender' = d
  /\ UNCHANGED <<stage, row, worker, starts>>
Insert ==
  /\ upload = "files" /\ upload' = "row" /\ sender' = Nobody
  /\ UNCHANGED <<stage, row, worker, folder, starts>>

\* SIGTERM: Shutdown closes the listeners and waits for requests, not for turns;
\* the loops are stopped after it, the process ends.
Signal(d) ==
  /\ stage[d] = "serving" /\ To(d, "closing")
  /\ UNCHANGED <<row, worker, upload, folder, sender, starts>>
Exit(d) == stage[d] = "closing" /\ sender # d /\ Ends(d) /\ UNCHANGED <<row, folder, starts>>
\* One listener fails, or the process is killed.
Die(d) == stage[d] # "off" /\ Ends(d) /\ UNCHANGED <<row, folder, starts>>

BootNext ==
  \/ \E d \in Daemons : \/ Launch(d) \/ Release(d) \/ Sweep(d) \/ StartLoops(d) \/ Listen(d)
                        \/ \E ok \in BOOLEAN : Lan /\ ListenLan(d, ok)
                        \/ \E r \in Runs : StartRun(d, r)
                        \/ Upload(d) \/ Signal(d) \/ Exit(d) \/ Die(d)
  \/ \E r \in Runs : FinishRun(r)
  \/ Insert
BootSpec == BootInit /\ [][BootNext]_bootVars

---------------------------------------------------------------------------
\* Run locks are those of runs being executed as soon as a daemon takes requests,
\* whenever the one before it died (store/goal_runs.go:117, core.New).
LocksAreLive ==
  (\E d \in Daemons : stage[d] = "serving") => \A r \in Runs : row[r] = "running" => worker[r] # Nobody
\* A stored photo keeps its files (core/attachments.go:131-132, "serialized with
\* upload/delete operations").
StoredHasFiles == upload = "row" => folder
=============================================================================
