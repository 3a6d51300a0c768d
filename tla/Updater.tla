------------------------------ MODULE Updater -------------------------------
(***************************************************************************)
(* Self-update: internal/updater, its HTTP handler                         *)
(* (internal/server/update.go) and `podiom update` (cmd/podiom/main.go).   *)
(*                                                                         *)
(* The daemon and the CLI can each apply a release: download, verify and   *)
(* extract it, then replace podiom and podiomd one after the other through *)
(* a ".new" file. update.lock keeps them apart. The daemon then leaves and *)
(* a detached shell starts the new one; on Windows a detached helper does  *)
(* the replacement after the lock is gone.                                 *)
(***************************************************************************)
EXTENDS Naturals

CONSTANTS
  Handlers,    \* update requests the daemon serves
  Cli,         \* the CLI applying an update itself
  Releases,    \* release numbers, 1 is what is installed first
  None,        \* no lock
  MaxMishaps   \* bound on failures and deaths

VARIABLES
  windows,   \* does the platform lock running binaries
  disk,      \* binary -> what is installed
  new,       \* binary -> its ".new" file
  lock,      \* who created update.lock
  applier,   \* Handlers \cup {Cli} -> its Apply
  daemon,    \* the daemon process: is it up, its release, is it leaving, is a restart scheduled
  mishaps

updaterVars == <<windows, disk, new, lock, applier, daemon, mishaps>>

Bins == <<"podiom", "podiomd">>
Appliers == Handlers \cup {Cli}
NoFile == [ver |-> 0, whole |-> FALSE]
File == [ver: Releases \cup {0}, whole: BOOLEAN]
Whole(v) == [ver |-> v, whole |-> TRUE]
Stages == {"idle", "lock", "fetch", "open", "copy", "rename", "done"}

UpdaterTypeOK ==
  /\ windows \in BOOLEAN
  /\ disk \in [{"podiom", "podiomd"} -> File] /\ new \in [{"podiom", "podiomd"} -> File]
  /\ lock \in Appliers \cup {None}
  /\ applier \in [Appliers -> [at: Stages, ver: Releases, bin: 1..2, helper: BOOLEAN]]
  /\ daemon \in [up: BOOLEAN, ver: Releases \cup {0}, leaving: BOOLEAN, restart: BOOLEAN]
  /\ mishaps \in 0..MaxMishaps

Idle == [at |-> "idle", ver |-> 1, bin |-> 1, helper |-> FALSE]
UpdaterInit ==
  /\ windows \in BOOLEAN
  /\ disk = [b \in {"podiom", "podiomd"} |-> Whole(1)]
  /\ new = [b \in {"podiom", "podiomd"} |-> NoFile]
  /\ lock = None /\ applier = [a \in Appliers |-> Idle]
  /\ daemon = [up |-> TRUE, ver |-> 1, leaving |-> FALSE, restart |-> FALSE]
  /\ mishaps = 0

---------------------------------------------------------------------------
Alive(a) == a \in Handlers => daemon.up \/ applier[a].helper
Bin(a) == Bins[applier[a].bin]
\* Windows does not replace the binary of a process that runs.
InUse(a) == windows /\ Bin(a) = "podiomd" /\ daemon.up
Now(a, stage) == applier' = [applier EXCEPT ![a].at = stage]
\* Mutation of Locked: a lock file that is there is taken over.
LockedNever == FALSE
\* acquireLock creates the file exclusively.
Locked == lock # None
\* Deferred: the lock goes with whoever removes it, a dead process leaves it.
Unlocked(a) == IF applier[a].helper THEN lock ELSE None
Fails(a) ==
  /\ mishaps < MaxMishaps /\ mishaps' = mishaps + 1
  /\ Now(a, "done") /\ lock' = Unlocked(a)

\* Apply: Check compares the release asked for with the running build, not with
\* what is installed by now, and force skips the comparison.
Check(a, v, force) ==
  /\ Alive(a) /\ applier[a].at = "idle"
  /\ force \/ v > (IF a \in Handlers THEN daemon.ver ELSE 1)
  /\ applier' = [applier EXCEPT ![a] = [Idle EXCEPT !.at = "lock", !.ver = v]]
  /\ UNCHANGED <<windows, disk, new, lock, daemon, mishaps>>
AcquireLock(a) ==
  /\ Alive(a) /\ applier[a].at = "lock"
  /\ IF Locked THEN Now(a, "done") /\ UNCHANGED lock ELSE Now(a, "fetch") /\ lock' = a
  /\ UNCHANGED <<windows, disk, new, daemon, mishaps>>
\* Download, VerifyChecksum and ExtractArchive work in a directory of their own: an
\* archive that is truncated, altered or unsafe goes no further, nor does a
\* request whose caller went away.
FetchFails(a) ==
  /\ Alive(a) /\ applier[a].at = "fetch" /\ Fails(a)
  /\ UNCHANGED <<windows, disk, new, daemon>>
\* On Windows the helper takes over: Apply unlocks and the daemon leaves.
Fetched(a) ==
  /\ Alive(a) /\ applier[a].at = "fetch"
  /\ applier' = [applier EXCEPT ![a].at = "open", ![a].helper = windows]
  /\ IF windows THEN /\ lock' = None
                     /\ daemon' = [daemon EXCEPT !.leaving = @ \/ a \in Handlers]
     ELSE UNCHANGED <<lock, daemon>>
  /\ UNCHANGED <<windows, disk, new, mishaps>>

\* installBinary: copyFile truncates the ".new" file and fills it (a helper has
\* slept two seconds, the daemon that started it leaves within 300 ms) ...
Open(a) ==
  /\ Alive(a) /\ applier[a].at = "open" /\ ~(applier[a].helper /\ daemon.leaving)
  /\ new' = [new EXCEPT ![Bin(a)] = [ver |-> applier[a].ver, whole |-> FALSE]]
  /\ Now(a, "copy")
  /\ UNCHANGED <<windows, disk, lock, daemon, mishaps>>
\* ... what another wrote in between is mixed with it ...
Copy(a) ==
  /\ Alive(a) /\ applier[a].at = "copy"
  /\ new' = [new EXCEPT ![Bin(a)].whole = new[Bin(a)] = [ver |-> applier[a].ver, whole |-> FALSE]]
  \* Windows cannot rename over a file that exists: it is removed first.
  /\ disk' = IF windows /\ ~InUse(a) THEN [disk EXCEPT ![Bin(a)] = NoFile] ELSE disk
  /\ Now(a, "rename")
  /\ UNCHANGED <<windows, lock, daemon, mishaps>>
\* ... and Rename puts it in place; after the second binary Apply returns.
Rename(a) == LET b == Bin(a) IN
  /\ Alive(a) /\ applier[a].at = "rename" /\ new[b].ver # 0 /\ ~InUse(a)
  /\ disk' = [disk EXCEPT ![b] = new[b]] /\ new' = [new EXCEPT ![b] = NoFile]
  /\ IF applier[a].bin = 1
     THEN /\ applier' = [applier EXCEPT ![a].at = "open", ![a].bin = 2]
          /\ UNCHANGED <<lock, daemon>>
     ELSE /\ Now(a, "done") /\ lock' = Unlocked(a)
          /\ daemon' = IF a = Cli THEN daemon
                       ELSE IF windows THEN [daemon EXCEPT !.restart = TRUE]
                       ELSE [daemon EXCEPT !.leaving = TRUE]
  /\ UNCHANGED <<windows, mishaps>>
InstallFails(a) ==
  /\ Alive(a) /\ applier[a].at \in {"open", "copy", "rename"} /\ Fails(a)
  /\ new' = IF applier[a].at = "rename" THEN [new EXCEPT ![Bin(a)] = NoFile] ELSE new
  /\ UNCHANGED <<windows, disk, daemon>>
\* Windows refuses, or another installer took the ".new" file.
Refused(a) ==
  /\ Alive(a) /\ applier[a].at = "rename" /\ (InUse(a) \/ new[Bin(a)].ver = 0)
  /\ new' = [new EXCEPT ![Bin(a)] = NoFile] /\ Now(a, "done") /\ lock' = Unlocked(a)
  /\ UNCHANGED <<windows, disk, daemon, mishaps>>

\* What the daemon was serving ends with it, its deferred calls do not run.
Cut == [a \in Appliers |-> IF a \in Handlers /\ ~applier[a].helper /\ applier[a].at # "idle"
                           THEN [applier[a] EXCEPT !.at = "done"] ELSE applier[a]]
\* exitAfterUpdate, 300 ms after the reply: other requests may be under way.
ExitAfterUpdate ==
  /\ daemon.up /\ daemon.leaving
  /\ \/ daemon' = [daemon EXCEPT !.up = FALSE, !.leaving = FALSE, !.restart = @ \/ ~windows]
        /\ UNCHANGED mishaps
     \* ScheduleUnixDaemonRestart fails, which is not looked at.
     \/ /\ ~windows /\ mishaps < MaxMishaps /\ mishaps' = mishaps + 1
        /\ daemon' = [daemon EXCEPT !.up = FALSE, !.leaving = FALSE]
  /\ applier' = Cut
  /\ UNCHANGED <<windows, disk, new, lock>>
\* StartDaemon, or the shell's exec: whatever is installed by then. With a daemon
\* still up the address is taken and the new process ends.
StartDaemon ==
  /\ daemon.restart
  /\ daemon' = IF daemon.up \/ ~disk["podiomd"].whole THEN [daemon EXCEPT !.restart = FALSE]
               ELSE [up |-> TRUE, ver |-> disk["podiomd"].ver, leaving |-> FALSE, restart |-> FALSE]
  /\ UNCHANGED <<windows, disk, new, lock, applier, mishaps>>
\* The daemon dies and the user starts it again.
Die ==
  /\ daemon.up /\ mishaps < MaxMishaps /\ mishaps' = mishaps + 1
  /\ daemon' = [daemon EXCEPT !.up = FALSE, !.leaving = FALSE, !.restart = TRUE]
  /\ applier' = Cut
  /\ UNCHANGED <<windows, disk, new, lock>>

UpdaterNext ==
  \/ \E a \in Appliers : \/ \E v \in Releases, force \in BOOLEAN : Check(a, v, force)
                         \/ AcquireLock(a) \/ Fetched(a) \/ FetchFails(a)
                         \/ Open(a) \/ Copy(a) \/ Rename(a) \/ InstallFails(a) \/ Refused(a)
  \/ ExitAfterUpdate \/ StartDaemon \/ Die
UpdaterSpec == UpdaterInit /\ [][UpdaterNext]_updaterVars

---------------------------------------------------------------------------
\* Where a binary is replaced in one step, podiom and podiomd are whole at every
\* moment, whoever dies; and with nobody at work, no failure on the way and the
\* lock free they are of one release (updater.go:454-485). A lock still there
\* tells of a process that ended between the two.
Resting(a) == applier[a].at \in {"idle", "done"}
InstalledIsOneRelease ==
  ~windows =>
    /\ \A b \in DOMAIN disk : disk[b].whole
    /\ mishaps = 0 /\ lock = None /\ (\A a \in Appliers : Resting(a)) => disk["podiom"] = disk["podiomd"]

=============================================================================
