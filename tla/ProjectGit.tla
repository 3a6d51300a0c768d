----------------------------- MODULE ProjectGit ------------------------------
(***************************************************************************)
(* Source control of one project: internal/core/project_git.go,            *)
(* internal/git, the archive snapshot of internal/github and the handlers  *)
(* of internal/server/projects.go.                                         *)
(*                                                                         *)
(* The code directory <project>/repo is shared by every session of the     *)
(* project. Podiom puts a checkout or an archive there (what it displaces  *)
(* moves to a backup named after the second), pulls the default branch     *)
(* when a session starts, and switches branches for the agent. One lock    *)
(* per project, in memory, serializes most of this; the archive and        *)
(* podiom_start_work's checkout do not take it, nor does the agent.        *)
(*                                                                         *)
(* Left out: the same operations on a project with no connected source,    *)
(* whose repository is in the project's root, and what a release that kept *)
(* snapshots in that root left there.                                      *)
(***************************************************************************)
EXTENDS Naturals

CONSTANTS
  Ops,           \* requests and session starts that may be under way
  NoOp,          \* nobody holds the lock
  MaxHistories,  \* bound on repositories created or cloned
  MaxSeconds,    \* bound on the seconds backups are named after
  MaxCalls,      \* bound on the operations started
  MaxMishaps     \* bound on failures and deaths of the daemon

VARIABLES
  ledger,    \* the project's record: repo.mode and the git policy
  code,      \* the code directory: a loose file, the repository (0: none), its branch and remote
  snapshot,  \* is there a .podiom-source.json
  backups,   \* second -> the entries moved to .podiom-backups/<second>
  second,    \* the clock, to the resolution of a backup's name
  lock,      \* projectGitLocks[project]
  op,        \* Ops -> the operation it is in
  turn,      \* is a turn of another session running in the checkout
  made,      \* repositories that were ever put in the code directory
  cut,       \* did a replacement stop half way
  mishaps,
  calls      \* operations started

gitVars == <<ledger, code, snapshot, backups, second, lock, op, turn, made, cut, mishaps, calls>>

\* The start of a session, of a turn, podiom_start_work, POST repo/sync, POST and DELETE
\* repo, PUT git, POST from-github; "archive" is what three of them come to.
Kinds == {"pull", "context", "work", "sync", "connect", "disconnect", "configure", "github", "archive"}
Projects == [mode: {"none", "snapshot", "git"}, git: {"undeclared", "off", "on"}, remote: BOOLEAN, pull: BOOLEAN]
Unset == [mode |-> "none", git |-> "undeclared", remote |-> FALSE, pull |-> FALSE]
\* The policies asked for: none, a local repository, a remote pulled from.
Policies == {[Unset EXCEPT !.git = "off"], [Unset EXCEPT !.git = "on"],
             [Unset EXCEPT !.git = "on", !.remote = TRUE, !.pull = TRUE]}
\* The policy that goes with a source on GitHub.
Connected == [Unset EXCEPT !.git = "on", !.remote = TRUE]
Files == {"none", "mine", "theirs"}
Empty == [file |-> "none", git |-> 0, branch |-> "none", remote |-> FALSE]
NoBackup == [file |-> FALSE, git |-> 0]
Stages == {"idle", "read", "lock", "material", "check", "fetch", "checkout", "forward",
           "confirm", "download", "aside", "in", "place", "ledger", "branch"}
\* proj: the project as the operation read it, or what of it it will write ("none" and
\* "undeclared": leave as it is); todo: the entries it listed and has not moved.
Rest == [kind |-> "work", at |-> "idle", force |-> FALSE, stamp |-> 0, todo |-> {}, proj |-> Unset]

ProjectTypeOK ==
  /\ ledger \in Projects /\ snapshot \in BOOLEAN
  /\ code \in [file: Files, git: 0..MaxHistories, branch: {"none", "default", "work"}, remote: BOOLEAN]
  /\ backups \in [1..MaxSeconds -> [file: BOOLEAN, git: 0..MaxHistories]]
  /\ second \in 1..MaxSeconds /\ lock \in Ops \cup {NoOp}
  /\ op \in [Ops -> [kind: Kinds, at: Stages, force: BOOLEAN, stamp: 0..MaxSeconds,
                     todo: SUBSET {"git", "file"}, proj: Projects]]
  /\ turn \in BOOLEAN /\ made \in 0..MaxHistories /\ cut \in BOOLEAN /\ mishaps \in 0..MaxMishaps
  /\ calls \in 0..MaxCalls

\* A project just created, or one whose archive is in place, its policy as it was left.
ProjectInit ==
  /\ \/ ledger = Unset /\ code = Empty /\ snapshot = FALSE
     \/ /\ ledger \in {[Connected EXCEPT !.mode = "snapshot", !.pull = p] : p \in BOOLEAN}
        /\ code = [Empty EXCEPT !.file = "theirs"] /\ snapshot = TRUE
  /\ backups = [s \in 1..MaxSeconds |-> NoBackup] /\ second = 1
  /\ lock = NoOp /\ op = [o \in Ops |-> Rest]
  /\ turn = FALSE /\ made = 0 /\ cut = FALSE /\ mishaps = 0 /\ calls = 0

---------------------------------------------------------------------------
Detected == code.git # 0
Entries == {e \in {"git", "file"} : IF e = "git" THEN Detected ELSE code.file # "none"}
DirHasEntries == Entries # {}
At(o, stage) == op[o].at = stage
\* The staged clone holds a repository, the archive none; the directory is listed once.
Staged(o) == IF op[o].kind = "archive" THEN {"file"} ELSE {"git", "file"}
Listed(o, stage) == CASE stage = "aside" -> Entries [] stage = "in" -> Staged(o) [] OTHER -> {}
Now(o, stage) == op' = [op EXCEPT ![o].at = stage, ![o].todo = Listed(o, stage)]
\* The deferred unlock, and the staging directory removed.
Unlocks(o) == lock' = IF lock = o THEN NoOp ELSE lock
Done(o) == op' = [op EXCEPT ![o] = Rest] /\ Unlocks(o)
Archive(policy, force) == [Rest EXCEPT !.kind = "archive", !.at = "confirm", !.force = force,
                                       !.proj = [policy EXCEPT !.mode = "snapshot"]]
\* handleProjectFromGitHub falls back to the archive when the clone is not made.
GiveUp(o) == IF op[o].kind = "github"
             THEN op' = [op EXCEPT ![o] = Archive(Connected, op[o].force)] /\ Unlocks(o)
             ELSE Done(o)
NewHistory(file, remote) ==
  /\ made < MaxHistories /\ made' = made + 1
  /\ code' = [file |-> file, git |-> made', branch |-> "default", remote |-> remote]
\* reconcileProjectGitLocked: a repository found is adopted, unless Git is off, and
\* the record's remote follows the checkout's.
Reconciled ==
  IF ledger.mode = "none" \/ ~Detected THEN ledger
  ELSE [ledger EXCEPT !.git = IF @ = "undeclared" THEN "on" ELSE @,
                      !.remote = IF ledger.git = "off" THEN @ ELSE code.remote,
                      !.mode = "git"]

\* Mutation of After: the files move aside before the clone is made.
AfterClearing(kind, stage) ==
  CASE stage = "start" -> "aside" [] stage = "aside" -> "download" [] OTHER -> "in"
\* cloneProjectRemote and SyncProject stage the new contents beside the code
\* directory before anything moves; CloneGitHubProject takes an empty one.
After(kind, stage) ==
  CASE stage = "start" -> "download"
    [] stage = "download" -> IF kind = "github" THEN "place" ELSE "aside"
    [] OTHER -> "in"

\* reconcileProjectGit takes the lock and lets it go; what follows goes by the project
\* it returns, whatever happens to the record later.
AfterReading(kind, force, proj) ==
  CASE kind = "connect" \/ (kind = "sync" /\ proj.mode = "snapshot") -> Archive(Unset, force)
    [] \/ kind = "sync" /\ proj.mode = "git"
       \/ kind \in {"context", "work"} /\ proj.mode # "none"
       \/ kind = "pull" /\ proj.mode # "none" /\ proj.git = "on" /\ proj.pull
         -> [Rest EXCEPT !.kind = kind, !.at = "lock", !.proj = [proj EXCEPT !.mode = "none", !.pull = FALSE]]
    [] kind = "disconnect" -> [Rest EXCEPT !.kind = kind, !.at = "ledger"]
    [] OTHER -> Rest
Reconcile(o, next) ==
  /\ lock = NoOp /\ ledger' = Reconciled /\ op' = [op EXCEPT ![o] = next]
  /\ UNCHANGED <<code, snapshot, backups, second, lock, turn, made, cut, mishaps>>
\* All but two operations start with it.
Start(o, kind, force) ==
  /\ At(o, "idle") /\ calls < MaxCalls /\ calls' = calls + 1
  /\ force => kind \in {"sync", "connect"}
  /\ kind = "work" => turn
  /\ Reconcile(o, AfterReading(kind, force, Reconciled))
\* UpdateProject ends with it.
ReconcileAgain(o) == At(o, "read") /\ Reconcile(o, Rest) /\ UNCHANGED calls
\* Only a project just created, or one with no source when forced, is set up from GitHub.
FromGitHub(o, force) ==
  /\ At(o, "idle") /\ calls < MaxCalls /\ calls' = calls + 1
  /\ ledger.mode = "none" /\ (force \/ (ledger = Unset /\ ~DirHasEntries))
  /\ op' = [op EXCEPT ![o] = [Rest EXCEPT !.kind = "github", !.at = "lock", !.force = force,
                                          !.proj = [Connected EXCEPT !.mode = "git"]]]
  /\ UNCHANGED <<ledger, code, snapshot, backups, second, lock, turn, made, cut, mishaps>>
\* Sync reads the record again: with its source gone it is about the project's root.
Lock(o) ==
  /\ At(o, "lock") /\ lock = NoOp
  /\ IF op[o].kind = "sync" /\ ledger.mode = "none" THEN Done(o)
     ELSE /\ lock' = o
          /\ CASE op[o].kind = "sync" ->
                    op' = [op EXCEPT ![o].at = "check", ![o].proj = [Unset EXCEPT !.mode = ledger.mode]]
               [] op[o].kind = "github" -> Now(o, After("github", "start"))
               [] OTHER -> Now(o, "material")
  /\ UNCHANGED <<ledger, code, snapshot, backups, second, turn, made, cut, mishaps, calls>>

\* materializeProjectGit: a policy with a remote clones into a directory that is empty
\* (a snapshot is left as it is, and the session told), one without is git init.
Materialize(o) ==
  /\ At(o, "material")
  /\ IF op[o].proj.git # "on" \/ Detected \/ (op[o].proj.remote /\ DirHasEntries)
     THEN UNCHANGED <<code, made>>
     ELSE NewHistory(IF op[o].proj.remote THEN "theirs" ELSE code.file, op[o].proj.remote)
  /\ IF op[o].proj.git # "on" \/ code'.git = 0 \/ op[o].kind = "context" THEN Done(o)
     ELSE IF op[o].kind = "pull" THEN Now(o, "check") /\ UNCHANGED lock
     ELSE Now(o, "branch") /\ Unlocks(o)
  /\ UNCHANGED <<ledger, snapshot, backups, second, turn, cut, mishaps, calls>>
\* projectHasActiveTurn: only a session's start asks; the Sync button does not.
Busy(o) == op[o].kind = "pull" /\ turn
\* Uncommitted changes (git status --porcelain) and no remote, too, skip the update.
CheckTree(o) ==
  /\ At(o, "check")
  /\ IF ~Detected \/ Busy(o) \/ code.file = "mine" \/ ~code.remote THEN Done(o)
     ELSE Now(o, "fetch") /\ UNCHANGED lock
  /\ UNCHANGED <<ledger, code, snapshot, backups, second, turn, made, cut, mishaps, calls>>
\* Up to two minutes.
Fetch(o) ==
  /\ At(o, "fetch") /\ Now(o, "checkout")
  /\ UNCHANGED <<ledger, code, snapshot, backups, second, lock, turn, made, cut, mishaps, calls>>
\* Git carries uncommitted changes over.
CheckoutDefault(o) ==
  /\ At(o, "checkout")
  /\ IF Detected THEN code' = [code EXCEPT !.branch = "default"] /\ Now(o, "forward") /\ UNCHANGED lock
     ELSE Done(o) /\ UNCHANGED code
  /\ UNCHANGED <<ledger, snapshot, backups, second, turn, made, cut, mishaps, calls>>
\* merge --ff-only moves no local commit and overwrites no local change. Sync records
\* when, in the source as it read it.
FastForward(o) ==
  /\ At(o, "forward")
  /\ code' = IF Detected /\ code.file = "none" THEN [code EXCEPT !.file = "theirs"] ELSE code
  /\ IF op[o].kind = "sync" THEN Now(o, "ledger") /\ UNCHANGED lock ELSE Done(o)
  /\ UNCHANGED <<ledger, snapshot, backups, second, turn, made, cut, mishaps, calls>>

\* ConfigureProjectGit takes the lock and goes by what is on disk: a checkout is adopted
\* and its remote set, a remote is cloned (over files only with force), neither means git
\* init. The policy asked for is written last.
Configure(o, force, asked) ==
  LET Goes(stage, policy) ==
        op' = [op EXCEPT ![o] = [Rest EXCEPT !.kind = "configure", !.at = stage, !.proj = policy,
                                             !.todo = Listed(o, stage)]]
  IN
  /\ At(o, "idle") /\ calls < MaxCalls /\ calls' = calls + 1
  /\ lock = NoOp /\ ledger.mode # "none" /\ lock' = o
  /\ \/ asked.git = "off" /\ Goes("ledger", asked) /\ UNCHANGED <<code, made>>
     \/ /\ asked.git = "on" /\ Detected
        /\ code' = [code EXCEPT !.remote = @ \/ asked.remote]
        /\ Goes("ledger", [asked EXCEPT !.remote = code'.remote]) /\ UNCHANGED made
     \/ /\ asked.git = "on" /\ ~Detected /\ asked.remote /\ (force \/ ~DirHasEntries)
        /\ Goes(After("configure", "start"), asked) /\ UNCHANGED <<code, made>>
     \/ /\ asked.git = "on" /\ ~Detected /\ ~asked.remote
        /\ NewHistory(code.file, FALSE) /\ Goes("ledger", asked)
  /\ UNCHANGED <<ledger, snapshot, backups, second, turn, cut, mishaps>>

\* Files there, and no manifest of an earlier archive beside them.
NeedsConfirmation == ~snapshot /\ DirHasEntries
\* SyncProject, before anything is fetched.
Confirm(o) ==
  /\ At(o, "confirm")
  /\ IF op[o].force \/ ~NeedsConfirmation THEN Now(o, After("archive", "start")) /\ UNCHANGED lock ELSE Done(o)
  /\ UNCHANGED <<ledger, code, snapshot, backups, second, turn, made, cut, mishaps, calls>>
\* runner.Clone into the staging directory.
Clone(o) ==
  /\ At(o, "download") /\ op[o].kind # "archive" /\ Now(o, After(op[o].kind, "download"))
  /\ UNCHANGED <<ledger, code, snapshot, backups, second, lock, turn, made, cut, mishaps, calls>>
\* downloadArchive and extractZipSnapshot, into a staging directory too.
DownloadArchive(o) ==
  /\ At(o, "download") /\ op[o].kind = "archive" /\ Now(o, After("archive", "download"))
  /\ UNCHANGED <<ledger, code, snapshot, backups, second, lock, turn, made, cut, mishaps, calls>>
\* CloneGitHubProject: the directory is looked at again, then the checkout renamed.
Place(o) ==
  /\ At(o, "place")
  /\ IF DirHasEntries THEN GiveUp(o) /\ UNCHANGED <<code, made>>
     ELSE NewHistory("theirs", TRUE) /\ Now(o, "ledger") /\ UNCHANGED lock
  /\ UNCHANGED <<ledger, snapshot, backups, second, turn, cut, mishaps, calls>>

\* Mutation of Displaced: the repository is deleted, a new one is coming.
DisplacedFilesOnly(entry, s) == IF entry = "git" THEN backups ELSE [backups EXCEPT ![s].file = TRUE]
\* os.Rename into the backup replaces a file of that name there; it fails over a
\* directory that is not empty.
Displaced(entry, s) == IF entry = "git" THEN [backups EXCEPT ![s].git = code.git]
                       ELSE [backups EXCEPT ![s].file = TRUE]
Stamp(o) == IF op[o].stamp = 0 THEN second ELSE op[o].stamp
\* Entries are moved in the order of their names: .git first.
First(o) == IF "git" \in op[o].todo THEN "git" ELSE "file"
Stuck(o) ==
  \/ At(o, "aside") /\ (First(o) \notin Entries \/ (First(o) = "git" /\ backups[Stamp(o)].git # 0))
  \/ At(o, "in") /\ First(o) = "git" /\ Detected
\* replaceDirContents, replaceProjectContents: one entry of those that were listed.
MoveAside(o) ==
  /\ At(o, "aside") /\ op[o].todo # {} /\ ~Stuck(o)
  /\ backups' = Displaced(First(o), Stamp(o))
  /\ code' = IF First(o) = "git" THEN [code EXCEPT !.git = 0, !.branch = "none", !.remote = FALSE]
             ELSE [code EXCEPT !.file = "none"]
  /\ op' = [op EXCEPT ![o].stamp = Stamp(o), ![o].todo = @ \ {First(o)}]
  /\ UNCHANGED <<ledger, snapshot, second, lock, turn, made, cut, mishaps, calls>>
Moved(o) ==
  /\ At(o, "aside") /\ op[o].todo = {} /\ Now(o, After(op[o].kind, "aside"))
  /\ UNCHANGED <<ledger, code, snapshot, backups, second, lock, turn, made, cut, mishaps, calls>>
\* A staged entry moves in, over a file of that name that came meanwhile; a directory
\* in the way stops it.
MoveIn(o) ==
  /\ At(o, "in") /\ op[o].todo # {} /\ ~Stuck(o)
  /\ IF First(o) = "git" THEN NewHistory(code.file, TRUE)
     ELSE code' = [code EXCEPT !.file = "theirs"] /\ UNCHANGED made
  /\ op' = [op EXCEPT ![o].todo = @ \ {First(o)}]
  /\ UNCHANGED <<ledger, snapshot, backups, second, lock, turn, cut, mishaps, calls>>
\* All is in place: SyncProject writes its manifest.
MovedIn(o) ==
  /\ At(o, "in") /\ op[o].todo = {}
  /\ snapshot' = (snapshot \/ op[o].kind = "archive")
  /\ op' = [op EXCEPT ![o].at = "ledger", ![o].proj.mode = IF op[o].kind = "archive" THEN "snapshot" ELSE "git"]
  /\ UNCHANGED <<ledger, code, backups, second, lock, turn, made, cut, mishaps, calls>>
Blocked(o) ==
  /\ op[o].todo # {} /\ Stuck(o) /\ Done(o) /\ cut' = TRUE
  /\ UNCHANGED <<ledger, code, snapshot, backups, second, turn, made, mishaps, calls>>

\* ledger.Update; UpdateProject, the archive's and the disconnection's, reconciles next.
Saved(proj) ==
  [IF proj.git = "undeclared" THEN ledger ELSE proj
     EXCEPT !.mode = IF proj.mode = "none" THEN ledger.mode ELSE proj.mode]
SaveLedger(o) ==
  /\ At(o, "ledger")
  /\ ledger' = IF op[o].kind = "disconnect" THEN [ledger EXCEPT !.mode = "none"] ELSE Saved(op[o].proj)
  /\ IF op[o].kind \in {"archive", "disconnect"}
     THEN op' = [op EXCEPT ![o] = [Rest EXCEPT !.at = "read"]] /\ UNCHANGED lock
     ELSE Done(o)
  /\ UNCHANGED <<code, snapshot, backups, second, turn, made, cut, mishaps, calls>>
\* Network, credentials, a divergence, a full disk, a caller that went away.
Fail(o) ==
  /\ op[o].at \in {"material", "fetch", "checkout", "forward", "download", "place", "aside", "in", "ledger"}
  /\ GiveUp(o) /\ mishaps < MaxMishaps /\ mishaps' = mishaps + 1
  /\ cut' = (cut \/ op[o].at = "in" \/ (op[o].at = "aside" /\ op[o].stamp # 0))
  /\ UNCHANGED <<ledger, code, snapshot, backups, second, turn, made, calls>>

\* CreateBranch: a branch that exists is checked out.
Branched == IF Detected THEN [code EXCEPT !.branch = "work"] ELSE code
\* podiom_start_work, the project's context read: the agent's branch.
StartWork(o) ==
  /\ At(o, "branch") /\ Done(o)
  /\ code' = Branched
  /\ UNCHANGED <<ledger, snapshot, backups, second, turn, made, cut, mishaps, calls>>

\* A turn, and what an agent or the user does in the directory.
TurnBegins == ~turn /\ turn' = TRUE
              /\ UNCHANGED <<ledger, code, snapshot, backups, second, lock, op, made, cut, mishaps, calls>>
TurnEnds == turn /\ turn' = FALSE
            /\ UNCHANGED <<ledger, code, snapshot, backups, second, lock, op, made, cut, mishaps, calls>>
Edit == turn /\ code' = [code EXCEPT !.file = "mine"]
        /\ UNCHANGED <<ledger, snapshot, backups, second, lock, op, turn, made, cut, mishaps, calls>>
Commit == turn /\ Detected /\ code.file = "mine" /\ code' = [code EXCEPT !.file = "theirs"]
          /\ UNCHANGED <<ledger, snapshot, backups, second, lock, op, turn, made, cut, mishaps, calls>>
GitInit == turn /\ ~Detected /\ NewHistory(code.file, FALSE)
           /\ UNCHANGED <<ledger, snapshot, backups, second, lock, op, turn, cut, mishaps, calls>>
\* Only a second that something is named after is told from the one before it.
Tick == /\ second < MaxSeconds /\ second' = second + 1
        /\ backups[second] # NoBackup \/ \E o \in Ops : op[o].stamp = second
        /\ UNCHANGED <<ledger, code, snapshot, backups, lock, op, turn, made, cut, mishaps, calls>>
\* The locks and the operations are in memory.
Die ==
  /\ mishaps < MaxMishaps /\ mishaps' = mishaps + 1
  /\ cut' = (cut \/ \E o \in Ops : op[o].at = "in" \/ (op[o].at = "aside" /\ op[o].stamp # 0))
  /\ op' = [o \in Ops |-> Rest] /\ lock' = NoOp /\ turn' = FALSE
  /\ UNCHANGED <<ledger, code, snapshot, backups, second, made, calls>>

ProjectNext ==
  \/ \E o \in Ops :
       \/ \E kind \in Kinds \ {"archive", "configure", "github"}, force \in BOOLEAN : Start(o, kind, force)
       \/ \E force \in BOOLEAN, asked \in Policies : Configure(o, force, asked)
       \/ \E force \in BOOLEAN : FromGitHub(o, force)
       \/ ReconcileAgain(o) \/ Lock(o) \/ Materialize(o) \/ CheckTree(o) \/ Fetch(o)
       \/ CheckoutDefault(o) \/ FastForward(o) \/ Confirm(o) \/ Clone(o) \/ DownloadArchive(o) \/ Place(o)
       \/ MoveAside(o) \/ Moved(o) \/ MoveIn(o) \/ MovedIn(o) \/ Blocked(o)
       \/ SaveLedger(o) \/ Fail(o) \/ StartWork(o)
  \/ TurnBegins \/ TurnEnds \/ Edit \/ Commit \/ GitInit \/ Tick \/ Die
ProjectSpec == ProjectInit /\ [][ProjectNext]_gitVars

---------------------------------------------------------------------------
\* "Nothing is deleted ... a clone that fails leaves the project untouched"
\* (docs/git.md:69-72), for what Podiom itself moves, whoever runs beside it and
\* wherever it dies: every repository the directory ever had is there or in a
\* backup, and the directory is found bare after a replacement only if one was cut
\* short between its first move and its last.
ReplacingNow(o) == op[o].at \in {"aside", "in"}
NothingLeftOut ==
  /\ \A h \in 1..made : code.git = h \/ \E s \in DOMAIN backups : backups[s].git = h
  /\ ~DirHasEntries /\ (\E s \in DOMAIN backups : backups[s] # NoBackup)
       => cut \/ \E o \in Ops : ReplacingNow(o)

=============================================================================
