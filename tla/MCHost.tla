------------------------------- MODULE MCHost -------------------------------
(***************************************************************************)
(* What the daemon keeps on disk and in SQLite, side by side: its schema,  *)
(* its start, its tokens, its settings, its sessions with their photos,    *)
(* its own binaries, a project's checkout, the tools and the skills it     *)
(* installs. They write different files and tables, each guarded by its    *)
(* own lock or by none; which part runs is fixed at the start (focus),     *)
(* the others rest in their initial state.                                 *)
(***************************************************************************)
EXTENDS Naturals, TLC

CONSTANTS
  Handlers, None,                \* requests served at once, and none of them
  Schemas, MaxRows, MaxUpgrades, \* schema releases; bounds on rows, on deaths in an upgrade
  Daemons, Runs, Lan, MaxBoots,  \* daemons on one storage root, goal runs, is there a LAN listener
  Clients, MaxRotations, MaxEvents, MaxRestarts,  \* dashboards; bounds of the gateway
  Profiles, Sessions, Absent, MaxSettings,        \* of the agent whose settings change
  Writers, Photos, MaxSeq,       \* of one conversation
  Cli, Releases, MaxMishaps,     \* the updater's command, what it installs
  Tools, Legacy, MaxCrashes, MaxInstalls,         \* tools, those of the old layout
  Sources, NoSkill, Own, MaxHeads, MaxSkillCalls, \* a skill's sources; nothing, the user's own
  GitOps, Nobody, MaxHistories, MaxSeconds, MaxGitCalls  \* operations on a checkout, and none

ASSUME SchemasAssumption == Schemas \subseteq Nat
ASSUME CliAssumption == Cli \notin Handlers
ASSUME NoneAssumption == None \notin Handlers \cup {Cli} \cup Writers
ASSUME NobodyAssumption == Nobody \notin Daemons
ASSUME SecondsAssumption == MaxSeconds \in Nat \ {0}
\* 1 is the release installed first, 0 stands for a file that is not there.
ASSUME ReleasesAssumption == 1 \in Releases /\ Releases \subseteq Nat \ {0}
ASSUME SkillsAssumption == NoSkill # Own
\* Every bound is a number, of any size.
ASSUME BoundsAssumption ==
  /\ MaxRows \in Nat /\ MaxUpgrades \in Nat /\ MaxBoots \in Nat /\ MaxRotations \in Nat
  /\ MaxEvents \in Nat /\ MaxRestarts \in Nat /\ MaxSettings \in Nat /\ MaxSeq \in Nat
  /\ MaxMishaps \in Nat /\ MaxCrashes \in Nat /\ MaxInstalls \in Nat /\ MaxHeads \in Nat
  /\ MaxSkillCalls \in Nat /\ MaxHistories \in Nat /\ MaxGitCalls \in Nat

VARIABLES
  focus,      \* the component that runs
  applied, cols, admits, guarded, stored, release, phase, ran, entered, deaths,
  stage, runRow, worker, upload, folder, sender, daemonStarts,
  tokenFile, token, rotate, conn, mail, event, view, doorStarts,
  file, mem, agentRow, chat, archive, configured, serving, served,
  alive, last, append, dbLock, photo, files, job, old, gate, archived, running, sweep, starts,
  windows, disk, new, updateLock, applier, daemon, mishaps,
  pkg, bin, manifest, legacy, toolOp, boot, torn, crashes, toolCalls,
  dir, aside, lock, heads, skillOp, lost, skillCalls,
  ledger, code, snapshot, backups, second, gitLock, op, gitTurn, made, cut, gitMishaps, gitCalls

\* Operations on a checkout differ in nothing but their names.
GitSymmetry == Permutations(GitOps)

Migrate == INSTANCE Migrations WITH
  Releases <- Schemas, MaxCrashes <- MaxUpgrades, rows <- stored
Start == INSTANCE Boot WITH
  MaxStarts <- MaxBoots, row <- runRow, starts <- daemonStarts
Doors == INSTANCE Gateway WITH
  MaxStarts <- MaxRestarts, file <- tokenFile, starts <- doorStarts
Config == INSTANCE Settings WITH
  MaxCalls <- MaxSettings, row <- agentRow, daemon <- configured, handler <- serving,
  calls <- served
Store == INSTANCE SessionStore WITH
  NoOne <- None, MaxStarts <- MaxRestarts, lock <- dbLock, turn <- running
Update == INSTANCE Updater WITH lock <- updateLock
Tooling == INSTANCE Toolset WITH MaxCalls <- MaxInstalls, op <- toolOp, calls <- toolCalls
Market == INSTANCE SkillInstalls WITH MaxCalls <- MaxSkillCalls, op <- skillOp, calls <- skillCalls
Checkout == INSTANCE ProjectGit WITH
  Ops <- GitOps, NoOp <- Nobody, MaxCalls <- MaxGitCalls, lock <- gitLock, turn <- gitTurn,
  mishaps <- gitMishaps, calls <- gitCalls

migrateVars ==
  <<applied, cols, admits, guarded, stored, release, phase, ran, entered, deaths>>
bootVars ==
  <<stage, runRow, worker, upload, folder, sender, daemonStarts>>
gatewayVars ==
  <<tokenFile, token, rotate, conn, mail, event, view, doorStarts>>
settingsVars ==
  <<file, mem, agentRow, chat, archive, configured, serving, served>>
sessionsVars ==
  <<alive, last, append, dbLock, photo, files, job, old, gate, archived, running, sweep,
  starts>>
updaterVars ==
  <<windows, disk, new, updateLock, applier, daemon, mishaps>>
toolsetVars ==
  <<pkg, bin, manifest, legacy, toolOp, boot, torn, crashes, toolCalls>>
skillsVars ==
  <<dir, aside, lock, heads, skillOp, lost, skillCalls>>
gitVars ==
  <<ledger, code, snapshot, backups, second, gitLock, op, gitTurn, made, cut, gitMishaps, gitCalls>>
vars ==
  <<focus, migrateVars, bootVars, gatewayVars, settingsVars, sessionsVars, updaterVars,
  toolsetVars, skillsVars, gitVars>>

\* The step is one of component c: the others rest.
Only(c) ==
  /\ focus = c /\ UNCHANGED focus
  /\ IF c = "migrate" THEN TRUE ELSE UNCHANGED migrateVars
  /\ IF c = "boot" THEN TRUE ELSE UNCHANGED bootVars
  /\ IF c = "gateway" THEN TRUE ELSE UNCHANGED gatewayVars
  /\ IF c = "settings" THEN TRUE ELSE UNCHANGED settingsVars
  /\ IF c = "sessions" THEN TRUE ELSE UNCHANGED sessionsVars
  /\ IF c = "updater" THEN TRUE ELSE UNCHANGED updaterVars
  /\ IF c = "toolset" THEN TRUE ELSE UNCHANGED toolsetVars
  /\ IF c = "skills" THEN TRUE ELSE UNCHANGED skillsVars
  /\ IF c = "git" THEN TRUE ELSE UNCHANGED gitVars

Init ==
  /\ focus \in
       {"migrate", "boot", "gateway", "settings", "sessions", "updater", "toolset", "skills",
       "git"}
  /\ Migrate!MigrationInit
  /\ focus = "migrate" \/ \A r \in Schemas : release <= r
  /\ Start!BootInit
  /\ Doors!GatewayInit
  /\ Config!SettingsInit
  /\ focus = "settings" \/ file.agent = None
  /\ Store!StoreInit
  /\ focus = "sessions" \/ ~gate
  /\ Update!UpdaterInit
  /\ focus = "updater" \/ ~windows
  /\ Tooling!ToolsetInit
  /\ Market!SkillInit
  /\ Checkout!ProjectInit
  /\ focus = "git" \/ ledger.mode = "none"

Next ==
  \/ Only("migrate") /\ Migrate!MigrationNext
  \/ Only("boot") /\ Start!BootNext
  \/ Only("gateway") /\ Doors!GatewayNext
  \/ Only("settings") /\ Config!SettingsNext
  \/ Only("sessions") /\ Store!StoreNext
  \/ Only("updater") /\ Update!UpdaterNext
  \/ Only("toolset") /\ Tooling!ToolsetNext
  \/ Only("skills") /\ Market!SkillNext
  \/ Only("git") /\ Checkout!ProjectNext

Spec == Init /\ [][Next]_vars

-----------------------------------------------------------------------------
\* The variables of the component that runs have their types.
TypeOK ==
  /\ focus = "migrate" => Migrate!MigrationTypeOK
  /\ focus = "boot" => Start!BootTypeOK
  /\ focus = "gateway" => Doors!GatewayTypeOK
  /\ focus = "settings" => Config!SettingsTypeOK
  /\ focus = "sessions" => Store!StoreTypeOK
  /\ focus = "updater" => Update!UpdaterTypeOK
  /\ focus = "toolset" => Tooling!ToolsetTypeOK
  /\ focus = "skills" => Market!SkillTypeOK
  /\ focus = "git" => Checkout!ProjectTypeOK

\* What was stored stays, whatever overlaps and wherever the daemon dies: upgrades keep every
\* row (store/migrate.go:1595-1690), a restarted daemon has no run lock without its run nor a
\* photo without its file (core/attachments.go:100-210), a deleted agent's conversations are
\* archived (core/agents.go:185-215), a checkout that is replaced is in a backup
\* (core/project_git.go:230-420), no append is refused (store/sessions.go:545-600).
StoredStays ==
  /\ Migrate!UpgradeKeepsData /\ Start!LocksAreLive /\ Start!StoredHasFiles
  /\ Config!ArchivedBeforeDeleted /\ Checkout!NothingLeftOut
  /\ Store!PhotoHasFiles /\ Store!FilesHaveRow /\ Store!NoAppendRefused

\* What is installed is whole: podiom and podiomd are of one release
\* (updater/updater.go:440-520), a failed tool install leaves nothing behind
\* (tools/install.go:120-260), a skill the user placed by hand is not touched
\* (marketplace/install.go:90-260).
InstalledIsWhole ==
  Update!InstalledIsOneRelease /\ Tooling!FailedLeavesNothing /\ Market!HandPlacedStays

\* A rotated token leaves no socket of an earlier one open, not even one whose upgrade was
\* under way (server/ws.go:40-110, server/auth.go:80-150).
OldSocketsClose == Doors!OldSocketsClose
=============================================================================
