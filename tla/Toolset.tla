------------------------------ MODULE Toolset ------------------------------
(***************************************************************************)
(* The toolset agents share: internal/tools/install.go, archive.go,        *)
(* manifest.go, migrate.go and bootstrap.go, behind internal/server/       *)
(* toolset.go.                                                             *)
(*                                                                         *)
(* Every request runs on its own and nothing serialises them: the files    *)
(* under pkg/ and bin/ and the manifest are changed step by step.          *)
(***************************************************************************)
EXTENDS FiniteSets, Naturals

CONSTANTS
  Tools,      \* executable names
  Handlers,   \* requests running at the same time
  Legacy,     \* tools in the manifests of the per-agent layout, one agent each
  MaxCrashes, \* bound on deaths of the daemon
  MaxCalls    \* bound on requests

VARIABLES
  pkg,      \* the files under pkg/<tool>/
  bin,      \* what bin/<tool> is
  manifest, \* the manifest: the installer of each tool
  legacy,   \* the per-agent manifests
  op,       \* what each request does
  boot,     \* how far Migrate is, and the manifest it read
  torn,     \* for the properties: tools two requests worked on at once, or a crash hit
  crashes, calls

toolVars == <<pkg, bin, manifest, legacy, op, boot, torn, crashes, calls>>

Parts == {"exe", "lib"}     \* an archive: the executable and a file it loads
Hows == {"archive", "binary", "command"}
Manifest == [Tools -> Hows \cup {"-", "reinstall"}]
Nothing == [t \in Tools |-> "-"]
Free == [at |-> "idle", tool |-> "-", how |-> "-", bad |-> FALSE, left |-> {}, seen |-> Nothing]

ToolsetTypeOK ==
  /\ pkg \in [Tools -> SUBSET Parts]
  /\ bin \in [Tools -> {"none", "link", "file", "bad"}]
  /\ manifest \in Manifest
  /\ legacy \subseteq Legacy
  /\ op \in [Handlers -> [at: {"idle", "bootstrap", "fetch", "place", "run", "clear", "extract", "unlink", "link",
                               "verify", "load", "save", "drop", "clean"},
                          tool: Tools \cup {"-"}, how: Hows \cup {"-", "reinstall"}, bad: BOOLEAN,
                          left: SUBSET Parts, seen: Manifest]]
  /\ boot \in [at: {"up", "read", "drop", "save"}, seen: Manifest, found: SUBSET Legacy]
  /\ torn \subseteq Tools
  /\ crashes \in 0..MaxCrashes /\ calls \in 0..MaxCalls

ToolsetInit ==
  /\ pkg = [t \in Tools |-> {}] /\ bin = [t \in Tools |-> "none"]
  /\ manifest = Nothing /\ legacy = Legacy
  /\ op = [h \in Handlers |-> Free]
  /\ boot = [at |-> "read", seen |-> Nothing, found |-> {}]
  /\ torn = {} /\ crashes = 0 /\ calls = 0

Goes(h, at) == op' = [op EXCEPT ![h].at = at]
Ends(h) == op' = [op EXCEPT ![h] = Free]
Bookkeeping == <<manifest, legacy, boot, torn, crashes, calls>>
\* Another request works on the tool already.
Overlaps(t) == IF \E h \in Handlers : op[h].tool = t THEN torn \cup {t} ELSE torn

---------------------------------------------------------------------------
(* Migrate, before the daemon serves. *)
ReadManifest ==
  /\ boot.at = "read"
  /\ boot' = [at |-> IF legacy = {} THEN "up" ELSE "drop", seen |-> manifest, found |-> {}]
  /\ UNCHANGED <<pkg, bin, manifest, legacy, op, torn, crashes, calls>>
\* An agent's manifest is folded in and deleted at once; one that cannot be
\* read ends the migration there ...
DropLegacy(t) ==
  /\ boot.at = "drop" /\ t \in legacy
  /\ \/ boot' = [boot EXCEPT !.at = IF legacy = {t} THEN "save" ELSE "drop", !.found = @ \cup {t}]
        /\ legacy' = legacy \ {t}
     \/ boot' = [boot EXCEPT !.at = "up", !.found = {}] /\ UNCHANGED legacy
  /\ UNCHANGED <<pkg, bin, manifest, op, torn, crashes, calls>>
\* ... the toolset's is written at the end; a live install wins.
SaveMigrated ==
  /\ boot.at = "save"
  /\ manifest' = [t \in Tools |-> IF boot.seen[t] = "-" /\ t \in boot.found THEN "reinstall" ELSE boot.seen[t]]
  /\ boot' = [boot EXCEPT !.at = "up", !.found = {}]
  /\ UNCHANGED <<pkg, bin, legacy, op, torn, crashes, calls>>

---------------------------------------------------------------------------
(* Install. *)
Install(h, t, how) ==
  /\ boot.at = "up" /\ op[h].at = "idle" /\ calls < MaxCalls
  /\ op' = [op EXCEPT ![h] = [Free EXCEPT !.at = IF how = "command" THEN "bootstrap" ELSE "fetch",
                                          !.tool = t, !.how = how, !.left = Parts]]
  /\ torn' = Overlaps(t) /\ calls' = calls + 1
  /\ UNCHANGED <<pkg, bin, manifest, legacy, boot, crashes>>

\* Mutation of Accepted: the digest is not compared.
AcceptedAlways(bad) == TRUE
\* fetchVerified: the digest of what came must be the one the request pins; a
\* download that differs, or fails, is discarded.
Accepted(bad) == ~bad
Fetch(h) ==
  /\ op[h].at = "fetch"
  /\ \/ \E bad \in BOOLEAN :
          IF Accepted(bad)
          THEN op' = [op EXCEPT ![h].at = IF op[h].how = "archive" THEN "clear" ELSE "place", ![h].bad = bad]
          ELSE Ends(h)
     \/ Ends(h)
  /\ UNCHANGED <<pkg, bin>> /\ UNCHANGED Bookkeeping
\* downloadBinary: chmod and rename over bin/<tool>.
Place(h) ==
  /\ op[h].at = "place"
  /\ bin' = [bin EXCEPT ![op[h].tool] = IF op[h].bad THEN "bad" ELSE "file"]
  /\ Goes(h, "verify")
  /\ UNCHANGED pkg /\ UNCHANGED Bookkeeping
\* bootstrapInstaller: the installer is on the host or its pinned release comes.
Bootstrap(h) ==
  /\ op[h].at = "bootstrap"
  /\ Goes(h, "run") \/ Ends(h)
  /\ UNCHANGED <<pkg, bin>> /\ UNCHANGED Bookkeeping
\* runInstaller: npm, uv, go or cargo puts the executable there, or fails.
Run(h) ==
  /\ op[h].at = "run"
  /\ \/ bin' = [bin EXCEPT ![op[h].tool] = "file"] /\ Goes(h, "verify")
     \/ UNCHANGED bin /\ Ends(h)
  /\ UNCHANGED pkg /\ UNCHANGED Bookkeeping

\* installArchive replaces the directory wholesale: the old files go first ...
Clear(h) ==
  /\ op[h].at = "clear"
  /\ pkg' = [pkg EXCEPT ![op[h].tool] = {}]
  /\ Goes(h, "extract")
  /\ UNCHANGED bin /\ UNCHANGED Bookkeeping
\* Mutation of Salvaged: a failed extraction stays where it is.
SalvagedAll(t) == pkg[t]
\* What a failed extraction leaves behind.
Salvaged(t) == {}
\* ... then entry by entry the new ones come; an entry that is refused, the
\* budget or the deadline ends it, and the directory is removed.
Extract(h) ==
  /\ op[h].at = "extract" /\ op[h].left # {}
  /\ \/ \E p \in op[h].left : /\ pkg' = [pkg EXCEPT ![op[h].tool] = @ \cup {p}]
                              /\ op' = [op EXCEPT ![h].left = @ \ {p}]
     \/ pkg' = [pkg EXCEPT ![op[h].tool] = Salvaged(op[h].tool)] /\ Ends(h)
  /\ UNCHANGED bin /\ UNCHANGED Bookkeeping
\* findArchiveExecutable.
Find(h) ==
  /\ op[h].at = "extract" /\ op[h].left = {}
  /\ IF "exe" \in pkg[op[h].tool] THEN Goes(h, "unlink") /\ UNCHANGED pkg
     ELSE Ends(h) /\ pkg' = [pkg EXCEPT ![op[h].tool] = {}]
  /\ UNCHANGED bin /\ UNCHANGED Bookkeeping
\* linkExecutable removes bin/<tool> and then makes the link.
Unlink(h) ==
  /\ op[h].at = "unlink"
  /\ bin' = [bin EXCEPT ![op[h].tool] = "none"]
  /\ Goes(h, "link")
  /\ UNCHANGED pkg /\ UNCHANGED Bookkeeping
Link(h) ==
  /\ op[h].at = "link"
  /\ IF bin[op[h].tool] = "none"
     THEN /\ bin' = [bin EXCEPT ![op[h].tool] = IF op[h].bad THEN "bad" ELSE "link"]
          /\ Goes(h, "verify") /\ UNCHANGED pkg
     ELSE Ends(h) /\ pkg' = [pkg EXCEPT ![op[h].tool] = {}] /\ UNCHANGED bin
  /\ UNCHANGED Bookkeeping

\* findExecutable looks in the toolset only, then the entry is recorded.
Works(t) == bin[t] \in {"file", "bad"} \/ (bin[t] = "link" /\ "exe" \in pkg[t])
Verify(h) ==
  /\ op[h].at = "verify"
  /\ IF Works(op[h].tool) THEN Goes(h, "load") ELSE Ends(h)
  /\ UNCHANGED <<pkg, bin>> /\ UNCHANGED Bookkeeping
Load(h) ==
  /\ op[h].at = "load"
  /\ op' = [op EXCEPT ![h].at = "save", ![h].seen = manifest]
  /\ UNCHANGED <<pkg, bin>> /\ UNCHANGED Bookkeeping
RecordInstall(h) ==
  /\ op[h].at = "save"
  /\ manifest' = [op[h].seen EXCEPT ![op[h].tool] = op[h].how]
  /\ Ends(h)
  /\ UNCHANGED <<pkg, bin, legacy, boot, torn, crashes, calls>>

---------------------------------------------------------------------------
(* Uninstall: the entry goes first and goes in any case. *)
Uninstall(h, t) ==
  /\ boot.at = "up" /\ op[h].at = "idle" /\ calls < MaxCalls
  /\ manifest[t] # "-"
  /\ op' = [op EXCEPT ![h] = [Free EXCEPT !.at = "drop", !.tool = t, !.how = manifest[t], !.seen = manifest]]
  /\ torn' = Overlaps(t) /\ calls' = calls + 1
  /\ UNCHANGED <<pkg, bin, manifest, legacy, boot, crashes>>
RemoveEntry(h) ==
  /\ op[h].at = "drop"
  /\ manifest' = [op[h].seen EXCEPT ![op[h].tool] = "-"]
  /\ Goes(h, "clean")
  /\ UNCHANGED <<pkg, bin, legacy, boot, torn, crashes, calls>>
CleanUp(h) ==
  /\ op[h].at = "clean"
  /\ bin' = [bin EXCEPT ![op[h].tool] = "none"]
  /\ pkg' = IF op[h].how = "archive" THEN [pkg EXCEPT ![op[h].tool] = {}] ELSE pkg
  /\ Ends(h)
  /\ UNCHANGED <<manifest, legacy, boot, torn, crashes, calls>>

---------------------------------------------------------------------------
Crash ==
  /\ crashes < MaxCrashes /\ crashes' = crashes + 1
  /\ op' = [h \in Handlers |-> Free]
  /\ boot' = [at |-> "read", seen |-> Nothing, found |-> {}]
  /\ torn' = torn \cup {op[h].tool : h \in {g \in Handlers : op[g].at # "idle"}}
  /\ UNCHANGED <<pkg, bin, manifest, legacy, calls>>

ToolsetNext ==
  \/ ReadManifest \/ SaveMigrated \/ Crash
  \/ \E t \in Legacy : DropLegacy(t)
  \/ \E h \in Handlers :
       \/ \E t \in Tools : (\E how \in Hows : Install(h, t, how)) \/ Uninstall(h, t)
       \/ Bootstrap(h) \/ Fetch(h) \/ Place(h) \/ Run(h) \/ Clear(h) \/ Extract(h) \/ Find(h) \/ Unlink(h) \/ Link(h)
       \/ Verify(h) \/ Load(h) \/ RecordInstall(h) \/ RemoveEntry(h) \/ CleanUp(h)

ToolsetSpec == ToolsetInit /\ [][ToolsetNext]_toolVars

---------------------------------------------------------------------------
\* Wherever an install fails, it leaves the tool's directory whole or gone, as
\* long as it was alone with the tool and the daemon lived; and however installs
\* overlap and wherever they are cut, nothing whose digest is not the pinned one
\* is on the path of the agents.
FailedLeavesNothing ==
  /\ \A t \in Tools \ torn : pkg[t] \in {{}, Parts} \/ \E h \in Handlers : op[h].tool = t
  /\ \A t \in Tools : bin[t] # "bad"

=============================================================================
