------------------------------ MODULE Settings ------------------------------
(***************************************************************************)
(* config.yaml, the settings the daemon holds in memory, and the agents    *)
(* they configure: internal/config (config.go, editor.go),                 *)
(* internal/server (api.go, config.go), internal/core/agents.go and        *)
(* syncConfiguredAgents of cmd/podiomd.                                     *)
(*                                                                         *)
(* Every edit of the file reads it, changes its part of the syntax tree    *)
(* and replaces it; no lock spans the two.  One provider, one agent.       *)
(***************************************************************************)
EXTENDS Naturals

CONSTANTS
  Handlers,   \* requests being served at once
  Profiles,   \* auth profiles
  Sessions,   \* conversations of the agent
  None,       \* no profile
  Absent,     \* no such agent
  MaxCalls    \* bound on the requests served

VARIABLES
  file,     \* config.yaml: its profiles, global.profile, global.fallback, the agent's entry
  mem,      \* Core.profiles and Core.global
  row,      \* the agent's row: its profile, or Absent
  chat,     \* Sessions -> "none", "open", "late" (begun while the agent is deleted), "deleted", "lost"
  archive,  \* the sessions in workspace/session-archive
  daemon,   \* "down", "up", or "refused": it could not start
  handler,  \* Handlers -> what it serves and how far it is
  calls

setVars == <<file, mem, row, chat, archive, daemon, handler, calls>>

Names == Profiles \cup {None}
Edits == {"save", "remove", "patch", "forget"}
Fresh == [profiles |-> {}, default |-> None, chain |-> None, agent |-> Absent]  \* the scaffolded file
Idle == [op |-> "save", at |-> "idle", name |-> None, chain |-> None, tree |-> Fresh, listed |-> {}]
Files == [profiles: SUBSET Profiles, default: Names, chain: Names, agent: Names \cup {Absent}]
SettingsTypeOK ==
  /\ file \in Files /\ mem \in [profiles: SUBSET Profiles, default: Names, chain: Names]
  /\ row \in Names \cup {Absent} /\ chat \in [Sessions -> {"none", "open", "late", "deleted", "lost"}]
  /\ archive \in SUBSET Sessions /\ daemon \in {"down", "up", "refused"} /\ calls \in 0..MaxCalls
  /\ handler \in [Handlers -> [op: Edits \cup {"create", "put", "delete"}, name: Names, chain: Names, tree: Files,
       listed: SUBSET Sessions, at: {"idle", "read", "write", "store", "archive", "purge", "drop"}]]

\* The scaffolded file, with or without an agent the user wrote into it.
SettingsInit ==
  /\ \E entry \in {None, Absent} : file = [Fresh EXCEPT !.agent = entry]
  /\ mem = [profiles |-> {}, default |-> None, chain |-> None]
  /\ row = Absent /\ chat = [s \in Sessions |-> "none"] /\ archive = {} /\ daemon = "down"
  /\ handler = [h \in Handlers |-> Idle] /\ calls = 0

---------------------------------------------------------------------------
\* Config.Validate: the entries that name a profile; global.profile is not one.
Loads(f) == f.chain \in f.profiles \cup {None} /\ f.agent \in f.profiles \cup {None, Absent}
\* applyAgentDefaults.
Effective(name) == IF name = None THEN mem.default ELSE name
\* validateAgentTargets, against the profiles just read.
Resolves(name) == name \in file.profiles \cup {None}
\* ensureProfileUnused.
Unused(p) == p # file.chain /\ p # file.agent /\ p # row

Serve(h) == daemon = "up" /\ handler[h].at = "idle" /\ calls < MaxCalls /\ calls' = calls + 1
Take(h, request) == handler' = [handler EXCEPT ![h] = request]
Go(h, where) == handler' = [handler EXCEPT ![h].at = where]
Replied(h) == handler' = [handler EXCEPT ![h] = Idle]
Refreshed == mem' = [mem EXCEPT !.profiles = file.profiles]

\* POST and DELETE /api/profiles: refreshed from the file, checked, then edited.
SaveProfile(h, p) ==
  /\ Serve(h) /\ Loads(file) /\ p \notin file.profiles /\ Refreshed
  /\ Take(h, [Idle EXCEPT !.at = "read", !.name = p])
  /\ UNCHANGED <<file, row, chat, archive, daemon>>
DeleteProfile(h, p) ==
  /\ Serve(h) /\ Loads(file) /\ p \in file.profiles /\ Unused(p) /\ Refreshed
  /\ Take(h, [Idle EXCEPT !.op = "remove", !.at = "read", !.name = p])
  /\ UNCHANGED <<file, row, chat, archive, daemon>>
\* PATCH /api/config: the fields given over the settings in memory.
PatchConfig(h, default, chain) ==
  /\ Serve(h) /\ default \in mem.profiles \cup {None} /\ chain \in mem.profiles \cup {None}
  /\ default = mem.default \/ chain = mem.chain
  /\ Take(h, [Idle EXCEPT !.op = "patch", !.at = "read", !.name = default, !.chain = chain])
  /\ UNCHANGED <<file, mem, row, chat, archive, daemon>>

\* editFile: read ...
ReadTree(h) ==
  /\ handler[h].at = "read" /\ handler' = [handler EXCEPT ![h].tree = file, ![h].at = "write"]
  /\ UNCHANGED <<file, mem, row, chat, archive, daemon, calls>>
Edited(f, e) ==
  CASE e.op = "save" -> [f EXCEPT !.profiles = @ \cup {e.name}]
    [] e.op = "remove" -> [f EXCEPT !.profiles = @ \ {e.name}]
    [] e.op = "patch" -> [f EXCEPT !.default = e.name, !.chain = e.chain]
    [] e.op = "forget" -> [f EXCEPT !.agent = Absent]
\* ... and replace; then the handler applies what it wrote, or what it reads back.
WriteTree(h) == LET e == handler[h] IN
  /\ e.at = "write" /\ file' = Edited(e.tree, e) /\ Replied(h)
  /\ mem' = CASE e.op = "patch" -> [mem EXCEPT !.default = e.name, !.chain = e.chain]
              [] e.op \in {"save", "remove"} /\ Loads(file') -> [mem EXCEPT !.profiles = file'.profiles]
              [] OTHER -> mem
  /\ UNCHANGED <<row, chat, archive, daemon, calls>>

\* POST and PUT /api/agents: checked against memory, written later.
CheckAgent(h, op, name) ==
  /\ Serve(h) /\ Loads(file) /\ Refreshed
  /\ op = "put" => row # Absent
  /\ Resolves(Effective(name))
  /\ Take(h, [Idle EXCEPT !.op = op, !.at = "store", !.name = Effective(name)])
  /\ UNCHANGED <<file, row, chat, archive, daemon>>
StoreAgent(h) ==
  /\ handler[h].at = "store" /\ Replied(h)
  /\ row' = IF (row = Absent) = (handler[h].op = "create") THEN handler[h].name ELSE row
  /\ UNCHANGED <<file, mem, chat, archive, daemon, calls>>

\* DeleteAgent: the sessions it lists are archived; then every session of the agent,
\* its row and its entry go, in that order.
ListAgentSessions(h) ==
  /\ Serve(h) /\ row # Absent
  /\ Take(h, [Idle EXCEPT !.op = "delete", !.at = "archive", !.listed = {s \in Sessions : chat[s] \in {"open", "late"}}])
  /\ UNCHANGED <<file, mem, row, chat, archive, daemon>>
\* Mutation of AfterArchive: a failure to archive is logged.
AfterArchiveAlways(ok) == "purge"
AfterArchive(ok) == IF ok THEN "purge" ELSE "idle"
Archive(h, ok) ==
  /\ handler[h].at = "archive" /\ Go(h, AfterArchive(ok))
  /\ archive' = IF ok THEN archive \cup handler[h].listed ELSE archive
  /\ UNCHANGED <<file, mem, row, chat, daemon, calls>>
Purge(h) ==
  /\ handler[h].at = "purge" /\ Go(h, "drop")
  /\ chat' = [s \in Sessions |-> CASE chat[s] = "open" -> "deleted" [] chat[s] = "late" -> "lost" [] OTHER -> chat[s]]
  /\ UNCHANGED <<file, mem, row, archive, daemon, calls>>
\* A session that came meanwhile keeps the row (its foreign key), and so the entry.
Drop(h) ==
  /\ handler[h].at = "drop"
  /\ IF row # Absent /\ \A s \in Sessions : chat[s] \notin {"open", "late"}
     THEN row' = Absent /\ handler' = [handler EXCEPT ![h].op = "forget", ![h].at = "read"]
     ELSE UNCHANGED row /\ Replied(h)
  /\ UNCHANGED <<file, mem, chat, archive, daemon, calls>>
\* CreateSession.
OpenSession(s) ==
  /\ daemon = "up" /\ row # Absent /\ chat[s] = "none"
  /\ chat' = [chat EXCEPT ![s] = IF \E h \in Handlers : handler[h].op = "delete" /\ handler[h].at # "idle" THEN "late" ELSE "open"]
  /\ UNCHANGED <<file, mem, row, archive, daemon, handler, calls>>

Stop ==
  /\ daemon = "up" /\ daemon' = "down" /\ handler' = [h \in Handlers |-> Idle]
  /\ UNCHANGED <<file, mem, row, chat, archive, calls>>
\* run: Load, core.New, then syncConfiguredAgents creates or overwrites the agent's row
\* from its entry; an error of either ends the process.
Start == LET name == IF file.agent = None THEN file.default ELSE file.agent IN
  /\ daemon = "down"
  /\ mem' = [profiles |-> file.profiles, default |-> file.default, chain |-> file.chain]
  /\ IF Loads(file) /\ (file.agent # Absent => Resolves(name))
     THEN daemon' = "up" /\ row' = IF file.agent = Absent THEN row ELSE name
     ELSE daemon' = "refused" /\ UNCHANGED row
  /\ UNCHANGED <<file, chat, archive, handler, calls>>

SettingsNext ==
  \/ \E h \in Handlers :
       \/ \E p \in Profiles : SaveProfile(h, p) \/ DeleteProfile(h, p)
       \/ \E d, c \in Names : PatchConfig(h, d, c)
       \/ ReadTree(h) \/ WriteTree(h)
       \/ \E op \in {"create", "put"}, n \in Names : CheckAgent(h, op, n)
       \/ StoreAgent(h) \/ ListAgentSessions(h)
       \/ \E ok \in BOOLEAN : Archive(h, ok)
       \/ Purge(h) \/ Drop(h)
  \/ \E s \in Sessions : OpenSession(s)
  \/ Stop \/ Start
SettingsSpec == SettingsInit /\ [][SettingsNext]_setVars

---------------------------------------------------------------------------
\* Deleting an agent keeps its conversations in the archive, whoever else deletes it
\* and wherever the daemon dies; only one begun meanwhile can be lost
\* (docs/cli.md:374-378, core/agents.go:193-204).
ArchivedBeforeDeleted == \A s \in Sessions : chat[s] = "deleted" => s \in archive

=============================================================================
