---------------------------- MODULE McpCatalogue ----------------------------
(***************************************************************************)
(* The MCP catalogue and what a turn sees of it: internal/mcp/mcp.go,      *)
(* internal/server/mcp.go, the projections of internal/adapter (Claude's   *)
(* strict file, Codex's overrides) and agentMCPServers of internal/core.   *)
(*                                                                         *)
(* A server is known from mcp.yaml or from one of the two native files,    *)
(* which the user edits behind the daemon's back; an agent is assigned     *)
(* names.  Claude reads only what it is given; a Codex app-server reads    *)
(* its own file when it starts, lives on from turn to turn, and adds what  *)
(* it is given, so the other servers known must be switched off by name.   *)
(* Podiom's own servers, in every session's set, interviews, which get     *)
(* nothing else, and entries disabled in Codex's file are left out.        *)
(***************************************************************************)
EXTENDS Naturals, FiniteSets

CONSTANTS
  Names,     \* server names
  Handlers,  \* requests served at once
  MaxApps,   \* bound on the session's app-servers
  MaxOps     \* bound on requests and edits

VARIABLES
  user,     \* mcp.yaml: Names -> how the server is reached, or "none"
  claude,   \* ~/.claude.json, the same
  codex,    \* ~/.codex/config.toml, the same
  assigned, \* the agent's row: the names it is assigned
  handler,  \* Handlers -> a request: its change, and the file or row it read
  apps,     \* the session's Codex app-servers: their overrides, what their own file defined
  turn,     \* [at, provider, given, known, text, sees]
  ops

mcpVars == <<user, claude, codex, assigned, handler, apps, turn, ops>>

\* The transports that are validated, and whatever else a native file says ("sse").
Transports == {"stdio", "http"}
Defs == [Names -> Transports \cup {"none", "other"}]
NoDefs == [n \in Names |-> "none"]
Requests == [op: {"idle", "write", "assign", "unassign"}, name: Names, to: Transports \cup {"none"},
             file: Defs, row: SUBSET Names]
Quiet == [op |-> "idle", name |-> CHOOSE n \in Names : TRUE, to |-> "none", file |-> NoDefs, row |-> {}]
Provider == {"claude", "codex"}
\* The overrides an app-server is started with: servers added, servers switched off, and
\* how each is run.
Texts == UNION {[on: SUBSET Names, off: SUBSET Names, how: [S -> Transports]] : S \in SUBSET Names}
NoText == [on |-> {}, off |-> {}, how |-> [n \in {} |-> "none"]]
NoTurn == [at |-> "idle", provider |-> "claude", given |-> {}, known |-> {},
           text |-> NoText, sees |-> {}]
McpTypeOK ==
  /\ user \in Defs /\ claude \in Defs /\ codex \in Defs /\ assigned \in SUBSET Names /\ ops \in 0..MaxOps
  /\ handler \in [Handlers -> Requests]
  /\ apps \subseteq [text: Texts, own: SUBSET Names]
  /\ turn \in [at: {"idle", "composed", "running", "failed"}, provider: Provider, given: SUBSET Names,
               known: SUBSET Names, text: Texts, sees: SUBSET Names]

McpInit ==
  /\ user = NoDefs /\ claude = NoDefs /\ codex = NoDefs /\ assigned = {}
  /\ handler = [h \in Handlers |-> Quiet] /\ apps = {} /\ turn = NoTurn /\ ops = 0

Defined(f) == {n \in Names : f[n] # "none"}
ImportClaude == Defined(claude)
ImportCodex == Defined(codex)
\* LoadCatalogue: mcp.yaml, then what the two native files add.
Catalogue == Defined(user) \cup ImportClaude \cup ImportCodex
\* dedupe: the first definition's transport.
Transport(n) ==
  CASE user[n] # "none" -> user[n] [] user[n] = "none" /\ claude[n] # "none" -> claude[n] [] OTHER -> codex[n]

---------------------------------------------------------------------------
Edit == ops < MaxOps /\ ops' = ops + 1
\* What a request has read when it decides what to write.
Takes(h, op, n, t) ==
  /\ handler[h].op = "idle" /\ Edit
  /\ handler' = [handler EXCEPT ![h] = [op |-> op, name |-> n, to |-> t, file |-> user, row |-> assigned]]
  /\ UNCHANGED <<user, claude, codex, assigned, apps, turn>>

\* UpsertUserServer and RemoveUserServer read the file, then replace it whole; no lock
\* keeps two of them apart.
Upsert(h, n, t) == t \in Transports /\ Takes(h, "write", n, t)
Remove(h, n) == user[n] # "none" /\ Takes(h, "write", n, "none")
SaveUserFile(h) == LET r == handler[h] IN
  /\ r.op = "write"
  /\ user' = [r.file EXCEPT ![r.name] = r.to] /\ handler' = [handler EXCEPT ![h] = Quiet]
  /\ UNCHANGED <<claude, codex, assigned, apps, turn, ops>>
\* handleMCPAssignments: the agent's row is read, and written whole; only an
\* assignment looks the server up.
Assign(h, n) == n \in Catalogue /\ Takes(h, "assign", n, "none")
Unassign(h, n) == Takes(h, "unassign", n, "none")
UpdateRow(h) == LET r == handler[h] IN
  /\ r.op \in {"assign", "unassign"} /\ handler' = [handler EXCEPT ![h] = Quiet]
  /\ assigned' = IF r.op = "assign" THEN r.row \cup {r.name} ELSE r.row \ {r.name}
  /\ UNCHANGED <<user, claude, codex, apps, turn, ops>>
\* The user, in the providers' own files.
EditClaude(n, t) == t # claude[n] /\ Edit /\ claude' = [claude EXCEPT ![n] = t] /\ UNCHANGED <<user, codex, assigned, handler, apps, turn>>
EditCodex(n, t) == t # codex[n] /\ Edit /\ codex' = [codex EXCEPT ![n] = t] /\ UNCHANGED <<user, claude, assigned, handler, apps, turn>>

---------------------------------------------------------------------------
\* CodexProfile has a table for each server it can run, the unassigned ones switched off: a
\* local one, and with mcp-proxy on the PATH a remote one. It writes nothing for another.
Bridged(n, proxy) == Transport(n) = "stdio" \/ (Transport(n) = "http" /\ proxy)
Unavailable(n, proxy) == Transport(n) = "http" /\ ~proxy
\* Mutation of SwitchedOff: only what the user's own Codex file defines today.
SwitchedOffOwn(known) == {n \in known \ assigned : user[n] = "none" /\ claude[n] = "none"}
SwitchedOff(known) == known \ assigned
CodexProfile(known) ==
  LET on == assigned \cap known  off == SwitchedOff(known) IN
  [NoText EXCEPT !.on = on, !.off = off, !.how = [n \in on \cup off |-> Transport(n)]]
\* agentMCPServers: a name that is gone from the catalogue fails the turn; ensureProfile:
\* so does one that cannot be bridged.
Delivered(p, proxy) == assigned \subseteq Catalogue /\ (p = "codex" => \A n \in assigned : ~Unavailable(n, proxy))
Compose(p, proxy) ==
  /\ turn.at = "idle"
  /\ LET known == IF p = "codex" THEN {n \in Catalogue : Bridged(n, proxy)} ELSE Catalogue IN
     turn' = IF Delivered(p, proxy)
             THEN [NoTurn EXCEPT !.at = "composed", !.provider = p, !.given = assigned, !.known = known,
                                 !.text = IF p = "codex" THEN CodexProfile(known) ELSE NoText]
             ELSE [NoTurn EXCEPT !.at = "failed", !.provider = p]
  /\ UNCHANGED <<user, claude, codex, assigned, handler, apps, ops>>
\* --strict-mcp-config: the CLI of one turn, and the servers of its file.
LaunchClaude ==
  /\ turn.at = "composed" /\ turn.provider = "claude"
  /\ turn' = [turn EXCEPT !.at = "running", !.sees = turn.given]
  /\ UNCHANGED <<user, claude, codex, assigned, handler, apps, ops>>
\* The app-server of these overrides, started if there is none: its file as it was then,
\* and the overrides on top.
LaunchCodex ==
  /\ turn.at = "composed" /\ turn.provider = "codex"
  /\ apps' = IF \E a \in apps : a.text = turn.text THEN apps
             ELSE apps \cup {[text |-> turn.text, own |-> Defined(codex)]}
  /\ Cardinality(apps') <= MaxApps
  /\ \E a \in apps' : /\ a.text = turn.text
                      /\ turn' = [turn EXCEPT !.at = "running", !.sees = a.text.on \cup (a.own \ a.text.off)]
  /\ UNCHANGED <<user, claude, codex, assigned, handler, ops>>
\* It ends by itself, or for fresh credentials between two turns.
AppEnds(a) ==
  /\ turn.at # "running" /\ apps' = apps \ {a}
  /\ UNCHANGED <<user, claude, codex, assigned, handler, turn, ops>>
Finish ==
  /\ turn.at \in {"running", "failed"} /\ turn' = NoTurn
  /\ UNCHANGED <<user, claude, codex, assigned, handler, apps, ops>>

McpNext ==
  \/ \E h \in Handlers, n \in Names : Remove(h, n) \/ Assign(h, n) \/ Unassign(h, n)
                                      \/ \E t \in Transports : Upsert(h, n, t)
  \/ \E h \in Handlers : SaveUserFile(h) \/ UpdateRow(h)
  \/ \E n \in Names, t \in Transports \cup {"none", "other"} : EditClaude(n, t) \/ EditCodex(n, t)
  \/ \E p \in Provider, proxy \in BOOLEAN : Compose(p, proxy)
  \/ LaunchClaude \/ LaunchCodex \/ Finish \/ \E a \in apps : AppEnds(a)
McpSpec == McpInit /\ [][McpNext]_mcpVars

---------------------------------------------------------------------------
\* A turn of an agent sees its servers, whichever provider backs it, however long its
\* app-server has run and wherever else they or others of the same name are defined,
\* and no other server that was known when it was prepared
\* (docs/requirements/mcp.md M7 and M12); on Codex, of the servers that have a table.
SeesAssigned ==
  turn.at = "running" => turn.sees \cap turn.known = turn.given \cap turn.known
=============================================================================
