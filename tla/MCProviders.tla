---------------------------- MODULE MCProviders -----------------------------
(***************************************************************************)
(* What stands between Core and the provider CLIs, side by side: which     *)
(* part runs is fixed at the start (focus), the others rest in their       *)
(* initial state. The adapters, the usage tracker, the sign-in and the     *)
(* MCP servers share no memory; the processes they start are environment   *)
(* in each of them.                                                        *)
(***************************************************************************)
EXTENDS Naturals, Sequences

CONSTANTS
  ChanCap, PipeCap,                       \* lines and events a channel and a pipe hold
  Turns, Refreshers, Notes, MaxProcs,     \* turns on one app-server, credential refreshes
  MaxLines,                               \* bound on what a Claude process writes
  TurnNotes, Commands, Patches, MaxRequests, MaxRepeats, QueueCap,   \* the items of a Codex turn
  Profiles, MinGap, StaleRetry, BackoffBase, BackoffCap, RetryAfter, Interval, Cooldown,
  CliTimeout, CarryMax, MaxTime, MaxEvents,   \* the usage tracker's delays
  Attempts, Submits, MaxRejects,          \* sign-ins, codes submitted
  Names, Handlers, MaxApps, MaxOps,       \* MCP servers, requests, app-servers
  Chatter, TestPipeCap, MaxChatter        \* what a server under test prints

\* A renewal is over before its cooldown is (usage/tracker.go:27-29, providercheck.go:22).
ASSUME CooldownAssumption == CliTimeout \in Nat /\ Cooldown \in Nat /\ CliTimeout < Cooldown
\* What a server prints besides its answers is none of them.
ASSUME ChatterAssumption == "init" \notin Chatter /\ "list" \notin Chatter
\* Bounds and delays are numbers, and time moves on between polls (usage/tracker.go:21-30).
ASSUME BoundsAssumption ==
  /\ ChanCap \in Nat /\ PipeCap \in Nat /\ TestPipeCap \in Nat /\ QueueCap \in Nat
  /\ Notes \in Nat /\ TurnNotes \in Nat /\ MaxRequests \in Nat /\ MaxRepeats \in Nat
  /\ MaxProcs \in Nat /\ MaxLines \in Nat /\ MaxEvents \in Nat /\ MaxChatter \in Nat
  /\ MaxRejects \in Nat /\ MaxOps \in Nat
  /\ StaleRetry \in Nat /\ BackoffBase \in Nat /\ BackoffCap \in Nat /\ RetryAfter \in Nat
  /\ Interval \in Nat \ {0} /\ MaxTime \in Nat \ {0}
\* The credential path is some profile's, and there is a name to give a server.
ASSUME NamesAssumption == Profiles # {} /\ Names # {}

VARIABLES
  focus,      \* the component that runs
  proc, started, alive, reader, turn, next, channel, active, buffered, got, needsRespawn,
  refresh,
  process, written, pipe, parser, parsed, tracker, said, out, main, cancelled, received,
  planMode,
  streams, server, queue, track, sent, asks, patches, context,
  now, token, cache, gate, backoff, failures, renewAt, nudge, wakeAt, round, happened,
  needsCode, login, submit, rejects, signedIn, status, probe,
  user, claude, codex, assigned, handler, apps, serving, ops,
  tested, asked, answered, spoken, stdout, scan, held, lines, step, error, due

Codex == INSTANCE CodexClient
Claude == INSTANCE ClaudeProcess
OneTurn == INSTANCE CodexTurn WITH Notes <- TurnNotes, out <- sent
Usage == INSTANCE UsageTracker
Login == INSTANCE ProviderLogin WITH cache <- status
Mcp == INSTANCE McpCatalogue WITH turn <- serving
Test == INSTANCE McpTest WITH
  PipeCap <- TestPipeCap, MaxLines <- MaxChatter, proc <- tested, said <- spoken, pipe <- stdout

codexVars ==
  <<proc, started, alive, reader, turn, next, channel, active, buffered, got, needsRespawn,
  refresh>>
claudeVars ==
  <<process, written, pipe, parser, parsed, tracker, said, out, main, cancelled, received,
  planMode>>
codexTurnVars ==
  <<streams, server, queue, track, sent, asks, patches, context>>
usageVars ==
  <<now, token, cache, gate, backoff, failures, renewAt, nudge, wakeAt, round, happened>>
loginVars ==
  <<needsCode, login, submit, rejects, signedIn, status, probe>>
mcpVars ==
  <<user, claude, codex, assigned, handler, apps, serving, ops>>
mcpTestVars ==
  <<tested, asked, answered, spoken, stdout, scan, held, lines, step, error, due>>
vars ==
  <<focus, codexVars, claudeVars, codexTurnVars, usageVars, loginVars, mcpVars, mcpTestVars>>

\* The step is one of component c: the others rest.
Only(c) ==
  /\ focus = c /\ UNCHANGED focus
  /\ IF c = "codex" THEN TRUE ELSE UNCHANGED codexVars
  /\ IF c = "claude" THEN TRUE ELSE UNCHANGED claudeVars
  /\ IF c = "codexTurn" THEN TRUE ELSE UNCHANGED codexTurnVars
  /\ IF c = "usage" THEN TRUE ELSE UNCHANGED usageVars
  /\ IF c = "login" THEN TRUE ELSE UNCHANGED loginVars
  /\ IF c = "mcp" THEN TRUE ELSE UNCHANGED mcpVars
  /\ IF c = "mcpTest" THEN TRUE ELSE UNCHANGED mcpTestVars

Init ==
  /\ focus \in
       {"codex", "claude", "codexTurn", "usage", "login", "mcp", "mcpTest"}
  /\ Codex!CodexInit
  /\ Claude!ClaudeInit
  /\ focus = "claude" \/ process.native = FALSE
  /\ focus = "claude" \/ planMode = FALSE
  /\ OneTurn!CodexTurnInit
  /\ focus = "codexTurn" \/ streams = FALSE
  /\ Usage!UsageInit
  /\ focus = "usage" \/ token = "good"
  /\ Login!LoginInit
  /\ focus = "login" \/ needsCode = FALSE
  /\ focus = "login" \/ \A s \in DOMAIN submit : submit[s].for = 1
  /\ Mcp!McpInit
  /\ Test!TestInit

Next ==
  \/ Only("codex") /\ Codex!CodexNext
  \/ Only("claude") /\ Claude!ClaudeNext
  \/ Only("codexTurn") /\ OneTurn!CodexTurnNext
  \/ Only("usage") /\ Usage!UsageNext
  \/ Only("login") /\ Login!LoginNext
  \/ Only("mcp") /\ Mcp!McpNext
  \/ Only("mcpTest") /\ Test!TestNext

Spec == Init /\ [][Next]_vars
FairSpec ==
  /\ Spec
  /\ WF_codexVars(focus = "codex" /\ Codex!CodexProgress)
  /\ WF_claudeVars(focus = "claude" /\ Claude!ClaudeProgress)

-----------------------------------------------------------------------------
\* The variables of the component that runs have their types.
TypeOK ==
  /\ focus = "codex" => Codex!CodexTypeOK
  /\ focus = "claude" => Claude!ClaudeTypeOK
  /\ focus = "codexTurn" => OneTurn!CodexTurnTypeOK
  /\ focus = "usage" => Usage!UsageTypeOK
  /\ focus = "login" => Login!LoginTypeOK
  /\ focus = "mcp" => Mcp!McpTypeOK
  /\ focus = "mcpTest" => Test!TestTypeOK

\* A turn gets what its provider wrote once, whole and in order, and the word on how it
\* ended comes last: no Codex call waits on a process that was replaced, no Claude run that
\* spoke is repeated (adapter/codex.go:660-979, adapter/claude.go:205-269).
EventsInOrder ==
  /\ Codex!StreamInServerOrder /\ Codex!NoCallOnLostProcess
  /\ Claude!OutputBeforeVerdict /\ Claude!NoRerunAfterSpeech

\* A Codex call returns and the channel of a Claude turn is closed, whatever happens
\* to their processes (adapter/codex.go:660-979, adapter/claude.go:205-390).
CallReturns == Codex!CallReturns /\ (focus = "claude" => Claude!StreamCloses)

\* A Codex turn read to its end tells each note, tool and bill once, and the subagent's
\* card as the app-server left it (adapter/codex.go:1167-1377).
TurnIsToldOnce == OneTurn!TurnIsToldOnce

\* Expired tokens start one CLI, and one login code answers one question
\* (usage/tracker.go:464-493, providerlogin/providerlogin.go:252-287).
OneCliPerToken == Usage!OneCliPerToken /\ Login!OneCodePerQuestion

\* A turn sees the MCP servers assigned to its agent, and a connection test that passes
\* was answered (mcp/mcp.go:351-469, mcp/test.go:87-190).
SeesAssigned == Mcp!SeesAssigned /\ Test!PassMeansAnswered
=============================================================================
