---------------------------- MODULE CodexClient -----------------------------
(* One Codex app-server shared by the turns of a profile: codexClient of     *)
(* src/internal/adapter/codex.go.  A process is started on demand and named  *)
(* by its number.  Calls wait for a response by request id; notifications    *)
(* are routed to the turn they name, or buffered until it is registered.     *)
(*                                                                           *)
(* c.mu protects the maps, but the channel of a turn is looked up under the  *)
(* lock and sent to after it, and the decision to respawn for fresh          *)
(* credentials is taken under the lock and carried out after it.             *)
EXTENDS Naturals, Sequences, FiniteSets

CONSTANTS Turns,       \* SendTurn calls, and the sessions they belong to
          Refreshers,  \* concurrent RefreshCredentials calls
          Notes,       \* notifications of a turn before turn/completed
          ChanCap,     \* capacity of a turn's channel (128 in the code)
          MaxProcs     \* bound: processes started

VARIABLES proc,        \* the current process (c.cmd, c.stdin), 0 when there is none
          started,     \* processes started so far
          alive,       \* processes that run
          reader,      \* [process -> Ready, Ended, or the send readLoop is blocked in]
          turn,        \* [Turns -> [pc, on, tries]]: on is the process of its turn/start
          next,        \* [Turns -> what readLoop takes next of the turn: 0 the response,
                       \*           then its notifications 1..Completed]
          channel,     \* [Turns -> Seq]: the registered turn's channel
          active,      \* registered turns: the keys of c.watchers and c.active
          buffered,    \* [Turns -> Seq]: notifications of turns not registered
          got,         \* [Turns -> Seq]: what streamTurn has taken
          needsRespawn,
          refresh      \* [Refreshers -> "idle" | "reset" | "clear" | "done"]

codexVars == <<proc, started, alive, reader, turn, next, channel, active,
               buffered, got, needsRespawn, refresh>>

Procs == 1..MaxProcs
Ready == [to |-> "nobody"]
Ended == [to |-> "ended"]
Failure == 0
Completed == Notes + 1
\* Turns whose SendTurn waits in callStarted: the keys of c.pending.
Pending == {t \in Turns : turn[t].pc = "calling"}

CodexInit ==
    /\ proc = 0 /\ started = 0 /\ alive = {} /\ active = {}
    /\ reader = [p \in Procs |-> Ready]
    /\ turn = [t \in Turns |-> [pc |-> "new", on |-> 0, tries |-> 0]]
    /\ next = [t \in Turns |-> 0] /\ channel = [t \in Turns |-> <<>>]
    /\ buffered = [t \in Turns |-> <<>>] /\ got = [t \in Turns |-> <<>>]
    /\ needsRespawn = FALSE /\ refresh = [r \in Refreshers |-> "idle"]

-----------------------------------------------------------------------------
\* Mutation of Failed: calls in flight are not told.
FailedNot(t) == turn[t]
\* failLocked: every pending call gets the error; a registered turn gets it only
\* when its channel has room.
Failed(t) == [turn[t] EXCEPT !.pc = "failed"]
FailLocked(after) ==
    /\ proc' = 0
    /\ turn' = [t \in Turns |-> IF t \in Pending THEN Failed(t) ELSE after[t]]
    /\ channel' = [t \in Turns |-> IF t \in active /\ Len(channel[t]) < ChanCap
                                   THEN Append(channel[t], Failure) ELSE channel[t]]

\* reset: whatever process is current by now is forgotten and killed.
Reset(after) == FailLocked(after) /\ alive' = alive \ {proc}

-----------------------------------------------------------------------------
\* maybeRespawnForCredentials: the check, and the reset after the lock is released.
Boundary(t) ==
    /\ turn[t].pc = "new"
    /\ IF needsRespawn /\ proc # 0 /\ active = {}
       THEN needsRespawn' = FALSE /\ turn' = [turn EXCEPT ![t].pc = "respawning"]
       ELSE UNCHANGED needsRespawn /\ turn' = [turn EXCEPT ![t].pc = "ready"]
    /\ UNCHANGED <<proc, started, alive, reader, next, channel, active, buffered, got, refresh>>
Respawn(t) ==
    /\ turn[t].pc = "respawning"
    /\ Reset([turn EXCEPT ![t].pc = "ready"])
    /\ UNCHANGED <<started, reader, next, active, buffered, got, needsRespawn, refresh>>

\* ensureProcess and callStarted: turn/start is written to the current process,
\* one started for it if need be.
Call(t) ==
    /\ turn[t].pc = "ready"
    /\ \/ proc # 0 /\ UNCHANGED <<proc, started, alive>>
       \/ /\ proc = 0 /\ started < MaxProcs
          /\ started' = started + 1 /\ proc' = started' /\ alive' = alive \cup {started'}
    /\ turn' = [turn EXCEPT ![t] = [pc |-> "calling", on |-> proc', tries |-> @.tries + 1]]
    /\ next' = [next EXCEPT ![t] = 0] /\ buffered' = [buffered EXCEPT ![t] = <<>>]
    /\ UNCHANGED <<reader, channel, active, got, needsRespawn, refresh>>

\* A transport error resets whatever process is current by then, and the call is
\* made once more; the second error is the turn's.
Retry(t) ==
    /\ turn[t].pc = "failed"
    /\ Reset([turn EXCEPT ![t].pc = IF turn[t].tries < 2 THEN "ready" ELSE "done"])
    /\ UNCHANGED <<started, reader, next, active, buffered, got, needsRespawn, refresh>>

-----------------------------------------------------------------------------
\* What a process writes for a turn is ordered; two turns' output is merged in any
\* order, and what is not read when a dead process is given up was never written.
Heard(p, t) == turn[t].on = p /\ reader[p] = Ready /\ next[t] <= Completed
Take(t) == next' = [next EXCEPT ![t] = @ + 1]

Crash(p) ==
    /\ p \in alive
    /\ alive' = alive \ {p}
    /\ UNCHANGED <<proc, started, reader, turn, next, channel, active, buffered, got, needsRespawn, refresh>>

\* dispatch: a response wakes the call that waits for it.
Respond(p, t) ==
    /\ Heard(p, t) /\ next[t] = 0 /\ Take(t)
    /\ turn' = IF t \in Pending THEN [turn EXCEPT ![t].pc = "started"] ELSE turn
    /\ UNCHANGED <<proc, started, alive, reader, channel, active, buffered, got, needsRespawn, refresh>>

\* dispatchNotification under the lock: the channel is found, or the notification
\* is kept for the turn's registration.
Notify(p, t) ==
    /\ Heard(p, t) /\ next[t] > 0 /\ Take(t)
    /\ IF t \in active
       THEN reader' = [reader EXCEPT ![p] = [to |-> t, n |-> next[t]]] /\ UNCHANGED buffered
       ELSE buffered' = [buffered EXCEPT ![t] = Append(@, next[t])] /\ UNCHANGED reader
    /\ UNCHANGED <<proc, started, alive, turn, channel, active, got, needsRespawn, refresh>>

\* The send after the lock: it waits for room, whether or not anybody still reads.
Send(p) ==
    LET m == reader[p] IN
    /\ m \notin {Ready, Ended} /\ Len(channel[m.to]) < ChanCap
    /\ channel' = [channel EXCEPT ![m.to] = Append(@, m.n)]
    /\ reader' = [reader EXCEPT ![p] = Ready]
    /\ UNCHANGED <<proc, started, alive, turn, next, active, buffered, got, needsRespawn, refresh>>

\* Mutation of Lost: the end of a process is nobody's business.
LostNever(p) == FALSE
\* readLoop at end of file: only the current process's end fails the calls.
Lost(p) == proc = p
Eof(p) ==
    /\ p <= started /\ p \notin alive /\ reader[p] = Ready
    /\ reader' = [reader EXCEPT ![p] = Ended]
    /\ IF Lost(p) THEN FailLocked(turn) ELSE UNCHANGED <<proc, turn, channel>>
    /\ UNCHANGED <<started, alive, next, active, buffered, got, needsRespawn, refresh>>

-----------------------------------------------------------------------------
\* Mutation of Replayed: what came before the registration is dropped.
ReplayedNot(t) == <<>>
\* registerTurn replays what was buffered and publishes the channel, under one lock.
Replayed(t) == buffered[t]
Register(t) ==
    /\ turn[t].pc = "started"
    /\ turn' = [turn EXCEPT ![t].pc = "streaming"] /\ active' = active \cup {t}
    /\ channel' = [channel EXCEPT ![t] = Replayed(t)]
    /\ buffered' = [buffered EXCEPT ![t] = <<>>]
    /\ UNCHANGED <<proc, started, alive, reader, next, got, needsRespawn, refresh>>

\* streamTurn takes an event; a failure or turn/completed ends and unregisters it.
Stream(t) ==
    LET e == Head(channel[t]) IN
    /\ turn[t].pc = "streaming" /\ channel[t] # <<>>
    /\ got' = [got EXCEPT ![t] = Append(@, e)]
    /\ channel' = [channel EXCEPT ![t] = Tail(@)]
    /\ IF e \in {Failure, Completed}
       THEN turn' = [turn EXCEPT ![t].pc = "done"] /\ active' = active \ {t}
       ELSE UNCHANGED <<turn, active>>
    /\ UNCHANGED <<proc, started, alive, reader, next, buffered, needsRespawn, refresh>>

\* The context of the turn is cancelled, in the call or in the stream.
CancelTurn(t) ==
    /\ turn[t].pc \in {"calling", "streaming"}
    /\ turn' = [turn EXCEPT ![t].pc = "done"] /\ active' = active \ {t}
    /\ UNCHANGED <<proc, started, alive, reader, next, channel, buffered, got, needsRespawn, refresh>>

-----------------------------------------------------------------------------
\* refreshCredentials: mark, and when no turn is registered reset and unmark, each
\* in a critical section of its own.
RefreshMark(r) ==
    /\ refresh[r] = "idle"
    /\ needsRespawn' = (proc # 0)
    /\ refresh' = [refresh EXCEPT ![r] = IF proc # 0 /\ active = {} THEN "reset" ELSE "done"]
    /\ UNCHANGED <<proc, started, alive, reader, turn, next, channel, active, buffered, got>>
RefreshReset(r) ==
    /\ refresh[r] = "reset"
    /\ Reset(turn) /\ refresh' = [refresh EXCEPT ![r] = "clear"]
    /\ UNCHANGED <<started, reader, next, active, buffered, got, needsRespawn>>
RefreshClear(r) ==
    /\ refresh[r] = "clear"
    /\ needsRespawn' = FALSE /\ refresh' = [refresh EXCEPT ![r] = "done"]
    /\ UNCHANGED <<proc, started, alive, reader, turn, next, channel, active, buffered, got>>

ReadLoop(p) == (\E t \in Turns : Respond(p, t) \/ Notify(p, t)) \/ Send(p) \/ Eof(p)
TurnStep(t) == Boundary(t) \/ Respawn(t) \/ Call(t) \/ Retry(t) \/ Register(t) \/ Stream(t)
CodexNext ==
    \/ \E t \in Turns : TurnStep(t) \/ CancelTurn(t)
    \/ \E p \in Procs : ReadLoop(p) \/ Crash(p)
    \/ \E r \in Refreshers : RefreshMark(r) \/ RefreshReset(r) \/ RefreshClear(r)

CodexSpec == CodexInit /\ [][CodexNext]_codexVars

\* readLoop and the goroutines of the turns run; the server is assumed to answer
\* or to die.  Nobody is obliged to cancel, to refresh or to crash.
CodexProgress == (\E p \in Procs : ReadLoop(p)) \/ (\E t \in Turns : TurnStep(t))
CodexFairSpec == CodexSpec /\ WF_codexVars(CodexProgress)

-----------------------------------------------------------------------------
CodexTypeOK ==
    /\ proc \in 0..started /\ started \in 0..MaxProcs /\ alive \subseteq 1..started
    /\ \A t \in Turns : /\ turn[t].pc \in {"new", "respawning", "ready", "calling", "failed",
                                           "started", "streaming", "done"}
                        /\ Len(channel[t]) <= ChanCap \/ Len(channel[t]) <= Completed
    /\ active \subseteq Turns
    /\ refresh \in [Refreshers -> {"idle", "reset", "clear", "done"}]

\* A turn's stream gives every notification of the turn once and in the server's
\* order, those that came before it was registered included; only the failure of
\* the process may cut it short, never skip, repeat or mix in another turn's.
StreamInServerOrder ==
    \A t \in Turns : \A i \in DOMAIN got[t] :
        got[t][i] = i \/ (i = Len(got[t]) /\ got[t][i] = Failure)

\* No call waits for an answer of a process that is no longer the current one:
\* whatever resets or replaces the process fails the calls made on it.
NoCallOnLostProcess ==
    \A t \in Pending : turn[t].on = proc

\* A call returns, whatever happens to its process, unless readLoop is blocked in
\* the send to a full channel that no turn reads any more.
Wedged(p) ==
    /\ reader[p] \notin {Ready, Ended}
    /\ reader[p].to \notin active /\ Len(channel[reader[p].to]) = ChanCap
CallReturns ==
    \A t \in Turns : (t \in Pending) ~> (t \notin Pending \/ Wedged(turn[t].on))

=============================================================================
