------------------------------- MODULE TurnHub -------------------------------
(***************************************************************************)
(* The active-turn hub of the daemon (internal/server/active_turns.go) and *)
(* the goroutines that use it: one per turn sent over a WebSocket          *)
(* (runWSTurn), one per /compact (runWSCompact, and its CLI twin in        *)
(* handleChat).                                                            *)
(*                                                                         *)
(* The hub is a map from a session to the turn registered for it.  A       *)
(* goroutine registers its turn (start), reports what the provider does    *)
(* (record...), and retires the registration (finish, fail).  Every one of *)
(* these calls names the SESSION and acts on whatever turn is registered   *)
(* for it at that moment, so the interesting states are those where the    *)
(* goroutine of an earlier turn is still on its way out.                   *)
(*                                                                         *)
(* Text buffers, native-agent activity and interview drafts of a turn are  *)
(* display data and left out here; the roadmap marks that runWSTurn makes  *)
(* act on task rows, not on the hub.                                       *)
(***************************************************************************)
EXTENDS Naturals, Sequences

CONSTANTS
    Sessions,   \* session ids
    Turns,      \* turn ids, each minted once (uuid.NewString)
    Writers,    \* WebSocket connections
    NoTurn,     \* the session has no entry in the hub
    NoWriter    \* the nil writer a CLI chat registers with

ASSUME NoTurnAssumption == NoTurn \notin Turns
ASSUME NoWriterAssumption == NoWriter \notin Writers

VARIABLES
    hub,        \* hub[s]: the activeTurn registered for s
    pc,         \* pc[t]: where the goroutine of t is
    kind,       \* kind[t]: a chat turn or a compaction
    sess,       \* sess[t]: the session t was sent to
    owner,      \* owner[t]: the connection t was sent on
    cancelled,  \* cancelled[t]: the context of t is cancelled
    told,       \* told[t]: the outcomes broadcast to the subscribers of t
    closed      \* connections that are gone

vars == <<hub, pc, kind, sess, owner, cancelled, told, closed>>

-----------------------------------------------------------------------------
Requests == {"permission", "question", "fallback"}

Outcomes == {"stopped", "done", "error"}

Notices == [what : Outcomes, by : Turns]

\* hub[s]: the fields of activeTurn that any operation of the hub reads back.
\* The three pending requests exclude each other, so they are one field.
Entries == [turn    : Turns \union {NoTurn},
            status  : {"none", "running", "stopped"},
            pending : Requests \union {"none"},
            auth    : BOOLEAN,
            subs    : SUBSET Writers]

NoEntry == [turn |-> NoTurn, status |-> "none", pending |-> "none",
            auth |-> FALSE, subs |-> {}]

\* Where a registered goroutine can be.
Registered == {"opening", "failing", "streaming", "drained", "closing",
               "leaving", "compacting"}

PCs == Registered \union {"idle", "called", "rejected", "ended"}

TypeOK ==
    /\ hub \in [Sessions -> Entries]
    /\ pc \in [Turns -> PCs]
    /\ kind \in [Turns -> {"chat", "compact"}]
    /\ sess \in [Turns -> Sessions]
    /\ owner \in [Turns -> Writers \union {NoWriter}]
    /\ cancelled \in [Turns -> BOOLEAN]
    /\ told \in [Turns -> Seq(Notices)]
    /\ closed \subseteq Writers

Init ==
    /\ hub = [s \in Sessions |-> NoEntry]
    /\ pc = [t \in Turns |-> "idle"]
    /\ kind = [t \in Turns |-> "chat"]
    /\ sess \in [Turns -> Sessions]
    /\ owner = [t \in Turns |-> NoWriter]
    /\ cancelled = [t \in Turns |-> FALSE]
    /\ told = [t \in Turns |-> <<>>]
    /\ closed = {}

-----------------------------------------------------------------------------
(***************************************************************************)
(* The hub's operations on one entry.                                      *)
(***************************************************************************)
IsRunning(s) == hub[s].status = "running"

NewEntry(t, w) ==
    [turn |-> t, status |-> "running", pending |-> "none", auth |-> FALSE,
     subs |-> {w} \ {NoWriter}]

\* Mutation of Subscribe: the nil check of the writer is missing.
SubscribeNil(e, w) == [e EXCEPT !.subs = @ \union {w}]

Subscribe(e, w) == [e EXCEPT !.subs = @ \union ({w} \ {NoWriter})]

\* detach: the connection leaves the subscribers of every turn.
Detach(w) == [s \in Sessions |-> [hub[s] EXCEPT !.subs = @ \ {w}]]

\* record...: nothing happens when the session has no entry.
Record(s, e) == IF hub[s].turn = NoTurn THEN hub ELSE [hub EXCEPT ![s] = e]

\* Mutations of the next two: finish returns early on a stopped turn, as if
\* stop had already deleted it; finish does not look at the stopped status.
RetiredHubIfRunning(s) ==
    IF IsRunning(s) THEN [hub EXCEPT ![s] = NoEntry] ELSE hub

RetiredToldAlways(s, what, by) ==
    IF hub[s].turn # NoTurn
      THEN [told EXCEPT ![hub[s].turn] = Append(@, [what |-> what, by |-> by])]
      ELSE told

\* finish and fail delete the entry of s, whichever turn it belongs to, and
\* announce the outcome to its subscribers unless the user had stopped it.
RetiredHub(s) == [hub EXCEPT ![s] = NoEntry]

RetiredTold(s, what, by) ==
    IF IsRunning(s)
      THEN [told EXCEPT ![hub[s].turn] = Append(@, [what |-> what, by |-> by])]
      ELSE told

Retire(s, what, by) ==
    /\ hub' = RetiredHub(s)
    /\ told' = RetiredTold(s, what, by)

-----------------------------------------------------------------------------
(***************************************************************************)
(* Clients: they send turns, attach, stop and disconnect.                  *)
(***************************************************************************)
Send(t, s, w, k) ==
    /\ pc[t] = "idle"
    /\ w \notin closed
    /\ w = NoWriter => k = "compact"
    /\ pc' = [pc EXCEPT ![t] = "called"]
    /\ kind' = [kind EXCEPT ![t] = k]
    /\ sess' = [sess EXCEPT ![t] = s]
    /\ owner' = [owner EXCEPT ![t] = w]
    /\ UNCHANGED <<hub, cancelled, told, closed>>

Attach(s, w) ==
    /\ w \notin closed
    /\ hub[s].turn # NoTurn
    /\ hub' = [hub EXCEPT ![s] = Subscribe(@, w)]
    /\ UNCHANGED <<pc, kind, sess, owner, cancelled, told, closed>>

Stop(s) ==
    /\ IsRunning(s)
    /\ hub' = [hub EXCEPT ![s].status = "stopped", ![s].pending = "none"]
    /\ cancelled' = [cancelled EXCEPT ![hub[s].turn] = TRUE]
    /\ told' = [told EXCEPT ![hub[s].turn] =
                    Append(@, [what |-> "stopped", by |-> hub[s].turn])]
    /\ UNCHANGED <<pc, kind, sess, owner, closed>>

Disconnect(w) ==
    /\ w \notin closed
    /\ closed' = closed \union {w}
    /\ hub' = Detach(w)
    /\ UNCHANGED <<pc, kind, sess, owner, cancelled, told>>

\* A broadcast outside the lock failed or took longer than five seconds.
WriteFails(w) ==
    /\ \E s \in Sessions : w \in hub[s].subs
    /\ hub' = Detach(w)
    /\ UNCHANGED <<pc, kind, sess, owner, cancelled, told, closed>>

-----------------------------------------------------------------------------
(***************************************************************************)
(* The goroutine of a turn.                                                *)
(***************************************************************************)
Goto(t, l) == pc' = [pc EXCEPT ![t] = l]

\* The session has a running turn: the sender joins its subscribers and is
\* told "session already has an active turn".
StartRejected(t) ==
    /\ pc[t] = "called"
    /\ IsRunning(sess[t])
    /\ hub' = [hub EXCEPT ![sess[t]] = Subscribe(@, owner[t])]
    /\ cancelled' = [cancelled EXCEPT ![t] = TRUE]
    /\ Goto(t, "rejected")
    /\ UNCHANGED <<kind, sess, owner, told, closed>>

\* No entry, or one that was stopped and is replaced.
StartAccepted(t) ==
    /\ pc[t] = "called"
    /\ ~IsRunning(sess[t])
    /\ hub' = [hub EXCEPT ![sess[t]] = NewEntry(t, owner[t])]
    /\ Goto(t, IF kind[t] = "chat" THEN "opening" ELSE "compacting")
    /\ UNCHANGED <<kind, sess, owner, cancelled, told, closed>>

\* core.StreamTurn returned its event channel.
Opened(t) ==
    /\ pc[t] = "opening"
    /\ Goto(t, "streaming")
    /\ UNCHANGED <<hub, kind, sess, owner, cancelled, told, closed>>

\* core.StreamTurn returned an error: ignored after a cancel, else announced.
OpenFailed(t) ==
    /\ pc[t] = "opening"
    /\ Goto(t, IF cancelled[t] THEN "leaving" ELSE "failing")
    /\ UNCHANGED <<hub, kind, sess, owner, cancelled, told, closed>>

AnnounceFailure(t) ==
    /\ pc[t] = "failing"
    /\ Retire(sess[t], "error", t)
    /\ Goto(t, "leaving")
    /\ UNCHANGED <<kind, sess, owner, cancelled, closed>>

\* A permission, question or fallback request reached the select loop.
RecordRequest(t, r) ==
    /\ pc[t] \in {"streaming", "drained"}
    /\ hub' = Record(sess[t], [hub[sess[t]] EXCEPT !.pending = r])
    /\ UNCHANGED <<pc, kind, sess, owner, cancelled, told, closed>>

\* Assistant output: the agent is no longer blocked on the user.
RecordOutput(t) ==
    /\ pc[t] = "streaming"
    /\ hub' = Record(sess[t], [hub[sess[t]] EXCEPT !.pending = "none"])
    /\ UNCHANGED <<pc, kind, sess, owner, cancelled, told, closed>>

RecordAuthRequired(t) ==
    /\ pc[t] = "streaming"
    /\ hub' = Record(sess[t], [hub[sess[t]] EXCEPT !.auth = TRUE])
    /\ UNCHANGED <<pc, kind, sess, owner, cancelled, told, closed>>

\* The terminal event of the stream, turn_done or error.
TerminalEvent(t, what) ==
    /\ pc[t] = "streaming"
    /\ Retire(sess[t], what, t)
    /\ Goto(t, "drained")
    /\ UNCHANGED <<kind, sess, owner, cancelled, closed>>

\* The event channel was closed, with or without a terminal event.
StreamClosed(t) ==
    /\ pc[t] \in {"streaming", "drained"}
    /\ Goto(t, "closing")
    /\ UNCHANGED <<hub, kind, sess, owner, cancelled, told, closed>>

\* Mutation of SeeCancel: the loop forgets its context once it has seen the
\* terminal event.
SeeCancelWhileStreaming(t) ==
    /\ pc[t] = "streaming"
    /\ cancelled[t]
    /\ Goto(t, "leaving")
    /\ UNCHANGED <<hub, kind, sess, owner, cancelled, told, closed>>

\* The select loop took its turnCtx.Done branch.
SeeCancel(t) ==
    /\ pc[t] \in {"streaming", "drained"}
    /\ cancelled[t]
    /\ Goto(t, "leaving")
    /\ UNCHANGED <<hub, kind, sess, owner, cancelled, told, closed>>

\* The finish after the loop; the state broadcast that follows it comes
\* before the deferred calls.
Finish(t) ==
    /\ pc[t] = "closing"
    /\ Retire(sess[t], "done", t)
    /\ Goto(t, "leaving")
    /\ UNCHANGED <<kind, sess, owner, cancelled, closed>>

\* Mutation of Leave: the goroutine has no deferred finish.
LeaveWithoutFinish(t) ==
    /\ pc[t] = "leaving"
    /\ cancelled' = [cancelled EXCEPT ![t] = TRUE]
    /\ Goto(t, "ended")
    /\ UNCHANGED <<hub, told, kind, sess, owner, closed>>

\* The deferred cancel and, last of all, the deferred finish.
Leave(t) ==
    /\ pc[t] = "leaving"
    /\ Retire(sess[t], "done", t)
    /\ cancelled' = [cancelled EXCEPT ![t] = TRUE]
    /\ Goto(t, "ended")
    /\ UNCHANGED <<kind, sess, owner, closed>>

\* CompactSession returned; a compaction retires its entry exactly once.
CompactEnds(t, what) ==
    /\ pc[t] = "compacting"
    /\ Retire(sess[t], what, t)
    /\ cancelled' = [cancelled EXCEPT ![t] = TRUE]
    /\ Goto(t, "ended")
    /\ UNCHANGED <<kind, sess, owner, closed>>

-----------------------------------------------------------------------------
Client ==
    \/ \E t \in Turns, s \in Sessions, w \in Writers \union {NoWriter},
          k \in {"chat", "compact"} : Send(t, s, w, k)
    \/ \E s \in Sessions, w \in Writers : Attach(s, w)
    \/ \E s \in Sessions : Stop(s)
    \/ \E w \in Writers : Disconnect(w)
    \/ \E w \in Writers : WriteFails(w)

\* Steps the goroutine takes as the provider's stream dictates.
Streamed(t) ==
    \/ \E r \in Requests : RecordRequest(t, r)
    \/ RecordOutput(t)
    \/ RecordAuthRequired(t)
    \/ \E what \in {"done", "error"} : TerminalEvent(t, what)
    \/ StreamClosed(t)

\* Steps the goroutine takes by itself.
Start(t) == StartRejected(t) \/ StartAccepted(t)
Open(t) == Opened(t) \/ OpenFailed(t)
Unwind(t) == AnnounceFailure(t) \/ Finish(t) \/ Leave(t)
Compact(t) == \E what \in {"done", "error"} : CompactEnds(t, what)

Goroutine(t) ==
    Start(t) \/ Open(t) \/ Streamed(t) \/ SeeCancel(t) \/ Unwind(t) \/ Compact(t)

Next == Client \/ \E t \in Turns : Goroutine(t)

Spec == Init /\ [][Next]_vars

\* A goroutine keeps running; the select loop, which Go serves at random, takes
\* its Done branch once the context is cancelled; CompactSession gives up when
\* its context is cancelled.  The provider may be silent for ever.
Fairness ==
    \A t \in Turns :
        /\ WF_vars(Start(t))
        /\ WF_vars(Open(t))
        /\ WF_vars(SeeCancel(t))
        /\ WF_vars(Unwind(t))
        /\ WF_vars(cancelled[t] /\ Compact(t))

FairSpec == Spec /\ Fairness

-----------------------------------------------------------------------------
Accepted(t) == pc[t] \in Registered \union {"ended"}

\* Every registration belongs to a goroutine that has yet to retire it.  An
\* entry left behind would refuse every later message of its session, because
\* start only checks the status of the entry it finds.
NoOrphanEntry ==
    \A s \in Sessions : hub[s].turn # NoTurn =>
        /\ pc[hub[s].turn] \in Registered
        /\ sess[hub[s].turn] = s

\* The clients of an accepted turn are told one outcome and only one, however
\* its goroutine's terminal event, its two finishes, the user's stop and the
\* goroutines of other turns of the session interleave.
AnnouncedExactlyOnce ==
    \A t \in Turns :
        /\ Len(told[t]) <= 1
        /\ pc[t] = "ended" => Len(told[t]) = 1

\* A stop frees the session: its entry is retired or replaced, although stop
\* itself leaves the entry in place.
StopFreesSession ==
    \A s \in Sessions :
        hub[s].status = "stopped" ~> hub[s].status # "stopped"

\* A stopped or finished turn's goroutine comes to its end.
CancelEndsGoroutine ==
    \A t \in Turns : cancelled[t] ~> pc[t] \in {"ended", "rejected"}
=============================================================================
