---------------------------- MODULE TurnHubProofs ----------------------------
(***************************************************************************)
(* TLAPS proofs about TurnHub, for any sets of sessions, turns and         *)
(* connections.  The inductive invariant IInv ties the hub to the          *)
(* outcomes already broadcast: a turn nobody has been told about is the    *)
(* running entry of its session, and the other way round.                  *)
(***************************************************************************)
EXTENDS TurnHub, TLAPS

\* An entry has a status exactly when it has a turn.
EntryShape ==
    \A s \in Sessions : hub[s].turn = NoTurn <=> hub[s].status = "none"

\* The running entry of a session has told its clients nothing so far.
RunningIsSilent ==
    \A s \in Sessions : IsRunning(s) => told[hub[s].turn] = <<>>

\* An accepted turn whose clients know nothing is still its session's entry.
SilentIsRunning ==
    \A t \in Turns : Accepted(t) /\ told[t] = <<>> =>
        hub[sess[t]].turn = t /\ IsRunning(sess[t])

\* A turn that was never registered has told nobody anything.
UnregisteredIsSilent ==
    \A t \in Turns : ~Accepted(t) => told[t] = <<>>

AtMostOnce == \A t \in Turns : told[t] = <<>> \/ Len(told[t]) = 1

IInv ==
    /\ TypeOK
    /\ NoOrphanEntry
    /\ EntryShape
    /\ RunningIsSilent
    /\ SilentIsRunning
    /\ UnregisteredIsSilent
    /\ AtMostOnce

-----------------------------------------------------------------------------
(* An outcome appended to an empty list leaves exactly one. *)
LEMMA AppendToEmpty ==
    ASSUME NEW n \in Notices
    PROVE  /\ Append(<<>>, n) \in Seq(Notices)
           /\ Len(Append(<<>>, n)) = 1
           /\ Append(<<>>, n) # <<>>
  OBVIOUS

(* finish and fail keep the invariant whatever goroutine calls them; the      *)
(* hypothesis on the calling goroutine says that it moves on and, if it comes *)
(* to its end, that it does so in this step.                                  *)
LEMMA RetireKeepsIInv ==
    ASSUME IInv, NEW t \in Turns, NEW what \in {"done", "error"},
           NEW l \in Registered \union {"ended"},
           pc[t] \in Registered,
           Retire(sess[t], what, t),
           pc' = [pc EXCEPT ![t] = l],
           cancelled' \in [Turns -> BOOLEAN],
           UNCHANGED <<kind, sess, owner, closed>>
    PROVE  IInv'
  <1> DEFINE s == sess[t]
  <1> DEFINE e == hub[s].turn
  <1> DEFINE n == [what |-> what, by |-> t]
  <1>0. /\ s \in Sessions
        /\ n \in Notices
        /\ NoEntry \in Entries
        /\ hub' = [hub EXCEPT ![s] = NoEntry]
        /\ \A q \in Sessions : hub[q] \in Entries
        /\ \A q \in Sessions : hub[q].turn \in Turns \union {NoTurn}
    BY DEF IInv, TypeOK, Notices, Outcomes, NoEntry, Entries, Requests, Retire, RetiredHub
  <1>1. CASE IsRunning(s)
    <2>1. /\ e \in Turns
          /\ told[e] = <<>>
          /\ sess[e] = s
          /\ pc[e] \in Registered
          /\ told' = [told EXCEPT ![e] = Append(@, n)]
      BY <1>0, <1>1 DEF IInv, EntryShape, IsRunning, RunningIsSilent, NoOrphanEntry,
           Retire, RetiredTold
    <2>2. told' = [told EXCEPT ![e] = Append(<<>>, n)]
      BY <2>1
    <2>3. /\ told'[e] \in Seq(Notices)
          /\ Len(told'[e]) = 1
          /\ told'[e] # <<>>
          /\ \A u \in Turns \ {e} : told'[u] = told[u]
          /\ told' \in [Turns -> Seq(Notices)]
      BY <1>0, <2>1, <2>2, AppendToEmpty DEF IInv, TypeOK
    <2>4. TypeOK'
      BY <1>0, <2>3 DEF IInv, TypeOK, PCs
    <2>5. \A q \in Sessions : q # s => hub'[q] = hub[q] /\ hub[q].turn # e
      BY <1>0, <2>1, NoTurnAssumption DEF IInv, TypeOK, NoOrphanEntry
    <2>6. hub'[s] = NoEntry
      BY <1>0 DEF IInv, TypeOK
    <2>7. \A q \in Sessions : q # s => hub[q].turn # t
      BY <1>0, NoTurnAssumption DEF IInv, TypeOK, NoOrphanEntry
    <2>8. NoOrphanEntry' /\ EntryShape'
      BY <1>0, <2>5, <2>6, <2>7 DEF IInv, TypeOK, NoOrphanEntry, EntryShape, NoEntry
    <2>9. RunningIsSilent'
      BY <1>0, <2>3, <2>5, <2>6 DEF IInv, RunningIsSilent, IsRunning, NoEntry, NoOrphanEntry, EntryShape
    <2>10. SilentIsRunning'
      <3>1. SUFFICES ASSUME NEW u \in Turns, Accepted(u)', told'[u] = <<>>
                     PROVE  hub'[sess[u]].turn = u /\ hub'[sess[u]].status = "running"
        BY DEF SilentIsRunning, IsRunning
      <3>2. u # e
        BY <2>3, <3>1
      <3>3. Accepted(u)
        BY <3>1 DEF Accepted, IInv, TypeOK
      <3>4. hub[sess[u]].turn = u /\ hub[sess[u]].status = "running"
        BY <2>3, <3>1, <3>2, <3>3 DEF IInv, SilentIsRunning, IsRunning
      <3> QED BY <2>5, <3>2, <3>4 DEF IInv, TypeOK
    <2>11. UnregisteredIsSilent'
      BY <1>0, <2>1, <2>3 DEF IInv, TypeOK, UnregisteredIsSilent, Accepted
    <2>12. AtMostOnce'
      BY <2>1, <2>3 DEF IInv, AtMostOnce
    <2> QED BY <2>4, <2>8, <2>9, <2>10, <2>11, <2>12 DEF IInv
  <1>2. CASE ~IsRunning(s)
    <2>1. told' = told
      BY <1>2 DEF Retire, RetiredTold
    <2>2. TypeOK'
      BY <1>0, <2>1 DEF IInv, TypeOK, PCs
    <2>3. /\ hub'[s] = NoEntry
          /\ \A q \in Sessions : q # s => hub'[q] = hub[q]
      BY <1>0 DEF IInv, TypeOK
    <2>4. NoOrphanEntry' /\ EntryShape' /\ RunningIsSilent'
      BY <1>0, <2>1, <2>3 DEF IInv, TypeOK, NoOrphanEntry, EntryShape, RunningIsSilent, IsRunning, NoEntry
    <2>5. SilentIsRunning'
      <3>1. SUFFICES ASSUME NEW u \in Turns, Accepted(u)', told[u] = <<>>
                     PROVE  hub'[sess[u]].turn = u /\ hub'[sess[u]].status = "running"
        BY <2>1 DEF SilentIsRunning, IsRunning
      <3>2. Accepted(u)
        BY <3>1 DEF Accepted, IInv, TypeOK
      <3>3. hub[sess[u]].turn = u /\ hub[sess[u]].status = "running" /\ sess[u] \in Sessions
        BY <3>1, <3>2 DEF IInv, TypeOK, SilentIsRunning, IsRunning
      <3> QED BY <1>2, <2>3, <3>3 DEF IsRunning
    <2>6. UnregisteredIsSilent' /\ AtMostOnce'
      BY <2>1 DEF IInv, TypeOK, UnregisteredIsSilent, Accepted, AtMostOnce
    <2> QED BY <2>2, <2>4, <2>5, <2>6 DEF IInv
  <1> QED BY <1>1, <1>2

-----------------------------------------------------------------------------
(* A step that leaves pc, told, the turn and the status of every entry alone. *)
LEMMA TouchKeepsIInv ==
    ASSUME IInv,
           hub' \in [Sessions -> Entries],
           \A s \in Sessions : hub'[s].turn = hub[s].turn /\ hub'[s].status = hub[s].status,
           closed' \subseteq Writers,
           UNCHANGED <<pc, kind, sess, owner, cancelled, told>>
    PROVE  IInv'
  <1>1. TypeOK'
    BY DEF IInv, TypeOK
  <1>2. NoOrphanEntry' /\ EntryShape' /\ RunningIsSilent'
    BY DEF IInv, NoOrphanEntry, EntryShape, RunningIsSilent, IsRunning
  <1>3. SilentIsRunning'
    BY DEF IInv, TypeOK, SilentIsRunning, Accepted, IsRunning
  <1>4. UnregisteredIsSilent' /\ AtMostOnce'
    BY DEF IInv, UnregisteredIsSilent, AtMostOnce, Accepted
  <1> QED BY <1>1, <1>2, <1>3, <1>4 DEF IInv

(* A goroutine that moves within its registered life without touching the hub. *)
LEMMA GotoKeepsIInv ==
    ASSUME IInv, NEW t \in Turns, NEW l \in Registered,
           pc[t] \in Registered, Goto(t, l),
           UNCHANGED <<hub, kind, sess, owner, cancelled, told, closed>>
    PROVE  IInv'
  <1>1. TypeOK'
    BY DEF IInv, TypeOK, Goto, PCs
  <1>2. NoOrphanEntry' /\ EntryShape' /\ RunningIsSilent'
    BY DEF IInv, TypeOK, NoOrphanEntry, EntryShape, RunningIsSilent, IsRunning, Goto
  <1>3. SilentIsRunning' /\ UnregisteredIsSilent' /\ AtMostOnce'
    BY DEF IInv, TypeOK, SilentIsRunning, UnregisteredIsSilent, AtMostOnce, Accepted, IsRunning, Goto
  <1> QED BY <1>1, <1>2, <1>3 DEF IInv

(* newActiveTurnHub: no registrations, no goroutines. *)
LEMMA InitIInv == Init => IInv
  <1> SUFFICES ASSUME Init PROVE IInv
    OBVIOUS
  <1>1. TypeOK
    BY DEF Init, TypeOK, NoEntry, Entries, Requests, PCs, Registered
  <1>2. NoOrphanEntry /\ EntryShape /\ RunningIsSilent
    BY DEF Init, NoEntry, NoOrphanEntry, EntryShape, RunningIsSilent, IsRunning
  <1>3. SilentIsRunning /\ UnregisteredIsSilent /\ AtMostOnce
    BY DEF Init, SilentIsRunning, UnregisteredIsSilent, AtMostOnce, Accepted, Registered
  <1> QED BY <1>1, <1>2, <1>3 DEF IInv

(* The messages of a connection keep the invariant. *)
LEMMA ClientIInv == ASSUME IInv, Client PROVE IInv'
  <1> USE DEF Detach, Subscribe
  <1>0. /\ hub \in [Sessions -> Entries]
        /\ \A s \in Sessions : hub[s] \in Entries
        /\ closed \subseteq Writers
    BY DEF IInv, TypeOK
  <1>1. ASSUME NEW t \in Turns, NEW s \in Sessions, NEW w \in Writers \union {NoWriter},
               NEW k \in {"chat", "compact"}, Send(t, s, w, k)
        PROVE  IInv'
    <2>1. TypeOK'
      BY <1>1 DEF Send, IInv, TypeOK, PCs
    <2>2. \A q \in Sessions : hub[q].turn # NoTurn => hub[q].turn # t
      BY <1>1 DEF Send, IInv, NoOrphanEntry, Registered
    <2>3. NoOrphanEntry'
      BY <1>0, <1>1, <2>2 DEF Send, IInv, TypeOK, NoOrphanEntry, Entries
    <2>4. EntryShape' /\ RunningIsSilent'
      BY <1>1 DEF Send, IInv, EntryShape, RunningIsSilent, IsRunning
    <2>5. ~Accepted(t) /\ ~Accepted(t)'
      BY <1>1 DEF Send, IInv, TypeOK, Accepted, Registered
    <2>6. \A u \in Turns : u # t => pc'[u] = pc[u] /\ sess'[u] = sess[u]
      BY <1>1 DEF Send, IInv, TypeOK
    <2>7. hub' = hub /\ told' = told
      BY <1>1 DEF Send
    <2>8. SilentIsRunning' /\ UnregisteredIsSilent' /\ AtMostOnce'
      BY <2>5, <2>6, <2>7 DEF IInv, SilentIsRunning, UnregisteredIsSilent, AtMostOnce, Accepted, IsRunning
    <2> QED BY <2>1, <2>3, <2>4, <2>8 DEF IInv
  <1>2. ASSUME NEW s \in Sessions, NEW w \in Writers, Attach(s, w)
        PROVE  IInv'
    <2>1. /\ hub' \in [Sessions -> Entries]
          /\ \A q \in Sessions : hub'[q].turn = hub[q].turn /\ hub'[q].status = hub[q].status
      BY <1>0, <1>2 DEF Attach, Entries
    <2> QED BY <1>0, <1>2, <2>1, TouchKeepsIInv DEF Attach
  <1>3. ASSUME NEW s \in Sessions, Stop(s)
        PROVE  IInv'
    <2> DEFINE e == hub[s].turn
    <2> DEFINE n == [what |-> "stopped", by |-> e]
    <2>1. /\ e \in Turns
          /\ told[e] = <<>>
          /\ sess[e] = s
          /\ pc[e] \in Registered
      BY <1>0, <1>3 DEF Stop, IInv, EntryShape, IsRunning, RunningIsSilent, NoOrphanEntry, Entries
    <2>2. n \in Notices
      BY <2>1 DEF Notices, Outcomes
    <2>3. told' = [told EXCEPT ![e] = Append(<<>>, n)]
      BY <1>3, <2>1 DEF Stop
    <2>4. /\ told'[e] \in Seq(Notices)
          /\ Len(told'[e]) = 1
          /\ told'[e] # <<>>
          /\ \A u \in Turns : u # e => told'[u] = told[u]
          /\ told' \in [Turns -> Seq(Notices)]
      BY <2>1, <2>2, <2>3, AppendToEmpty DEF IInv, TypeOK
    <2>5. /\ hub' \in [Sessions -> Entries]
          /\ hub'[s].turn = e /\ hub'[s].status = "stopped"
          /\ \A q \in Sessions : q # s => hub'[q] = hub[q]
      BY <1>0, <1>3 DEF Stop, Entries
    <2>6. TypeOK'
      BY <1>3, <2>1, <2>4, <2>5 DEF Stop, IInv, TypeOK
    <2>7. NoOrphanEntry' /\ EntryShape'
      BY <1>3, <2>1, <2>5, NoTurnAssumption DEF Stop, IInv, NoOrphanEntry, EntryShape
    <2>8. \A q \in Sessions : q # s => hub[q].turn # e
      BY <1>0, <2>1, NoTurnAssumption DEF IInv, NoOrphanEntry
    <2>9. RunningIsSilent'
      BY <1>0, <2>4, <2>5, <2>8 DEF IInv, RunningIsSilent, IsRunning, EntryShape, Entries
    <2>10. SilentIsRunning' /\ UnregisteredIsSilent'
      BY <1>3, <2>1, <2>4, <2>5 DEF Stop, IInv, TypeOK, SilentIsRunning, UnregisteredIsSilent, Accepted, IsRunning
    <2>11. AtMostOnce'
      BY <2>1, <2>4 DEF IInv, AtMostOnce
    <2> QED BY <2>6, <2>7, <2>9, <2>10, <2>11 DEF IInv
  <1>4. ASSUME NEW w \in Writers, Disconnect(w) \/ WriteFails(w)
        PROVE  IInv'
    <2>1. /\ hub' \in [Sessions -> Entries]
          /\ \A q \in Sessions : hub'[q].turn = hub[q].turn /\ hub'[q].status = hub[q].status
      BY <1>0, <1>4 DEF Disconnect, WriteFails, Entries
    <2>2. closed' \subseteq Writers
      BY <1>0, <1>4 DEF Disconnect, WriteFails
    <2> QED BY <1>4, <2>1, <2>2, TouchKeepsIInv DEF Disconnect, WriteFails
  <1> QED BY <1>1, <1>2, <1>3, <1>4 DEF Client

(* A goroutine registers its turn, or is refused. *)
LEMMA StartIInv == ASSUME IInv, NEW t \in Turns, Start(t) PROVE IInv'
  <1> DEFINE s == sess[t]
  <1>0. /\ s \in Sessions
        /\ hub \in [Sessions -> Entries]
        /\ \A q \in Sessions : hub[q] \in Entries
        /\ owner[t] \in Writers \union {NoWriter}
        /\ pc \in [Turns -> PCs]
    BY DEF IInv, TypeOK
  <1>1. CASE StartRejected(t)
    <2>1. /\ hub' \in [Sessions -> Entries]
          /\ \A q \in Sessions : hub'[q].turn = hub[q].turn /\ hub'[q].status = hub[q].status
      BY <1>0, <1>1 DEF StartRejected, Subscribe, Entries
    <2>2. TypeOK'
      BY <1>1, <2>1 DEF StartRejected, Goto, IInv, TypeOK, PCs
    <2>3. ~Accepted(t) /\ ~Accepted(t)'
      BY <1>0, <1>1 DEF StartRejected, Goto, Accepted, Registered
    <2>4. \A u \in Turns : u # t => pc'[u] = pc[u]
      BY <1>0, <1>1 DEF StartRejected, Goto
    <2>5. told' = told /\ sess' = sess
      BY <1>1 DEF StartRejected
    <2>6. \A q \in Sessions : hub[q].turn # NoTurn => hub[q].turn \in Turns \ {t}
      BY <1>0, <2>3 DEF IInv, NoOrphanEntry, Accepted, Entries
    <2>7. NoOrphanEntry'
      BY <1>0, <2>1, <2>4, <2>5, <2>6 DEF IInv, NoOrphanEntry
    <2>8. EntryShape' /\ RunningIsSilent'
      BY <2>1, <2>5 DEF IInv, EntryShape, RunningIsSilent, IsRunning
    <2>9. SilentIsRunning' /\ UnregisteredIsSilent' /\ AtMostOnce'
      BY <2>1, <2>3, <2>4, <2>5 DEF IInv, TypeOK, SilentIsRunning, UnregisteredIsSilent, AtMostOnce, Accepted, IsRunning
    <2> QED BY <2>2, <2>7, <2>8, <2>9 DEF IInv
  <1>2. CASE StartAccepted(t)
    <2>1. /\ NewEntry(t, owner[t]) \in Entries
          /\ hub' = [hub EXCEPT ![s] = NewEntry(t, owner[t])]
      BY <1>0, <1>2 DEF StartAccepted, NewEntry, Entries
    <2>2. /\ hub' \in [Sessions -> Entries]
          /\ hub'[s].turn = t
          /\ hub'[s].status = "running"
          /\ \A q \in Sessions : q # s => hub'[q] = hub[q]
      BY <1>0, <2>1 DEF NewEntry
    <2>3. /\ pc'[t] \in Registered
          /\ \A u \in Turns : u # t => pc'[u] = pc[u]
          /\ pc' \in [Turns -> PCs]
      BY <1>0, <1>2 DEF StartAccepted, Goto, Registered, PCs
    <2>4. UNCHANGED <<kind, sess, owner, cancelled, told, closed>>
      BY <1>2 DEF StartAccepted
    <2>5. /\ told[t] = <<>>
          /\ ~Accepted(t)
          /\ \A q \in Sessions : hub[q].turn # NoTurn => hub[q].turn # t
      BY <1>2 DEF StartAccepted, IInv, UnregisteredIsSilent, NoOrphanEntry, Accepted, Registered
    <2>6. TypeOK'
      BY <2>2, <2>3, <2>4 DEF IInv, TypeOK
    <2>7. NoOrphanEntry'
      BY <1>0, <2>2, <2>3, <2>4, <2>5 DEF IInv, NoOrphanEntry, Entries
    <2>8. EntryShape' /\ RunningIsSilent'
      BY <1>0, <2>2, <2>4, <2>5, NoTurnAssumption DEF IInv, EntryShape, RunningIsSilent, IsRunning
    <2>9. SilentIsRunning'
      <3> SUFFICES ASSUME NEW u \in Turns, Accepted(u)', told[u] = <<>>
                   PROVE  hub'[sess[u]].turn = u /\ hub'[sess[u]].status = "running"
        BY <2>4 DEF SilentIsRunning, IsRunning
      <3>1. CASE u = t
        BY <2>2, <3>1
      <3>2. CASE u # t
        <4>1. Accepted(u)
          BY <2>3, <3>2 DEF Accepted
        <4>2. hub[sess[u]].turn = u /\ hub[sess[u]].status = "running" /\ sess[u] \in Sessions
          BY <4>1 DEF IInv, TypeOK, SilentIsRunning, IsRunning
        <4>3. sess[u] # s
          BY <1>2, <4>2 DEF StartAccepted, IsRunning
        <4> QED BY <2>2, <4>2, <4>3
      <3> QED BY <3>1, <3>2
    <2>10. UnregisteredIsSilent' /\ AtMostOnce'
      BY <2>3, <2>4 DEF IInv, UnregisteredIsSilent, AtMostOnce, Accepted
    <2> QED BY <2>6, <2>7, <2>8, <2>9, <2>10 DEF IInv
  <1> QED BY <1>1, <1>2 DEF Start

(* The events and the end of the stream keep the invariant. *)
LEMMA StreamedIInv == ASSUME IInv, NEW t \in Turns, Streamed(t) PROVE IInv'
  <1>0. /\ sess[t] \in Sessions
        /\ hub \in [Sessions -> Entries]
        /\ \A q \in Sessions : hub[q] \in Entries
        /\ closed \subseteq Writers
        /\ cancelled \in [Turns -> BOOLEAN]
    BY DEF IInv, TypeOK
  <1>1. ASSUME NEW e \in Entries, hub' = Record(sess[t], e),
               e.turn = hub[sess[t]].turn, e.status = hub[sess[t]].status,
               UNCHANGED <<pc, kind, sess, owner, cancelled, told, closed>>
        PROVE  IInv'
    <2>1. /\ hub' \in [Sessions -> Entries]
          /\ \A q \in Sessions : hub'[q].turn = hub[q].turn /\ hub'[q].status = hub[q].status
      BY <1>0, <1>1 DEF Record
    <2> QED BY <1>0, <1>1, <2>1, TouchKeepsIInv
  <1>2. ASSUME NEW r \in Requests, RecordRequest(t, r)
        PROVE  IInv'
    <2>1. [hub[sess[t]] EXCEPT !.pending = r] \in Entries
      BY <1>0 DEF Entries
    <2> QED BY <1>0, <1>1, <1>2, <2>1 DEF RecordRequest, Entries
  <1>3. CASE RecordOutput(t)
    <2>1. [hub[sess[t]] EXCEPT !.pending = "none"] \in Entries
      BY <1>0 DEF Entries
    <2> QED BY <1>0, <1>1, <1>3, <2>1 DEF RecordOutput, Entries
  <1>4. CASE RecordAuthRequired(t)
    <2>1. [hub[sess[t]] EXCEPT !.auth = TRUE] \in Entries
      BY <1>0 DEF Entries
    <2> QED BY <1>0, <1>1, <1>4, <2>1 DEF RecordAuthRequired, Entries
  <1>5. ASSUME NEW what \in {"done", "error"}, TerminalEvent(t, what)
        PROVE  IInv'
    BY <1>0, <1>5, RetireKeepsIInv DEF TerminalEvent, Goto, Registered
  <1>6. CASE StreamClosed(t)
    BY <1>6, GotoKeepsIInv DEF StreamClosed, Registered
  <1> QED BY <1>2, <1>3, <1>4, <1>5, <1>6 DEF Streamed

(* The goroutine's last calls, and a compaction, keep the invariant. *)
LEMMA UnwindIInv == ASSUME IInv, NEW t \in Turns, Unwind(t) \/ Compact(t) PROVE IInv'
  <1>0. cancelled \in [Turns -> BOOLEAN] /\ [cancelled EXCEPT ![t] = TRUE] \in [Turns -> BOOLEAN]
    BY DEF IInv, TypeOK
  <1>1. CASE AnnounceFailure(t)
    BY <1>0, <1>1, RetireKeepsIInv DEF AnnounceFailure, Goto, Registered
  <1>2. CASE Finish(t)
    BY <1>0, <1>2, RetireKeepsIInv DEF Finish, Goto, Registered
  <1>3. CASE Leave(t)
    BY <1>0, <1>3, RetireKeepsIInv DEF Leave, Goto, Registered
  <1>4. ASSUME NEW what \in {"done", "error"}, CompactEnds(t, what)
        PROVE  IInv'
    BY <1>0, <1>4, RetireKeepsIInv DEF CompactEnds, Goto, Registered
  <1> QED BY <1>1, <1>2, <1>3, <1>4 DEF Unwind, Compact

(* Every step keeps the invariant. *)
LEMMA NextIInv == IInv /\ [Next]_vars => IInv'
  <1> SUFFICES ASSUME IInv, [Next]_vars PROVE IInv'
    OBVIOUS
  <1>1. CASE Client
    BY <1>1, ClientIInv
  <1>2. ASSUME NEW t \in Turns, Goroutine(t) PROVE IInv'
    <2>1. CASE Start(t)
      BY <2>1, StartIInv
    <2>2. CASE Open(t)
      BY <2>2, GotoKeepsIInv DEF Open, Opened, OpenFailed, Registered
    <2>3. CASE Streamed(t)
      BY <2>3, StreamedIInv
    <2>4. CASE SeeCancel(t)
      BY <2>4, GotoKeepsIInv DEF SeeCancel, Registered
    <2>5. CASE Unwind(t) \/ Compact(t)
      BY <2>5, UnwindIInv
    <2> QED BY <1>2, <2>1, <2>2, <2>3, <2>4, <2>5 DEF Goroutine
  <1>3. CASE UNCHANGED vars
    BY <1>3 DEF vars, IInv, TypeOK, NoOrphanEntry, EntryShape, RunningIsSilent, SilentIsRunning,
         UnregisteredIsSilent, AtMostOnce, Accepted, IsRunning
  <1> QED BY <1>1, <1>2, <1>3 DEF Next

-----------------------------------------------------------------------------
(* The invariant holds in every behaviour of the hub and its goroutines. *)
THEOREM Invariance == Spec => []IInv
  BY InitIInv, NextIInv, PTL DEF Spec

(* Type correctness of the hub (activeTurnHub) and its goroutines. *)
THEOREM TypeCorrect == Spec => []TypeOK
  <1>1. IInv => TypeOK
    BY DEF IInv
  <1> QED BY <1>1, Invariance, PTL

(* No registration survives its goroutine: start cannot refuse a session's    *)
(* messages for ever because of an entry nobody will retire.                  *)
THEOREM NoOrphans == Spec => []NoOrphanEntry
  <1>1. IInv => NoOrphanEntry
    BY DEF IInv
  <1> QED BY <1>1, Invariance, PTL

(* The clients of an accepted turn are told exactly one outcome, although up  *)
(* to three calls of one goroutine, the user's stop and the goroutines of     *)
(* other turns of the session all retire "the turn of the session".           *)
THEOREM ExactlyOneOutcome == Spec => []AnnouncedExactlyOnce
  <1>1. IInv => AnnouncedExactlyOnce
    <2> SUFFICES ASSUME IInv, NEW t \in Turns
                 PROVE  Len(told[t]) <= 1 /\ (pc[t] = "ended" => Len(told[t]) = 1)
      BY DEF AnnouncedExactlyOnce
    <2>1. told[t] = <<>> \/ Len(told[t]) = 1
      BY DEF IInv, AtMostOnce
    <2>2. ASSUME pc[t] = "ended" PROVE told[t] # <<>>
      <3> SUFFICES ASSUME told[t] = <<>> PROVE FALSE
        OBVIOUS
      <3>1. hub[sess[t]].turn = t /\ sess[t] \in Sessions
        BY <2>2 DEF IInv, TypeOK, SilentIsRunning, Accepted
      <3>2. pc[t] \in Registered
        BY <3>1, NoTurnAssumption DEF IInv, NoOrphanEntry
      <3> QED BY <2>2, <3>2 DEF Registered
    <2>3. Len(told[t]) \in {0, 1}
      <3>1. CASE told[t] = <<>>
        BY <3>1
      <3>2. CASE Len(told[t]) = 1
        BY <3>2
      <3> QED BY <2>1, <3>1, <3>2
    <2>4. Len(told[t]) <= 1
      <3>1. \A n \in {0, 1} : n <= 1
        OBVIOUS
      <3> QED BY <2>3, <3>1
    <2> QED BY <2>1, <2>2, <2>4
  <1> QED BY <1>1, Invariance, PTL
=============================================================================
