------------------------------ MODULE CodexTurn ------------------------------
(***************************************************************************)
(* One registered Codex turn in internal/adapter/codex.go: what the        *)
(* app-server reports while it works (streamTurn and the readers of its    *)
(* notifications) and what it asks for (handleServerRequest).              *)
(*                                                                         *)
(* The protocol repeats itself: working notes come as deltas and again     *)
(* whole when the turn completes, token usage is reported more often than  *)
(* it changes, a subagent is announced by several notifications. Requests  *)
(* are served on goroutines of their own, beside the stream.               *)
(***************************************************************************)
EXTENDS Naturals, Sequences, FiniteSets, SequencesExt

CONSTANTS
  Notes,        \* working-note items of the turn, 1..Notes
  Commands,     \* command items
  Patches,      \* file-change items
  MaxRequests,  \* bound on model requests in the turn
  MaxRepeats,   \* bound on notifications that say nothing new
  QueueCap      \* room in the turn's channel (128 in the code)

VARIABLES
  streams,   \* does the model stream its working notes as deltas
  server,    \* the app-server's side of the turn
  queue,     \* notifications on their way
  track,     \* streamTurn's locals
  out,       \* what was sent on: notes, billed requests, audited tools, subagent cards
  asks,      \* tool -> its approval request
  patches,   \* c.fileChanges of this turn
  context    \* the turn's context

turnVars == <<streams, server, queue, track, out, asks, patches, context>>

Tools == Commands \cup Patches
AgentStates == {"none", "started", "completed", "cancelled"}
Asking == {"none", "sent", "relayed", "accepted", "declined"}

CodexTurnTypeOK ==
  /\ streams \in BOOLEAN
  /\ server \in [note: 0..Notes, requests: 0..MaxRequests, repeats: 0..MaxRepeats, agent: AgentStates,
                 tools: [Tools -> {"none", "started", "completed"}],
                 ends: {"no", "completed", "error"}]
  /\ Len(queue) <= QueueCap
  /\ track \in [streamed: BOOLEAN, item: 0..Notes, total: Nat, agent: AgentStates,
                at: {"reading", "closed"}]
  /\ out \in [notes: Seq(1..Notes), billed: Nat, audited: Seq(Tools), cards: Seq(AgentStates)]
  /\ asks \in [Tools -> Asking] /\ patches \subseteq Patches
  /\ context \in {"live", "done"}

CodexTurnInit ==
  /\ streams \in BOOLEAN
  /\ server = [note |-> 0, requests |-> 0, repeats |-> 0, agent |-> "none",
               tools |-> [t \in Tools |-> "none"], ends |-> "no"]
  /\ queue = <<>> /\ patches = {} /\ context = "live"
  /\ track = [streamed |-> FALSE, item |-> 0, total |-> 0, agent |-> "none", at |-> "reading"]
  /\ out = [notes |-> <<>>, billed |-> 0, audited |-> <<>>, cards |-> <<>>]
  /\ asks = [t \in Tools |-> "none"]

---------------------------------------------------------------------------
\* The app-server. The reader puts its notifications on the channel in order.
Busy == server.ends = "no" /\ Len(queue) < QueueCap
Say(n) == queue' = Append(queue, n)
Msg(m, x) == [method |-> m, of |-> x, number |-> 0]
Numbered(m, k) == [method |-> m, of |-> "-", number |-> k]
rest == <<streams, track, out, context>>

Note ==
  /\ Busy /\ server.note < Notes
  /\ server' = [server EXCEPT !.note = @ + 1]
  /\ IF streams THEN Say(Numbered("delta", server.note + 1)) ELSE UNCHANGED queue
  /\ UNCHANGED <<rest, asks, patches>>
\* A model request ends and its usage is reported; a report may come again.
Spend ==
  /\ Busy /\ server.requests < MaxRequests
  /\ server' = [server EXCEPT !.requests = @ + 1] /\ Say(Numbered("usage", server.requests + 1))
  /\ UNCHANGED <<rest, asks, patches>>
Repeat ==
  /\ Busy /\ server.repeats < MaxRepeats /\ server.requests > 0
  /\ server' = [server EXCEPT !.repeats = @ + 1] /\ Say(Numbered("usage", server.requests))
  /\ UNCHANGED <<rest, asks, patches>>
\* Subagents: announced, announced again, and over.
Agent(s) ==
  /\ Busy
  /\ \/ s = "started" /\ server.agent = "none"
     \/ s = server.agent /\ s # "none" /\ server.repeats < MaxRepeats
     \/ server.agent = "started" /\ s \in {"completed", "cancelled"}
  /\ server' = [server EXCEPT !.agent = s, !.repeats = IF s = server.agent THEN @ + 1 ELSE @]
  /\ Say(Msg("agent", s))
  /\ UNCHANGED <<rest, asks, patches>>
\* A tool starts; a file change has its patch recorded on the way.
Start(t) ==
  /\ Busy /\ server.tools[t] = "none"
  /\ server' = [server EXCEPT !.tools[t] = "started"] /\ Say(Msg("started", t))
  /\ patches' = IF t \in Patches THEN patches \cup {t} ELSE patches
  /\ UNCHANGED <<rest, asks>>
\* It may ask for approval first; it completes, run or declined.
Ask(t) ==
  /\ server.ends = "no" /\ server.tools[t] = "started" /\ asks[t] = "none"
  /\ asks' = [asks EXCEPT ![t] = "sent"]
  /\ UNCHANGED <<rest, server, queue, patches>>
Complete(t) ==
  /\ Busy /\ server.tools[t] = "started" /\ asks[t] \in {"none", "accepted", "declined"}
  /\ server' = [server EXCEPT !.tools[t] = "completed"] /\ Say(Msg("completed", t))
  /\ UNCHANGED <<rest, asks, patches>>
\* The turn ends: completed, with all its notes once more, or in an error.
End(how) ==
  /\ Busy /\ \A t \in Tools : server.tools[t] # "started" \/ how = "error"
  /\ server' = [server EXCEPT !.ends = how] /\ Say(Msg("end", how))
  /\ UNCHANGED <<rest, asks, patches>>

---------------------------------------------------------------------------
\* Mutation of Billed: every report is billed.
BilledAlways(n) == [out EXCEPT !.billed = @ + 1]
\* A report bills its last request, unless the thread's total has not moved.
Billed(n) == IF n > track.total THEN [out EXCEPT !.billed = @ + 1] ELSE out
\* Mutation of Whole: the notes of the completed turn are sent whatever was streamed.
WholeAlways == [out EXCEPT !.notes = @ \o [i \in 1..server.note |-> i]]
\* codexReasoningMessage is the backstop for turns that streamed none.
Whole == IF track.streamed THEN out ELSE [out EXCEPT !.notes = @ \o [i \in 1..server.note |-> i]]
\* Commands are audited when they start, file changes once their patch is complete.
Audited(n) == IF (n.of \in Patches) = (n.method = "completed")
              THEN [out EXCEPT !.audited = Append(@, n.of)] ELSE out
\* enrichCodexNativeAgentActivity drops what says nothing new.
Carded(s) == IF track.agent = s THEN out ELSE [out EXCEPT !.cards = Append(@, s)]

\* streamTurn takes the next notification; the turn is unregistered when it returns.
Read == LET n == Head(queue) IN
  /\ track.at = "reading" /\ context = "live" /\ queue # <<>>
  /\ queue' = Tail(queue)
  /\ CASE n.method = "delta" ->
            /\ out' = [out EXCEPT !.notes = Append(@, n.number)]
            /\ track' = [track EXCEPT !.streamed = TRUE, !.item = n.number]
       [] n.method = "usage" ->
            /\ out' = Billed(n.number)
            /\ track' = [track EXCEPT !.total = IF n.number > @ THEN n.number ELSE @]
       [] n.method = "agent" -> out' = Carded(n.of) /\ track' = [track EXCEPT !.agent = n.of]
       [] n.method \in {"started", "completed"} -> out' = Audited(n) /\ UNCHANGED track
       [] n.method = "end" ->
            /\ out' = IF n.of = "completed" THEN Whole ELSE out
            /\ track' = [track EXCEPT !.at = "closed"]
  /\ patches' = IF n.method = "end" THEN {} ELSE patches
  /\ UNCHANGED <<streams, server, asks, context>>
\* The turn is given up, or its last event was read: the context ends.
Leave ==
  /\ context = "live"
  /\ context' = "done" /\ track' = [track EXCEPT !.at = "closed"] /\ patches' = {}
  /\ UNCHANGED <<streams, server, queue, out, asks>>

\* handleServerRequest: find the turn, within two seconds, and ask its relay;
\* with no such turn, or no answer before its context ends, decline.
Relay(t) ==
  /\ asks[t] = "sent"
  /\ asks' = [asks EXCEPT ![t] = IF track.at = "reading" THEN "relayed" ELSE "declined"]
  /\ UNCHANGED <<streams, server, queue, track, out, patches, context>>
Decide(t, verdict) ==
  /\ asks[t] = "relayed" /\ (verdict = "accepted" => context = "live")
  /\ asks' = [asks EXCEPT ![t] = verdict]
  /\ UNCHANGED <<streams, server, queue, track, out, patches, context>>

CodexTurnNext ==
  \/ Note \/ Spend \/ Repeat \/ Read \/ Leave
  \/ \E s \in AgentStates : Agent(s)
  \/ \E how \in {"completed", "error"} : End(how)
  \/ \E t \in Tools : Start(t) \/ Ask(t) \/ Complete(t) \/ Relay(t)
                      \/ \E v \in {"accepted", "declined"} : Decide(t, v)
CodexTurnSpec == CodexTurnInit /\ [][CodexTurnNext]_turnVars

---------------------------------------------------------------------------
\* A turn read to its completion tells everything once: its working notes in
\* order, one bill for each model request, each tool in the audit, and the
\* subagent's card as the app-server left it (codex.go:1170-1178, 1245-1249,
\* 1706-1711).
TurnIsToldOnce ==
  track.at = "closed" /\ server.ends = "completed" /\ queue = <<>> /\ context = "live" =>
    /\ out.notes = [i \in 1..server.note |-> i]
    /\ out.billed = server.requests
    /\ \A t \in Tools : Cardinality({i \in DOMAIN out.audited : out.audited[i] = t})
                          = IF server.tools[t] = "none" THEN 0 ELSE 1
    /\ IF server.agent = "none" THEN out.cards = <<>> ELSE Last(out.cards) = server.agent
=============================================================================
