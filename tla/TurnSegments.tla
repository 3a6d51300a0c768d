---------------------------- MODULE TurnSegments ----------------------------
(* How the events of one provider turn become history rows:                  *)
(* Core.consumeAdapterEvents and the final write of Core.StreamTurn          *)
(* (src/internal/core/sessions.go).                                          *)
(*                                                                           *)
(* A turn's text is cut into segments.  A tool call closes the open ones and *)
(* the closed ones are stored as working notes while the turn still runs,    *)
(* except from the last narration on: that one may be the answer, so it is   *)
(* the tail written when the stream ends.  A rate limit ends the attempt and *)
(* drops the tail; the next attempt starts from no segments.                 *)
EXTENDS Naturals, Sequences, FiniteSets
Ext == INSTANCE SequencesExt

CONSTANTS Says,         \* [reasoning, narration -> set of tokens a delta can add]
          Blank,        \* the token that strings.TrimSpace removes
          MaxEvents,    \* bound: provider events of a turn, over all attempts
          MaxAttempts   \* bound: attempts, the first and its fallbacks

VARIABLES segments,   \* Seq([kind, text, open, stored, lost]): this attempt's, in order of opening
          rows,       \* the session's rows of this turn, in insertion order
          phase,      \* "streaming" | "done" | "failed" | "stopped"
          attempt,    \* number of the running attempt
          events      \* events consumed so far

segVars == <<segments, rows, phase, attempt, events>>

Kinds == {"reasoning", "narration"}

IsBlank(text) == \A i \in DOMAIN text : text[i] = Blank
\* strings.TrimSpace
Trim(text) ==
    IF IsBlank(text) THEN <<>>
    ELSE LET solid == {i \in DOMAIN text : text[i] # Blank}
             first == CHOOSE i \in solid : \A j \in solid : i <= j
             last  == CHOOSE i \in solid : \A j \in solid : j <= i
         IN  SubSeq(text, first, last)

\* lastSegment: the index of the newest segment of a kind, 0 when there is none.
LastOf(segs, kind) ==
    LET mine == {i \in DOMAIN segs : segs[i].kind = kind}
    IN  IF mine = {} THEN 0 ELSE CHOOSE i \in mine : \A j \in mine : j <= i

IsOpen(i) == i # 0 /\ segments[i].open
IsRepeat(i, text) == i # 0 /\ Trim(segments[i].text) = Trim(text)

\* Mutation of Settled: unsettled segments are skipped, later ones are stored.
SettledSkipping(segs) ==
    {i \in DOMAIN segs : ~segs[i].open /\ i # LastOf(segs, "narration")}
\* flushSettled walks from the front and stops at the first segment that is open
\* or is the last narration: the settled ones are those before it.
Settled(segs) ==
    {i \in DOMAIN segs : \A j \in 1..i : ~segs[j].open /\ j # LastOf(segs, "narration")}

Unwritten(segs) == {i \in Settled(segs) : ~segs[i].stored /\ ~IsBlank(segs[i].text)}

RowOf(segs, i, kind) ==
    [kind |-> kind, text |-> segs[i].text, of |-> {i}, attempt |-> attempt]

\* The nth of a set of positions, from the front.
UpTo(is, i) == {j \in is : j <= i}
Nth(is, n) == CHOOSE i \in is : Cardinality(UpTo(is, i)) = n
RowsOf(segs, is) ==
    [n \in 1..Cardinality(is) |-> RowOf(segs, Nth(is, n), segs[Nth(is, n)].kind)]

\* Every settled segment is marked stored, the ones whose write failed (and the
\* blank ones, which get no row) included.
Flush(segs) ==
    \E failing \in SUBSET Unwritten(segs) :
        /\ rows' = rows \o RowsOf(segs, Unwritten(segs) \ failing)
        /\ segments' = [i \in DOMAIN segs |->
                           IF i \in Settled(segs)
                           THEN [segs[i] EXCEPT !.stored = TRUE, !.lost = i \in failing \/ @]
                           ELSE segs[i]]

Open(kind, text) ==
    Flush(Append(segments, [kind |-> kind, text |-> text, open |-> TRUE,
                            stored |-> FALSE, lost |-> FALSE]))

-----------------------------------------------------------------------------
SegInit ==
    /\ segments = <<>> /\ rows = <<>> /\ phase = "streaming"
    /\ attempt = 1 /\ events = 0

Consume ==
    /\ phase = "streaming" /\ events < MaxEvents
    /\ events' = events + 1
    /\ UNCHANGED <<phase, attempt>>

\* EventReasoningDelta and EventAssistantDelta: recordDelta appends to the open
\* segment of the kind, which need not be the newest segment.
Delta(kind, token) ==
    LET i == LastOf(segments, kind) IN
    /\ Consume
    /\ \/ /\ IsOpen(i)
          /\ segments' = [segments EXCEPT ![i].text = Append(@, token)]
          /\ UNCHANGED rows
       \/ /\ ~IsOpen(i)
          /\ Open(kind, <<token>>)

\* EventReasoningMessage and EventAssistantMessage: recordMessage replaces the open
\* segment, drops a repeat of a closed one and otherwise opens a new one.
Block(kind, text) ==
    LET i == LastOf(segments, kind) IN
    /\ Consume
    /\ \/ /\ IsOpen(i)
          /\ segments' = [segments EXCEPT ![i].text = text]
          /\ UNCHANGED rows
       \/ /\ ~IsOpen(i) /\ IsRepeat(i, text)
          /\ UNCHANGED <<segments, rows>>
       \/ /\ ~IsOpen(i) /\ ~IsRepeat(i, text)
          /\ Open(kind, text)

\* EventToolUse: closeSegments, then flushSettled.
ToolUse ==
    /\ Consume
    /\ Flush([i \in DOMAIN segments |-> [segments[i] EXCEPT !.open = FALSE]])

-----------------------------------------------------------------------------
\* result(): what is left for the final write.
Left(kind) == {i \in DOMAIN segments : segments[i].kind = kind /\ ~segments[i].stored
                                        /\ ~IsBlank(segments[i].text)}

Joined(is) ==
    Ext!FlattenSeq([n \in 1..Cardinality(is) |-> segments[Nth(is, n)].text])

\* One transaction: the reasoning joined, then the answer, which has no kind.
FinalRows ==
    LET thoughts == Left("reasoning")
        answer == LastOf(segments, "narration")
    IN  (IF thoughts = {} THEN <<>>
         ELSE << [kind |-> "reasoning", text |-> Joined(thoughts), of |-> thoughts,
                  attempt |-> attempt] >>)
        \o (IF answer \in Left("narration") THEN <<RowOf(segments, answer, "message")>>
            ELSE <<>>)

ErrorRow == [kind |-> "error", text |-> <<>>, of |-> {}, attempt |-> attempt]

\* The stream ends: the tail is written, or the write fails and an error row is
\* written in its place.
EndOfStream ==
    /\ phase = "streaming"
    /\ \/ /\ rows' = rows \o FinalRows
          /\ phase' = "done"
       \/ /\ FinalRows # <<>>
          /\ rows' = Append(rows, ErrorRow)
          /\ phase' = "failed"
    /\ UNCHANGED <<segments, attempt, events>>

\* EventRateLimited returns at once; StreamTurn cancels the attempt, switches the
\* session to another target and starts over with the same history, or fails.
RateLimited ==
    /\ phase = "streaming"
    /\ \/ /\ attempt < MaxAttempts
          /\ attempt' = attempt + 1 /\ segments' = <<>>
          /\ UNCHANGED <<rows, phase>>
       \/ /\ rows' = Append(rows, ErrorRow) /\ phase' = "failed"
          /\ UNCHANGED <<segments, attempt>>
    /\ UNCHANGED events

\* The turn's context is cancelled: the next send to the client fails and the
\* turn returns without writing anything more.
Stopped ==
    /\ phase = "streaming"
    /\ phase' = "stopped"
    /\ UNCHANGED <<segments, rows, attempt, events>>

Provider ==
    \/ \E kind \in Kinds : \E token \in Says[kind] : Delta(kind, token)
    \/ \E kind \in Kinds : \E token \in Says[kind] : Block(kind, <<token>>)
    \/ ToolUse

SegNext == Provider \/ EndOfStream \/ RateLimited \/ Stopped

SegSpec == SegInit /\ [][SegNext]_segVars

-----------------------------------------------------------------------------
SegTypeOK ==
    /\ phase \in {"streaming", "done", "failed", "stopped"}
    /\ attempt \in 1..MaxAttempts /\ events \in 0..MaxEvents
    /\ \A i \in DOMAIN segments : /\ segments[i].kind \in Kinds
                                  /\ segments[i].open \in BOOLEAN
                                  /\ segments[i].stored \in BOOLEAN
    /\ \A r \in DOMAIN rows : rows[r].kind \in Kinds \cup {"message", "error"}

\* Working notes reach the history in the order the agent began them: among the
\* rows written while an attempt runs no earlier segment follows a later one, and
\* nothing still pending is overtaken.
NotesInOrder ==
    /\ \A r, s \in DOMAIN rows :
          (r < s /\ rows[r].attempt = rows[s].attempt /\ rows[s].kind \in Kinds)
          => \A i \in rows[r].of : \A j \in rows[s].of : i < j
    /\ \A i, j \in DOMAIN segments : (i < j /\ segments[j].stored) => segments[i].stored

\* What the last assistant row is: a turn writes at most one answer, nothing is
\* written after it, and it is the last thing the agent said in its last attempt,
\* never a note from before a tool call that more text followed.
AnswerIsLastWord ==
    \A r \in DOMAIN rows : rows[r].kind = "message" =>
        /\ r = Len(rows) /\ phase = "done"
        /\ rows[r].attempt = attempt
        /\ rows[r].of = {LastOf(segments, "narration")}

\* A turn that ended normally has lost nothing of its last attempt: every segment
\* with text is in exactly one row, unless the write of that one note failed, and
\* an answer the agent gave is filed as the answer, not as a note.
NothingDropped ==
    phase = "done" =>
        \A i \in DOMAIN segments :
            LET mine == {r \in DOMAIN rows : rows[r].attempt = attempt /\ i \in rows[r].of}
            IN  IF IsBlank(segments[i].text) \/ segments[i].lost THEN mine = {}
                ELSE /\ Cardinality(mine) = 1
                     /\ i = LastOf(segments, "narration")
                        => \A r \in mine : rows[r].kind = "message"
=============================================================================
