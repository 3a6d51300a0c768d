---------------------------- MODULE ClaudeProcess ---------------------------
(* One turn of the Claude adapter (src/internal/adapter/claude.go): a CLI    *)
(* process writes lines, a parser reads them, a tracker forwards the events, *)
(* consumeProcess waits for the readers, reaps the process and reports how   *)
(* it ended, and Core reads the channel until it is closed or the turn is    *)
(* cancelled.  A process given native agents that fails having said nothing  *)
(* is run once more without them.                                            *)
EXTENDS Naturals, Sequences

CONSTANTS PipeCap,    \* lines the operating system buffers
          ChanCap,    \* events in a channel (32 in the code)
          MaxLines    \* bound: lines a process writes

VARIABLES process,    \* [state, code, native, run]: state "running" | "exited"
          written,    \* lines of this run written so far
          pipe,       \* Seq of lines: stdout between the process and the parser
          parser,     \* "reading" | "done" | "broken": broken once a line is no JSON
          parsed,     \* Seq: channel between parser and tracker
          tracker,    \* "reading" | "done"
          said,       \* a complete assistant message went by (track.lastMessage)
          out,        \* Seq: channel to Core
          main,       \* consumeProcess and SendTurn's goroutine: see ClaudeTypeOK
          cancelled,  \* the attempt's context is done
          received,   \* Seq: what Core has read, of all runs
          planMode    \* a plan turn that finds a plan file when it ends

claudeVars == <<process, written, pipe, parser, parsed, tracker, said, out, main,
                cancelled, received, planMode>>

Kinds == {"text", "tool", "limited", "garbage"}
Line(kind) == [kind |-> kind, n |-> written + 1, run |-> process.run]
Word(kind) == [kind |-> kind, n |-> 0, run |-> process.run]
\* Core stops reading when the events say so or the turn is cancelled.
Listening == ~cancelled

ClaudeInit ==
    /\ process \in {[state |-> "running", code |-> 0, native |-> nat, run |-> 1] : nat \in BOOLEAN}
    /\ written = 0 /\ pipe = <<>> /\ parser = "reading" /\ parsed = <<>>
    /\ tracker = "reading" /\ said = FALSE /\ out = <<>> /\ main = "parser"
    /\ cancelled = FALSE /\ received = <<>> /\ planMode \in BOOLEAN

-----------------------------------------------------------------------------
\* The process: a write waits for room in the pipe; cancelling kills it.
Write ==
    /\ process.state = "running" /\ written < MaxLines /\ Len(pipe) < PipeCap
    /\ \E kind \in Kinds : pipe' = Append(pipe, Line(kind))
    /\ written' = written + 1
    /\ UNCHANGED <<process, parser, parsed, tracker, said, out, main, cancelled, received, planMode>>
\* It exits by itself only once it has nothing more to write.
Exit ==
    /\ process.state = "running"
    /\ \/ written = MaxLines /\ \E c \in 0..1 : process' = [process EXCEPT !.state = "exited", !.code = c]
       \/ cancelled /\ process' = [process EXCEPT !.state = "exited", !.code = 1]
    /\ UNCHANGED <<written, pipe, parser, parsed, tracker, said, out, main, cancelled, received, planMode>>

\* parseClaudeStream: one event a line; a line that is no JSON ends it, the rest
\* of stdout is read by nobody.
Parse ==
    /\ parser = "reading" /\ pipe # <<>>
    /\ \/ /\ Head(pipe).kind = "garbage"
          /\ parser' = "broken" /\ UNCHANGED <<pipe, parsed>>
       \/ /\ Head(pipe).kind # "garbage" /\ Len(parsed) < ChanCap
          /\ parsed' = Append(parsed, Head(pipe)) /\ pipe' = Tail(pipe) /\ UNCHANGED parser
       \/ cancelled /\ parser' = "done" /\ UNCHANGED <<pipe, parsed>>
    /\ UNCHANGED <<process, written, tracker, said, out, main, cancelled, received, planMode>>
ParseEnds ==
    /\ parser = "reading" /\ pipe = <<>> /\ process.state = "exited"
    /\ parser' = "done"
    /\ UNCHANGED <<process, written, pipe, parsed, tracker, said, out, main, cancelled, received, planMode>>

\* trackClaudeStream
Track ==
    /\ tracker = "reading"
    /\ \/ /\ parsed # <<>> /\ Len(out) < ChanCap
          /\ out' = Append(out, Head(parsed)) /\ parsed' = Tail(parsed)
          /\ said' = (said \/ Head(parsed).kind = "text") /\ UNCHANGED tracker
       \/ /\ parsed # <<>> /\ cancelled
          /\ tracker' = "done" /\ UNCHANGED <<out, parsed, said>>
       \/ /\ parsed = <<>> /\ parser # "reading"
          /\ tracker' = "done" /\ UNCHANGED <<out, parsed, said>>
    /\ UNCHANGED <<process, written, pipe, parser, main, cancelled, received, planMode>>

\* Core reads; a rate limit makes it cancel the attempt and stop.
Receive ==
    /\ Listening /\ out # <<>>
    /\ received' = Append(received, Head(out)) /\ out' = Tail(out)
    /\ cancelled' = (Head(out).kind = "limited")
    /\ UNCHANGED <<process, written, pipe, parser, parsed, tracker, said, main, planMode>>
CancelAttempt ==
    /\ ~cancelled /\ main # "closed"
    /\ cancelled' = TRUE
    /\ UNCHANGED <<process, written, pipe, parser, parsed, tracker, said, out, main, received, planMode>>

-----------------------------------------------------------------------------
\* Mutation of Drained: the process is reaped as soon as it has exited, which
\* closes the pipes under the readers.
DrainedNot == process.state = "exited"
\* consumeProcess waits for the parser, the tracker and the stderr collector (which
\* ends with the process) before it reaps.
Drained == parser # "reading" /\ tracker = "done" /\ process.state = "exited"

\* Mutation of Retry: a run that spoke is repeated as well.
RetryAnyway == process.native /\ process.code # 0 /\ parser = "done" /\ ~cancelled
Retry == process.native /\ process.code # 0 /\ ~said /\ parser = "done" /\ ~cancelled
Reap ==
    /\ main = "parser" /\ Drained
    /\ \/ /\ Retry
          /\ process' = [state |-> "running", code |-> 0, native |-> FALSE, run |-> 2]
          /\ written' = 0 /\ pipe' = <<>> /\ parser' = "reading" /\ parsed' = <<>>
          /\ tracker' = "reading" /\ said' = FALSE /\ UNCHANGED main
       \/ /\ ~Retry
          /\ main' = IF cancelled THEN "plan" ELSE "report"
          /\ UNCHANGED <<process, written, pipe, parser, parsed, tracker, said>>
    /\ UNCHANGED <<out, cancelled, received, planMode>>

\* The word on how the turn ended: TurnDone, an error as an assistant message, or
\* nothing when the agent had spoken before a failing exit (claudeWaitEvent).
Verdict ==
    IF parser = "broken" THEN {"trouble"}
    ELSE IF process.code = 0 THEN {"done"}
    ELSE IF said THEN {"limited", "auth", "silence"} ELSE {"limited", "auth", "trouble"}
Report ==
    /\ main = "report" /\ main' = "plan"
    /\ \E v \in Verdict :
         \/ v = "silence" /\ UNCHANGED out
         \/ v # "silence" /\ Len(out) < ChanCap /\ out' = Append(out, Word(v))
         \/ cancelled /\ UNCHANGED out
    /\ UNCHANGED <<process, written, pipe, parser, parsed, tracker, said, cancelled, received, planMode>>

\* The proposal of a plan turn is sent whether or not anybody listens.
Propose ==
    /\ main = "plan"
    /\ \/ ~planMode /\ UNCHANGED out
       \/ planMode /\ Len(out) < ChanCap /\ out' = Append(out, Word("plan"))
    /\ main' = "closed"
    /\ UNCHANGED <<process, written, pipe, parser, parsed, tracker, said, cancelled, received, planMode>>

ClaudeProgress == Write \/ Exit \/ Parse \/ ParseEnds \/ Track \/ Receive \/ Reap \/ Report \/ Propose
ClaudeNext == ClaudeProgress \/ CancelAttempt
ClaudeSpec == ClaudeInit /\ [][ClaudeNext]_claudeVars
\* The goroutines run, and the CLI goes on writing until it exits.
ClaudeFairSpec == ClaudeSpec /\ WF_claudeVars(ClaudeProgress)

-----------------------------------------------------------------------------
ClaudeTypeOK ==
    /\ process.state \in {"running", "exited"} /\ process.run \in 1..2
    /\ written \in 0..MaxLines /\ Len(pipe) <= PipeCap
    /\ Len(parsed) <= ChanCap /\ Len(out) <= ChanCap
    /\ parser \in {"reading", "done", "broken"} /\ tracker \in {"reading", "done"}
    /\ main \in {"parser", "report", "plan", "closed"}

Given == received \o out
\* What Core is given of a run is what the process wrote, in order and without a
\* gap, and the word on how it ended comes after all of it: reaping the process
\* never cuts off output still in a pipe, and a retried run does not mix with the
\* failed one.
OutputBeforeVerdict ==
    \A i \in DOMAIN Given :
        /\ Given[i].n > 0 => \A m \in 1..Given[i].n :
              \E j \in 1..i : Given[j].n = m /\ Given[j].run = Given[i].run
        /\ Given[i].kind = "done" /\ ~cancelled =>
              /\ \A m \in 1..MaxLines : \E j \in 1..i : Given[j].n = m /\ Given[j].run = Given[i].run
              /\ process.code = 0

\* A failed run is repeated without native agents only while nothing it said can
\* be on the user's screen: no message of the first run is followed by a second.
NoRerunAfterSpeech ==
    \A i, j \in DOMAIN Given : Given[j].run = 2 /\ Given[i].run = 1 => Given[i].kind # "text"

\* The two places a turn can be stuck for ever: the process writing to a pipe that
\* nobody reads after a line that is no JSON, and the proposal of a cancelled turn.
Stuck == \/ parser = "broken" /\ process.state = "running" /\ Len(pipe) = PipeCap
         \/ main = "plan" /\ planMode /\ cancelled /\ Len(out) = ChanCap
\* Otherwise the channel of a turn is closed in the end, and Core's loop released,
\* whatever the process does and whenever the turn is cancelled.
StreamCloses == (main # "closed") ~> (main = "closed" \/ Stuck)

=============================================================================
