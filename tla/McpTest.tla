------------------------------- MODULE McpTest -------------------------------
(***************************************************************************)
(* The connection test of a stdio MCP server: TestServerWithTimeout and    *)
(* testStdio of internal/mcp/test.go.  The test writes a request and reads *)
(* lines until the answer of its id; a scanner goroutine moves the         *)
(* server's output into a channel; the server may say anything, and die.   *)
(***************************************************************************)
EXTENDS Naturals, Sequences

CONSTANTS
  Chatter,   \* what a server may print besides its answers
  PipeCap,   \* lines the pipe holds
  ChanCap,   \* lines the channel holds (32)
  MaxLines   \* bound on chatter

VARIABLES
  proc,     \* the server: "none", "up", "dead"
  asked,    \* requests it has been sent: "init" (initialize), "list" (tools/list)
  answered, \* the requests it has answered
  said,     \* chatter printed
  pipe,     \* its standard output; "eof" is a closed one's last element
  scan,     \* scanLines: "off", "read", "push", "done"
  held,     \* the line it is pushing
  lines,    \* the channel
  step,     \* the test: "new", "init", "initialized", "list", "kill", "reap", "wait", "done"
  error,    \* TestResult.Error is set
  due       \* the context is over

testVars == <<proc, asked, answered, said, pipe, scan, held, lines, step, error, due>>

Requests == {"init", "list"}
Lines == Requests \cup Chatter
TestTypeOK ==
  /\ proc \in {"none", "up", "dead"} /\ asked \in SUBSET Requests /\ answered \in SUBSET Requests /\ said \in 0..MaxLines
  /\ pipe \in Seq(Lines) /\ Len(pipe) <= PipeCap /\ scan \in {"off", "read", "push", "done"}
  /\ held \in Lines \cup {""} /\ lines \in Seq(Lines) /\ Len(lines) <= ChanCap
  /\ step \in {"new", "init", "initialized", "list", "kill", "reap", "wait", "done"} /\ error \in BOOLEAN /\ due \in BOOLEAN

TestInit ==
  /\ proc = "none" /\ asked = {} /\ answered = {} /\ said = 0 /\ pipe = <<>> /\ scan = "off" /\ held = ""
  /\ lines = <<>> /\ step = "new" /\ error = FALSE /\ due = FALSE

---------------------------------------------------------------------------
\* The server.
Prints(line) == proc = "up" /\ Len(pipe) < PipeCap /\ pipe' = Append(pipe, line)
Answer ==
  /\ \E n \in asked \ answered : Prints(n) /\ answered' = answered \cup {n}
  /\ UNCHANGED <<proc, asked, said, scan, held, lines, step, error, due>>
Chat(line) ==
  /\ said < MaxLines /\ said' = said + 1 /\ Prints(line)
  /\ UNCHANGED <<proc, asked, answered, scan, held, lines, step, error, due>>
Exit ==
  /\ proc = "up" /\ proc' = "dead"
  /\ UNCHANGED <<asked, answered, said, pipe, scan, held, lines, step, error, due>>
\* cmd.Wait, in its own goroutine, closes the read end with what was not read yet.
CloseOutput ==
  /\ proc = "dead" /\ pipe # <<>> /\ pipe' = <<>>
  /\ UNCHANGED <<proc, asked, answered, said, scan, held, lines, step, error, due>>

\* scanLines: a blocking send, whoever still reads.
ScanLine ==
  /\ scan = "read" /\ pipe # <<>> /\ held' = Head(pipe) /\ pipe' = Tail(pipe) /\ scan' = "push"
  /\ UNCHANGED <<proc, asked, answered, said, lines, step, error, due>>
PushLine ==
  /\ scan = "push" /\ Len(lines) < ChanCap /\ lines' = Append(lines, held) /\ held' = "" /\ scan' = "read"
  /\ UNCHANGED <<proc, asked, answered, said, pipe, step, error, due>>
ScanEnds ==
  /\ scan = "read" /\ pipe = <<>> /\ proc = "dead" /\ scan' = "done"
  /\ UNCHANGED <<proc, asked, answered, said, pipe, held, lines, step, error, due>>

\* The test.
Go(to, failed) == step' = to /\ error' = (error \/ failed)
StartServer(ok) ==
  /\ step = "new" /\ Go(IF ok THEN "init" ELSE "done", ~ok)
  /\ IF ok THEN proc' = "up" /\ scan' = "read" /\ asked' = {"init"} ELSE UNCHANGED <<proc, scan, asked>>
  /\ UNCHANGED <<answered, said, pipe, held, lines, due>>
Deadline ==
  /\ ~due /\ step \in {"init", "initialized", "list"} /\ due' = TRUE
  /\ UNCHANGED <<proc, asked, answered, said, pipe, scan, held, lines, step, error>>
\* Mutation of Matches: the first line that parses is the answer.
MatchesAny(line) == line # "log"
\* readRPC goes by the id.
Matches(line) == line = step
Reply ==
  /\ step \in {"init", "list"} /\ lines # <<>> /\ lines' = Tail(lines)
  /\ IF Matches(Head(lines)) THEN Go(IF step = "init" THEN "initialized" ELSE "kill", FALSE) ELSE UNCHANGED <<step, error>>
  /\ UNCHANGED <<proc, asked, answered, said, pipe, scan, held, due>>
\* The context is over, the output is, or the server answers with an error.
NoReply ==
  /\ step \in {"init", "list"} /\ (due \/ (lines = <<>> /\ scan = "done")) /\ Go("kill", TRUE)
  /\ UNCHANGED <<proc, asked, answered, said, pipe, scan, held, lines, due>>
Refused ==
  /\ step \in {"init", "list"} /\ lines # <<>> /\ Matches(Head(lines)) /\ lines' = Tail(lines) /\ Go("kill", TRUE)
  /\ UNCHANGED <<proc, asked, answered, said, pipe, scan, held, due>>
\* The notification, and with it the second request; a write to a dead server fails.
Notify ==
  /\ step = "initialized"
  /\ IF due \/ proc = "dead" THEN Go("kill", TRUE) /\ UNCHANGED asked ELSE Go("list", FALSE) /\ asked' = Requests
  /\ UNCHANGED <<proc, answered, said, pipe, scan, held, lines, due>>
\* The deferred cleanup: kill, wait up to two seconds for the process, then for both
\* goroutines without a bound.
Kill ==
  /\ step = "kill" /\ proc' = "dead" /\ Go("reap", FALSE)
  /\ UNCHANGED <<asked, answered, said, pipe, scan, held, lines, due>>
Reap ==
  /\ step = "reap" /\ Go("wait", FALSE)
  /\ UNCHANGED <<proc, asked, answered, said, pipe, scan, held, lines, due>>
Return ==
  /\ step = "wait" /\ scan = "done" /\ Go("done", FALSE)
  /\ UNCHANGED <<proc, asked, answered, said, pipe, scan, held, lines, due>>

TestProgress ==
  \/ ScanLine \/ PushLine \/ ScanEnds \/ Reply \/ NoReply \/ Notify \/ Kill \/ Reap \/ Return \/ Deadline \/ CloseOutput
TestNext ==
  \/ TestProgress \/ Answer \/ Exit \/ Refused
  \/ \E line \in Chatter : Chat(line)
  \/ \E ok \in BOOLEAN : StartServer(ok)
TestSpec == TestInit /\ [][TestNext]_testVars
\* The runtime schedules the goroutines; nothing is assumed of the server.
TestFairSpec == TestSpec /\ WF_testVars(TestProgress)

---------------------------------------------------------------------------
\* A server that passes the test has answered both requests, whatever else it printed
\* and however its answers were cut off.
PassMeansAnswered == step = "done" /\ ~error => answered = Requests
\* A test that has started ends (its timeout is ten seconds, internal/mcp/test.go:21).
TestReturns == (step = "init") ~> (step = "done")
=============================================================================
