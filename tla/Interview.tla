------------------------------ MODULE Interview ------------------------------
(***************************************************************************)
(* The "Get to know me" interview: internal/server/interview.go, the       *)
(* messages of internal/server/ws.go that start and resume it, and the     *)
(* draft of internal/core/user_profile.go.                                 *)
(*                                                                         *)
(* The coordinator keeps one record per interview session, in memory. The  *)
(* agent of a turn of the session calls two tools, each an HTTP request    *)
(* held open: a question waits for the user's answer, a draft is checked,  *)
(* rendered without the lock and stored. A client that finds no turn       *)
(* resumes the interview once, and may send turns of its own. The events   *)
(* the hub sends of all this are left out.                                 *)
(***************************************************************************)
EXTENDS Naturals, FiniteSets

CONSTANTS
  Calls,         \* tool calls the agent may have open at once
  Topics,        \* core.RequiredInterviewTopics
  MaxQuestions,  \* maxInterviewQuestions
  MaxResumes     \* bound on the attaches, resumes and turns asked for by clients

VARIABLES
  record,    \* the coordinator's entry for the session
  turn,      \* the session's entry in the hub
  starting,  \* runWSTurn goroutines that have not registered theirs
  running,   \* those that have, and have not finished it
  agent,     \* a turn was registered: there is an agent that may call the tools
  call,      \* Calls -> the handler of a tool call
  resumes

interviewVars == <<record, turn, starting, running, agent, call, resumes>>

Statuses == {"interviewing", "awaiting_answer", "recovering", "draft", "failed"}
NoRecord == [there |-> FALSE, status |-> "failed", answered |-> 0, covered |-> {}, draft |-> FALSE,
             pending |-> FALSE, retries |-> 0]
Idle == [at |-> "idle", topic |-> CHOOSE t \in Topics : TRUE]

InterviewTypeOK ==
  /\ record \in [there: BOOLEAN, status: Statuses, answered: 0..MaxQuestions, covered: SUBSET Topics,
                 draft: BOOLEAN, pending: BOOLEAN, retries: 0..1]
  /\ turn \in {"none", "running", "stopped"} /\ agent \in BOOLEAN /\ resumes \in 0..MaxResumes
  /\ starting \in 0..MaxResumes + 1 /\ running \in 0..MaxResumes + 1
  /\ call \in [Calls -> [at: {"idle", "begun", "waiting", "rendering"}, topic: Topics]]

\* start_interview: the record is there before the goroutine of the turn runs; there is
\* none when the profile cannot be read.
InterviewInit ==
  /\ record = [NoRecord EXCEPT !.there = TRUE, !.status = "interviewing"]
  /\ turn = "none" /\ starting \in 0..1 /\ running = 0 /\ agent = FALSE
  /\ call = [c \in Calls |-> Idle] /\ resumes = 0

---------------------------------------------------------------------------
\* runWSTurn: the hub refuses a second turn beside one that runs, and a session that was
\* deleted gets none; one that is being deleted may.
Register ==
  /\ starting > 0 /\ starting' = starting - 1
  /\ \/ turn # "running" /\ turn' = "running" /\ running' = running + 1 /\ agent' = TRUE
     \/ (turn = "running" \/ ~record.there) /\ UNCHANGED <<turn, running, agent>>
  /\ UNCHANGED <<record, call, resumes>>
\* The turn is stopped, or fails.
StopTurn ==
  /\ turn = "running" /\ turn' = "stopped"
  /\ UNCHANGED <<record, starting, running, agent, call, resumes>>
\* A goroutine finishes, and whatever turn the hub has of the session with it.
FinishTurn ==
  /\ running > 0 /\ running' = running - 1 /\ turn' = "none"
  /\ UNCHANGED <<record, starting, agent, call, resumes>>

\* Mutation of MayAsk: a question may follow another that waits.
MayAskMany(topic) ==
  /\ record.there /\ ~record.draft /\ record.answered < MaxQuestions
  /\ record.answered < Cardinality(Topics) => topic \notin record.covered
\* beginQuestion: one at a time, the first five on distinct topics.
MayAsk(topic) ==
  /\ record.there /\ ~record.draft /\ ~record.pending /\ record.answered < MaxQuestions
  /\ record.answered < Cardinality(Topics) => topic \notin record.covered
BeginQuestion(c, topic) ==
  /\ call[c].at = "idle" /\ agent /\ MayAsk(topic)
  /\ record' = [record EXCEPT !.pending = TRUE, !.status = "awaiting_answer"]
  /\ call' = [call EXCEPT ![c] = [at |-> "begun", topic |-> topic]]
  /\ UNCHANGED <<turn, starting, running, agent, resumes>>
\* finishQuestion; the session may have been deleted meanwhile.
Finished(c, answered) ==
  IF ~record.there THEN record
  ELSE [record EXCEPT !.pending = FALSE, !.status = "interviewing",
                      !.answered = IF answered THEN @ + 1 ELSE @,
                      !.covered = IF answered THEN @ \cup {call[c].topic} ELSE @]
\* turnIDForSession: the question goes to the turn that runs, if one does.
PutQuestion(c) ==
  /\ call[c].at = "begun"
  /\ IF turn = "running" THEN call' = [call EXCEPT ![c].at = "waiting"] /\ UNCHANGED record
     ELSE record' = Finished(c, FALSE) /\ call' = [call EXCEPT ![c] = Idle]
  /\ UNCHANGED <<turn, starting, running, agent, resumes>>
\* The user answers what was shown, be the turn over or not; nobody does in time, or the
\* answer is empty, or the agent that asked is gone.
FinishQuestion(c, answered) ==
  /\ call[c].at = "waiting"
  /\ record' = Finished(c, answered) /\ call' = [call EXCEPT ![c] = Idle]
  /\ UNCHANGED <<turn, starting, running, agent, resumes>>

\* submit reads the record, renders the Markdown without the lock ...
Submit(c) ==
  /\ call[c].at = "idle" /\ agent /\ record.there /\ ~record.pending /\ record.covered = Topics
  /\ call' = [call EXCEPT ![c].at = "rendering"]
  /\ UNCHANGED <<record, turn, starting, running, agent, resumes>>
\* ... and stores it; a draft RenderUserProfileDraft finds incomplete is refused.
StoreDraft(c, valid) ==
  /\ call[c].at = "rendering"
  /\ record' = IF valid /\ record.there THEN [record EXCEPT !.status = "draft", !.draft = TRUE] ELSE record
  /\ call' = [call EXCEPT ![c] = Idle]
  /\ UNCHANGED <<turn, starting, running, agent, resumes>>

\* recover: once, a client that asks gets a turn that continues the interview.
Recover ==
  IF ~record.there \/ record.draft THEN UNCHANGED <<record, starting>>
  ELSE IF record.retries >= 1 THEN record' = [record EXCEPT !.status = "failed"] /\ UNCHANGED starting
  ELSE record' = [record EXCEPT !.retries = 1, !.status = "recovering"] /\ starting' = starting + 1
\* attach_session recovers when it finds no turn and the interview is under way (one that
\* begins before it does is no obstacle, as for the next) ...
Attach ==
  /\ resumes < MaxResumes /\ resumes' = resumes + 1
  /\ turn = "none" /\ record.there /\ record.status \notin {"draft", "failed"} /\ Recover
  /\ UNCHANGED <<turn, running, agent, call>>
\* ... resume_interview without looking.
Resume ==
  /\ resumes < MaxResumes /\ resumes' = resumes + 1 /\ Recover
  /\ UNCHANGED <<turn, running, agent, call>>
\* send_turn, from the interview panel.
SendTurn ==
  /\ resumes < MaxResumes /\ resumes' = resumes + 1 /\ record.there /\ starting' = starting + 1
  /\ UNCHANGED <<record, turn, running, agent, call>>
\* The session is deleted, whatever runs for it.
Remove ==
  /\ record.there /\ record' = NoRecord
  /\ UNCHANGED <<turn, starting, running, agent, call, resumes>>

InterviewNext ==
  \/ Register \/ StopTurn \/ FinishTurn \/ Attach \/ Resume \/ SendTurn \/ Remove
  \/ \E c \in Calls : \/ \E t \in Topics : BeginQuestion(c, t)
                      \/ PutQuestion(c) \/ \E b \in BOOLEAN : FinishQuestion(c, b) \/ StoreDraft(c, b)
                      \/ Submit(c)
InterviewSpec == InterviewInit /\ [][InterviewNext]_interviewVars

---------------------------------------------------------------------------
\* The count and the topics stay in step (interview.go:117-141): however tool calls
\* overlap and whichever turn they came from, the first answers cover one topic
\* each, the questions stay within their limit, and a draft is of all topics.
CoverageIsEarned ==
  record.there =>
    /\ record.answered + Cardinality({c \in Calls : call[c].at \in {"begun", "waiting"}}) <= MaxQuestions
    /\ record.answered <= Cardinality(Topics) => Cardinality(record.covered) = record.answered
    /\ record.draft => record.covered = Topics

=============================================================================
