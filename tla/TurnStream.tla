----------------------------- MODULE TurnStream -----------------------------
(* Core.StreamTurn (src/internal/core/sessions.go) with the fallback chain   *)
(* of core/runtime.go, on one session whose turns run one after another,     *)
(* while the user edits the session: /profile and /permission (core/slash.go)*)
(* and a change of project (store/sessions.go) are allowed at any moment.    *)
(*                                                                           *)
(* A turn works from a snapshot of the session taken when it began.  What    *)
(* comes back late is written to the row as it is then: the provider's       *)
(* handle is fenced by the project revision, the rest is not.                *)
EXTENDS Naturals, Sequences, FiniteSets

CONSTANTS Targets,     \* provider/profile pairs
          Home,        \* the target the session starts on
          Chain,       \* the agent's fallback chain, a sequence of targets
          Modes,       \* permission modes
          FirstMode,   \* the mode the session is created with
          MaxTurns,    \* bound: turns of the session
          MaxAttempts, \* bound: attempts of a turn (a user may switch for ever)
          MaxNotes,    \* bound: rows written while a turn runs
          MaxEdits     \* bound: edits of the session by the user

VARIABLES session,    \* the stored row: [target, mode, handle, revision]
          current,    \* StreamTurn's copy of it
          pc,         \* where the turn is: see StreamTypeOK
          attended,   \* the turn has a FallbackRelay
          tried,      \* sequence of the targets attempted, newest last
          cancelled,  \* the turn's context is done
          history, told, run,   \* as in TurnContract
          notes,      \* rows written while this turn runs
          turns, edits

sessionVars == <<session, edits>>
turnVars == <<current, pc, attended, tried, cancelled, history, told, run, notes, turns>>
streamVars == <<session, current, pc, attended, tried, cancelled, history, told,
                run, notes, turns, edits>>

NoHandle == [of |-> "none", revision |-> 0]
HandleOf(s) == [of |-> s.target, revision |-> s.revision]

StreamInit ==
    /\ session = [target |-> Home, mode |-> FirstMode, handle |-> NoHandle, revision |-> 0]
    /\ current = session /\ pc = "idle" /\ attended = TRUE /\ tried = <<>>
    /\ cancelled = FALSE /\ history = <<>> /\ told = "nothing" /\ run = "none"
    /\ notes = 0 /\ turns = 0 /\ edits = 0

-----------------------------------------------------------------------------
\* The session is read and its goal run begun; FreshContext clears the handle.
Begin ==
    /\ pc = "idle" /\ turns < MaxTurns
    /\ \/ session' = session
       \/ session' = [session EXCEPT !.handle = NoHandle]
    /\ current' = session' /\ attended' \in BOOLEAN
    /\ pc' = "begun" /\ turns' = turns + 1
    /\ tried' = <<>> /\ cancelled' = FALSE /\ told' = "nothing" /\ run' = "running"
    /\ notes' = 0
    /\ UNCHANGED <<history, edits>>

\* A failed read or write before the user's message is stored fails the run.
BeginFails ==
    /\ pc = "begun"
    /\ pc' = "idle" /\ run' = "failed"
    /\ UNCHANGED <<sessionVars, current, attended, tried, cancelled, history, told, notes, turns>>

AcceptMessage ==
    /\ pc = "begun"
    /\ history' = Append(history, "user") /\ pc' = "accepted"
    /\ UNCHANGED <<sessionVars, current, attended, tried, cancelled, told, run, notes, turns>>

\* SetGoalRunTurn fails: it returns an empty row in place of goalRun, so the
\* finishGoalRun that follows names no run and the real one stays running.
LinkFails ==
    /\ pc = "accepted"
    /\ pc' = "idle"
    /\ UNCHANGED <<sessionVars, current, attended, tried, cancelled, history, told, run, notes, turns>>

\* One attempt: the current target counts as tried and its adapter is started.
Attempt ==
    /\ pc \in {"accepted", "switched"}
    /\ tried' = Append(tried, current.target)
    /\ pc' = "consuming"
    /\ UNCHANGED <<sessionVars, current, attended, cancelled, history, told, run, notes, turns>>

-----------------------------------------------------------------------------
\* A settled segment, or the sign-in notice of a signed-out account.
StoreNote ==
    /\ pc = "consuming" /\ notes < MaxNotes
    /\ notes' = notes + 1
    /\ \E kind \in {"note", "notice"} : history' = Append(history, kind)
    /\ UNCHANGED <<sessionVars, current, pc, attended, tried, cancelled, told, run, turns>>

\* Mutation of Fence: the handle is stored whatever became of the binding.
FenceNone(s) == TRUE
\* EventHandleUpdated: ignored when it repeats the attempt's own handle, else
\* stored while the project binding is the one the turn started from.
Fence(s) == s.revision = current.revision

HandleUpdated ==
    LET h == HandleOf(current) IN
    /\ pc = "consuming" /\ current.handle # h
    /\ Fence(session)
    /\ session' = [session EXCEPT !.handle = h]
    /\ current' = [current EXCEPT !.handle = h]
    /\ UNCHANGED <<edits, pc, attended, tried, cancelled, history, told, run, notes, turns>>

\* sendPersistedTurnError: nothing is written once the context is done.
Failing ==
    \/ /\ ~cancelled
       /\ pc' = "failing"
       /\ history' \in {history, Append(history, "error")}
    \/ /\ cancelled
       /\ pc' = "ending" /\ UNCHANGED history

\* Context, instructions, MCP servers, SendTurn or the handle's write fail.
AttemptFails ==
    /\ pc \in {"accepted", "switched", "consuming"}
    /\ Failing
    /\ UNCHANGED <<sessionVars, current, attended, tried, cancelled, told, run, notes, turns>>

\* A send to the client finds the context done: the turn returns.
Aborts ==
    /\ pc \in {"accepted", "consuming", "failing", "answered"} /\ cancelled
    /\ pc' = "ending"
    /\ UNCHANGED <<sessionVars, current, attended, tried, cancelled, history, told, run, notes, turns>>

\* Mutation of Answered: the tail is written row by row, so that a failed write
\* leaves the answer of a turn that is told as an error.
AnsweredRowByRow ==
    /\ pc = "consuming" /\ pc' = "failing"
    /\ history' = history \o <<"answer", "error">>
    /\ UNCHANGED <<sessionVars, current, attended, tried, cancelled, told, run, notes, turns>>
\* The events end: the tail is written in one transaction.
Answered ==
    /\ pc = "consuming"
    /\ \/ /\ pc' = "answered"
          /\ history' \in {Append(history, "note"), Append(history, "answer"),
                           history \o <<"note", "answer">>, history}
          /\ UNCHANGED run
       \/ /\ Failing /\ UNCHANGED run            \* the write failed
       \/ /\ pc' = "ending" /\ run' = "succeeded" \* no text at all: nothing is told
          /\ UNCHANGED history
    /\ UNCHANGED <<sessionVars, current, attended, tried, cancelled, told, notes, turns>>

-----------------------------------------------------------------------------
RateLimited ==
    /\ pc = "consuming"
    /\ pc' = "limited"
    /\ UNCHANGED <<sessionVars, current, attended, tried, cancelled, history, told, run, notes, turns>>

TriedSet == {tried[i] : i \in DOMAIN tried}

\* Mutation of Candidates: an entry already tried is offered again.
CandidatesTriedToo ==
    LET here == {i \in DOMAIN Chain : Chain[i] = current.target}
        start == IF here = {} THEN 0 ELSE CHOOSE i \in here : \A j \in here : i <= j
    IN  {i \in DOMAIN Chain : i > start /\ Chain[i] # current.target}
\* resolveNextFallback: the chain from behind the current target on.
Candidates ==
    LET here == {i \in DOMAIN Chain : Chain[i] = current.target}
        start == IF here = {} THEN 0 ELSE CHOOSE i \in here : \A j \in here : i <= j
    IN  {i \in DOMAIN Chain : i > start /\ Chain[i] \notin TriedSet}
\* The first of them, where there is one.
NextInChain(t) == \E i \in Candidates : t = Chain[i] /\ \A j \in Candidates : i <= j

\* switchSessionTarget: the row takes the target, loses its handle, and gets back
\* the settings of the turn's copy.
SwitchTo(t) == [session EXCEPT !.target = t, !.mode = current.mode, !.handle = NoHandle]

\* The row is written, then the instructions are composed, which may fail too.
Switch(t) ==
    /\ session' = SwitchTo(t)
    /\ \/ pc' = "switched" /\ current' = session' /\ UNCHANGED <<history, run>>
       \/ Failing /\ run' = "rate_limited" /\ UNCHANGED current
    /\ UNCHANGED <<attended, tried, cancelled, told, notes, turns, edits>>

\* Unattended, or the user answers "use_configured".
UseConfigured ==
    /\ pc = "limited" /\ Len(tried) < MaxAttempts
    /\ \E t \in Targets : NextInChain(t) /\ Switch(t)

\* The user picks any other target of availableFallbackTargets, tried or not.
PickTarget ==
    /\ pc = "limited" /\ attended /\ Len(tried) < MaxAttempts
    /\ \E t \in Targets \ {current.target} : Switch(t)

\* The chain is exhausted or names an unknown profile, or the question was refused,
\* cancelled, or unanswered for fallbackTimeout.
\* Mutation of FallbackFails: the question has no deadline.
FallbackFailsNoDeadline ==
    /\ pc = "limited" /\ (~attended \/ cancelled)
    /\ Failing /\ run' = "rate_limited"
    /\ UNCHANGED <<sessionVars, current, attended, tried, cancelled, told, notes, turns>>
FallbackFails ==
    /\ pc = "limited"
    /\ Failing /\ run' = "rate_limited"
    /\ UNCHANGED <<sessionVars, current, attended, tried, cancelled, told, notes, turns>>

-----------------------------------------------------------------------------
\* The rows are announced, then the terminal event.  A context done by then may
\* still let the send through.
Tell ==
    /\ \/ pc = "answered" /\ told' = "done" /\ run' = "succeeded"
       \/ pc = "failing" /\ told' = "error" /\ UNCHANGED run
    /\ pc' = "ending"
    /\ UNCHANGED <<sessionVars, current, attended, tried, cancelled, history, notes, turns>>

\* turn_done is sent with its result ignored: a stop just then still succeeds.
DoneUntold ==
    /\ pc = "answered" /\ cancelled
    /\ pc' = "ending" /\ run' = "succeeded"
    /\ UNCHANGED <<sessionVars, current, attended, tried, cancelled, history, told, notes, turns>>

\* The deferred finishGoalRun: a run not yet given a status is failed, or
\* interrupted when the context is done.
RunStatus ==
    IF run # "running" THEN run ELSE IF cancelled THEN "interrupted" ELSE "failed"

Finish ==
    /\ pc = "ending"
    /\ pc' = "idle" /\ run' = RunStatus
    /\ UNCHANGED <<sessionVars, current, attended, tried, cancelled, history, told, notes, turns>>

Cancel ==
    /\ pc \notin {"idle", "begun"} /\ ~cancelled
    /\ cancelled' = TRUE
    /\ UNCHANGED <<sessionVars, current, pc, attended, tried, history, told, run, notes, turns>>

-----------------------------------------------------------------------------
Edit == edits < MaxEdits /\ edits' = edits + 1 /\ UNCHANGED turnVars

\* UpdateSessionProject to another project: handle cleared, revision raised.
ChangeProject ==
    /\ Edit
    /\ session' = [session EXCEPT !.handle = NoHandle, !.revision = @ + 1]

\* /profile goes through switchSessionTarget with a fresh read of the session.
ChangeProfile(t) ==
    /\ Edit
    /\ session' = [session EXCEPT !.target = t, !.handle = NoHandle]

ChangeMode(m) ==
    /\ Edit /\ m # session.mode
    /\ session' = [session EXCEPT !.mode = m]

User == ChangeProject \/ (\E t \in Targets : ChangeProfile(t)) \/ (\E m \in Modes : ChangeMode(m))

Turn == \/ BeginFails \/ AcceptMessage \/ LinkFails \/ Attempt \/ AttemptFails
        \/ StoreNote \/ HandleUpdated \/ RateLimited
        \/ UseConfigured \/ PickTarget \/ FallbackFails
        \/ Aborts \/ Answered \/ Tell \/ DoneUntold \/ Finish

StreamNext == Begin \/ Turn \/ Cancel \/ User
StreamSpec == StreamInit /\ [][StreamNext]_streamVars

\* What the goroutine does by itself.  The adapter is assumed to end its stream;
\* nobody need answer the fallback question, which fallbackTimeout ends.
Progress == AcceptMessage \/ Attempt \/ Answered \/ FallbackFails \/ Tell \/ Finish
StreamFairSpec == StreamSpec /\ WF_streamVars(Progress)

-----------------------------------------------------------------------------
\* The turn as TurnContract sees it: closed from the moment nothing more can be
\* told, in progress before, whatever attempt it is in.
Stage ==
    CASE pc = "idle" -> "closed"
      [] pc = "begun" -> "open"
      [] pc \in {"accepted", "consuming", "limited", "switched"} -> "accepted"
      [] pc \in {"answered"} \/ (pc = "ending" /\ told = "done") -> "answered"
      [] pc \in {"failing"} \/ (pc = "ending" /\ told = "error") -> "failed"
      [] OTHER -> "closed"
RunSeen == CASE pc = "idle" -> run
             [] pc = "ending" /\ told = "nothing" -> RunStatus
             [] OTHER -> "running"
Contract == INSTANCE TurnContract WITH stage <- Stage, run <- RunSeen

-----------------------------------------------------------------------------
StreamTypeOK ==
    /\ pc \in {"idle", "begun", "accepted", "consuming", "limited", "switched",
               "answered", "failing", "ending"}
    /\ session.target \in Targets /\ session.mode \in Modes
    /\ session.handle \in {NoHandle} \cup [of : Targets, revision : 0..MaxEdits]
    /\ told \in {"nothing", "done", "error"}
    /\ run \in {"none", "running", "succeeded", "failed", "interrupted", "rate_limited"}

\* A resume handle belongs to the project the session is bound to: a turn that
\* started before the user moved the session never hands the session the
\* conversation of the old workspace, however late its event arrives.
HandleOfProject ==
    session.handle # NoHandle => session.handle.revision = session.revision

\* An unattended turn never goes back to a target that has refused it: the chain,
\* which may name a target twice, cannot send it round in circles.
NeverBackUnattended ==
    ~attended => \A i, j \in DOMAIN tried : tried[i] = tried[j] => i = j

\* Every turn that begins comes to an end, whether the provider answers, fails,
\* is rate limited again and again or waits for a user who is not there.
TurnEnds == (pc # "idle") ~> (pc = "idle")

\* Fallbacks, notes, failures and stops at any moment keep the promise of
\* TurnContract: the user's row first, at most one answer and nothing after it,
\* an error told only for a turn that wrote no answer, and a goal run whose
\* final status agrees with what the conversation shows.
KeepsContract == Contract!Spec
=============================================================================
