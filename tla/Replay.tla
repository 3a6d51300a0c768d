------------------------------- MODULE Replay -------------------------------
(* What a provider is told of a conversation it does not remember: the       *)
(* rolling summary and the replay of src/internal/core/summary.go.           *)
(*                                                                           *)
(* Only conversation messages count; the model keeps their number.  A        *)
(* summary is the length of the prefix it was made from, which stays at what *)
(* it was when the history was read, however long the model call takes.      *)
EXTENDS Naturals, FiniteSets

CONSTANTS Recent,       \* recentReplayMessages
          MinMessages,  \* rollingSummaryMinMessages
          Interval,     \* rollingSummaryInterval
          MaxMessages,  \* bound: messages of the session
          MaxJobs       \* bound: refreshes under way at once

VARIABLES count,     \* conversation messages stored
          covered,   \* prefix the stored summary was made from, 0 without one
          jobs,      \* prefixes being summarised now, by background and /compact
          resume,    \* the session has a handle: the provider remembers the conversation
          replayed   \* what the last fresh provider session was given: [upto, from]

replayVars == <<count, covered, jobs, resume, replayed>>

ReplayInit == count = 0 /\ covered = 0 /\ jobs = {} /\ resume = FALSE
              /\ replayed = [upto |-> 0, from |-> 1]

\* A turn stores the user's message and mostly an answer; a plan submission adds a
\* message of its own.
Messages ==
    \E n \in 1..3 :
        /\ count + n <= MaxMessages
        /\ count' = count + n
        /\ UNCHANGED <<covered, jobs, resume, replayed>>

\* Mutation of OlderEnd: the whole history is summarised.
OlderEndWhole == IF count > Recent THEN count ELSE 0
\* olderEnd: everything but the messages a replay repeats verbatim.
OlderEnd == IF count > Recent THEN count - Recent ELSE 0

\* RefreshRollingSummary after a turn, or when the rate window is nearly spent.
Refresh ==
    /\ Cardinality(jobs) < MaxJobs
    /\ count >= MinMessages
    /\ covered = 0 \/ count % Interval = 0
    /\ OlderEnd > 0
    /\ jobs' = jobs \cup {OlderEnd}
    /\ UNCHANGED <<count, covered, resume, replayed>>

\* UpdateRollingSummary: the last write wins, whatever it was made from.  A job
\* may also die with its context or the daemon.
StoreSummary ==
    \E job \in jobs :
        /\ jobs' = jobs \ {job}
        /\ covered' \in {covered, job}
        /\ UNCHANGED <<count, resume, replayed>>

\* CompactSession: a forced summary, then the handle is cleared.  The summary is
\* awaited, so messages stored meanwhile are not in it.
CompactStart ==
    /\ Cardinality(jobs) < MaxJobs /\ OlderEnd > 0
    /\ jobs' = jobs \cup {OlderEnd}
    /\ UNCHANGED <<count, covered, resume, replayed>>
ForgetHandle ==
    /\ resume
    /\ resume' = FALSE
    /\ UNCHANGED <<count, covered, jobs, replayed>>

\* replayHistory: the first turn without a handle starts a fresh provider session
\* from the summary and the recent messages, or from the whole transcript.
Given ==
    IF covered = 0 \/ count <= Recent THEN [upto |-> 0, from |-> 1]
    ELSE [upto |-> covered, from |-> count - Recent + 1]

FreshTurn ==
    /\ ~resume /\ count > 0
    /\ replayed' = Given
    /\ resume' = TRUE
    /\ UNCHANGED <<count, covered, jobs>>

ReplayNext == Messages \/ Refresh \/ StoreSummary \/ CompactStart \/ ForgetHandle \/ FreshTurn
ReplaySpec == ReplayInit /\ [][ReplayNext]_replayVars

-----------------------------------------------------------------------------
ReplayTypeOK ==
    /\ count \in 0..MaxMessages /\ covered \in 0..MaxMessages
    /\ jobs \subseteq 1..MaxMessages /\ resume \in BOOLEAN
    /\ replayed.upto \in 0..MaxMessages /\ replayed.from \in 1..MaxMessages

\* A fresh provider session is never told the same message twice, once in the
\* summary and once verbatim, although the summary was made from an earlier
\* history than the one replayed.
NothingReplayedTwice == replayed.upto < replayed.from

=============================================================================
