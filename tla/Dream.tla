------------------------------- MODULE Dream -------------------------------
(***************************************************************************)
(* Dreaming, for one agent: DreamAgent folds the sessions that were not    *)
(* dreamed yet into the agent's MEMORY.md (internal/core/dream.go,         *)
(* internal/store/dreams.go, the nightly loop of internal/dream/runner.go  *)
(* and the handlers of server/memory.go).                                  *)
(*                                                                         *)
(* A dream reads the memory, waits for a model for minutes, compares the   *)
(* memory with what it read, writes it, and only then marks the sessions;  *)
(* nothing but the dreaming map keeps two dreams apart, and nothing keeps  *)
(* the user's own edits out.                                               *)
(***************************************************************************)
EXTENDS Naturals

CONSTANTS
  Dreamers,    \* goroutines that may call DreamAgent: the nightly loop and requests
  Nightly,     \* the one of them that RunDueDreams runs in
  Dreamt,      \* the agent's sessions
  MaxWipes,    \* bound on the user's edits of the memory
  MaxTurns,    \* bound on the turns that start in a session
  MaxMishaps   \* bound on crashes and failing statements

VARIABLES
  memory,      \* MEMORY.md: the sessions it remembers, the user's edits it holds
  marked,      \* sessions with dreamed_at
  busy,        \* sessions with a live turn
  dreaming,    \* c.dreaming: a dream holds the agent
  dreams,      \* what each dreamer is doing, and its journal row
  folds,       \* for the properties: how often a session went into a written memory
  begun,       \* turns that started
  mishaps

dreamVars == <<memory, marked, busy, dreaming, dreams, folds, begun, mishaps>>

Memory == [holds: SUBSET Dreamt, wipes: 0..MaxWipes]
Phases == {"awake", "acquired", "distilling", "checked", "written", "marked", "failed"}

DreamTypeOK ==
  /\ memory \in Memory
  /\ marked \subseteq Dreamt
  /\ busy \subseteq Dreamt
  /\ dreaming \in BOOLEAN
  /\ dreams \in [Dreamers -> [phase: Phases, base: Memory, picked: SUBSET Dreamt,
                              row: {"none", "running", "success", "errored"}, wrote: BOOLEAN]]
  /\ folds \in [Dreamt -> 0..(MaxMishaps + 2)]
  /\ begun \in 0..MaxTurns
  /\ mishaps \in 0..MaxMishaps

Blank == [holds |-> {}, wipes |-> 0]
Awake == [phase |-> "awake", base |-> Blank, picked |-> {}, row |-> "none", wrote |-> FALSE]

DreamInit ==
  /\ memory = Blank
  /\ marked = {}
  /\ busy \in SUBSET Dreamt
  /\ dreaming = FALSE
  /\ dreams = [d \in Dreamers |-> Awake]
  /\ folds = [s \in Dreamt |-> 0]
  /\ begun = 0
  /\ mishaps = 0

Enters(d, phase) == dreams' = [dreams EXCEPT ![d].phase = phase]

---------------------------------------------------------------------------
\* Mutation of Held: the map is not asked.
HeldNever == FALSE
\* acquireDream under dreamMu.
Held == dreaming
Acquire(d) ==
  /\ dreams[d].phase = "awake"
  /\ marked # Dreamt
  /\ ~Held
  /\ dreaming' = TRUE
  /\ dreams' = [dreams EXCEPT ![d] = [Awake EXCEPT !.phase = "acquired"]]
  /\ UNCHANGED <<memory, marked, busy, folds, mishaps, begun>>

\* The deferred releaseDream.
\* Mutation of FreedAfter: a failed dream returns without releasing the agent.
FreedAfterSuccess(d) == dreams[d].phase = "failed" /\ dreaming
FreedAfter(d) == FALSE
Release(d, rest) ==
  /\ dreaming' = FreedAfter(d)
  /\ dreams' = [dreams EXCEPT ![d] = rest]

\* With nothing to dream of - a session with a live turn waits for the next
\* cycle - the dream is a no-op and leaves no row. Otherwise it reads memory and
\* transcripts and opens the journal row.
Gather(d) ==
  /\ dreams[d].phase = "acquired"
  /\ LET picked == Dreamt \ (marked \cup busy) IN
       IF picked = {}
       THEN Release(d, Awake)
       ELSE /\ dreams' = [dreams EXCEPT ![d] = [phase |-> "distilling", base |-> memory,
                            picked |-> picked, row |-> "running", wrote |-> FALSE]]
            /\ UNCHANGED dreaming
  /\ UNCHANGED <<memory, marked, busy, folds, mishaps, begun>>

\* The model's reply is unusable, or it would erase a memory that holds something.
ModelFails(d) ==
  /\ dreams[d].phase = "distilling"
  /\ mishaps < MaxMishaps /\ mishaps' = mishaps + 1
  /\ Enters(d, "failed")
  /\ UNCHANGED <<memory, marked, busy, dreaming, folds, begun>>

\* The reply is good: the memory must still be what the dream started from.
Compare(d) ==
  /\ dreams[d].phase = "distilling"
  /\ Enters(d, IF memory = dreams[d].base THEN "checked" ELSE "failed")
  /\ UNCHANGED <<memory, marked, busy, dreaming, folds, mishaps, begun>>

\* applyDream writes the memory first and marks the sessions after it.
\* Mutation of FirstStep: the sessions are marked before the memory is written.
FirstStepMarks == "mark"
FirstStep == "write"
WriteMemory(d) ==
  /\ dreams[d].phase = IF FirstStep = "write" THEN "checked" ELSE "written"
  /\ memory' = [dreams[d].base EXCEPT !.holds = @ \cup dreams[d].picked]
  /\ folds' = [s \in Dreamt |-> IF s \in dreams[d].picked THEN folds[s] + 1 ELSE folds[s]]
  /\ dreams' = [dreams EXCEPT ![d].phase = IF FirstStep = "write" THEN "written" ELSE "marked",
                              ![d].wrote = TRUE]
  /\ UNCHANGED <<marked, busy, dreaming, mishaps, begun>>
MarkDreamed(d) ==
  /\ dreams[d].phase = IF FirstStep = "write" THEN "written" ELSE "checked"
  /\ marked' = marked \cup dreams[d].picked
  /\ Enters(d, IF FirstStep = "write" THEN "marked" ELSE "written")
  /\ UNCHANGED <<memory, busy, dreaming, folds, mishaps, begun>>

\* A statement of applyDream fails after the memory was written.
StoreFails(d) ==
  /\ dreams[d].phase \in {"written", "marked"}
  /\ mishaps < MaxMishaps /\ mishaps' = mishaps + 1
  /\ Enters(d, "failed")
  /\ UNCHANGED <<memory, marked, busy, dreaming, folds, begun>>

\* FinishDream records success, or the failure, and the agent is released.
Finish(d) ==
  /\ dreams[d].phase \in {"marked", "failed"}
  /\ Release(d, [Awake EXCEPT !.row = IF dreams[d].phase = "marked" THEN "success" ELSE "errored",
                              !.wrote = dreams[d].wrote])
  /\ UNCHANGED <<memory, marked, busy, folds, mishaps, begun>>

---------------------------------------------------------------------------
\* The user rewrites MEMORY.md, or wipes it.
UserEdits ==
  /\ memory.wipes < MaxWipes
  /\ \E kept \in SUBSET memory.holds : memory' = [holds |-> kept, wipes |-> memory.wipes + 1]
  /\ UNCHANGED <<marked, busy, dreaming, dreams, folds, mishaps, begun>>

\* A turn starts or ends in a session.
TurnStarts(s) ==
  /\ s \notin busy /\ s \notin marked /\ begun < MaxTurns
  /\ busy' = busy \cup {s}
  /\ begun' = begun + 1
  /\ UNCHANGED <<memory, marked, dreaming, dreams, folds, mishaps>>
TurnStops(s) ==
  /\ s \in busy
  /\ busy' = busy \ {s}
  /\ UNCHANGED <<memory, marked, dreaming, dreams, folds, mishaps, begun>>

\* The daemon dies: the map is memory, the journal row stays running.
DreamCrash ==
  /\ mishaps < MaxMishaps /\ mishaps' = mishaps + 1
  /\ dreaming' = FALSE
  /\ dreams' = [d \in Dreamers |-> [Awake EXCEPT !.row = dreams[d].row, !.wrote = dreams[d].wrote]]
  /\ UNCHANGED <<memory, marked, busy, folds, begun>>

DreamProgress(d) ==
  Gather(d) \/ Compare(d) \/ WriteMemory(d) \/ MarkDreamed(d) \/ Finish(d)

DreamNext ==
  \/ \E d \in Dreamers : Acquire(d) \/ DreamProgress(d) \/ ModelFails(d) \/ StoreFails(d)
  \/ \E s \in Dreamt : TurnStarts(s) \/ TurnStops(s)
  \/ UserEdits \/ DreamCrash

DreamSpec == DreamInit /\ [][DreamNext]_dreamVars

\* The runner's ticker retries every night; a dream that began runs to its end;
\* turns end. No one else's dream is owed anything.
DreamFairSpec ==
  /\ DreamSpec
  /\ SF_dreamVars(Acquire(Nightly))
  /\ \A d \in Dreamers : WF_dreamVars(DreamProgress(d))
  /\ \A s \in Dreamt : WF_dreamVars(TurnStops(s))

---------------------------------------------------------------------------
\* A session is marked only once a memory that holds it was on disk, wherever
\* the daemon dies or a statement fails: no session is consolidated into nothing.
MarkedWasRemembered == \A s \in marked : folds[s] > 0

\* Two dreams never fold the same session twice, by night and on request: only a
\* mishap between the write and the mark makes the next cycle repeat it.
FoldedOnce == \A s \in Dreamt : folds[s] <= mishaps + 1

\* Every session is dreamed in the end, whatever dreams failed on the way: each
\* path releases the agent.
AllIsDreamed == <>(marked = Dreamt)

=============================================================================
