---------------------------- MODULE SessionStore ----------------------------
(***************************************************************************)
(* One conversation's rows, its photos and its place in the list:          *)
(* internal/store/sessions.go and attachments.go, internal/core/sessions.go*)
(* and attachments.go, internal/server/session_auto_archive.go.            *)
(*                                                                         *)
(* Writers append messages in transactions and bind photos to them; photos *)
(* are files first and rows after, under attachmentMu; the hourly sweep    *)
(* files away what it found idle.                                          *)
(***************************************************************************)
EXTENDS Naturals, FiniteSets

CONSTANTS
  Writers,   \* turns and requests that append to the conversation
  Photos,    \* uploads
  NoOne,     \* nobody holds the lock
  MaxSeq,    \* bound on messages
  MaxStarts  \* bound on restarts

VARIABLES
  alive,    \* the session's row
  last,     \* MAX(seq) of its messages
  append,   \* Writers -> [at, next, photos, refused]
  lock,     \* the writer SQLite's write lock is held by
  photo,    \* Photos -> "none", "draft", "stale" (a draft over a day old), "bound"
  files,    \* photos whose directory is on disk
  job,      \* what attachmentMu's holder does: [op, photo, listed]
  old,      \* updated_at is before the cutoff
  gate,     \* a plan is owed or awaiting approval
  archived, \* "", "user" or "sweep": who filed it away last
  turn,     \* the conversation's turn: "none", "registered", "running"
  sweep,    \* AutoArchiveInactiveSessions: "idle", "listed", "checked"
  starts

storeVars == <<alive, last, append, lock, photo, files, job, old, gate, archived, turn, sweep, starts>>

NoAppend == [at |-> "idle", next |-> 0, photos |-> {}, refused |-> FALSE]
NoJob == [op |-> "free", photo |-> NoOne, listed |-> {}]
StoreTypeOK ==
  /\ alive \in BOOLEAN /\ last \in 0..MaxSeq /\ lock \in Writers \cup {NoOne}
  /\ append \in [Writers -> [at: {"idle", "begun", "read"}, next: 0..MaxSeq + 1, photos: SUBSET Photos, refused: BOOLEAN]]
  /\ photo \in [Photos -> {"none", "draft", "stale", "bound"}] /\ files \in SUBSET Photos
  /\ job \in [op: {"free", "upload", "remove", "drop", "clean"}, photo: Photos \cup {NoOne}, listed: SUBSET Photos]
  /\ old \in BOOLEAN /\ gate \in BOOLEAN /\ archived \in {"", "user", "sweep"}
  /\ turn \in {"none", "registered", "running"} /\ sweep \in {"idle", "listed", "checked"} /\ starts \in 0..MaxStarts

StoreInit ==
  /\ alive = TRUE /\ last = 0 /\ append = [w \in Writers |-> NoAppend] /\ lock = NoOne
  /\ photo = [p \in Photos |-> "none"] /\ files = {} /\ job = NoJob
  /\ old = FALSE /\ gate \in BOOLEAN /\ archived = "" /\ turn = "none" /\ sweep = "idle" /\ starts = 0

archiveVars == <<old, gate, archived, turn, sweep>>
photoVars == <<photo, files, job>>
Rows == {p \in Photos : photo[p] # "none"}
Drafts == {p \in Photos : photo[p] \in {"draft", "stale"}}
\* A statement that writes waits for the transaction that holds the lock.
Writable == lock = NoOne

---------------------------------------------------------------------------
\* appendMessages.  The transaction takes the write lock before it reads the next
\* sequence number (_txlock=immediate, and the UPDATE that opens it).
\* Mutation of Locked: a deferred transaction, which opens with the read.
LockedLate(w) == Writable /\ UNCHANGED lock
Locked(w) == Writable /\ lock' = w
Begin(w, ps) ==
  /\ append[w].at = "idle" /\ last < MaxSeq /\ Locked(w)
  /\ append' = [append EXCEPT ![w] = [NoAppend EXCEPT !.at = "begun", !.photos = ps]]
  /\ UNCHANGED <<alive, last, photoVars, archiveVars, starts>>
ReadNext(w) ==
  /\ append[w].at = "begun" /\ append' = [append EXCEPT ![w].at = "read", ![w].next = last + 1]
  /\ UNCHANGED <<alive, last, lock, photoVars, archiveVars, starts>>
\* The insert, the binding of its photos and the commit, or a rollback: a photo that is
\* gone or bound, a session that is gone, a snapshot another writer made stale.
Commit(w) == LET a == append[w] stale == a.next # last + 1 IN
  /\ a.at = "read" /\ lock \in {w, NoOne} /\ lock' = NoOne
  /\ append' = [append EXCEPT ![w] = [NoAppend EXCEPT !.refused = stale]]
  /\ IF alive /\ a.photos \subseteq Drafts /\ ~stale
     THEN /\ last' = a.next /\ old' = FALSE
          /\ photo' = [p \in Photos |-> IF p \in a.photos THEN "bound" ELSE photo[p]]
     ELSE UNCHANGED <<last, old, photo>>
  /\ UNCHANGED <<alive, files, job, gate, archived, turn, sweep, starts>>

\* CreateAttachment: the session is looked up before the lock ...
Upload(p) ==
  /\ alive /\ job.op = "free" /\ photo[p] = "none" /\ p \notin files
  /\ job' = [NoJob EXCEPT !.op = "upload", !.photo = p]
  /\ UNCHANGED <<alive, last, append, lock, photo, files, archiveVars, starts>>
WriteFiles ==
  /\ job.op = "upload" /\ job.photo \notin files /\ files' = files \cup {job.photo}
  /\ UNCHANGED <<alive, last, append, lock, photo, job, archiveVars, starts>>
\* ... and the row inserted last; without it the directory goes again.
\* Mutation of Undone: the deferred cleanup is missing.
UndoneNot(p) == files
Undone(p) == files \ {p}
InsertRow(ok) ==
  /\ job.op = "upload" /\ job.photo \in files /\ Writable /\ job' = NoJob
  /\ IF ok /\ alive THEN photo' = [photo EXCEPT ![job.photo] = "draft"] /\ UNCHANGED files
                    ELSE files' = Undone(job.photo) /\ UNCHANGED photo
  /\ UNCHANGED <<alive, last, append, lock, archiveVars, starts>>

\* DeleteDraftAttachment: the row while it is a draft, then the files.
RemoveDraft(p) ==
  /\ job.op = "free" /\ Writable /\ p \in Drafts
  /\ photo' = [photo EXCEPT ![p] = "none"] /\ job' = [NoJob EXCEPT !.op = "remove", !.photo = p]
  /\ UNCHANGED <<alive, last, append, lock, files, archiveVars, starts>>
RemoveFiles ==
  /\ job.op = "remove" /\ files' = files \ {job.photo} /\ job' = NoJob
  /\ UNCHANGED <<alive, last, append, lock, photo, archiveVars, starts>>

Expire(p) ==
  /\ photo[p] = "draft" /\ photo' = [photo EXCEPT ![p] = "stale"]
  /\ UNCHANGED <<alive, last, append, lock, files, job, archiveVars, starts>>
\* CleanupAttachments: the stale drafts it lists, then every directory without a row.
CleanupList ==
  /\ job.op = "free" /\ job' = [NoJob EXCEPT !.op = "drop", !.listed = {p \in Photos : photo[p] = "stale"}]
  /\ UNCHANGED <<alive, last, append, lock, photo, files, archiveVars, starts>>
\* Mutation of CleanupDrops: a row that is no longer a draft does not stop it.
CleanupDropsBound(p) == TRUE
CleanupDrops(p) == p \in Drafts
CleanupDraft(p) ==
  /\ job.op = "drop" /\ Writable /\ p \in job.listed
  /\ IF CleanupDrops(p)
     THEN photo' = [photo EXCEPT ![p] = IF p \in Drafts THEN "none" ELSE @] /\ files' = files \ {p}
          /\ job' = [job EXCEPT !.listed = @ \ {p}]
     ELSE job' = NoJob /\ UNCHANGED <<photo, files>>
  /\ UNCHANGED <<alive, last, append, lock, archiveVars, starts>>
CleanupDirs ==
  /\ job.op = "drop" /\ job.listed = {} /\ files' = files \cap Rows /\ job' = NoJob
  /\ UNCHANGED <<alive, last, append, lock, photo, archiveVars, starts>>

\* DeleteSession: the row, with its messages and photos; the directory after it.
\* attachmentMu is not taken.
DropSession ==
  /\ alive /\ Writable /\ alive' = FALSE /\ last' = 0 /\ photo' = [p \in Photos |-> "none"]
  /\ UNCHANGED <<append, lock, files, job, archiveVars, starts>>
DropDirectory ==
  /\ ~alive /\ files # {} /\ files' = {}
  /\ UNCHANGED <<alive, last, append, lock, photo, job, archiveVars, starts>>

\* The daemon dies and starts again: what it had not committed is gone, and core.New
\* sweeps before anything else runs.
Restart ==
  /\ starts < MaxStarts /\ starts' = starts + 1
  /\ append' = [w \in Writers |-> NoAppend] /\ lock' = NoOne /\ job' = NoJob
  /\ photo' = [p \in Photos |-> IF photo[p] = "stale" THEN "none" ELSE photo[p]]
  /\ files' = {p \in files : photo'[p] # "none"}
  /\ turn' = "none" /\ sweep' = "idle" /\ UNCHANGED <<alive, last, old, gate, archived>>

---------------------------------------------------------------------------
\* AutoArchiveInactiveSessions: list, skip what has a turn, stamp what is still idle.
Candidate == alive /\ archived = "" /\ old /\ ~gate
SweepList ==
  /\ sweep = "idle" /\ Candidate /\ sweep' = "listed"
  /\ UNCHANGED <<alive, last, append, lock, photoVars, old, gate, archived, turn, starts>>
SweepCheck ==
  /\ sweep = "listed" /\ sweep' = IF turn = "none" THEN "checked" ELSE "idle"
  /\ UNCHANGED <<alive, last, append, lock, photoVars, old, gate, archived, turn, starts>>
Eligible == Candidate
SweepStamp ==
  /\ sweep = "checked" /\ Writable /\ sweep' = "idle"
  /\ archived' = IF Eligible THEN "sweep" ELSE archived
  /\ old' = IF Eligible THEN FALSE ELSE old
  /\ UNCHANGED <<alive, last, append, lock, photoVars, gate, turn, starts>>

\* SetSessionArchived by hand.
SetArchived(on) ==
  /\ alive /\ Writable /\ (archived = "") = on /\ archived' = (IF on THEN "user" ELSE "") /\ old' = FALSE
  /\ UNCHANGED <<alive, last, append, lock, photoVars, gate, turn, sweep, starts>>
\* A user's turn registers; StreamTurn brings an archived conversation back.
TurnRegisters ==
  /\ alive /\ turn = "none" /\ turn' = "registered"
  /\ UNCHANGED <<alive, last, append, lock, photoVars, old, gate, archived, sweep, starts>>
TurnRuns ==
  /\ turn = "registered" /\ Writable /\ turn' = IF alive THEN "running" ELSE "none"
  /\ IF alive /\ archived # "" THEN archived' = "" /\ old' = FALSE ELSE UNCHANGED <<archived, old>>
  /\ UNCHANGED <<alive, last, append, lock, photoVars, gate, sweep, starts>>
TurnEnds ==
  /\ turn = "running" /\ turn' = "none"
  /\ UNCHANGED <<alive, last, append, lock, photoVars, old, gate, archived, sweep, starts>>
\* UpdateSessionPlanState.
SetGate(on) ==
  /\ alive /\ Writable /\ gate # on /\ gate' = on /\ old' = FALSE
  /\ UNCHANGED <<alive, last, append, lock, photoVars, archived, turn, sweep, starts>>
DaysPass ==
  /\ alive /\ ~old /\ turn = "none" /\ old' = TRUE
  /\ UNCHANGED <<alive, last, append, lock, photoVars, gate, archived, turn, sweep, starts>>

StoreNext ==
  \/ \E w \in Writers : (\E ps \in SUBSET Photos : Begin(w, ps)) \/ ReadNext(w) \/ Commit(w)
  \/ \E p \in Photos : Upload(p) \/ RemoveDraft(p) \/ Expire(p) \/ CleanupDraft(p)
  \/ WriteFiles \/ RemoveFiles \/ CleanupList \/ CleanupDirs \/ DropSession \/ DropDirectory \/ Restart
  \/ \E ok \in BOOLEAN : InsertRow(ok) \/ SetArchived(ok) \/ SetGate(ok)
  \/ SweepList \/ SweepCheck \/ SweepStamp \/ TurnRegisters \/ TurnRuns \/ TurnEnds \/ DaysPass
StoreSpec == StoreInit /\ [][StoreNext]_storeVars

---------------------------------------------------------------------------
\* A photo a message or a draft names has its files, whichever of upload, removal,
\* sweep and session deletion overlap (core/attachments.go:148-149).
PhotoHasFiles == Rows \subseteq files
\* Files without a row belong to an operation that is still running; a crash leaves them
\* to the next start.
FilesHaveRow == alive /\ job.op = "free" => files \subseteq Rows
\* Appending never fails because another writer appended (store/sessions.go:557-559).
NoAppendRefused == \A w \in Writers : ~append[w].refused
=============================================================================
