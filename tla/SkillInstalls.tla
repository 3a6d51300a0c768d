--------------------------- MODULE SkillInstalls ---------------------------
(***************************************************************************)
(* Installing skills: internal/marketplace/install.go, archive.go, lock.go,*)
(* installed.go and update.go.                                             *)
(*                                                                         *)
(* The skills root is shared with the user, who may place and remove       *)
(* directories by hand; the lock file says which ones Podiom manages. Only *)
(* the lock file's own reads and writes are serialised.                    *)
(***************************************************************************)
EXTENDS Naturals

CONSTANTS
  Sources,    \* repositories whose skill has this one name
  Handlers,   \* requests running at the same time
  NoSkill,    \* no directory, no entry
  Own,        \* what the user placed by hand
  MaxHeads,   \* bound on the commits of a source
  MaxCalls    \* bound on requests, steps of the user and crashes

VARIABLES
  dir,     \* the directory of each name
  aside,   \* old copies moved away and not removed
  lock,    \* the entry of each name
  heads,   \* the newest commit of each source
  op,      \* what each request does
  lost,    \* for the property: hand-placed directories Podiom knew and removed
  calls

skillVars == <<dir, aside, lock, heads, op, lost, calls>>

\* kebab(name), and the name with the owner before it.
Base == "skill"
Names == {Base} \cup Sources
Content == [src: Sources, sha: 0..MaxHeads, whole: BOOLEAN]
Free == [at |-> "idle", src |-> "-", sha |-> 0, whole |-> FALSE, name |-> Base, knew |-> FALSE, old |-> NoSkill]

SkillTypeOK ==
  /\ dir \in [Names -> Content \cup {NoSkill, Own}]
  /\ aside \subseteq (Names \X (Content \cup {Own}))
  /\ lock \in [Names -> [src: Sources, sha: 0..MaxHeads] \cup {NoSkill}]
  /\ heads \in [Sources -> 0..MaxHeads]
  /\ op \in [Handlers -> [at: {"idle", "extract", "resolve", "replace", "move", "put", "remove", "delete"},
                          src: Sources \cup {"-"}, sha: 0..MaxHeads, whole: BOOLEAN, name: Names,
                          knew: BOOLEAN, old: Content \cup {NoSkill, Own}]]
  /\ lost \subseteq Names /\ calls \in 0..MaxCalls

SkillInit ==
  /\ dir = [n \in Names |-> NoSkill] /\ aside = {}
  /\ lock = [n \in Names |-> NoSkill]
  /\ heads = [s \in Sources |-> 0]
  /\ op = [h \in Handlers |-> Free]
  /\ lost = {} /\ calls = 0

Goes(h, at) == op' = [op EXCEPT ![h].at = at]
Ends(h) == op' = [op EXCEPT ![h] = Free]
Staged(h) == [src |-> op[h].src, sha |-> op[h].sha, whole |-> op[h].whole]
\* A request takes the directory of its name away.
Takes(h) == lost' = IF dir[op[h].name] = Own /\ op[h].knew THEN lost \cup {op[h].name} ELSE lost

---------------------------------------------------------------------------
(* Install; ApplyUpdate is an install of the source its entry names. *)

\* The commit is pinned before anything is downloaded.
Begin(h, s) ==
  /\ op[h].at = "idle" /\ calls < MaxCalls /\ calls' = calls + 1
  /\ op' = [op EXCEPT ![h] = [Free EXCEPT !.at = "extract", !.src = s, !.sha = heads[s]]]
  /\ UNCHANGED <<dir, aside, lock, heads, lost>>

\* Mutation of Valid: a download that broke off is installed all the same.
ValidAlways(whole) == TRUE
\* extractSubtree into a hidden directory, then SKILL.md, its frontmatter and
\* the acknowledgement; any failure removes the hidden directory.
Valid(whole) == whole
Extract(h) ==
  /\ op[h].at = "extract"
  /\ \E whole \in BOOLEAN :
       IF Valid(whole) THEN op' = [op EXCEPT ![h].at = "resolve", ![h].whole = whole] ELSE Ends(h)
  /\ UNCHANGED <<dir, aside, lock, heads, lost, calls>>

\* Mutation of Usable: a directory that is there is taken for a managed one.
UsableAlways(n) == TRUE
\* resolveInstallDir: a managed name is updated in place, a name somebody else
\* uses is not.
Usable(n) == lock[n] # NoSkill \/ dir[n] = NoSkill
ResolveDir(h) ==
  /\ op[h].at = "resolve"
  /\ LET to == CHOOSE n \in {Base, op[h].src} : Usable(n) /\ (n # Base => ~Usable(Base))
     IN IF Usable(Base) \/ Usable(op[h].src)
        THEN op' = [op EXCEPT ![h].at = "replace", ![h].name = to, ![h].knew = (dir[to] = Own /\ lock[to] = NoSkill)]
        ELSE Ends(h)     \* ErrUnmanagedCollision
  /\ UNCHANGED <<dir, aside, lock, heads, lost, calls>>

\* replaceDir: a rename, or the old copy aside, a rename, the old copy removed;
\* a failed rename puts the old copy back when it can.
Replace(h) ==
  /\ op[h].at = "replace"
  /\ IF dir[op[h].name] = NoSkill
     THEN /\ dir' = [dir EXCEPT ![op[h].name] = Staged(h)]
          /\ Goes(h, "put") /\ UNCHANGED <<aside, lost>>
     ELSE /\ Takes(h)
          /\ dir' = [dir EXCEPT ![op[h].name] = NoSkill]
          /\ aside' = aside \cup {<<op[h].name, dir[op[h].name]>>}
          /\ op' = [op EXCEPT ![h].at = "move", ![h].old = dir[op[h].name]]
  /\ UNCHANGED <<lock, heads, calls>>
Move(h) ==
  /\ op[h].at = "move"
  /\ IF dir[op[h].name] = NoSkill
     THEN \/ /\ dir' = [dir EXCEPT ![op[h].name] = Staged(h)]
             /\ aside' = aside \ {<<op[h].name, op[h].old>>}
             /\ Goes(h, "put")
          \/ /\ dir' = [dir EXCEPT ![op[h].name] = op[h].old]
             /\ aside' = aside \ {<<op[h].name, op[h].old>>}
             /\ Ends(h)
     ELSE Ends(h) /\ UNCHANGED <<dir, aside>>   \* another install was faster: the old copy stays aside
  /\ UNCHANGED <<lock, heads, lost, calls>>
\* lock.Put reads and writes the file under its mutex.
Put(h) ==
  /\ op[h].at = "put"
  /\ lock' = [lock EXCEPT ![op[h].name] = [src |-> op[h].src, sha |-> op[h].sha]]
  /\ Ends(h)
  /\ UNCHANGED <<dir, aside, heads, lost, calls>>

---------------------------------------------------------------------------
\* Uninstall: refused for a name without an entry; the directory goes first.
Uninstall(h, n) ==
  /\ op[h].at = "idle" /\ calls < MaxCalls /\ calls' = calls + 1
  /\ lock[n] # NoSkill
  /\ op' = [op EXCEPT ![h] = [Free EXCEPT !.at = "remove", !.name = n]]
  /\ UNCHANGED <<dir, aside, lock, heads, lost>>
RemoveAll(h) ==
  /\ op[h].at = "remove"
  /\ Takes(h)
  /\ dir' = [dir EXCEPT ![op[h].name] = NoSkill]
  /\ Goes(h, "delete")
  /\ UNCHANGED <<aside, lock, heads, calls>>
DeleteEntry(h) ==
  /\ op[h].at = "delete"
  /\ lock' = [lock EXCEPT ![op[h].name] = NoSkill]
  /\ Ends(h)
  /\ UNCHANGED <<dir, aside, heads, lost, calls>>

---------------------------------------------------------------------------
(* Around it: the sources, the user, the operating system. *)
Push(s) ==
  /\ heads[s] < MaxHeads /\ heads' = [heads EXCEPT ![s] = @ + 1]
  /\ UNCHANGED <<dir, aside, lock, op, lost, calls>>
PlaceOwn(n) ==
  /\ dir[n] = NoSkill /\ calls < MaxCalls /\ calls' = calls + 1
  /\ dir' = [dir EXCEPT ![n] = Own]
  /\ UNCHANGED <<aside, lock, heads, op, lost>>
TakeAway(n) ==
  /\ dir[n] # NoSkill /\ calls < MaxCalls /\ calls' = calls + 1
  /\ dir' = [dir EXCEPT ![n] = NoSkill]
  /\ UNCHANGED <<aside, lock, heads, op, lost>>
Crash ==
  /\ calls < MaxCalls /\ calls' = calls + 1
  /\ op' = [h \in Handlers |-> Free]
  /\ UNCHANGED <<dir, aside, lock, heads, lost>>

SkillNext ==
  \/ \E h \in Handlers :
       \/ \E s \in Sources : Begin(h, s)
       \/ \E n \in Names : Uninstall(h, n)
       \/ Extract(h) \/ ResolveDir(h) \/ Replace(h) \/ Move(h) \/ Put(h) \/ RemoveAll(h) \/ DeleteEntry(h)
  \/ \E s \in Sources : Push(s)
  \/ \E n \in Names : PlaceOwn(n) \/ TakeAway(n)
  \/ Crash

SkillSpec == SkillInit /\ [][SkillNext]_skillVars

---------------------------------------------------------------------------
\* A directory the user placed, and which was there without an entry when a
\* request chose its name, is never removed or replaced; and wherever a request
\* fails or the daemon dies, no directory under a skill's name is half a skill.
HandPlacedStays ==
  /\ lost = {}
  /\ \A n \in Names : dir[n] \notin {NoSkill, Own} => dir[n].whole

=============================================================================
