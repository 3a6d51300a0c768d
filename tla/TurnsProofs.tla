------------------------------ MODULE TurnsProofs ------------------------------
(***************************************************************************)
(* Proofs about MCTurns, for every value of its constants: the notes of a *)
(* turn are stored in order and nothing of it is dropped, a provider's     *)
(* handle stays with its project, an unattended turn never goes back, a    *)
(* turn implements TurnContract, nothing is replayed twice, a pinned plan  *)
(* was approved, and a task is put back once for each card.  Each part has *)
(* an invariant of its own, proved under the names MCTurns instantiates it *)
(* by; a step of the whole is a step of one part, and the others rest.     *)
(***************************************************************************)
EXTENDS MCTurns, Integers, FiniteSets, FiniteSetTheorems, TLAPS

\* The broker's lemmas, about the variables of MCTurns.
Proved == INSTANCE DecisionBrokerProofs WITH task <- boardTask

\* A step of the whole is a step of one component, and the others rest.
LEMMA StepsOfOne ==
  ASSUME [Next]_vars
  PROVE  /\ [Segments!SegNext]_segmentsVars
         /\ [Stream!StreamNext]_streamVars
         /\ [Transcript!ReplayNext]_replayVars
         /\ [Gate!PlanNext]_planVars
         /\ [Broker!Next]_brokerVars
BY DEF Next, vars, Only
-----------------------------------------------------------------------------
(* How events become rows (SegInv).  Segments are closed, and stored, from *)
(* the front; of the narrations only the last may be unstored, and it is;  *)
(* the rows of the running attempt are its stored segments, in order.      *)
Texts == Seq(Says["reasoning"] \cup Says["narration"])
Segs == Seq([kind : Segments!Kinds, text : Texts, open : BOOLEAN, stored : BOOLEAN, lost : BOOLEAN])
Notes == [kind : Segments!Kinds, text : Texts, of : SUBSET Nat, attempt : Nat]

FromTheFront(segs) ==
  /\ \A i, j \in DOMAIN segs : i < j /\ segs[j].stored => segs[i].stored
  /\ \A i, j \in DOMAIN segs : i < j /\ ~segs[j].open => ~segs[i].open
  /\ \A i \in DOMAIN segs : (segs[i].stored => ~segs[i].open) /\ (segs[i].lost => segs[i].stored)
LastIsKept(segs) ==
  \A i \in DOMAIN segs : segs[i].kind = "narration" /\ segs[i].stored => i # Segments!LastOf(segs, "narration")
OthersAreStored(segs) ==
  \A i \in DOMAIN segs :
    segs[i].kind = "narration" /\ i # Segments!LastOf(segs, "narration") => segs[i].stored

\* The segments that have a row.
Rowed(segs) == {i \in DOMAIN segs : segs[i].stored /\ ~segs[i].lost /\ ~Segments!IsBlank(segs[i].text)}
RowsAre(segs) ==
  /\ \A r \in DOMAIN rows : rows[r].attempt <= attempt
  /\ \A r \in DOMAIN rows : rows[r].attempt = attempt => \E i \in Rowed(segs) : rows[r].of = {i}
  /\ \A i \in Rowed(segs) : \E r \in DOMAIN rows : rows[r].attempt = attempt /\ rows[r].of = {i}
InOrder ==
  \A r, s \in DOMAIN rows :
    r < s /\ rows[r].attempt = rows[s].attempt => \A i \in rows[r].of, j \in rows[s].of : i < j

Streaming ==
  /\ segments \in Segs /\ rows \in Seq(Notes) /\ attempt \in Nat
  /\ FromTheFront(segments) /\ LastIsKept(segments) /\ OthersAreStored(segments)
  /\ RowsAre(segments) /\ InOrder

SegInv == IF phase = "streaming" THEN Streaming ELSE NotesInOrder

LEMMA SameCardinality == \A S : Segments!Cardinality(S) = Cardinality(S)
BY DEF Segments!Cardinality, Cardinality

\* Nth lists a set from the front, each of its elements once.
LEMMA Ranks ==
  ASSUME NEW S \in SUBSET Nat, IsFiniteSet(S)
  PROVE  /\ Cardinality(S) \in Nat
         /\ \A n \in 1..Cardinality(S) : Segments!Nth(S, n) \in S
         /\ \A m, n \in 1..Cardinality(S) : m < n => Segments!Nth(S, m) < Segments!Nth(S, n)
         /\ \A i \in S : \E n \in 1..Cardinality(S) : Segments!Nth(S, n) = i
<1> DEFINE Upto(i) == {j \in S : j <= i}
           rank == [i \in S |-> Cardinality(Upto(i))]
           T == 1..Cardinality(S)
<1>1. Cardinality(S) \in Nat /\ IsFiniteSet(T) /\ Cardinality(T) = Cardinality(S)
  <2>1. Cardinality(S) \in Nat
    BY FS_CardinalityType
  <2>2. \A c \in Nat : IsFiniteSet(1..c) /\ Cardinality(1..c) = c
    BY FS_Interval
  <2> QED
    BY <2>1, <2>2
<1>2. ASSUME NEW i \in S
      PROVE  rank[i] \in T /\ IsFiniteSet(Upto(i)) /\ rank[i] \in Nat
  <2>1. Upto(i) \in SUBSET S /\ i \in Upto(i)
    BY i \in Nat
  <2>2. IsFiniteSet(Upto(i)) /\ Cardinality(Upto(i)) <= Cardinality(S)
    BY <2>1, FS_Subset
  <2>3. Cardinality(Upto(i)) \in Nat /\ Cardinality(Upto(i)) # 0
    BY <2>1, <2>2, FS_CardinalityType, FS_EmptySet
  <2> QED
    BY <1>1, <2>2, <2>3
<1>3. ASSUME NEW i \in S, NEW k \in S, i < k
      PROVE  rank[i] < rank[k]
  <2>1. i \in Nat /\ k \in Nat
    OBVIOUS
  <2>2. Upto(i) \in SUBSET Upto(k) /\ k \in Upto(k) /\ k \notin Upto(i)
    <3>1. \A j \in S : j \in Nat
      OBVIOUS
    <3>2. \A j \in S : j <= i => j <= k
      BY <1>3, <2>1, <3>1
    <3>3. k <= k /\ ~(k <= i)
      BY <1>3, <2>1
    <3> QED
      BY <3>2, <3>3
  <2>3. Cardinality(Upto(i)) <= Cardinality(Upto(k)) /\ Cardinality(Upto(k)) # Cardinality(Upto(i))
    BY <1>2, <2>2, FS_Subset
  <2> QED
    BY <1>2, <2>3
<1>4. rank \in [S -> T]
  BY <1>2
<1> HIDE DEF T
<1>5. rank \in Surjection(S, T)
  <2>1. \A i, k \in S : i = k \/ i < k \/ k < i
    OBVIOUS
  <2> HIDE DEF rank
  <2>2. ASSUME NEW i \in S, NEW k \in S, rank[i] = rank[k]
        PROVE  i = k
    <3>1. rank[i] \in Nat /\ rank[k] \in Nat
      BY <1>2
    <3>2. ~(i < k) /\ ~(k < i)
      BY <1>3, <2>2, <3>1
    <3> QED
      BY <2>1, <3>2
  <2>3. rank \in Injection(S, T)
    BY <1>4, <2>2 DEF Injection, IsInjective
  <2> QED
    BY <1>1, <2>3, FS_Injection
<1>6. ASSUME NEW n \in T
      PROVE  \E i \in S : rank[i] = n /\ Cardinality(Upto(i)) = n
  BY <1>5 DEF Surjection
<1>7. ASSUME NEW n \in T
      PROVE  Segments!Nth(S, n) \in S /\ rank[Segments!Nth(S, n)] = n
  <2>1. \A i \in S : Segments!UpTo(S, i) = Upto(i)
    BY DEF Segments!UpTo
  <2> HIDE DEF Upto
  <2>2. \E i \in S : Segments!Cardinality(Segments!UpTo(S, i)) = n
    BY <1>6, <2>1, SameCardinality
  <2>3. Segments!Nth(S, n) \in S /\ Segments!Cardinality(Segments!UpTo(S, Segments!Nth(S, n))) = n
    BY <2>2 DEF Segments!Nth
  <2>4. Cardinality(Upto(Segments!Nth(S, n))) = n
    BY <2>1, <2>3, SameCardinality
  <2> QED
    BY <2>3, <2>4
<1> HIDE DEF rank
<1>8. \A m, n \in T : m < n => Segments!Nth(S, m) < Segments!Nth(S, n)
  <2>1. ASSUME NEW m \in T, NEW n \in T, m < n, NEW i \in S, NEW k \in S, rank[i] = m, rank[k] = n
        PROVE  i < k
    <3>1. i \in Nat /\ k \in Nat /\ m \in Nat /\ n \in Nat
      BY <1>2, <2>1
    <3>2. i # k /\ ~(k < i)
      BY <1>3, <2>1, <3>1
    <3> QED
      BY <3>1, <3>2
  <2> QED
    BY <1>7, <2>1
<1>9. \A i \in S : \E n \in T : Segments!Nth(S, n) = i
  <2> SUFFICES ASSUME NEW i \in S
               PROVE  Segments!Nth(S, rank[i]) = i /\ rank[i] \in T
    OBVIOUS
  <2>1. rank[i] \in T
    BY <1>4
  <2>2. PICK k \in S : k = Segments!Nth(S, rank[i]) /\ rank[k] = rank[i]
    BY <1>7, <2>1
  <2>3. rank[i] \in Nat /\ rank[k] \in Nat /\ i \in Nat /\ k \in Nat
    BY <1>2
  <2>4. ~(k < i) /\ ~(i < k)
    BY <1>3, <2>2, <2>3
  <2>5. k = i
    BY <2>3, <2>4
  <2> QED
    BY <2>1, <2>2, <2>5
<1> QED
  BY <1>1, <1>7, <1>8, <1>9 DEF T

\* The last segment of a kind.
LEMMA LastIsLast ==
  ASSUME NEW segs \in Segs, NEW kind
  PROVE  LET l == Segments!LastOf(segs, kind) IN
         /\ l = 0 => \A i \in DOMAIN segs : segs[i].kind # kind
         /\ l # 0 => l \in DOMAIN segs /\ segs[l].kind = kind
         /\ \A i \in DOMAIN segs : segs[i].kind = kind => i <= l
         /\ l \in Nat
<1> DEFINE mine == {i \in DOMAIN segs : segs[i].kind = kind}
           l == Segments!LastOf(segs, kind)
<1>1. l = IF mine = {} THEN 0 ELSE CHOOSE i \in mine : \A j \in mine : j <= i
  BY DEF Segments!LastOf
<1>2. Len(segs) \in Nat /\ DOMAIN segs = 1..Len(segs)
  BY DEF Segs
<1>3. mine \in SUBSET Nat /\ IsFiniteSet(mine) /\ 0 \notin mine
  <2>1. \A n \in Nat : IsFiniteSet(1..n)
    BY FS_Interval
  <2>2. mine \in SUBSET (1..Len(segs))
    BY <1>2
  <2> QED
    BY <1>2, <2>1, <2>2, FS_Subset
<1>4. CASE mine = {}
  BY <1>1, <1>4
<1>5. CASE mine # {}
  <2>1. \E i \in mine : \A j \in mine : j <= i
    <3>0. PICK c \in Nat : c = Cardinality(mine)
      BY <1>3, FS_CardinalityType
    <3>1. /\ \A n \in 1..c : Segments!Nth(mine, n) \in mine
          /\ \A m, n \in 1..c : m < n => Segments!Nth(mine, m) < Segments!Nth(mine, n)
          /\ \A i \in mine : \E n \in 1..c : Segments!Nth(mine, n) = i
      BY <1>3, <3>0, Ranks
    <3> HIDE DEF mine
    <3>2. c \in 1..c
      BY <1>5, <3>1
    <3>3. ASSUME NEW j \in mine
          PROVE  j <= Segments!Nth(mine, c)
      <4>1. PICK n \in 1..c : Segments!Nth(mine, n) = j
        BY <3>1
      <4>2. n = c \/ n < c
        OBVIOUS
      <4>3. Segments!Nth(mine, c) \in Nat /\ j \in Nat
        BY <1>3, <3>1, <3>2
      <4> QED
        BY <3>1, <3>2, <4>1, <4>2, <4>3
    <3> QED
      BY <3>1, <3>2, <3>3
  <2>2. l \in mine /\ \A j \in mine : j <= l
    BY <1>1, <1>5, <2>1
  <2> QED
    BY <1>3, <2>2
<1> QED
  BY <1>4, <1>5

LEMMA Joining ==
  ASSUME NEW S, NEW s \in Seq(S), NEW t \in Seq(S), NEW u, u = s \o t, NEW l, l = Len(s)
  PROVE  /\ u \in Seq(S) /\ l \in Nat
         /\ \A i \in DOMAIN s : i \in DOMAIN u /\ u[i] = s[i] /\ i \in Nat
         /\ \A k \in DOMAIN t : l + k \in DOMAIN u /\ u[l + k] = t[k] /\ k \in Nat
         /\ \A i \in DOMAIN u : i \in DOMAIN s \/ \E k \in DOMAIN t : i = l + k
         /\ \A i \in DOMAIN s, k \in DOMAIN t : i < l + k
<1>1. /\ u \in Seq(S) /\ l \in Nat /\ Len(t) \in Nat
      /\ DOMAIN s = 1..l /\ DOMAIN t = 1..Len(t) /\ DOMAIN u = 1..(l + Len(t))
      /\ \A i \in 1..(l + Len(t)) : u[i] = IF i <= l THEN s[i] ELSE t[i - l]
  OBVIOUS
<1>2. \A n, m \in Nat :
        /\ \A i \in 1..n : i \in 1..(n + m) /\ i <= n
        /\ \A k \in 1..m : n + k \in 1..(n + m) /\ ~(n + k <= n) /\ (n + k) - n = k
        /\ \A i \in 1..(n + m) : i \in 1..n \/ (i - n \in 1..m /\ i = n + (i - n))
        /\ \A i \in 1..n, k \in 1..m : i < n + k
  OBVIOUS
<1>3. PICK m \in Nat : m = Len(t)
  BY <1>1
<1>4. \A i \in DOMAIN s : i \in DOMAIN u /\ u[i] = s[i] /\ i \in Nat
  BY <1>1, <1>2, <1>3
<1>5. ASSUME NEW k \in DOMAIN t
      PROVE  l + k \in DOMAIN u /\ u[l + k] = t[k] /\ k \in Nat
  <2>1. k \in 1..m /\ l + k \in 1..(l + m) /\ ~(l + k <= l) /\ (l + k) - l = k
    BY <1>1, <1>2, <1>3
  <2>2. u[l + k] = t[k]
    BY <1>1, <1>3, <2>1
  <2> QED
    BY <1>1, <1>3, <2>1, <2>2
<1>6. ASSUME NEW i \in DOMAIN u
      PROVE  i \in DOMAIN s \/ \E k \in DOMAIN t : i = l + k
  <2>1. i \in 1..l \/ (i - l \in 1..m /\ i = l + (i - l))
    BY <1>1, <1>2, <1>3
  <2> QED
    BY <1>1, <1>3, <2>1
<1>7. \A i \in DOMAIN s, k \in DOMAIN t : i < l + k
  BY <1>1, <1>2, <1>3
<1> QED
  BY <1>1, <1>4, <1>5, <1>6, <1>7

LEMMA JoinedFrom ==
  ASSUME NEW S, NEW s \in Seq(S), NEW t \in Seq(S), NEW i \in DOMAIN (s \o t), i \notin DOMAIN s
  PROVE  \E k \in DOMAIN t : i = Len(s) + k
<1>1. PICK l \in Nat, m \in Nat : l = Len(s) /\ m = Len(t)
  OBVIOUS
<1>2. i \in 1..(l + m) /\ i \notin 1..l /\ DOMAIN t = 1..m
  BY <1>1
<1>3. i - l \in 1..m /\ i = l + (i - l)
  BY <1>2
<1> QED
  BY <1>1, <1>2, <1>3

LEMMA OfTheSet ==
  ASSUME NEW S, NEW s \in Seq(S)
  PROVE  (\A i \in DOMAIN s : s[i] \in S) /\ DOMAIN s = 1..Len(s) /\ Len(s) \in Nat
OBVIOUS

LEMMA SegsAre ==
  ASSUME NEW segs \in Segs
  PROVE  /\ DOMAIN segs \in SUBSET (Nat \ {0}) /\ IsFiniteSet(DOMAIN segs)
         /\ \A i \in DOMAIN segs :
              /\ segs[i] \in [kind : Segments!Kinds, text : Texts, open : BOOLEAN, stored : BOOLEAN,
                              lost : BOOLEAN]
              /\ segs[i].kind \in Segments!Kinds /\ segs[i].text \in Texts
              /\ segs[i].open \in BOOLEAN /\ segs[i].stored \in BOOLEAN /\ segs[i].lost \in BOOLEAN
<1>1. Len(segs) \in Nat /\ DOMAIN segs = 1..Len(segs)
  BY DEF Segs
<1>2. \A n \in Nat : IsFiniteSet(1..n) /\ 1..n \subseteq Nat \ {0}
  BY FS_Interval
<1>3. \A i \in DOMAIN segs : segs[i] \in [kind : Segments!Kinds, text : Texts, open : BOOLEAN,
                                          stored : BOOLEAN, lost : BOOLEAN]
  BY OfTheSet DEF Segs
<1> QED
  BY <1>1, <1>2, <1>3

\* The rows a flush adds are notes of the segments it stores, from the front.
LEMMA RowsOfAre ==
  ASSUME NEW segs \in Segs, NEW is \in SUBSET DOMAIN segs, attempt \in Nat
  PROVE  LET new == Segments!RowsOf(segs, is) IN
         /\ new \in Seq(Notes)
         /\ \A n \in DOMAIN new : new[n].attempt = attempt /\ \E i \in is : new[n].of = {i}
         /\ \A m, n \in DOMAIN new : m < n => \A i \in new[m].of, j \in new[n].of : i < j
         /\ \A i \in is : \E n \in DOMAIN new : new[n].of = {i}
<1> DEFINE new == Segments!RowsOf(segs, is)
           Row(n) == [kind |-> segs[Segments!Nth(is, n)].kind, text |-> segs[Segments!Nth(is, n)].text,
                      of |-> {Segments!Nth(is, n)}, attempt |-> attempt]
<1>1. is \in SUBSET Nat /\ IsFiniteSet(is)
  BY SegsAre, FS_Subset
<1>2. PICK c \in Nat : c = Cardinality(is)
  BY <1>1, FS_CardinalityType
<1>3. /\ \A n \in 1..c : Segments!Nth(is, n) \in is
      /\ \A m, n \in 1..c : m < n => Segments!Nth(is, m) < Segments!Nth(is, n)
      /\ \A i \in is : \E n \in 1..c : Segments!Nth(is, n) = i
  BY <1>1, <1>2, Ranks
<1>4. new = [n \in 1..c |-> Row(n)]
  BY <1>2, SameCardinality DEF Segments!RowsOf, Segments!RowOf
<1>5. \A n \in 1..c : Row(n) \in Notes
  <2> SUFFICES ASSUME NEW n \in 1..c
               PROVE  Row(n) \in Notes
    OBVIOUS
  <2>1. Segments!Nth(is, n) \in DOMAIN segs /\ Segments!Nth(is, n) \in Nat
    BY <1>1, <1>3
  <2> QED
    BY <2>1, SegsAre DEF Notes
<1>6. \A n \in 1..c : Row(n).attempt = attempt /\ Row(n).of = {Segments!Nth(is, n)}
  OBVIOUS
<1> HIDE DEF new, Row
<1>7. /\ new \in Seq(Notes) /\ DOMAIN new = 1..c
      /\ \A n \in 1..c : new[n] = Row(n)
  BY <1>4, <1>5
<1>8. \A n \in DOMAIN new : new[n].attempt = attempt /\ \E i \in is : new[n].of = {i}
  BY <1>3, <1>6, <1>7
<1>9. \A m, n \in DOMAIN new : m < n => \A i \in new[m].of, j \in new[n].of : i < j
  BY <1>3, <1>6, <1>7
<1>10. \A i \in is : \E n \in DOMAIN new : new[n].of = {i}
  BY <1>3, <1>6, <1>7
<1> QED
  BY <1>7, <1>8, <1>9, <1>10 DEF new

\* Rows of fresh segments, put after those of the stored ones.
LEMMA RowsGrow ==
  ASSUME rows \in Seq(Notes), attempt \in Nat, InOrder,
         NEW segs \in Segs, NEW next \in Segs, RowsAre(segs),
         NEW is \in SUBSET DOMAIN segs,
         rows' = rows \o Segments!RowsOf(segs, is), attempt' = attempt,
         \A i \in Rowed(segs), j \in is : i < j,
         Rowed(next) = Rowed(segs) \cup is
  PROVE  rows' \in Seq(Notes) /\ InOrder' /\ RowsAre(next)'
<1> DEFINE new == Segments!RowsOf(segs, is)
<1>1. /\ new \in Seq(Notes)
      /\ \A n \in DOMAIN new : new[n].attempt = attempt /\ \E i \in is : new[n].of = {i}
      /\ \A m, n \in DOMAIN new : m < n => \A i \in new[m].of, j \in new[n].of : i < j
      /\ \A i \in is : \E n \in DOMAIN new : new[n].of = {i}
  BY RowsOfAre
<1>0. rows' = rows \o new
  OBVIOUS
<1> HIDE DEF new
<1>2. PICK l : l = Len(rows)
  OBVIOUS
<1>3. /\ rows' \in Seq(Notes) /\ l \in Nat
      /\ \A i \in DOMAIN rows : i \in DOMAIN rows' /\ rows'[i] = rows[i]
      /\ \A k \in DOMAIN new : l + k \in DOMAIN rows' /\ rows'[l + k] = new[k] /\ k \in Nat
      /\ \A i \in DOMAIN rows' : i \in DOMAIN rows \/ \E k \in DOMAIN new : i = l + k
      /\ \A i \in DOMAIN rows, k \in DOMAIN new : i < l + k
  <2>1. rows' \in Seq(Notes) /\ l \in Nat /\ \A i \in DOMAIN rows, k \in DOMAIN new : i < l + k
    BY <1>0, <1>1, <1>2, Joining
  <2>2. \A i \in DOMAIN rows : i \in DOMAIN rows' /\ rows'[i] = rows[i]
    BY <1>0, <1>1, <1>2, Joining
  <2>3. \A k \in DOMAIN new : l + k \in DOMAIN rows' /\ rows'[l + k] = new[k] /\ k \in Nat
    BY <1>0, <1>1, <1>2, Joining
  <2>4. \A i \in DOMAIN rows' : i \in DOMAIN rows \/ \E k \in DOMAIN new : i = l + k
    <3> SUFFICES ASSUME NEW i \in DOMAIN rows', i \notin DOMAIN rows
                 PROVE  \E k \in DOMAIN new : i = l + k
      OBVIOUS
    <3>1. i \in DOMAIN (rows \o new) /\ rows \in Seq(Notes) /\ new \in Seq(Notes)
      BY <1>0, <1>1
    <3>2. \E k \in DOMAIN new : i = Len(rows) + k
      BY <3>1, JoinedFrom
    <3> QED
      BY <1>2, <3>2
  <2> QED
    BY <2>1, <2>2, <2>3, <2>4
<1>4. /\ \A r \in DOMAIN rows : rows[r].attempt <= attempt
      /\ \A r \in DOMAIN rows : rows[r].attempt = attempt => \E i \in Rowed(segs) : rows[r].of = {i}
      /\ \A i \in Rowed(segs) : \E r \in DOMAIN rows : rows[r].attempt = attempt /\ rows[r].of = {i}
  BY DEF RowsAre
<1>5. ASSUME NEW r \in DOMAIN rows'
      PROVE  /\ rows'[r].attempt <= attempt
             /\ rows'[r].attempt = attempt => \E i \in Rowed(next) : rows'[r].of = {i}
  <2>1. CASE r \in DOMAIN rows
    <3>1. rows'[r] = rows[r]
      BY <1>3, <2>1
    <3> QED
      BY <1>4, <2>1, <3>1
  <2>2. ASSUME NEW k \in DOMAIN new, r = l + k
        PROVE  /\ rows'[r].attempt <= attempt
               /\ rows'[r].attempt = attempt => \E i \in Rowed(next) : rows'[r].of = {i}
    <3>1. rows'[r] = new[k] /\ new[k].attempt = attempt
      BY <1>1, <1>3, <2>2
    <3>2. PICK i \in is : new[k].of = {i}
      BY <1>1
    <3>3. i \in Rowed(next) /\ attempt <= attempt
      OBVIOUS
    <3> QED
      BY <3>1, <3>2, <3>3
  <2> QED
    BY <1>3, <2>1, <2>2
<1>6. ASSUME NEW i \in Rowed(next)
      PROVE  \E r \in DOMAIN rows' : rows'[r].attempt = attempt /\ rows'[r].of = {i}
  <2>1. CASE i \in Rowed(segs)
    BY <1>3, <1>4, <2>1
  <2>2. CASE i \in is
    <3>1. PICK k \in DOMAIN new : new[k].of = {i}
      BY <1>1, <2>2
    <3>2. l + k \in DOMAIN rows' /\ rows'[l + k] = new[k] /\ new[k].attempt = attempt
      BY <1>1, <1>3
    <3> QED
      BY <3>1, <3>2
  <2> QED
    BY <2>1, <2>2
<1>7. Rowed(next)' = Rowed(next)
  BY DEF Rowed, Segments!IsBlank
<1>8. RowsAre(next)'
  BY <1>5, <1>6, <1>7 DEF RowsAre
<1>9. ASSUME NEW r \in DOMAIN rows', NEW s \in DOMAIN rows', r < s, rows'[r].attempt = rows'[s].attempt
      PROVE  \A i \in rows'[r].of, j \in rows'[s].of : i < j
  <2>1. CASE r \in DOMAIN rows /\ s \in DOMAIN rows
    BY <1>3, <1>9, <2>1 DEF InOrder
  <2>2. ASSUME r \in DOMAIN rows, NEW k \in DOMAIN new, s = l + k
        PROVE  \A i \in rows'[r].of, j \in rows'[s].of : i < j
    <3>1. rows'[r] = rows[r] /\ rows'[s] = new[k]
      BY <1>3, <2>2
    <3>2. rows[r].attempt = attempt
      BY <1>1, <1>9, <3>1
    <3>3. PICK i \in Rowed(segs) : rows[r].of = {i}
      BY <1>4, <2>2, <3>2
    <3>4. PICK j \in is : new[k].of = {j}
      BY <1>1
    <3>5. i < j
      OBVIOUS
    <3> QED
      BY <3>1, <3>3, <3>4, <3>5
  <2>3. ASSUME NEW k \in DOMAIN new, r = l + k, NEW m \in DOMAIN new, s = l + m
        PROVE  \A i \in rows'[r].of, j \in rows'[s].of : i < j
    <3>1. k \in Nat /\ m \in Nat /\ l \in Nat
      BY <1>3
    <3>2. k < m
      BY <1>9, <2>3, <3>1
    <3> QED
      BY <1>1, <1>3, <2>3, <3>2
  <2>4. ASSUME NEW k \in DOMAIN new, r = l + k, s \in DOMAIN rows
        PROVE  FALSE
    <3>1. s < r
      BY <1>3, <2>4
    <3>2. r \in Nat /\ s \in Nat
      BY <1>3
    <3> QED
      BY <1>9, <3>1, <3>2
  <2> QED
    BY <1>3, <2>1, <2>2, <2>3, <2>4
<1> QED
  BY <1>3, <1>8, <1>9 DEF InOrder

\* The last of a kind is read off the kinds alone.
LEMMA SameLast ==
  ASSUME NEW a, NEW b, DOMAIN a = DOMAIN b, \A i \in DOMAIN a : a[i].kind = b[i].kind, NEW kind
  PROVE  Segments!LastOf(a, kind) = Segments!LastOf(b, kind)
<1> DEFINE A == {i \in DOMAIN a : a[i].kind = kind}
           B == {i \in DOMAIN b : b[i].kind = kind}
<1>1. A = B
  OBVIOUS
<1>2. /\ Segments!LastOf(a, kind) = IF A = {} THEN 0 ELSE CHOOSE i \in A : \A j \in A : j <= i
      /\ Segments!LastOf(b, kind) = IF B = {} THEN 0 ELSE CHOOSE i \in B : \A j \in B : j <= i
  BY DEF Segments!LastOf
<1> HIDE DEF A, B
<1> QED
  BY <1>1, <1>2

LEMMA SettledIs ==
  ASSUME NEW segs \in Segs
  PROVE  /\ Segments!Settled(segs) \subseteq DOMAIN segs
         /\ \A i \in Segments!Settled(segs) : ~segs[i].open /\ i # Segments!LastOf(segs, "narration")
         /\ \A i \in DOMAIN segs, j \in Segments!Settled(segs) : i < j => i \in Segments!Settled(segs)
<1>1. DOMAIN segs \in SUBSET (Nat \ {0})
  BY SegsAre
<1>2. \A i, j \in Nat \ {0} : i \in 1..i /\ (i < j => \A k \in 1..i : k \in 1..j)
  OBVIOUS
<1> QED
  BY <1>1, <1>2 DEF Segments!Settled

LEMMA FlushKeeps ==
  ASSUME rows \in Seq(Notes), attempt \in Nat, InOrder, attempt' = attempt,
         NEW segs \in Segs, FromTheFront(segs), LastIsKept(segs), RowsAre(segs),
         \A i \in DOMAIN segs :
           segs[i].kind = "narration" /\ i # Segments!LastOf(segs, "narration") =>
             segs[i].stored \/ i \in Segments!Settled(segs),
         Segments!Flush(segs)
  PROVE  Streaming'
<1> DEFINE S == Segments!Settled(segs)
           last == Segments!LastOf(segs, "narration")
<1>1. PICK failing \in SUBSET Segments!Unwritten(segs) :
        /\ rows' = rows \o Segments!RowsOf(segs, Segments!Unwritten(segs) \ failing)
        /\ segments' = [i \in DOMAIN segs |->
                          IF i \in S THEN [segs[i] EXCEPT !.stored = TRUE, !.lost = i \in failing \/ @]
                          ELSE segs[i]]
  BY DEF Segments!Flush
<1>2. /\ S \subseteq DOMAIN segs
      /\ \A i \in S : ~segs[i].open /\ i # last
      /\ \A i \in DOMAIN segs, j \in S : i < j => i \in S
  BY SettledIs
<1>3. PICK next : next = segments'
  OBVIOUS
<1>4. Segments!Unwritten(segs) = {i \in S : ~segs[i].stored /\ ~Segments!IsBlank(segs[i].text)}
  BY DEF Segments!Unwritten
<1> HIDE DEF S, last
<1>5. ASSUME NEW i \in DOMAIN segs
      PROVE  /\ next[i] \in [kind : Segments!Kinds, text : Texts, open : BOOLEAN, stored : BOOLEAN,
                             lost : BOOLEAN]
             /\ next[i].kind = segs[i].kind /\ next[i].text = segs[i].text /\ next[i].open = segs[i].open
             /\ next[i].stored <=> (segs[i].stored \/ i \in S)
             /\ next[i].lost <=> (segs[i].lost \/ i \in failing)
  <2>1. segs[i] \in [kind : Segments!Kinds, text : Texts, open : BOOLEAN, stored : BOOLEAN, lost : BOOLEAN]
    BY SegsAre
  <2>2. i \in failing => i \in S
    BY <1>4
  <2>3. CASE i \in S
    <3>1. PICK b \in BOOLEAN : b <=> (i \in failing \/ segs[i].lost)
      OBVIOUS
    <3>2. next[i] = [segs[i] EXCEPT !.stored = TRUE, !.lost = b]
      BY <1>1, <1>3, <2>1, <2>3, <3>1
    <3>3. next[i].lost = b /\ next[i].stored = TRUE
      BY <2>1, <3>2
    <3> QED
      BY <2>1, <2>3, <3>1, <3>2, <3>3
  <2>4. CASE i \notin S
    <3>1. next[i] = segs[i]
      BY <1>1, <1>3, <2>4
    <3> QED
      BY <2>1, <2>2, <2>4, <3>1
  <2> QED
    BY <2>3, <2>4
<1>6. next \in Segs /\ DOMAIN next = DOMAIN segs
  <2>1. DOMAIN next = DOMAIN segs /\ DOMAIN segs = 1..Len(segs) /\ Len(segs) \in Nat
    BY <1>1, <1>3, OfTheSet DEF Segs
  <2>2. next = [i \in DOMAIN segs |-> next[i]]
    BY <1>1, <1>3
  <2> QED
    BY <1>5, <2>1, <2>2 DEF Segs
<1>7. Segments!LastOf(next, "narration") = last
  BY <1>5, <1>6, SameLast DEF last
<1>8. FromTheFront(next)
  <2>1. /\ \A i, j \in DOMAIN segs : i < j /\ segs[j].stored => segs[i].stored
        /\ \A i, j \in DOMAIN segs : i < j /\ ~segs[j].open => ~segs[i].open
        /\ \A i \in DOMAIN segs : (segs[i].stored => ~segs[i].open) /\ (segs[i].lost => segs[i].stored)
    BY DEF FromTheFront
  <2>2. \A i, j \in DOMAIN next : i < j /\ next[j].stored => next[i].stored
    BY <1>2, <1>5, <1>6, <2>1
  <2>3. \A i, j \in DOMAIN next : i < j /\ ~next[j].open => ~next[i].open
    BY <1>5, <1>6, <2>1
  <2>4. \A i \in DOMAIN next : (next[i].stored => ~next[i].open) /\ (next[i].lost => next[i].stored)
    BY <1>2, <1>4, <1>5, <1>6, <2>1
  <2> QED
    BY <2>2, <2>3, <2>4 DEF FromTheFront
<1>9. LastIsKept(next)
  BY <1>2, <1>5, <1>6, <1>7 DEF LastIsKept, last
<1>10. OthersAreStored(next)
  BY <1>5, <1>6, <1>7 DEF OthersAreStored, last, S
<1> DEFINE is == Segments!Unwritten(segs) \ failing
<1>11. Rowed(next) = Rowed(segs) \cup is
  <2>1. ASSUME NEW i \in DOMAIN segs
        PROVE  i \in Rowed(next) <=> (i \in Rowed(segs) \/ i \in is)
    <3>1. /\ segs[i].lost => segs[i].stored
          /\ i \in failing => i \in S /\ ~segs[i].stored
          /\ i \in is <=> i \in S /\ ~segs[i].stored /\ ~Segments!IsBlank(segs[i].text) /\ i \notin failing
      BY <1>4 DEF FromTheFront
    <3>2. /\ i \in Rowed(next) <=> next[i].stored /\ ~next[i].lost /\ ~Segments!IsBlank(segs[i].text)
          /\ i \in Rowed(segs) <=> segs[i].stored /\ ~segs[i].lost /\ ~Segments!IsBlank(segs[i].text)
      BY <1>5, <1>6 DEF Rowed
    <3> QED
      BY <1>5, <3>1, <3>2
  <2>2. Rowed(next) \subseteq DOMAIN segs /\ Rowed(segs) \subseteq DOMAIN segs /\ is \subseteq DOMAIN segs
    BY <1>2, <1>4, <1>6 DEF Rowed
  <2> QED
    BY <2>1, <2>2
<1>12. \A i \in Rowed(segs), j \in is : i < j
  <2> SUFFICES ASSUME NEW i \in Rowed(segs), NEW j \in is PROVE i < j
    OBVIOUS
  <2>1. i \in DOMAIN segs /\ j \in DOMAIN segs /\ segs[i].stored /\ ~segs[j].stored
    BY <1>2, <1>4 DEF Rowed
  <2>2. i \in Nat /\ j \in Nat
    BY <2>1, SegsAre
  <2>3. i # j /\ ~(j < i)
    BY <2>1 DEF FromTheFront
  <2> QED
    BY <2>2, <2>3
<1>13. is \in SUBSET DOMAIN segs /\ rows' = rows \o Segments!RowsOf(segs, is)
  BY <1>1, <1>2, <1>4
<1> HIDE DEF is
<1>14. rows' \in Seq(Notes) /\ InOrder' /\ RowsAre(next)'
  BY <1>6, <1>11, <1>12, <1>13, RowsGrow
<1>15. RowsAre(segments)'
  <2>1. \A i \in DOMAIN next : segments'[i] = next[i] /\ (Segments!IsBlank(segments[i].text)' <=> Segments!IsBlank(next[i].text)')
    BY <1>3 DEF Segments!IsBlank
  <2>2. Rowed(segments)' = Rowed(next)'
    BY <1>3, <2>1 DEF Rowed
  <2> QED
    BY <1>14, <2>2 DEF RowsAre
<1>16. FromTheFront(segments)'
  BY <1>3, <1>8 DEF FromTheFront
<1>17. (Segments!LastOf(segments, "narration"))' = Segments!LastOf(next, "narration")
  BY <1>3 DEF Segments!LastOf
<1>18. LastIsKept(segments)' /\ OthersAreStored(segments)'
  BY <1>3, <1>9, <1>10, <1>17 DEF LastIsKept, OthersAreStored
<1> QED
  BY <1>3, <1>6, <1>14, <1>15, <1>16, <1>18 DEF Streaming

\* What holds of the next segments holds in the next state.
LEMMA Carry ==
  ASSUME NEW next \in Segs, next = segments', UNCHANGED <<rows, attempt>>,
         rows \in Seq(Notes), attempt \in Nat, InOrder,
         FromTheFront(next), LastIsKept(next), OthersAreStored(next), RowsAre(next)
  PROVE  Streaming'
<1>1. RowsAre(segments)'
  <2>1. \A i \in DOMAIN next : segments'[i] = next[i] /\ (Segments!IsBlank(segments[i].text)' <=> Segments!IsBlank(next[i].text))
    BY DEF Segments!IsBlank
  <2>2. Rowed(segments)' = Rowed(next)
    BY <2>1 DEF Rowed
  <2> QED
    BY <2>2 DEF RowsAre
<1>2. FromTheFront(segments)'
  BY DEF FromTheFront
<1>3. (Segments!LastOf(segments, "narration"))' = Segments!LastOf(next, "narration")
  BY DEF Segments!LastOf
<1>4. LastIsKept(segments)' /\ OthersAreStored(segments)'
  BY <1>3 DEF LastIsKept, OthersAreStored
<1>5. InOrder'
  BY DEF InOrder
<1> QED
  BY <1>1, <1>2, <1>4, <1>5 DEF Streaming

LEMMA AppendIs ==
  ASSUME NEW S, NEW q \in Seq(S), NEW x \in S, NEW r, r = Append(q, x), NEW k, k = Len(q) + 1
  PROVE  /\ r \in Seq(S) /\ r[k] = x /\ k \in DOMAIN r /\ k \in Nat /\ k > 0 /\ Len(r) = k
         /\ \A i \in DOMAIN q : i \in DOMAIN r /\ r[i] = q[i] /\ i < k
         /\ \A i \in DOMAIN r : i \in DOMAIN q \/ i = k
OBVIOUS

LEMMA SeqOf ==
  ASSUME NEW S, NEW n \in Nat, NEW s, s = [i \in 1..n |-> s[i]], \A i \in 1..n : s[i] \in S
  PROVE  s \in Seq(S)
OBVIOUS

LEMMA StreamingIs ==
  ASSUME Streaming
  PROVE  /\ segments \in Segs /\ rows \in Seq(Notes) /\ attempt \in Nat /\ InOrder
         /\ FromTheFront(segments) /\ LastIsKept(segments) /\ OthersAreStored(segments) /\ RowsAre(segments)
         /\ DOMAIN segments = 1..Len(segments) /\ Len(segments) \in Nat
BY OfTheSet DEF Streaming, Segs

\* A new segment is opened.
LEMMA OpenKeeps ==
  ASSUME Streaming, NEW kind \in Segments!Kinds, NEW text \in Texts,
         ~Segments!IsOpen(Segments!LastOf(segments, kind)),
         Segments!Open(kind, text), attempt' = attempt
  PROVE  Streaming'
<1>1. PICK x : x = [kind |-> kind, text |-> text, open |-> TRUE, stored |-> FALSE, lost |-> FALSE]
  OBVIOUS
<1>2. PICK segs, k : segs = Append(segments, x) /\ k = Len(segments) + 1
  OBVIOUS
<1>3. x \in [kind : Segments!Kinds, text : Texts, open : BOOLEAN, stored : BOOLEAN, lost : BOOLEAN]
  BY <1>1
<1>4. /\ segs \in Segs /\ segs[k] = x /\ k \in DOMAIN segs /\ k \in Nat /\ k > 0
      /\ \A i \in DOMAIN segments : i \in DOMAIN segs /\ segs[i] = segments[i] /\ i < k
      /\ \A i \in DOMAIN segs : i \in DOMAIN segments \/ i = k
  <2>1. segs = Append(segments, x) /\ segments \in Segs
    BY <1>2, StreamingIs
  <2> QED
    BY <1>2, <1>3, <2>1, AppendIs DEF Segs
<1>5. /\ \A i, j \in DOMAIN segments : i < j /\ segments[j].stored => segments[i].stored
      /\ \A i, j \in DOMAIN segments : i < j /\ ~segments[j].open => ~segments[i].open
      /\ \A i \in DOMAIN segments : /\ segments[i].stored => ~segments[i].open
                                    /\ segments[i].lost => segments[i].stored
      /\ DOMAIN segments \in SUBSET Nat
  BY StreamingIs, SegsAre DEF FromTheFront
<1>6. FromTheFront(segs)
  <2>1. \A i, j \in DOMAIN segs : i < j /\ segs[j].stored => segs[i].stored
    BY <1>1, <1>4, <1>5
  <2>2. \A i, j \in DOMAIN segs : i < j /\ ~segs[j].open => ~segs[i].open
    BY <1>1, <1>4, <1>5
  <2>3. \A i \in DOMAIN segs : (segs[i].stored => ~segs[i].open) /\ (segs[i].lost => segs[i].stored)
    BY <1>1, <1>4, <1>5
  <2> QED
    BY <2>1, <2>2, <2>3 DEF FromTheFront
<1>7. PICK old \in Nat, last \in Nat :
        /\ old = Segments!LastOf(segments, "narration") /\ last = Segments!LastOf(segs, "narration")
        /\ old = 0 => \A i \in DOMAIN segments : segments[i].kind # "narration"
        /\ old # 0 => old \in DOMAIN segments /\ segments[old].kind = "narration"
        /\ \A i \in DOMAIN segments : segments[i].kind = "narration" => i <= old
        /\ last = 0 => \A i \in DOMAIN segs : segs[i].kind # "narration"
        /\ last # 0 => last \in DOMAIN segs /\ segs[last].kind = "narration"
        /\ \A i \in DOMAIN segs : segs[i].kind = "narration" => i <= last
  BY <1>4, StreamingIs, LastIsLast
<1>8. last = IF kind = "narration" THEN k ELSE old
  <2>1. CASE kind = "narration"
    BY <1>1, <1>4, <1>7, <2>1
  <2>2. CASE kind # "narration"
    <3>1. last # k
      BY <1>1, <1>4, <1>7, <2>2
    <3>2. CASE old = 0
      BY <1>1, <1>4, <1>7, <2>2, <3>1, <3>2
    <3>3. CASE old # 0
      <4>1. old <= last /\ last # 0
        BY <1>4, <1>7, <3>3
      <4>2. last \in DOMAIN segments /\ segments[last].kind = "narration"
        BY <1>4, <1>7, <3>1, <4>1
      <4>3. last <= old
        BY <1>7, <4>2
      <4> QED
        BY <2>2, <4>1, <4>3
    <3> QED
      BY <3>2, <3>3
  <2> QED
    BY <2>1, <2>2
<1>9. LastIsKept(segs)
  BY <1>1, <1>4, <1>7, <1>8, StreamingIs DEF LastIsKept
<1>10. Rowed(segs) = Rowed(segments)
  BY <1>1, <1>4 DEF Rowed
<1>11. RowsAre(segs)
  BY <1>10, StreamingIs DEF RowsAre
<1>12. ASSUME NEW i \in DOMAIN segs, segs[i].kind = "narration", i # last
       PROVE  segs[i].stored \/ i \in Segments!Settled(segs)
  <2>1. i \in DOMAIN segments /\ segments[i] = segs[i]
    BY <1>1, <1>4, <1>7, <1>8, <1>12
  <2>2. CASE kind # "narration"
    BY <1>7, <1>8, <1>12, <2>1, <2>2, StreamingIs DEF OthersAreStored
  <2>3. CASE kind = "narration"
    <3>1. old \in DOMAIN segments /\ ~segments[old].open /\ i <= old
      BY <1>7, <1>12, <2>1, <2>3 DEF Segments!IsOpen
    <3>2. ASSUME NEW j \in 1..i
          PROVE  ~segs[j].open /\ j # last
      <4>1. j \in DOMAIN segments /\ j \in Nat /\ j <= old
        <5>1. i \in 1..Len(segments) /\ Len(segments) \in Nat /\ DOMAIN segments = 1..Len(segments)
          BY <2>1, StreamingIs
        <5> QED
          BY <1>7, <3>1, <5>1
      <4>2. ~segments[j].open
        BY <1>5, <1>7, <3>1, <4>1
      <4> QED
        BY <1>4, <1>8, <2>3, <4>1, <4>2
    <3>3. i \in Segments!Settled(segs)
      BY <1>7, <3>2 DEF Segments!Settled
    <3> QED
      BY <3>3
  <2> QED
    BY <2>2, <2>3
<1>13. Segments!Flush(segs)
  BY <1>1, <1>2 DEF Segments!Open
<1> QED
  BY <1>4, <1>6, <1>7, <1>9, <1>11, <1>12, <1>13, StreamingIs, FlushKeeps

\* A tool call closes every segment.
LEMMA ToolUseKeeps ==
  ASSUME Streaming, Segments!ToolUse
  PROVE  Streaming'
<1>1. PICK segs : segs = [i \in DOMAIN segments |-> [segments[i] EXCEPT !.open = FALSE]]
  OBVIOUS
<1>2. Segments!Flush(segs) /\ attempt' = attempt
  BY <1>1 DEF Segments!ToolUse, Segments!Consume
<1>3. ASSUME NEW i \in DOMAIN segments
      PROVE  /\ segs[i] \in [kind : Segments!Kinds, text : Texts, open : BOOLEAN, stored : BOOLEAN,
                             lost : BOOLEAN]
             /\ segs[i].kind = segments[i].kind /\ segs[i].text = segments[i].text /\ segs[i].open = FALSE
             /\ segs[i].stored = segments[i].stored /\ segs[i].lost = segments[i].lost
  <2>1. segments[i] \in [kind : Segments!Kinds, text : Texts, open : BOOLEAN, stored : BOOLEAN,
                         lost : BOOLEAN]
    BY StreamingIs, SegsAre
  <2>2. segs[i] = [segments[i] EXCEPT !.open = FALSE]
    BY <1>1
  <2> QED
    BY <2>1, <2>2
<1>4. segs \in Segs /\ DOMAIN segs = DOMAIN segments
  <2>1. DOMAIN segs = DOMAIN segments /\ segs = [i \in DOMAIN segments |-> segs[i]]
    BY <1>1
  <2>2. DOMAIN segments = 1..Len(segments) /\ Len(segments) \in Nat
    BY StreamingIs
  <2> QED
    BY <1>3, <2>1, <2>2, SeqOf DEF Segs
<1>5. Segments!LastOf(segs, "narration") = Segments!LastOf(segments, "narration")
  <2>1. DOMAIN segments = DOMAIN segs /\ \A i \in DOMAIN segments : segments[i].kind = segs[i].kind
    BY <1>3, <1>4
  <2> QED
    BY <2>1, SameLast
<1>6. FromTheFront(segs)
  BY <1>3, <1>4, StreamingIs DEF FromTheFront
<1>7. LastIsKept(segs)
  BY <1>3, <1>4, <1>5, StreamingIs DEF LastIsKept
<1>8. Rowed(segs) = Rowed(segments)
  BY <1>3, <1>4 DEF Rowed
<1>9. RowsAre(segs)
  BY <1>8, StreamingIs DEF RowsAre
<1>10. \A i \in DOMAIN segs :
         segs[i].kind = "narration" /\ i # Segments!LastOf(segs, "narration") => segs[i].stored
  BY <1>3, <1>4, <1>5, StreamingIs DEF OthersAreStored
<1> QED
  BY <1>2, <1>4, <1>6, <1>7, <1>9, <1>10, StreamingIs, FlushKeeps

\* An open segment's text grows or is replaced.
LEMMA WriteKeeps ==
  ASSUME Streaming, NEW i, Segments!IsOpen(i), i \in DOMAIN segments, NEW text \in Texts,
         segments' = [segments EXCEPT ![i].text = text], UNCHANGED <<rows, attempt>>
  PROVE  Streaming'
<1>1. PICK next : next = segments'
  OBVIOUS
<1>2. ASSUME NEW j \in DOMAIN segments
      PROVE  /\ next[j] \in [kind : Segments!Kinds, text : Texts, open : BOOLEAN, stored : BOOLEAN,
                             lost : BOOLEAN]
             /\ next[j].kind = segments[j].kind /\ next[j].open = segments[j].open
             /\ next[j].stored = segments[j].stored /\ next[j].lost = segments[j].lost
             /\ next[j].text = segments[j].text \/ j = i
  <2>1. segments[j] \in [kind : Segments!Kinds, text : Texts, open : BOOLEAN, stored : BOOLEAN,
                         lost : BOOLEAN]
    BY StreamingIs, SegsAre
  <2>2. next[j] = IF j = i THEN [segments[j] EXCEPT !.text = text] ELSE segments[j]
    BY <1>1
  <2> QED
    BY <2>1, <2>2
<1>3. next \in Segs /\ DOMAIN next = DOMAIN segments
  <2>1. DOMAIN next = DOMAIN segments /\ next = [j \in DOMAIN segments |-> next[j]]
    BY <1>1
  <2> QED
    BY <1>2, <2>1, StreamingIs DEF Segs
<1>4. Segments!LastOf(next, "narration") = Segments!LastOf(segments, "narration")
  BY <1>2, <1>3, SameLast
<1>5. segments[i].open /\ ~segments[i].stored
  BY StreamingIs DEF Segments!IsOpen, FromTheFront
<1>6. Rowed(next) = Rowed(segments)
  BY <1>2, <1>3, <1>5 DEF Rowed
<1>7. FromTheFront(next) /\ LastIsKept(next) /\ OthersAreStored(next)
  BY <1>2, <1>3, <1>4, StreamingIs DEF FromTheFront, LastIsKept, OthersAreStored
<1>8. RowsAre(next)
  BY <1>6, StreamingIs DEF RowsAre
<1> QED
  BY <1>1, <1>3, <1>7, <1>8, StreamingIs, Carry

LEMMA ProviderKeeps ==
  ASSUME Streaming, Segments!Provider
  PROVE  Streaming'
<1>1. ASSUME NEW kind \in Segments!Kinds, NEW token \in Says[kind]
      PROVE  /\ token \in Says["reasoning"] \cup Says["narration"] /\ <<token>> \in Texts
             /\ \A i \in DOMAIN segments : Append(segments[i].text, token) \in Texts
  <2>1. token \in Says["reasoning"] \cup Says["narration"]
    BY DEF Segments!Kinds
  <2>2. \A i \in DOMAIN segments : segments[i].text \in Texts
    BY StreamingIs, SegsAre
  <2> QED
    BY <2>1, <2>2 DEF Texts
<1>2. ASSUME NEW kind \in Segments!Kinds, NEW i, Segments!IsOpen(i), i = Segments!LastOf(segments, kind)
      PROVE  i \in DOMAIN segments
  <2>1. i # 0
    BY <1>2 DEF Segments!IsOpen
  <2> QED
    BY <1>2, <2>1, StreamingIs, LastIsLast
<1>3. ASSUME NEW kind \in Segments!Kinds, NEW token \in Says[kind], Segments!Delta(kind, token)
      PROVE  Streaming'
  <2>1. PICK i : i = Segments!LastOf(segments, kind)
    OBVIOUS
  <2>2. UNCHANGED attempt
    BY <1>3 DEF Segments!Delta, Segments!Consume
  <2>3. CASE Segments!IsOpen(i)
    <3>1. UNCHANGED rows /\ segments' = [segments EXCEPT ![i].text = Append(@, token)]
      BY <1>3, <2>1, <2>3 DEF Segments!Delta
    <3>2. i \in DOMAIN segments
      BY <1>2, <2>1, <2>3
    <3>3. segments' = [segments EXCEPT ![i].text = Append(segments[i].text, token)]
      BY <3>1, <3>2
    <3>4. Append(segments[i].text, token) \in Texts
      BY <1>1, <3>2
    <3> QED
      BY <2>2, <2>3, <3>1, <3>2, <3>3, <3>4, WriteKeeps
  <2>4. CASE ~Segments!IsOpen(i)
    <3>1. Segments!Open(kind, <<token>>)
      BY <1>3, <2>1, <2>4 DEF Segments!Delta
    <3> QED
      BY <1>1, <2>1, <2>2, <2>4, <3>1, OpenKeeps
  <2> QED
    BY <2>3, <2>4
<1>4. ASSUME NEW kind \in Segments!Kinds, NEW token \in Says[kind], Segments!Block(kind, <<token>>)
      PROVE  Streaming'
  <2>1. PICK i : i = Segments!LastOf(segments, kind)
    OBVIOUS
  <2>2. UNCHANGED attempt /\ <<token>> \in Texts
    BY <1>1, <1>4 DEF Segments!Block, Segments!Consume
  <2>3. CASE Segments!IsOpen(i)
    <3>1. UNCHANGED rows /\ segments' = [segments EXCEPT ![i].text = <<token>>]
      BY <1>4, <2>1, <2>3 DEF Segments!Block
    <3>2. i \in DOMAIN segments
      BY <1>2, <2>1, <2>3
    <3> QED
      BY <2>2, <2>3, <3>1, <3>2, WriteKeeps
  <2>4. CASE ~Segments!IsOpen(i)
    <3>1. Segments!Open(kind, <<token>>) \/ UNCHANGED <<segments, rows>>
      BY <1>4, <2>1, <2>4 DEF Segments!Block
    <3> QED
      BY <2>1, <2>2, <2>4, <3>1, OpenKeeps, StreamingIs, Carry
  <2> QED
    BY <2>3, <2>4
<1> QED
  BY <1>3, <1>4, ToolUseKeeps DEF Segments!Provider

\* What the rows are while the turn runs.
LEMMA NotesAre ==
  ASSUME Streaming
  PROVE  /\ \A r \in DOMAIN rows : rows[r].kind \in {"reasoning", "narration"} /\ r \in Nat
         /\ \A r \in DOMAIN rows : rows[r].attempt \in Nat /\ rows[r].attempt <= attempt
         /\ \A r \in DOMAIN rows : rows[r].attempt = attempt =>
              \E i \in DOMAIN segments : /\ rows[r].of = {i} /\ segments[i].stored /\ ~segments[i].lost
                                         /\ ~Segments!IsBlank(segments[i].text)
         /\ Segments!NotesInOrder
<1>1. \A r \in DOMAIN rows : rows[r] \in Notes /\ r \in Nat
  BY StreamingIs, OfTheSet
<1>2. \A r \in DOMAIN rows : rows[r].kind \in {"reasoning", "narration"} /\ rows[r].attempt \in Nat
  BY <1>1 DEF Notes, Segments!Kinds
<1>3. Segments!NotesInOrder
  BY StreamingIs DEF Segments!NotesInOrder, InOrder, FromTheFront
<1> QED
  BY <1>1, <1>2, <1>3, StreamingIs DEF RowsAre, Rowed

LEMMA PairIs ==
  ASSUME NEW t, NEW a, NEW s, s = <<t>> \o <<a>>
  PROVE  s \in Seq({t, a}) /\ DOMAIN s = {1, 2} /\ s[1] = t /\ s[2] = a /\ Len(s) = 2
<1>1. <<t>> \in Seq({t, a}) /\ <<a>> \in Seq({t, a}) /\ Len(<<t>>) = 1 /\ Len(<<a>>) = 1
  OBVIOUS
<1>2. s \in Seq({t, a}) /\ Len(s) = 2
  BY <1>1
<1>3. DOMAIN s = {1, 2}
  BY <1>2
<1>4. s[1] = t /\ s[2] = a
  BY <1>1, <1>3
<1> QED
  BY <1>2, <1>3, <1>4

\* The tail of the turn: the reasoning left, then the answer.
LEMMA TailIs ==
  ASSUME Streaming
  PROVE  LET tail == Segments!FinalRows
             thoughts == Segments!Left("reasoning")
             answer == Segments!LastOf(segments, "narration")
         IN  \E X : /\ tail \in Seq(X)
                    /\ \A k \in DOMAIN tail :
                         /\ tail[k].attempt = attempt
                         /\ \/ tail[k].kind = "reasoning" /\ tail[k].of = thoughts /\ k = 1
                            \/ /\ tail[k].kind = "message" /\ tail[k].of = {answer} /\ k = Len(tail)
                               /\ answer \in Segments!Left("narration")
                    /\ \A k, m \in DOMAIN tail : k < m => tail[m].kind = "message"
                    /\ thoughts # {} => \E k \in DOMAIN tail : tail[k].kind = "reasoning"
                    /\ answer \in Segments!Left("narration") => \E k \in DOMAIN tail : tail[k].kind = "message"
<1> DEFINE tail == Segments!FinalRows
           thoughts == Segments!Left("reasoning")
           answer == Segments!LastOf(segments, "narration")
<1>1. PICK t, a : /\ t = [kind |-> "reasoning", text |-> Segments!Joined(thoughts), of |-> thoughts, attempt |-> attempt]
                  /\ a = [kind |-> "message", text |-> segments[answer].text, of |-> {answer}, attempt |-> attempt]
  OBVIOUS
<1>2. tail = (IF thoughts = {} THEN <<>> ELSE <<t>>)
               \o (IF answer \in Segments!Left("narration") THEN <<a>> ELSE <<>>)
  BY <1>1 DEF Segments!FinalRows, Segments!RowOf
<1>3. /\ t.kind = "reasoning" /\ t.of = thoughts /\ t.attempt = attempt
      /\ a.kind = "message" /\ a.of = {answer} /\ a.attempt = attempt
  BY <1>1
<1> HIDE DEF tail, thoughts, answer
<1>4. CASE thoughts = {} /\ answer \notin Segments!Left("narration")
  <2>1. tail = <<>>
    BY <1>2, <1>4
  <2> QED
    BY <1>4, <2>1 DEF tail, thoughts, answer
<1>5. CASE thoughts # {} /\ answer \notin Segments!Left("narration")
  <2>1. tail = <<t>>
    BY <1>2, <1>5
  <2>2. tail \in Seq({t}) /\ DOMAIN tail = {1} /\ tail[1] = t
    BY <2>1
  <2> QED
    BY <1>3, <1>5, <2>2 DEF tail, thoughts, answer
<1>6. CASE thoughts = {} /\ answer \in Segments!Left("narration")
  <2>1. tail = <<a>>
    BY <1>2, <1>6
  <2>2. tail \in Seq({a}) /\ DOMAIN tail = {1} /\ tail[1] = a /\ Len(tail) = 1
    BY <2>1
  <2> QED
    BY <1>3, <1>6, <2>2 DEF tail, thoughts, answer
<1>7. CASE thoughts # {} /\ answer \in Segments!Left("narration")
  <2>1. tail = <<t>> \o <<a>>
    BY <1>2, <1>7
  <2>2. tail \in Seq({t, a}) /\ DOMAIN tail = {1, 2} /\ tail[1] = t /\ tail[2] = a /\ Len(tail) = 2
    BY <2>1, PairIs
  <2>3. ~(1 < 1) /\ ~(2 < 1) /\ 1 < 2
    OBVIOUS
  <2>4. /\ \A k \in DOMAIN tail :
             /\ tail[k].attempt = attempt
             /\ \/ tail[k].kind = "reasoning" /\ tail[k].of = thoughts /\ k = 1
                \/ /\ tail[k].kind = "message" /\ tail[k].of = {answer} /\ k = Len(tail)
                   /\ answer \in Segments!Left("narration")
        /\ \A k, m \in DOMAIN tail : k < m => tail[m].kind = "message"
        /\ \E k \in DOMAIN tail : tail[k].kind = "reasoning"
        /\ \E k \in DOMAIN tail : tail[k].kind = "message"
    BY <1>3, <1>7, <2>2, <2>3
  <2> QED
    BY <2>2, <2>4 DEF tail, thoughts, answer
<1> QED
  BY <1>4, <1>5, <1>6, <1>7


LEMMA Wider ==
  ASSUME NEW S, NEW T, S \subseteq T, NEW q \in Seq(S)
  PROVE  q \in Seq(T)
<1>1. Len(q) \in Nat /\ q = [i \in 1..Len(q) |-> q[i]]
  OBVIOUS
<1>2. \A i \in 1..Len(q) : q[i] \in S
  BY OfTheSet
<1>3. \A i \in 1..Len(q) : q[i] \in T
  BY <1>2
<1> QED
  BY <1>1, <1>3, SeqOf

\* The rows of a turn and its tail, one after the other.
LEMMA TailJoins ==
  ASSUME rows \in Seq(Notes), NEW X, NEW tail \in Seq(X), rows' = rows \o tail, NEW l, l = Len(rows)
  PROVE  /\ l \in Nat
         /\ \A r \in DOMAIN rows : r \in DOMAIN rows' /\ rows'[r] = rows[r] /\ r \in Nat
         /\ \A k \in DOMAIN tail : l + k \in DOMAIN rows' /\ rows'[l + k] = tail[k] /\ k \in Nat
         /\ \A r \in DOMAIN rows, k \in DOMAIN tail : r < l + k
         /\ \A k \in DOMAIN tail : k = Len(tail) => l + k = Len(rows')
<1>1. PICK Y : Y = Notes \cup X
  OBVIOUS
<1>2. rows \in Seq(Y) /\ tail \in Seq(Y)
  <2>1. Notes \subseteq Y /\ X \subseteq Y
    BY <1>1
  <2> QED
    BY <2>1, Wider
<1>3. l \in Nat /\ \A r \in DOMAIN rows, k \in DOMAIN tail : r < l + k
  BY <1>2, Joining
<1>4. \A r \in DOMAIN rows : r \in DOMAIN rows' /\ rows'[r] = rows[r] /\ r \in Nat
  BY <1>2, Joining
<1>5. \A k \in DOMAIN tail : l + k \in DOMAIN rows' /\ rows'[l + k] = tail[k] /\ k \in Nat
  BY <1>2, Joining
<1>6. Len(rows') = l + Len(tail)
  BY <1>2
<1> QED
  BY <1>3, <1>4, <1>5, <1>6

LEMMA TailFrom ==
  ASSUME rows \in Seq(Notes), NEW X, NEW tail \in Seq(X), NEW r \in DOMAIN (rows \o tail),
         r \notin DOMAIN rows
  PROVE  \E k \in DOMAIN tail : r = Len(rows) + k
<1>1. PICK Y : Y = Notes \cup X
  OBVIOUS
<1>2. rows \in Seq(Y) /\ tail \in Seq(Y)
  <2>1. Notes \subseteq Y /\ X \subseteq Y
    BY <1>1
  <2> QED
    BY <2>1, Wider
<1> QED
  BY <1>2, JoinedFrom

\* The stream ends and its tail is written.
LEMMA DoneKeeps ==
  ASSUME Streaming, rows' = rows \o Segments!FinalRows, UNCHANGED <<segments, attempt>>,
         phase' = "done"
  PROVE  NotesInOrder'
<1> DEFINE thoughts == Segments!Left("reasoning")
           answer == Segments!LastOf(segments, "narration")
<1>1. PICK tail : tail = Segments!FinalRows
  OBVIOUS
<1>2. PICK X : /\ tail \in Seq(X)
               /\ \A k \in DOMAIN tail :
                    /\ tail[k].attempt = attempt
                    /\ \/ tail[k].kind = "reasoning" /\ tail[k].of = thoughts /\ k = 1
                       \/ /\ tail[k].kind = "message" /\ tail[k].of = {answer} /\ k = Len(tail)
                          /\ answer \in Segments!Left("narration")
               /\ \A k, m \in DOMAIN tail : k < m => tail[m].kind = "message"
               /\ thoughts # {} => \E k \in DOMAIN tail : tail[k].kind = "reasoning"
               /\ answer \in Segments!Left("narration") => \E k \in DOMAIN tail : tail[k].kind = "message"
  BY <1>1, TailIs
<1>3. PICK l : l = Len(rows)
  OBVIOUS
<1>4. /\ l \in Nat
      /\ \A r \in DOMAIN rows : r \in DOMAIN rows' /\ rows'[r] = rows[r] /\ r \in Nat
      /\ \A k \in DOMAIN tail : l + k \in DOMAIN rows' /\ rows'[l + k] = tail[k] /\ k \in Nat
      /\ \A r \in DOMAIN rows' : r \in DOMAIN rows \/ \E k \in DOMAIN tail : r = l + k
      /\ \A r \in DOMAIN rows, k \in DOMAIN tail : r < l + k
      /\ \A k \in DOMAIN tail : k = Len(tail) => l + k = Len(rows')
  <2>0. rows \in Seq(Notes) /\ tail \in Seq(X) /\ rows' = rows \o tail
    BY <1>1, <1>2, StreamingIs
  <2>1. l \in Nat /\ \A r \in DOMAIN rows : r \in DOMAIN rows' /\ rows'[r] = rows[r] /\ r \in Nat
    BY <1>3, <2>0, TailJoins
  <2>2. \A k \in DOMAIN tail : l + k \in DOMAIN rows' /\ rows'[l + k] = tail[k] /\ k \in Nat
    BY <1>3, <2>0, TailJoins
  <2>3. \A r \in DOMAIN rows' : r \in DOMAIN rows \/ \E k \in DOMAIN tail : r = l + k
    <3> SUFFICES ASSUME NEW r \in DOMAIN rows', r \notin DOMAIN rows
                 PROVE  \E k \in DOMAIN tail : r = l + k
      OBVIOUS
    <3>1. r \in DOMAIN (rows \o tail)
      BY <2>0
    <3>2. \E k \in DOMAIN tail : r = Len(rows) + k
      BY <2>0, <3>1, TailFrom
    <3> QED
      BY <1>3, <3>2
  <2>4. \A r \in DOMAIN rows, k \in DOMAIN tail : r < l + k
    BY <1>3, <2>0, TailJoins
  <2>5. \A k \in DOMAIN tail : k = Len(tail) => l + k = Len(rows')
    BY <1>3, <2>0, TailJoins
  <2> QED
    BY <2>1, <2>2, <2>3, <2>4, <2>5
<1>5. /\ \A r \in DOMAIN rows : rows[r].kind \in {"reasoning", "narration"}
      /\ \A r \in DOMAIN rows : rows[r].attempt = attempt =>
           \E i \in DOMAIN segments : /\ rows[r].of = {i} /\ segments[i].stored /\ ~segments[i].lost
                                      /\ ~Segments!IsBlank(segments[i].text)
      /\ Segments!NotesInOrder
  BY NotesAre
<1>6. /\ \A i, j \in DOMAIN segments : i < j /\ segments[j].stored => segments[i].stored
      /\ \A i \in DOMAIN segments : segments[i].lost => segments[i].stored
      /\ \A i \in DOMAIN segments : i \in Nat
  BY StreamingIs, SegsAre DEF FromTheFront
<1>7. \A i : i \in thoughts <=> /\ i \in DOMAIN segments /\ segments[i].kind = "reasoning"
                                /\ ~segments[i].stored /\ ~Segments!IsBlank(segments[i].text)
  BY DEF Segments!Left
<1>8. answer \in Segments!Left("narration") <=>
        /\ answer \in DOMAIN segments /\ segments[answer].kind = "narration"
        /\ ~segments[answer].stored /\ ~Segments!IsBlank(segments[answer].text)
  BY DEF Segments!Left
<1>9. segments' = segments /\ attempt' = attempt /\ answer' = answer
  BY DEF Segments!LastOf
<1> HIDE DEF thoughts, answer
<1>10. Segments!NotesInOrder'
  <2>1. ASSUME NEW r \in DOMAIN rows', NEW s \in DOMAIN rows', r < s,
               rows'[r].attempt = rows'[s].attempt, rows'[s].kind \in Segments!Kinds,
               NEW i \in rows'[r].of, NEW j \in rows'[s].of
        PROVE  i < j
    <3>1. CASE r \in DOMAIN rows /\ s \in DOMAIN rows
      BY <1>4, <1>5, <2>1, <3>1 DEF Segments!NotesInOrder
    <3>2. ASSUME r \in DOMAIN rows, NEW k \in DOMAIN tail, s = l + k
          PROVE  i < j
      <4>1. rows'[r] = rows[r] /\ rows'[s] = tail[k]
        BY <1>4, <3>2
      <4>2. rows[r].attempt = attempt /\ j \in thoughts
        BY <1>2, <2>1, <4>1 DEF Segments!Kinds
      <4>3. i \in DOMAIN segments /\ segments[i].stored
        BY <1>5, <2>1, <3>2, <4>1, <4>2
      <4>4. j \in DOMAIN segments /\ ~segments[j].stored
        BY <1>7, <4>2
      <4>5. i \in Nat /\ j \in Nat /\ i # j /\ ~(j < i)
        BY <1>6, <4>3, <4>4
      <4> QED
        BY <4>5
    <3>3. ASSUME NEW k \in DOMAIN tail, r = l + k, NEW m \in DOMAIN tail, s = l + m
          PROVE  FALSE
      <4>1. k < m
        BY <1>4, <2>1, <3>3
      <4>2. rows'[s].kind = "message"
        BY <1>2, <1>4, <3>3, <4>1
      <4> QED
        BY <2>1, <4>2 DEF Segments!Kinds
    <3>4. ASSUME NEW k \in DOMAIN tail, r = l + k, s \in DOMAIN rows
          PROVE  FALSE
      BY <1>4, <2>1, <3>4
    <3> QED
      BY <1>4, <3>1, <3>2, <3>3, <3>4
  <2> QED
    BY <1>6, <1>9, <2>1 DEF Segments!NotesInOrder
<1>11. Segments!AnswerIsLastWord'
  <2>1. ASSUME NEW r \in DOMAIN rows', rows'[r].kind = "message"
        PROVE  r = Len(rows') /\ rows'[r].attempt = attempt /\ rows'[r].of = {answer}
    <3>1. r \notin DOMAIN rows
      BY <1>4, <1>5, <2>1
    <3>2. PICK k \in DOMAIN tail : r = l + k
      BY <1>4, <3>1
    <3>3. rows'[r] = tail[k]
      BY <1>4, <3>2
    <3> QED
      BY <1>2, <1>4, <2>1, <3>2, <3>3
  <2> QED
    BY <1>9, <2>1 DEF Segments!AnswerIsLastWord, answer
<1>12. Segments!NothingDropped'
  <2>1. ASSUME NEW i \in DOMAIN segments, NEW mine,
               mine = {r \in DOMAIN rows' : rows'[r].attempt = attempt /\ i \in rows'[r].of}
        PROVE  IF Segments!IsBlank(segments[i].text) \/ segments[i].lost THEN mine = {}
               ELSE /\ \E r : mine = {r}
                    /\ i = answer => \A r \in mine : rows'[r].kind = "message"
    <3>1. ASSUME NEW r \in mine
          PROVE  /\ ~Segments!IsBlank(segments[i].text) /\ ~segments[i].lost
                 /\ \/ r \in DOMAIN rows /\ rows[r].attempt = attempt /\ rows[r].of = {i} /\ segments[i].stored
                    \/ \E k \in DOMAIN tail : /\ r = l + k /\ ~segments[i].stored /\ i \in tail[k].of
                                              /\ tail[k].kind = "message" <=> segments[i].kind = "narration"
      <4>1. r \in DOMAIN rows' /\ rows'[r].attempt = attempt /\ i \in rows'[r].of
        BY <2>1, <3>1
      <4>2. CASE r \in DOMAIN rows
        <5>1. rows'[r] = rows[r]
          BY <1>4, <4>2
        <5>2. PICK j \in DOMAIN segments : /\ rows[r].of = {j} /\ segments[j].stored /\ ~segments[j].lost
                                           /\ ~Segments!IsBlank(segments[j].text)
          BY <1>5, <4>1, <4>2, <5>1
        <5>3. j = i
          BY <4>1, <5>1, <5>2
        <5> QED
          BY <4>1, <4>2, <5>1, <5>2, <5>3
      <4>3. ASSUME NEW k \in DOMAIN tail, r = l + k
            PROVE  /\ ~Segments!IsBlank(segments[i].text) /\ ~segments[i].lost
                   /\ ~segments[i].stored /\ i \in tail[k].of
                   /\ tail[k].kind = "message" <=> segments[i].kind = "narration"
        <5>1. rows'[r] = tail[k] /\ i \in tail[k].of
          BY <1>4, <4>1, <4>3
        <5>2. \/ tail[k].kind = "reasoning" /\ i \in thoughts
              \/ tail[k].kind = "message" /\ i = answer /\ answer \in Segments!Left("narration")
          BY <1>2, <5>1
        <5> QED
          BY <1>6, <1>7, <1>8, <5>1, <5>2
      <4> QED
        BY <1>4, <4>1, <4>2, <4>3
    <3>2. CASE Segments!IsBlank(segments[i].text) \/ segments[i].lost
      BY <3>1, <3>2
    <3>3. CASE ~Segments!IsBlank(segments[i].text) /\ ~segments[i].lost /\ segments[i].stored
      <4>1. i \in Rowed(segments)
        BY <3>3 DEF Rowed
      <4>2. PICK r \in DOMAIN rows : rows[r].attempt = attempt /\ rows[r].of = {i}
        BY <4>1, StreamingIs DEF RowsAre
      <4>3. r \in mine
        BY <1>4, <2>1, <4>2
      <4>4. ASSUME NEW s \in mine
            PROVE  s = r
        <5>1. s \in DOMAIN rows /\ rows[s].attempt = attempt /\ rows[s].of = {i}
          BY <3>1, <3>3, <4>4
        <5>2. ~(r < s) /\ ~(s < r)
          <6>1. \A a, b \in DOMAIN rows :
                  a < b /\ rows[a].attempt = rows[b].attempt =>
                    \A x \in rows[a].of, y \in rows[b].of : x < y
            BY StreamingIs DEF InOrder
          <6>2. ~(i < i) /\ i \in {i}
            BY <1>6
          <6> QED
            BY <4>2, <5>1, <6>1, <6>2
        <5>3. r \in Nat /\ s \in Nat
          BY <1>4, <4>2, <5>1
        <5> QED
          BY <5>2, <5>3
      <4>5. mine = {r}
        BY <4>3, <4>4
      <4>6. i # answer
        <5> SUFFICES ASSUME i = answer PROVE FALSE
          OBVIOUS
        <5>1. i # 0 /\ segments[i].kind = "narration"
          BY <1>6, StreamingIs, SegsAre, LastIsLast DEF answer
        <5> QED
          BY <3>3, <5>1, StreamingIs DEF LastIsKept, answer
      <4> QED
        BY <3>3, <4>5, <4>6
    <3>4. CASE ~Segments!IsBlank(segments[i].text) /\ ~segments[i].lost /\ ~segments[i].stored
      <4>1. segments[i].kind = "reasoning" \/ (segments[i].kind = "narration" /\ i = answer)
        <5>1. segments[i].kind \in {"reasoning", "narration"}
          BY StreamingIs, SegsAre DEF Segments!Kinds
        <5> QED
          BY <3>4, <5>1, StreamingIs DEF OthersAreStored, answer
      <4>2. ASSUME NEW k \in DOMAIN tail, NEW m \in DOMAIN tail, tail[k].kind = tail[m].kind
            PROVE  k = m
        BY <1>2, <4>2
      <4>3. ASSUME NEW k \in DOMAIN tail, i \in tail[k].of,
                   tail[k].kind = "message" <=> segments[i].kind = "narration"
            PROVE  \E r : mine = {r} /\ rows'[r] = tail[k]
        <5>1. l + k \in mine /\ rows'[l + k] = tail[k]
          BY <1>2, <1>4, <2>1, <4>3
        <5>2. ASSUME NEW r \in mine
              PROVE  r = l + k
          <6>1. PICK m \in DOMAIN tail : /\ r = l + m
                                         /\ tail[m].kind = "message" <=> segments[i].kind = "narration"
            BY <3>1, <3>4, <5>2
          <6>2. tail[m].kind = tail[k].kind
            BY <1>2, <4>3, <6>1
          <6> QED
            BY <4>2, <6>1, <6>2
        <5> QED
          BY <5>1, <5>2
      <4>4. CASE segments[i].kind = "reasoning"
        <5>1. i \in thoughts
          BY <1>7, <3>4, <4>4
        <5>2. PICK k \in DOMAIN tail : tail[k].kind = "reasoning"
          BY <1>2, <5>1
        <5>3. i \in tail[k].of
          BY <1>2, <5>1, <5>2
        <5>4. i # answer
          <6> SUFFICES ASSUME i = answer PROVE FALSE
            OBVIOUS
          <6>1. i # 0 /\ segments[i].kind = "narration"
            BY <1>6, StreamingIs, SegsAre, LastIsLast DEF answer
          <6> QED
            BY <4>4, <6>1
        <5> QED
          BY <3>4, <4>3, <4>4, <5>2, <5>3, <5>4
      <4>5. CASE segments[i].kind = "narration" /\ i = answer
        <5>1. answer \in Segments!Left("narration")
          BY <1>8, <3>4, <4>5
        <5>2. PICK k \in DOMAIN tail : tail[k].kind = "message"
          BY <1>2, <5>1
        <5>3. i \in tail[k].of
          BY <1>2, <4>5, <5>2
        <5>4. PICK r : mine = {r} /\ rows'[r] = tail[k]
          BY <4>3, <4>5, <5>2, <5>3
        <5> QED
          BY <3>4, <5>2, <5>4
      <4> QED
        BY <4>1, <4>4, <4>5
    <3> QED
      BY <3>2, <3>3, <3>4
  <2>2. \A r : Segments!Cardinality({r}) = 1
    BY SameCardinality, FS_Singleton
  <2>3. ASSUME NEW i \in DOMAIN segments
        PROVE  LET mine == {r \in DOMAIN rows' : rows'[r].attempt = attempt /\ i \in rows'[r].of}
               IN  IF Segments!IsBlank(segments[i].text) \/ segments[i].lost THEN mine = {}
                   ELSE /\ Segments!Cardinality(mine) = 1
                        /\ i = answer => \A r \in mine : rows'[r].kind = "message"
    <3>1. PICK mine : mine = {r \in DOMAIN rows' : rows'[r].attempt = attempt /\ i \in rows'[r].of}
      OBVIOUS
    <3>2. IF Segments!IsBlank(segments[i].text) \/ segments[i].lost THEN mine = {}
          ELSE /\ \E r : mine = {r}
               /\ i = answer => \A r \in mine : rows'[r].kind = "message"
      BY <2>1, <3>1
    <3> QED
      BY <2>2, <3>1, <3>2
  <2>4. ASSUME NEW i \in DOMAIN segments
        PROVE  (LET mine == {r \in DOMAIN rows : rows[r].attempt = attempt /\ i \in rows[r].of}
                IN  IF Segments!IsBlank(segments[i].text) \/ segments[i].lost THEN mine = {}
                    ELSE /\ Segments!Cardinality(mine) = 1
                         /\ i = answer => \A r \in mine : rows[r].kind = "message")'
    <3>1. Segments!IsBlank(segments[i].text)' <=> Segments!IsBlank(segments[i].text)
      BY DEF Segments!IsBlank
    <3> QED
      BY <1>9, <2>3, <3>1
  <2> QED
    BY <1>9, <2>4 DEF Segments!NothingDropped, answer
<1> QED
  BY <1>10, <1>11, <1>12 DEF NotesInOrder

\* The turn fails: an error row is the last.
LEMMA FailKeeps ==
  ASSUME Streaming, rows' = Append(rows, Segments!ErrorRow), UNCHANGED <<segments, attempt>>,
         phase' = "failed"
  PROVE  NotesInOrder'
<1>1. PICK e : e = Segments!ErrorRow
  OBVIOUS
<1>2. e.kind = "error" /\ e.of = {}
  BY <1>1 DEF Segments!ErrorRow
<1>3. PICK Y : Y = Notes \cup {e}
  OBVIOUS
<1>4. rows \in Seq(Y) /\ e \in Y /\ rows' = Append(rows, e)
  <2>1. Notes \subseteq Y /\ rows \in Seq(Notes)
    BY <1>3, StreamingIs
  <2> QED
    BY <1>1, <1>3, <2>1, Wider
<1>5. PICK n : n = Len(rows) + 1
  OBVIOUS
<1>6. /\ n \in DOMAIN rows' /\ rows'[n] = e
      /\ \A r \in DOMAIN rows : rows'[r] = rows[r] /\ r < n
      /\ \A r \in DOMAIN rows' : r \in DOMAIN rows \/ r = n
  BY <1>4, <1>5, AppendIs
<1>7. /\ \A r \in DOMAIN rows : rows[r].kind \in {"reasoning", "narration"}
      /\ Segments!NotesInOrder
  BY NotesAre
<1>8. Segments!NotesInOrder'
  <2>1. \A r, s \in DOMAIN rows' :
          (r < s /\ rows'[r].attempt = rows'[s].attempt /\ rows'[s].kind \in Segments!Kinds)
          => \A i \in rows'[r].of : \A j \in rows'[s].of : i < j
    <3> SUFFICES ASSUME NEW r \in DOMAIN rows', NEW s \in DOMAIN rows', r < s,
                        rows'[r].attempt = rows'[s].attempt, rows'[s].kind \in Segments!Kinds
                 PROVE  \A i \in rows'[r].of : \A j \in rows'[s].of : i < j
      OBVIOUS
    <3>1. s \in DOMAIN rows
      BY <1>2, <1>6 DEF Segments!Kinds
    <3>2. CASE r \in DOMAIN rows
      BY <1>6, <1>7, <3>1, <3>2 DEF Segments!NotesInOrder
    <3>3. CASE r = n
      BY <1>2, <1>6, <3>3
    <3> QED
      BY <1>6, <3>2, <3>3
  <2>2. \A i, j \in DOMAIN segments : (i < j /\ segments[j].stored) => segments[i].stored
    BY <1>7 DEF Segments!NotesInOrder
  <2> QED
    BY <2>1, <2>2 DEF Segments!NotesInOrder
<1>9. \A r \in DOMAIN rows' : rows'[r].kind # "message"
  BY <1>2, <1>6, <1>7
<1> QED
  BY <1>8, <1>9 DEF NotesInOrder, Segments!AnswerIsLastWord, Segments!NothingDropped

\* The turn is cancelled: nothing more is written.
LEMMA StopKeeps ==
  ASSUME Streaming, UNCHANGED <<rows, segments, attempt>>, phase' = "stopped"
  PROVE  NotesInOrder'
<1>1. Segments!NotesInOrder'
  BY NotesAre DEF Segments!NotesInOrder
<1>2. \A r \in DOMAIN rows : rows[r].kind # "message"
  BY NotesAre
<1> QED
  BY <1>1, <1>2 DEF NotesInOrder, Segments!AnswerIsLastWord, Segments!NothingDropped

\* Another attempt starts from no segments.
LEMMA RetryKeeps ==
  ASSUME Streaming, segments' = <<>>, rows' = rows, attempt' = attempt + 1
  PROVE  Streaming'
<1>1. segments' \in Segs /\ DOMAIN segments' = {} /\ rows' \in Seq(Notes) /\ attempt' \in Nat
  BY StreamingIs DEF Segs
<1>2. /\ FromTheFront(segments)' /\ LastIsKept(segments)' /\ OthersAreStored(segments)'
      /\ Rowed(segments)' = {}
  BY <1>1 DEF FromTheFront, LastIsKept, OthersAreStored, Rowed
<1>3. \A r \in DOMAIN rows : rows[r].attempt <= attempt' /\ rows[r].attempt # attempt'
  BY NotesAre, StreamingIs
<1>4. RowsAre(segments)'
  BY <1>2, <1>3 DEF RowsAre
<1>5. InOrder'
  BY StreamingIs DEF InOrder
<1> QED
  BY <1>1, <1>2, <1>4, <1>5 DEF Streaming

LEMMA InitSegInv == Segments!SegInit => SegInv
<1> SUFFICES ASSUME Segments!SegInit PROVE Streaming
  BY DEF Segments!SegInit, SegInv
<1>1. segments = <<>> /\ rows = <<>> /\ attempt = 1
  BY DEF Segments!SegInit
<1>2. segments \in Segs /\ DOMAIN segments = {} /\ rows \in Seq(Notes) /\ DOMAIN rows = {} /\ attempt \in Nat
  BY <1>1 DEF Segs
<1>3. FromTheFront(segments) /\ LastIsKept(segments) /\ OthersAreStored(segments) /\ Rowed(segments) = {}
  BY <1>2 DEF FromTheFront, LastIsKept, OthersAreStored, Rowed
<1> QED
  BY <1>2, <1>3 DEF Streaming, RowsAre, InOrder

LEMMA NextSegInv == SegInv /\ [Segments!SegNext]_segmentsVars => SegInv'
<1> SUFFICES ASSUME SegInv, [Segments!SegNext]_segmentsVars PROVE SegInv'
  OBVIOUS
<1>1. CASE UNCHANGED segmentsVars
  <2>1. segments' = segments /\ rows' = rows /\ phase' = phase /\ attempt' = attempt
    BY <1>1 DEF segmentsVars, Segments!segVars
  <2>2. CASE phase = "streaming"
    BY <2>1, <2>2, StreamingIs, Carry DEF SegInv
  <2>3. CASE phase # "streaming"
    <3>1. NotesInOrder
      BY <2>3 DEF SegInv
    <3>2. Segments!NotesInOrder'
      BY <2>1, <3>1 DEF NotesInOrder, Segments!NotesInOrder
    <3>3. Segments!AnswerIsLastWord'
      BY <2>1, <3>1 DEF NotesInOrder, Segments!AnswerIsLastWord, Segments!LastOf
    <3>4. Segments!NothingDropped'
      <4>1. (Segments!LastOf(segments, "narration"))' = Segments!LastOf(segments, "narration")
        BY <2>1 DEF Segments!LastOf
      <4>2. \A i \in DOMAIN segments : Segments!IsBlank(segments[i].text)' <=> Segments!IsBlank(segments[i].text)
        BY <2>1 DEF Segments!IsBlank
      <4>3. Segments!NothingDropped
        BY <3>1 DEF NotesInOrder
      <4> QED
        BY <2>1, <4>1, <4>2, <4>3 DEF Segments!NothingDropped
    <3> QED
      BY <2>1, <2>3, <3>2, <3>3, <3>4 DEF SegInv, NotesInOrder
  <2> QED
    BY <2>2, <2>3
<1>2. CASE Segments!SegNext
  <2>1. phase = "streaming"
    BY <1>2 DEF Segments!SegNext, Segments!Provider, Segments!Delta, Segments!Block, Segments!ToolUse,
                Segments!Consume, Segments!EndOfStream, Segments!RateLimited, Segments!Stopped
  <2>2. Streaming
    BY <2>1 DEF SegInv
  <2>3. CASE Segments!Provider
    <3>1. phase' = "streaming"
      BY <2>1, <2>3 DEF Segments!Provider, Segments!Delta, Segments!Block, Segments!ToolUse, Segments!Consume
    <3> QED
      BY <2>2, <2>3, <3>1, ProviderKeeps DEF SegInv
  <2>4. CASE Segments!EndOfStream
    <3>1. UNCHANGED <<segments, attempt>> /\ phase' # "streaming"
      BY <2>4 DEF Segments!EndOfStream
    <3>2. \/ rows' = rows \o Segments!FinalRows /\ phase' = "done"
          \/ rows' = Append(rows, Segments!ErrorRow) /\ phase' = "failed"
      BY <2>4 DEF Segments!EndOfStream
    <3>3. NotesInOrder'
      BY <2>2, <3>1, <3>2, DoneKeeps, FailKeeps
    <3> QED
      BY <3>1, <3>3 DEF SegInv
  <2>5. CASE Segments!RateLimited
    <3>1. CASE attempt' = attempt + 1 /\ segments' = <<>> /\ UNCHANGED <<rows, phase>>
      BY <2>1, <2>2, <3>1, RetryKeeps DEF SegInv
    <3>2. CASE rows' = Append(rows, Segments!ErrorRow) /\ phase' = "failed" /\ UNCHANGED <<segments, attempt>>
      <4>1. NotesInOrder'
        BY <2>2, <3>2, FailKeeps
      <4> QED
        BY <3>2, <4>1 DEF SegInv
    <3> QED
      BY <2>5, <3>1, <3>2 DEF Segments!RateLimited
  <2>6. CASE Segments!Stopped
    <3>1. phase' = "stopped" /\ UNCHANGED <<rows, segments, attempt>>
      BY <2>6 DEF Segments!Stopped
    <3>2. NotesInOrder'
      BY <2>2, <3>1, StopKeeps
    <3> QED
      BY <3>1, <3>2 DEF SegInv
  <2> QED
    BY <1>2, <2>3, <2>4, <2>5, <2>6 DEF Segments!SegNext
<1> QED
  BY <1>1, <1>2

LEMMA SegInvMeans == SegInv => NotesInOrder
<1> SUFFICES ASSUME SegInv, phase = "streaming" PROVE NotesInOrder
  BY DEF SegInv
<1>1. Streaming
  BY DEF SegInv
<1> QED
  BY <1>1, NotesAre DEF NotesInOrder, Segments!AnswerIsLastWord, Segments!NothingDropped


-----------------------------------------------------------------------------
(* The turn: where it is, what it told and how its run stands (TurnInv),   *)
(* whose the session's handle is (HandleInv), and which targets it tried   *)
(* (ChainInv).                                                             *)

\* Until it tells something a turn's run is running, or given up by the fallback; a turn that
\* ends untold with its run running was cancelled.
TurnInv ==
  /\ pc \in {"idle", "begun", "accepted", "consuming", "limited", "switched", "answered",
             "failing", "ending"}
  /\ cancelled \in BOOLEAN
  /\ pc \in {"begun", "accepted", "consuming", "limited", "switched", "answered"} =>
       told = "nothing" /\ run = "running"
  /\ pc = "failing" => told = "nothing" /\ run \in {"running", "rate_limited"}
  /\ pc = "ending" =>
       \/ told = "nothing" /\ run \in {"running", "succeeded", "rate_limited"}
          /\ (run = "running" => cancelled)
       \/ told = "done" /\ run = "succeeded"
       \/ told = "error" /\ run \in {"running", "rate_limited"}

LEMMA InitTurnInv == Stream!StreamInit => TurnInv
BY DEF Stream!StreamInit, TurnInv

LEMMA NextTurnInv == TurnInv /\ [Stream!StreamNext]_streamVars => TurnInv'
<1> SUFFICES ASSUME TurnInv, [Stream!StreamNext]_streamVars PROVE TurnInv'
  OBVIOUS
<1> USE DEF TurnInv
<1>1. CASE Stream!Begin \/ Stream!Cancel \/ UNCHANGED streamVars
  BY <1>1 DEF Stream!Begin, Stream!Cancel, streamVars
<1>2. CASE \/ Stream!BeginFails \/ Stream!AcceptMessage \/ Stream!LinkFails \/ Stream!Attempt
           \/ Stream!StoreNote \/ Stream!HandleUpdated \/ Stream!RateLimited
  BY <1>2 DEF Stream!BeginFails, Stream!AcceptMessage, Stream!LinkFails, Stream!Attempt,
              Stream!StoreNote, Stream!HandleUpdated, Stream!RateLimited
<1>3. CASE Stream!AttemptFails \/ Stream!Answered \/ Stream!FallbackFails \/ Stream!Aborts
  BY <1>3 DEF Stream!AttemptFails, Stream!Answered, Stream!FallbackFails, Stream!Aborts, Stream!Failing
<1>4. CASE Stream!UseConfigured \/ Stream!PickTarget
  <2>1. pc = "limited" /\ \E t : Stream!Switch(t)
    BY <1>4 DEF Stream!UseConfigured, Stream!PickTarget
  <2> QED
    BY <2>1 DEF Stream!Switch, Stream!Failing
<1>5. CASE Stream!Tell \/ Stream!DoneUntold \/ Stream!Finish
  BY <1>5 DEF Stream!Tell, Stream!DoneUntold, Stream!Finish
<1>6. CASE Stream!User
  BY <1>6 DEF Stream!User, Stream!ChangeProject, Stream!ChangeProfile, Stream!ChangeMode,
              Stream!Edit, Stream!turnVars
<1> QED
  BY <1>1, <1>2, <1>3, <1>4, <1>5, <1>6 DEF Stream!StreamNext, Stream!Turn

-----------------------------------------------------------------------------
(* A turn implements TurnContract: every step is one of the contract's, or *)
(* one that the contract does not see.                                     *)

LEMMA InitKeepsContract == Stream!StreamInit => Stream!Contract!Init
BY DEF Stream!StreamInit, Stream!Contract!Init, Stream!Stage, Stream!RunSeen

\* The steps that open a turn, accept its message or note something.
LEMMA OpeningKeepsContract ==
  ASSUME TurnInv,
         \/ Stream!Begin \/ Stream!BeginFails \/ Stream!AcceptMessage \/ Stream!LinkFails
         \/ Stream!Attempt \/ Stream!StoreNote \/ Stream!HandleUpdated \/ Stream!RateLimited
  PROVE  [Stream!Contract!Next]_(Stream!Contract!contractVars)
<1> USE DEF TurnInv, Stream!Stage, Stream!RunSeen
<1>1. CASE Stream!Begin
  <2>1. Stream!Contract!Open
    BY <1>1 DEF Stream!Begin, Stream!Contract!Open
  <2> QED
    BY <2>1 DEF Stream!Contract!Next
<1>2. CASE Stream!BeginFails
  <2>1. Stream!Contract!Close
    BY <1>2 DEF Stream!BeginFails, Stream!Contract!Close, Stream!Contract!Outcomes
  <2> QED
    BY <2>1 DEF Stream!Contract!Next
<1>3. CASE Stream!AcceptMessage
  <2>1. Stream!Contract!Accept
    BY <1>3 DEF Stream!AcceptMessage, Stream!Contract!Accept
  <2> QED
    BY <2>1 DEF Stream!Contract!Next
<1>4. CASE Stream!LinkFails
  <2>1. Stream!Contract!Close
    BY <1>4 DEF Stream!LinkFails, Stream!Contract!Close, Stream!Contract!Outcomes
  <2> QED
    BY <2>1 DEF Stream!Contract!Next
<1>5. CASE Stream!StoreNote
  <2>1. Stream!Contract!Note
    BY <1>5 DEF Stream!StoreNote, Stream!Contract!Note
  <2> QED
    BY <2>1 DEF Stream!Contract!Next
<1>6. CASE Stream!Attempt \/ Stream!HandleUpdated \/ Stream!RateLimited
  BY <1>6 DEF Stream!Attempt, Stream!HandleUpdated, Stream!RateLimited, Stream!Contract!contractVars
<1> QED
  BY <1>1, <1>2, <1>3, <1>4, <1>5, <1>6

\* A failure: the turn goes on to tell it, or closes because its context is done.
LEMMA FailingKeepsContract ==
  ASSUME TurnInv, pc \in {"accepted", "consuming", "limited", "switched"}, Stream!Failing,
         run' \in {"running", "rate_limited"}, UNCHANGED <<told, cancelled>>
  PROVE  Stream!Contract!Fail \/ Stream!Contract!Close
<1> USE DEF TurnInv, Stream!Stage, Stream!RunSeen
<1>1. CASE pc' = "failing" /\ history' \in {history, Append(history, "error")}
  BY <1>1 DEF Stream!Contract!Fail
<1>2. CASE pc' = "ending" /\ cancelled /\ UNCHANGED history
  BY <1>2 DEF Stream!RunStatus, Stream!Contract!Close, Stream!Contract!Outcomes
<1> QED
  BY <1>1, <1>2 DEF Stream!Failing

\* The fallback, an attempt that fails, the end of the events, a stop.
LEMMA AttemptKeepsContract ==
  ASSUME TurnInv,
         \/ Stream!AttemptFails \/ Stream!UseConfigured \/ Stream!PickTarget \/ Stream!FallbackFails
         \/ Stream!Answered \/ Stream!Aborts
  PROVE  [Stream!Contract!Next]_(Stream!Contract!contractVars)
<1>1. CASE Stream!AttemptFails \/ Stream!FallbackFails
  <2>1. /\ pc \in {"accepted", "consuming", "limited", "switched"} /\ Stream!Failing
        /\ run' \in {"running", "rate_limited"} /\ UNCHANGED <<told, cancelled>>
    BY <1>1 DEF Stream!AttemptFails, Stream!FallbackFails, TurnInv
  <2> QED
    BY <2>1, FailingKeepsContract DEF Stream!Contract!Next
<1>2. CASE Stream!UseConfigured \/ Stream!PickTarget
  <2>1. pc = "limited" /\ UNCHANGED <<told, cancelled>>
    BY <1>2 DEF Stream!UseConfigured, Stream!PickTarget, Stream!Switch
  <2>2. \/ pc' = "switched" /\ UNCHANGED <<history, run>>
        \/ Stream!Failing /\ run' = "rate_limited"
    BY <1>2 DEF Stream!UseConfigured, Stream!PickTarget, Stream!Switch
  <2>3. CASE pc' = "switched" /\ UNCHANGED <<history, run>>
    BY <2>1, <2>3 DEF Stream!Stage, Stream!RunSeen, Stream!Contract!contractVars
  <2>4. CASE Stream!Failing /\ run' = "rate_limited"
    BY <2>1, <2>4, FailingKeepsContract DEF Stream!Contract!Next
  <2> QED
    BY <2>2, <2>3, <2>4
<1>3. CASE Stream!Answered
  <2>0. pc = "consuming" /\ told = "nothing" /\ run = "running" /\ UNCHANGED <<told, cancelled>>
    BY <1>3 DEF Stream!Answered, TurnInv
  <2>1. CASE pc' = "answered" /\ UNCHANGED run
             /\ history' \in {Append(history, "note"), Append(history, "answer"),
                              history \o <<"note", "answer">>, history}
    <3>1. Stream!Contract!Answer
      BY <2>0, <2>1 DEF Stream!Contract!Answer, Stream!Stage, Stream!RunSeen
    <3> QED
      BY <3>1 DEF Stream!Contract!Next
  <2>2. CASE Stream!Failing /\ UNCHANGED run
    <3>1. pc \in {"accepted", "consuming", "limited", "switched"} /\ run' \in {"running", "rate_limited"}
      BY <2>0, <2>2
    <3> QED
      BY <2>0, <2>2, <3>1, FailingKeepsContract DEF Stream!Contract!Next
  <2>3. CASE pc' = "ending" /\ run' = "succeeded" /\ UNCHANGED history
    <3>1. Stream!Contract!Close
      BY <2>0, <2>3 DEF Stream!Stage, Stream!RunSeen, Stream!RunStatus, Stream!Contract!Close,
                        Stream!Contract!Outcomes
    <3> QED
      BY <3>1 DEF Stream!Contract!Next
  <2> QED
    BY <1>3, <2>1, <2>2, <2>3 DEF Stream!Answered
<1>4. CASE Stream!Aborts
  <2>1. Stream!Contract!Close
    BY <1>4 DEF TurnInv, Stream!Aborts, Stream!Stage, Stream!RunSeen, Stream!RunStatus,
                Stream!Contract!Close, Stream!Contract!Outcomes
  <2> QED
    BY <2>1 DEF Stream!Contract!Next
<1> QED
  BY <1>1, <1>2, <1>3, <1>4

\* What is told, how the run ends, and what the contract does not see.
LEMMA EndingKeepsContract ==
  ASSUME TurnInv,
         \/ Stream!Tell \/ Stream!DoneUntold \/ Stream!Finish \/ Stream!Cancel \/ Stream!User
         \/ UNCHANGED streamVars
  PROVE  [Stream!Contract!Next]_(Stream!Contract!contractVars)
<1> USE DEF TurnInv, Stream!Stage, Stream!RunSeen
<1>1. CASE Stream!Tell
  <2>1. Stream!Contract!Tell
    BY <1>1 DEF Stream!Tell, Stream!Contract!Tell
  <2> QED
    BY <2>1 DEF Stream!Contract!Next
<1>2. CASE Stream!DoneUntold
  <2>1. Stream!Contract!Close
    BY <1>2 DEF Stream!DoneUntold, Stream!RunStatus, Stream!Contract!Close, Stream!Contract!Outcomes
  <2> QED
    BY <2>1 DEF Stream!Contract!Next
<1>3. CASE Stream!Finish /\ told = "nothing"
  BY <1>3 DEF Stream!Finish, Stream!RunStatus, Stream!Contract!contractVars
<1>4. CASE Stream!Finish /\ told # "nothing"
  <2>1. Stream!Contract!Close
    BY <1>4 DEF Stream!Finish, Stream!RunStatus, Stream!Contract!Close, Stream!Contract!Outcomes
  <2> QED
    BY <2>1 DEF Stream!Contract!Next
<1>5. CASE Stream!Cancel
  BY <1>5 DEF Stream!Cancel, Stream!RunStatus, Stream!Contract!contractVars
<1>6. CASE Stream!User \/ UNCHANGED streamVars
  <2>1. UNCHANGED <<pc, told, run, cancelled, history>>
    BY <1>6 DEF Stream!User, Stream!ChangeProject, Stream!ChangeProfile, Stream!ChangeMode,
                Stream!Edit, Stream!turnVars, streamVars
  <2> QED
    BY <2>1 DEF Stream!RunStatus, Stream!Contract!contractVars
<1> QED
  BY <1>1, <1>2, <1>3, <1>4, <1>5, <1>6

LEMMA NextKeepsContract ==
  ASSUME TurnInv, [Stream!StreamNext]_streamVars
  PROVE  [Stream!Contract!Next]_(Stream!Contract!contractVars)
BY OpeningKeepsContract, AttemptKeepsContract, EndingKeepsContract DEF Stream!StreamNext, Stream!Turn

-----------------------------------------------------------------------------
(* The session's handle: of the project the session is bound to, because   *)
(* what changes the project clears it, and a turn's event is stored only   *)
(* while the project is the one the turn started from.                     *)

HandleInv ==
  /\ session = [target |-> session.target, mode |-> session.mode, handle |-> session.handle,
                revision |-> session.revision]
  /\ Stream!HandleOfProject

LEMMA InitHandleInv == Stream!StreamInit => HandleInv
BY DEF Stream!StreamInit, HandleInv, Stream!HandleOfProject

LEMMA NextHandleInv == HandleInv /\ [Stream!StreamNext]_streamVars => HandleInv'
<1> SUFFICES ASSUME HandleInv, [Stream!StreamNext]_streamVars PROVE HandleInv'
  OBVIOUS
<1> USE DEF HandleInv, Stream!HandleOfProject
<1>1. CASE UNCHANGED session
  BY <1>1
<1>2. CASE Stream!HandleUpdated
  BY <1>2 DEF Stream!HandleUpdated, Stream!Fence, Stream!HandleOf
<1>3. CASE \E t : session' = Stream!SwitchTo(t)
  BY <1>3 DEF Stream!SwitchTo
<1>4. CASE session' = [session EXCEPT !.handle = Stream!NoHandle]
  BY <1>4
<1>5. CASE Stream!User
  BY <1>5 DEF Stream!User, Stream!ChangeProject, Stream!ChangeProfile, Stream!ChangeMode
<1>6. \/ UNCHANGED session \/ Stream!HandleUpdated \/ (\E t : session' = Stream!SwitchTo(t))
      \/ session' = [session EXCEPT !.handle = Stream!NoHandle] \/ Stream!User
  BY DEF Stream!StreamNext, Stream!Turn, Stream!Begin, Stream!BeginFails, Stream!AcceptMessage,
         Stream!LinkFails, Stream!Attempt, Stream!AttemptFails, Stream!StoreNote,
         Stream!RateLimited, Stream!UseConfigured, Stream!PickTarget, Stream!FallbackFails,
         Stream!Switch, Stream!Aborts, Stream!Answered, Stream!Tell, Stream!DoneUntold,
         Stream!Finish, Stream!Cancel, Stream!sessionVars, streamVars
<1> QED
  BY <1>1, <1>2, <1>3, <1>4, <1>5, <1>6

-----------------------------------------------------------------------------
(* The chain: a turn tries a target it has just accepted its message for,  *)
(* or one the fallback chose, and an unattended one is only ever given a   *)
(* target that it has not tried.                                           *)

ChainInv ==
  /\ tried = [i \in 1..Len(tried) |-> tried[i]] /\ Len(tried) \in Nat
  /\ pc \in {"begun", "accepted"} => tried = <<>>
  /\ ~attended /\ pc = "switched" => current.target \notin Stream!TriedSet
  /\ Stream!NeverBackUnattended

LEMMA InitChainInv == Stream!StreamInit => ChainInv
BY DEF Stream!StreamInit, ChainInv, Stream!NeverBackUnattended

LEMMA AttemptKeepsChainInv == ChainInv /\ Stream!Attempt => ChainInv'
<1> SUFFICES ASSUME ChainInv, Stream!Attempt PROVE ChainInv'
  OBVIOUS
<1>1. /\ DOMAIN tried = 1..Len(tried) /\ Len(tried) \in Nat
      /\ tried' = Append(tried, current.target) /\ UNCHANGED <<attended, current>>
      /\ pc' = "consuming"
  BY DEF ChainInv, Stream!Attempt
<1>2. /\ Len(tried') = Len(tried) + 1 /\ DOMAIN tried' = 1..(Len(tried) + 1)
      /\ tried' = [i \in 1..Len(tried') |-> tried'[i]]
      /\ tried'[Len(tried) + 1] = current.target
      /\ \A i \in 1..Len(tried) : tried'[i] = tried[i]
  BY <1>1
<1>3. ASSUME ~attended PROVE current.target \notin Stream!TriedSet
  BY <1>1, <1>3 DEF ChainInv, Stream!Attempt, Stream!TriedSet
<1>4. ~attended => \A i \in 1..Len(tried) : tried[i] # current.target
  BY <1>1, <1>3 DEF Stream!TriedSet
<1>5. Stream!NeverBackUnattended'
  <2> SUFFICES ASSUME ~attended, NEW i \in 1..(Len(tried) + 1), NEW j \in 1..(Len(tried) + 1),
                      tried'[i] = tried'[j]
               PROVE  i = j
    BY <1>1, <1>2 DEF Stream!NeverBackUnattended
  <2>1. \A k, l \in 1..Len(tried) : tried[k] = tried[l] => k = l
    BY <1>1 DEF ChainInv, Stream!NeverBackUnattended
  <2>2. CASE i \in 1..Len(tried) /\ j \in 1..Len(tried)
    BY <1>2, <2>1, <2>2
  <2>3. CASE i = Len(tried) + 1 \/ j = Len(tried) + 1
    BY <1>1, <1>2, <1>4, <2>3
  <2> QED
    BY <1>1, <2>2, <2>3
<1> QED
  BY <1>1, <1>2, <1>5 DEF ChainInv

LEMMA SwitchKeepsChainInv ==
  HandleInv /\ ChainInv /\ (Stream!UseConfigured \/ Stream!PickTarget) => ChainInv'
<1> SUFFICES ASSUME HandleInv, ChainInv, Stream!UseConfigured \/ Stream!PickTarget PROVE ChainInv'
  OBVIOUS
<1>1. PICK t : /\ Stream!Switch(t) /\ UNCHANGED <<tried, attended>>
               /\ ~attended => t \notin Stream!TriedSet
  <2>1. CASE Stream!UseConfigured
    BY <2>1 DEF Stream!UseConfigured, Stream!Switch, Stream!NextInChain, Stream!Candidates
  <2>2. CASE Stream!PickTarget
    BY <2>2 DEF Stream!PickTarget, Stream!Switch
  <2> QED
    BY <2>1, <2>2
<1>2. pc' \in {"switched", "failing", "ending"} /\ (pc' = "switched" => current'.target = t)
  <2>1. session = [target |-> session.target, mode |-> session.mode, handle |-> session.handle,
                   revision |-> session.revision]
    BY DEF HandleInv
  <2> QED
    BY <1>1, <2>1 DEF Stream!Switch, Stream!SwitchTo, Stream!Failing
<1> QED
  BY <1>1, <1>2 DEF ChainInv, Stream!NeverBackUnattended, Stream!TriedSet

LEMMA NextChainInv == HandleInv /\ ChainInv /\ [Stream!StreamNext]_streamVars => ChainInv'
<1> SUFFICES ASSUME HandleInv, ChainInv, [Stream!StreamNext]_streamVars PROVE ChainInv'
  OBVIOUS
<1>1. CASE Stream!Begin
  BY <1>1 DEF Stream!Begin, ChainInv, Stream!NeverBackUnattended, Stream!TriedSet
<1>2. CASE Stream!HandleUpdated
  BY <1>2 DEF Stream!HandleUpdated, ChainInv, Stream!NeverBackUnattended
<1>3. CASE Stream!Attempt \/ Stream!UseConfigured \/ Stream!PickTarget
  BY <1>3, AttemptKeepsChainInv, SwitchKeepsChainInv
<1>4. CASE \/ Stream!BeginFails \/ Stream!AcceptMessage \/ Stream!LinkFails \/ Stream!AttemptFails
           \/ Stream!StoreNote \/ Stream!RateLimited \/ Stream!FallbackFails \/ Stream!Aborts
           \/ Stream!Answered \/ Stream!Tell \/ Stream!DoneUntold \/ Stream!Finish \/ Stream!Cancel
           \/ Stream!User \/ UNCHANGED streamVars
  <2>1. /\ UNCHANGED <<tried, attended, current>> /\ (pc' = "switched" => pc = "switched")
        /\ (pc' \in {"begun", "accepted"} => pc \in {"begun", "accepted"})
    BY <1>4 DEF Stream!BeginFails, Stream!AcceptMessage, Stream!LinkFails, Stream!AttemptFails,
                Stream!StoreNote, Stream!RateLimited, Stream!FallbackFails, Stream!Aborts,
                Stream!Answered, Stream!Tell, Stream!DoneUntold, Stream!Finish, Stream!Cancel,
                Stream!Failing, Stream!User, Stream!ChangeProject, Stream!ChangeProfile,
                Stream!ChangeMode, Stream!Edit, Stream!turnVars, streamVars
  <2> QED
    BY <2>1 DEF ChainInv, Stream!NeverBackUnattended, Stream!TriedSet
<1> QED
  BY <1>1, <1>2, <1>3, <1>4 DEF Stream!StreamNext, Stream!Turn

-----------------------------------------------------------------------------
(* The transcript: a summary, stored or under way, ends before the         *)
(* messages a replay repeats verbatim, and messages are only added.        *)

\* A prefix that a replay may stand beside: none, or the most recent messages are not in it.
BeforeRecent(n) == n \in Nat /\ (n = 0 \/ n + Recent <= count)

ReplayInv ==
  /\ count \in Nat /\ BeforeRecent(covered)
  /\ \A n \in jobs : BeforeRecent(n)
  /\ Transcript!NothingReplayedTwice

LEMMA InitReplayInv == Transcript!ReplayInit => ReplayInv
BY DEF Transcript!ReplayInit, ReplayInv, BeforeRecent, Transcript!NothingReplayedTwice

LEMMA NextReplayInv == ReplayInv /\ [Transcript!ReplayNext]_replayVars => ReplayInv'
<1> SUFFICES ASSUME ReplayInv, [Transcript!ReplayNext]_replayVars PROVE ReplayInv'
  OBVIOUS
<1> USE RecentAssumption DEF ReplayInv, BeforeRecent, Transcript!NothingReplayedTwice
<1>1. CASE Transcript!Messages
  BY <1>1 DEF Transcript!Messages
<1>2. CASE Transcript!Refresh \/ Transcript!CompactStart
  BY <1>2 DEF Transcript!Refresh, Transcript!CompactStart, Transcript!OlderEnd
<1>3. CASE Transcript!StoreSummary
  BY <1>3 DEF Transcript!StoreSummary
<1>4. CASE Transcript!FreshTurn
  BY <1>4 DEF Transcript!FreshTurn, Transcript!Given
<1>5. CASE Transcript!ForgetHandle \/ UNCHANGED replayVars
  BY <1>5 DEF Transcript!ForgetHandle, replayVars
<1> QED
  BY <1>1, <1>2, <1>3, <1>4, <1>5 DEF Transcript!ReplayNext

-----------------------------------------------------------------------------
(* The plan: the gate goes down with a plan in the row by an approval      *)
(* only, of whatever plan the request read.                                *)

LEMMA InitPlanInv == Gate!PlanInit => Gate!PinnedWasApproved
BY DEF Gate!PlanInit, Gate!PinnedWasApproved

LEMMA NextPlanInv == Gate!PinnedWasApproved /\ [Gate!PlanNext]_planVars => Gate!PinnedWasApproved'
<1> SUFFICES ASSUME Gate!PinnedWasApproved, [Gate!PlanNext]_planVars PROVE Gate!PinnedWasApproved'
  OBVIOUS
<1> USE DEF Gate!PinnedWasApproved
<1>1. CASE UNCHANGED planVars
  BY <1>1 DEF planVars
<1>2. ASSUME NEW c \in Callers,
             \/ Gate!StartSubmit(c) \/ Gate!WriteFile(c) \/ Gate!Announce(c) \/ Gate!StartDecision(c)
             \/ Gate!RemoveFile(c) \/ Gate!TellRejected(c) \/ Gate!StartToggle(c)
      PROVE  Gate!PinnedWasApproved'
  BY <1>2 DEF Gate!StartSubmit, Gate!WriteFile, Gate!Announce, Gate!StartDecision, Gate!RemoveFile,
              Gate!TellRejected, Gate!StartToggle
<1>3. ASSUME NEW c \in Callers, Gate!Submit(c) \/ Gate!Approve(c) \/ Gate!Reject(c) \/ Gate!Toggle(c)
      PROVE  Gate!PinnedWasApproved'
  BY <1>3 DEF Gate!Submit, Gate!Approve, Gate!Reject, Gate!Toggle, Gate!Lowered
<1> QED
  BY <1>1, <1>2, <1>3 DEF Gate!PlanNext

-----------------------------------------------------------------------------
(* The brokers: DecisionBroker under the names of MCTurns.                 *)

LEMMA SameInit == Broker!Init => Proved!Init
BY DEF Broker!Init, Proved!Init, Broker!Kinds, Proved!Kinds, Broker!Requests, Proved!Requests,
       Broker!NoAnswer, Proved!NoAnswer

LEMMA SameRequester ==
  ASSUME NEW r
  PROVE  /\ Broker!Request(r) => Proved!Request(r)
         /\ Broker!HandOver(r) => Proved!HandOver(r)
         /\ Broker!SendOnClosedQueue(r) => Proved!SendOnClosedQueue(r)
         /\ Broker!Waits(r) => Proved!Waits(r)
         /\ Broker!Return(r) => Proved!Return(r)
BY DEF Broker!Request, Proved!Request, Broker!HandOver, Proved!HandOver,
       Broker!SendOnClosedQueue, Proved!SendOnClosedQueue, Broker!Waits, Proved!Waits,
       Broker!ContextDone, Proved!ContextDone, Broker!TimesOut, Proved!TimesOut,
       Broker!Receive, Proved!Receive, Broker!Return, Proved!Return,
       Broker!Returns, Proved!Returns, Broker!KindOf, Proved!KindOf,
       Broker!NoAnswer, Proved!NoAnswer, Broker!turnVars, Proved!turnVars,
       Broker!markVars, Proved!markVars

LEMMA SameLoop ==
  /\ \A k : Broker!Show(k) => Proved!Show(k)
  /\ \A r : Broker!ShowFromStream(r) => Proved!ShowFromStream(r)
  /\ Broker!TurnDone => Proved!TurnDone
  /\ Broker!Unsubscribe => Proved!Unsubscribe
  /\ Broker!UserMovesTask => Proved!UserMovesTask
BY DEF Broker!Show, Proved!Show, Broker!ShowFromStream, Proved!ShowFromStream,
       Broker!MarkPending, Proved!MarkPending, Broker!Attach, Proved!Attach,
       Broker!MoveToReview, Proved!MoveToReview, Broker!TurnDone, Proved!TurnDone,
       Broker!Unsubscribe, Proved!Unsubscribe, Broker!UserMovesTask, Proved!UserMovesTask,
       Broker!KindOf, Proved!KindOf, Broker!Kinds, Proved!Kinds,
       Broker!Requests, Proved!Requests, Broker!turnVars, Proved!turnVars,
       Broker!markVars, Proved!markVars, Broker!requestVars, Proved!requestVars

LEMMA SameDevice ==
  ASSUME NEW d
  PROVE  /\ \A r, a : Broker!LookUp(d, r, a) => Proved!LookUp(d, r, a)
         /\ Broker!SendAnswer(d) => Proved!SendAnswer(d)
         /\ Broker!PopMark(d) => Proved!PopMark(d)
         /\ Broker!Restore(d) => Proved!Restore(d)
BY DEF Broker!LookUp, Proved!LookUp, Broker!SendAnswer, Proved!SendAnswer,
       Broker!PopMark, Proved!PopMark, Broker!Restore, Proved!Restore, Broker!At, Proved!At,
       Broker!NoAnswer, Proved!NoAnswer, Broker!turnVars, Proved!turnVars,
       Broker!markVars, Proved!markVars, Broker!requestVars, Proved!requestVars

LEMMA SameNext == [Broker!Next]_brokerVars => [Proved!Next]_(Proved!vars)
BY SameRequester, SameLoop, SameDevice
   DEF Broker!Next, Proved!Next, brokerVars, Proved!vars, Broker!Requests, Proved!Requests,
       Broker!Kinds, Proved!Kinds, Broker!Answers, Proved!Answers

LEMMA SameRestores == Proved!RestoredOncePerCard => Broker!RestoredOncePerCard
<1>1. \A S : Broker!Cardinality(S) = Proved!Cardinality(S)
  BY DEF Broker!Cardinality, Proved!Cardinality
<1> QED
  BY <1>1 DEF Proved!RestoredOncePerCard, Broker!RestoredOncePerCard, Broker!Requests, Proved!Requests

-----------------------------------------------------------------------------
(* Types *)

SegCounts ==
  /\ phase \in {"streaming", "done", "failed", "stopped"}
  /\ attempt \in 1..MaxParts /\ events \in 0..MaxEvents
SegKinds ==
  /\ \A i \in DOMAIN segments : /\ segments[i].kind \in Segments!Kinds
                                /\ segments[i].open \in BOOLEAN /\ segments[i].stored \in BOOLEAN
  /\ \A r \in DOMAIN rows : rows[r].kind \in Segments!Kinds \cup {"message", "error"}

SegTyped == SegCounts /\ (phase # "streaming" => SegKinds)

LEMMA StreamingKinds == Streaming => SegKinds
<1> SUFFICES ASSUME Streaming PROVE SegKinds
  OBVIOUS
<1>1. \A i \in DOMAIN segments :
        segments[i] \in [kind : Segments!Kinds, text : Texts, open : BOOLEAN, stored : BOOLEAN, lost : BOOLEAN]
  BY StreamingIs, OfTheSet DEF Segs
<1>2. \A i \in DOMAIN segments : /\ segments[i].kind \in Segments!Kinds
                                 /\ segments[i].open \in BOOLEAN /\ segments[i].stored \in BOOLEAN
  BY <1>1
<1>3. \A r \in DOMAIN rows : rows[r].kind \in {"reasoning", "narration"}
  BY NotesAre
<1> QED
  BY <1>2, <1>3 DEF SegKinds, Segments!Kinds

LEMMA SegTypes == SegInv /\ SegTyped => Segments!SegTypeOK
<1> SUFFICES ASSUME SegInv, SegTyped PROVE Segments!SegTypeOK
  OBVIOUS
<1>1. SegKinds
  BY StreamingKinds DEF SegInv, SegTyped
<1> QED
  BY <1>1 DEF SegTyped, SegCounts, SegKinds, Segments!SegTypeOK

LEMMA InitSegTyped == Segments!SegInit => SegTyped
BY BoundsAssumption DEF Segments!SegInit, SegTyped, SegCounts

\* The rows the end of a turn adds.
LEMMA TailKinds ==
  ASSUME Streaming, rows' = rows \o Segments!FinalRows, UNCHANGED segments
  PROVE  SegKinds'
<1>1. PICK tail : tail = Segments!FinalRows
  OBVIOUS
<1>2. PICK X : tail \in Seq(X) /\ \A k \in DOMAIN tail : tail[k].kind \in {"reasoning", "message"}
  BY <1>1, TailIs
<1>3. rows \in Seq(Notes) /\ SegKinds
  BY StreamingIs, StreamingKinds
<1>4. /\ \A r \in DOMAIN rows : rows'[r] = rows[r]
      /\ \A k \in DOMAIN tail : rows'[Len(rows) + k] = tail[k]
  BY <1>1, <1>2, <1>3, TailJoins
<1>5. ASSUME NEW r \in DOMAIN rows' PROVE rows'[r].kind \in Segments!Kinds \cup {"message", "error"}
  <2>1. CASE r \in DOMAIN rows
    BY <1>3, <1>4, <2>1 DEF SegKinds
  <2>2. CASE r \notin DOMAIN rows
    <3>1. PICK k \in DOMAIN tail : r = Len(rows) + k
      BY <1>1, <1>2, <1>3, <2>2, TailFrom
    <3> QED
      BY <1>2, <1>4, <3>1 DEF Segments!Kinds
  <2> QED
    BY <2>1, <2>2
<1> QED
  BY <1>3, <1>5 DEF SegKinds

LEMMA ErrorKinds ==
  ASSUME Streaming, rows' = Append(rows, Segments!ErrorRow), UNCHANGED segments
  PROVE  SegKinds'
<1>1. PICK e : e = Segments!ErrorRow
  OBVIOUS
<1>2. PICK Y : Y = Notes \cup {e}
  OBVIOUS
<1>3. e.kind = "error" /\ rows \in Seq(Y) /\ e \in Y /\ SegKinds /\ rows' = Append(rows, e)
  <2>1. Notes \subseteq Y /\ rows \in Seq(Notes)
    BY <1>2, StreamingIs
  <2> QED
    BY <1>1, <1>2, <2>1, Wider, StreamingKinds DEF Segments!ErrorRow
<1>4. /\ \A r \in DOMAIN rows : rows'[r] = rows[r]
      /\ \A r \in DOMAIN rows' : r \in DOMAIN rows \/ rows'[r] = e
  <2>1. PICK n : n = Len(rows) + 1
    OBVIOUS
  <2> QED
    BY <1>3, <2>1, AppendIs
<1> QED
  BY <1>3, <1>4 DEF SegKinds

LEMMA NextSegTyped == SegInv /\ SegTyped /\ [Segments!SegNext]_segmentsVars => SegTyped'
<1> SUFFICES ASSUME SegInv, SegTyped, [Segments!SegNext]_segmentsVars PROVE SegTyped'
  OBVIOUS
<1>1. SegCounts
  BY DEF SegTyped
<1>2. CASE UNCHANGED segmentsVars
  BY <1>2 DEF segmentsVars, SegTyped, SegCounts, SegKinds
<1>3. CASE Segments!Provider
  <2>1. Segments!Consume
    BY <1>3 DEF Segments!Provider, Segments!Delta, Segments!Block, Segments!ToolUse
  <2>2. phase = "streaming" /\ events < MaxEvents /\ events' = events + 1 /\ UNCHANGED <<phase, attempt>>
    BY <2>1 DEF Segments!Consume
  <2>3. events' \in 0..MaxEvents
    BY <1>1, <2>2, BoundsAssumption DEF SegCounts
  <2> QED
    BY <1>1, <2>2, <2>3 DEF SegTyped, SegCounts
<1>4. CASE Segments!EndOfStream
  <2>1. Streaming
    BY <1>4 DEF Segments!EndOfStream, SegInv
  <2>2. SegKinds'
    BY <1>4, <2>1, TailKinds, ErrorKinds DEF Segments!EndOfStream
  <2>3. SegCounts'
    BY <1>1, <1>4 DEF Segments!EndOfStream, SegCounts
  <2> QED
    BY <2>2, <2>3 DEF SegTyped
<1>5. CASE Segments!RateLimited
  <2>1. Streaming /\ phase = "streaming" /\ UNCHANGED events
    BY <1>5 DEF Segments!RateLimited, SegInv
  <2>2. CASE attempt < MaxParts /\ attempt' = attempt + 1 /\ UNCHANGED phase
    <3>1. attempt' \in 1..MaxParts
      BY <1>1, <2>2, BoundsAssumption DEF SegCounts
    <3> QED
      BY <1>1, <2>1, <2>2, <3>1 DEF SegTyped, SegCounts
  <2>3. CASE rows' = Append(rows, Segments!ErrorRow) /\ phase' = "failed" /\ UNCHANGED <<segments, attempt>>
    BY <1>1, <2>1, <2>3, ErrorKinds DEF SegTyped, SegCounts
  <2> QED
    BY <1>5, <2>2, <2>3 DEF Segments!RateLimited
<1>6. CASE Segments!Stopped
  <2>1. SegKinds
    BY <1>6, StreamingKinds DEF Segments!Stopped, SegInv
  <2> QED
    BY <1>1, <1>6, <2>1 DEF Segments!Stopped, SegTyped, SegCounts, SegKinds
<1> QED
  BY <1>2, <1>3, <1>4, <1>5, <1>6 DEF Segments!SegNext

-----------------------------------------------------------------------------
\* The session and a turn's copy of it: a copy's revision may be an old one.
Handles == {Stream!NoHandle} \cup [of : Targets, revision : 0..MaxEdits]
Sessions == [target : Targets, mode : Modes, handle : Handles, revision : 0..MaxEdits]

StreamTyped ==
  /\ session \in Sessions /\ current \in Sessions
  /\ session.revision <= edits /\ edits \in 0..MaxEdits
ToldTyped ==
  /\ told \in {"nothing", "done", "error"}
  /\ run \in {"none", "running", "succeeded", "failed", "interrupted", "rate_limited"}

LEMMA StreamTypes == TurnInv /\ StreamTyped /\ ToldTyped => Stream!StreamTypeOK
BY DEF TurnInv, StreamTyped, ToldTyped, Stream!StreamTypeOK, Sessions, Handles

LEMMA InitStreamTyped == Stream!StreamInit => StreamTyped /\ ToldTyped
<1> SUFFICES ASSUME Stream!StreamInit PROVE StreamTyped /\ ToldTyped
  OBVIOUS
<1>1. session \in Sessions /\ session.revision = 0 /\ current = session
  BY HomeAssumption, BoundsAssumption DEF Stream!StreamInit, Sessions, Handles
<1>2. edits = 0 /\ told = "nothing" /\ run = "none"
  BY DEF Stream!StreamInit
<1> QED
  BY <1>1, <1>2, BoundsAssumption DEF StreamTyped, ToldTyped

LEMMA NextToldTyped == ToldTyped /\ [Stream!StreamNext]_streamVars => ToldTyped'
<1> SUFFICES ASSUME ToldTyped, [Stream!StreamNext]_streamVars PROVE ToldTyped'
  OBVIOUS
<1>1. /\ told' \in {told, "nothing", "done", "error"}
      /\ run' \in {run, "running", "succeeded", "failed", "interrupted", "rate_limited"}
  <2>1. CASE Stream!Begin \/ Stream!Cancel \/ UNCHANGED streamVars
    BY <2>1 DEF Stream!Begin, Stream!Cancel, streamVars
  <2>2. CASE \/ Stream!BeginFails \/ Stream!AcceptMessage \/ Stream!LinkFails \/ Stream!Attempt
             \/ Stream!StoreNote \/ Stream!HandleUpdated \/ Stream!RateLimited
    BY <2>2 DEF Stream!BeginFails, Stream!AcceptMessage, Stream!LinkFails, Stream!Attempt,
                Stream!StoreNote, Stream!HandleUpdated, Stream!RateLimited
  <2>3. CASE Stream!AttemptFails \/ Stream!Answered \/ Stream!FallbackFails \/ Stream!Aborts
    BY <2>3 DEF Stream!AttemptFails, Stream!Answered, Stream!FallbackFails, Stream!Aborts, Stream!Failing
  <2>4. CASE Stream!UseConfigured \/ Stream!PickTarget
    <3>1. \E t : Stream!Switch(t)
      BY <2>4 DEF Stream!UseConfigured, Stream!PickTarget
    <3> QED
      BY <3>1 DEF Stream!Switch
  <2>5. CASE Stream!Tell \/ Stream!DoneUntold \/ Stream!Finish
    BY <2>5 DEF Stream!Tell, Stream!DoneUntold, Stream!Finish, Stream!RunStatus
  <2>6. CASE Stream!User
    BY <2>6 DEF Stream!User, Stream!ChangeProject, Stream!ChangeProfile, Stream!ChangeMode,
                Stream!Edit, Stream!turnVars
  <2> QED
    BY <2>1, <2>2, <2>3, <2>4, <2>5, <2>6 DEF Stream!StreamNext, Stream!Turn
<1> QED
  BY <1>1 DEF ToldTyped

LEMMA NextStreamTyped == StreamTyped /\ [Stream!StreamNext]_streamVars => StreamTyped'
<1> SUFFICES ASSUME StreamTyped, [Stream!StreamNext]_streamVars PROVE StreamTyped'
  OBVIOUS
<1>1. /\ session \in Sessions /\ current \in Sessions
      /\ session.revision <= edits /\ edits \in 0..MaxEdits
  BY DEF StreamTyped
<1>2. CASE UNCHANGED <<session, current, edits>>
  BY <1>1, <1>2 DEF StreamTyped
<1>3. CASE Stream!Begin
  <2>1. session' = session \/ session' = [session EXCEPT !.handle = Stream!NoHandle]
    BY <1>3 DEF Stream!Begin
  <2>2. session' \in Sessions /\ session'.revision = session.revision
    BY <1>1, <2>1 DEF Sessions, Handles
  <2> QED
    BY <1>1, <1>3, <2>2 DEF Stream!Begin, StreamTyped
<1>4. CASE Stream!HandleUpdated
  <2>1. Stream!HandleOf(current) \in Handles
    BY <1>1 DEF Stream!HandleOf, Handles, Sessions
  <2>2. PICK h \in Handles : /\ session' = [session EXCEPT !.handle = h]
                             /\ current' = [current EXCEPT !.handle = h] /\ UNCHANGED edits
    BY <1>4, <2>1 DEF Stream!HandleUpdated
  <2> QED
    BY <1>1, <2>2 DEF StreamTyped, Sessions
<1>5. ASSUME NEW t \in Targets, Stream!Switch(t) PROVE StreamTyped'
  <2>1. session' = [session EXCEPT !.target = t, !.mode = current.mode, !.handle = Stream!NoHandle]
    BY <1>5 DEF Stream!Switch, Stream!SwitchTo
  <2>2. session' \in Sessions /\ session'.revision = session.revision
    BY <1>1, <2>1 DEF Sessions, Handles
  <2>3. UNCHANGED edits /\ current' \in {current, session'}
    BY <1>5 DEF Stream!Switch
  <2> QED
    BY <1>1, <2>2, <2>3 DEF StreamTyped
<1>6. CASE Stream!User
  <2>1. Stream!Edit
    BY <1>6 DEF Stream!User, Stream!ChangeProject, Stream!ChangeProfile, Stream!ChangeMode
  <2>2. edits < MaxEdits /\ edits' = edits + 1 /\ UNCHANGED current
    BY <2>1 DEF Stream!Edit, Stream!turnVars
  <2>3. \/ session' = [session EXCEPT !.handle = Stream!NoHandle, !.revision = @ + 1]
        \/ \E t \in Targets : session' = [session EXCEPT !.target = t, !.handle = Stream!NoHandle]
        \/ \E m \in Modes : session' = [session EXCEPT !.mode = m]
    BY <1>6 DEF Stream!User, Stream!ChangeProject, Stream!ChangeProfile, Stream!ChangeMode
  <2>4. session.revision \in 0..MaxEdits /\ session.revision + 1 \in 0..MaxEdits
        /\ edits' \in 0..MaxEdits /\ session.revision + 1 <= edits' /\ session.revision <= edits'
    <3>1. session.revision \in 0..MaxEdits
      BY <1>1 DEF Sessions
    <3> QED
      BY <1>1, <2>2, <3>1, BoundsAssumption
  <2>5. session' \in Sessions /\ session'.revision \in {session.revision, session.revision + 1}
    BY <1>1, <2>3, <2>4 DEF Sessions, Handles
  <2> QED
    BY <1>1, <2>2, <2>4, <2>5 DEF StreamTyped
<1>7. \/ UNCHANGED <<session, current, edits>> \/ Stream!Begin \/ Stream!HandleUpdated
      \/ (\E t \in Targets : Stream!Switch(t)) \/ Stream!User
  BY DEF Stream!StreamNext, Stream!Turn, Stream!BeginFails, Stream!AcceptMessage,
         Stream!LinkFails, Stream!Attempt, Stream!AttemptFails, Stream!StoreNote,
         Stream!RateLimited, Stream!UseConfigured, Stream!PickTarget, Stream!FallbackFails,
         Stream!Aborts, Stream!Answered, Stream!Tell, Stream!DoneUntold,
         Stream!Finish, Stream!Cancel, Stream!sessionVars, streamVars
<1> QED
  BY <1>2, <1>3, <1>4, <1>5, <1>6, <1>7

-----------------------------------------------------------------------------
\* The transcript.
ReplayTyped ==
  /\ count <= MaxMessages /\ resume \in BOOLEAN /\ 0 \notin jobs
  /\ replayed.upto \in 0..MaxMessages /\ replayed.from \in 1..MaxMessages

LEMMA ReplayTypes == ReplayInv /\ ReplayTyped => Transcript!ReplayTypeOK
<1> SUFFICES ASSUME ReplayInv, ReplayTyped PROVE Transcript!ReplayTypeOK
  OBVIOUS
<1> USE BoundsAssumption, RecentAssumption
<1>1. count \in 0..MaxMessages /\ covered \in 0..MaxMessages
  BY DEF ReplayInv, ReplayTyped, BeforeRecent
<1>2. jobs \subseteq 1..MaxMessages
  BY DEF ReplayInv, ReplayTyped, BeforeRecent
<1> QED
  BY <1>1, <1>2 DEF ReplayTyped, Transcript!ReplayTypeOK

LEMMA InitReplayTyped == Transcript!ReplayInit => ReplayTyped
<1> SUFFICES ASSUME Transcript!ReplayInit PROVE ReplayTyped
  OBVIOUS
<1>1. count = 0 /\ jobs = {} /\ resume = FALSE /\ replayed.upto = 0 /\ replayed.from = 1
  BY DEF Transcript!ReplayInit
<1>2. 0 <= MaxMessages /\ 0 \in 0..MaxMessages /\ 1 \in 1..MaxMessages
  BY BoundsAssumption
<1>3. count <= MaxMessages /\ replayed.upto \in 0..MaxMessages /\ replayed.from \in 1..MaxMessages
  BY <1>1, <1>2
<1> QED
  BY <1>1, <1>3 DEF ReplayTyped

LEMMA NextReplayTyped == ReplayInv /\ ReplayTyped /\ [Transcript!ReplayNext]_replayVars => ReplayTyped'
<1> SUFFICES ASSUME ReplayInv, ReplayTyped, [Transcript!ReplayNext]_replayVars PROVE ReplayTyped'
  OBVIOUS
<1> USE BoundsAssumption, RecentAssumption
<1>1. count \in Nat /\ count <= MaxMessages /\ BeforeRecent(covered)
  BY DEF ReplayInv, ReplayTyped
<1>2. CASE Transcript!Messages
  <2>1. count' <= MaxMessages /\ UNCHANGED <<covered, jobs, resume, replayed>>
    BY <1>2 DEF Transcript!Messages
  <2> QED
    BY <2>1 DEF ReplayTyped
<1>3. CASE Transcript!Refresh \/ Transcript!CompactStart
  <2>1. /\ Transcript!OlderEnd > 0 /\ jobs' = jobs \cup {Transcript!OlderEnd}
        /\ UNCHANGED <<count, resume, replayed>>
    BY <1>3 DEF Transcript!Refresh, Transcript!CompactStart
  <2>2. Transcript!OlderEnd # 0
    BY <2>1
  <2> QED
    BY <2>1, <2>2 DEF ReplayTyped
<1>4. CASE Transcript!StoreSummary
  <2>1. PICK job \in jobs : jobs' = jobs \ {job} /\ UNCHANGED <<count, resume, replayed>>
    BY <1>4 DEF Transcript!StoreSummary
  <2> QED
    BY <2>1 DEF ReplayTyped
<1>5. CASE Transcript!FreshTurn
  <2>1. UNCHANGED <<count, jobs>> /\ resume' = TRUE /\ replayed' = Transcript!Given
    BY <1>5 DEF Transcript!FreshTurn
  <2>2. Transcript!Given.upto \in 0..MaxMessages /\ Transcript!Given.from \in 1..MaxMessages
    <3>1. CASE covered = 0 \/ count <= Recent
      BY <3>1 DEF Transcript!Given
    <3>2. CASE ~(covered = 0 \/ count <= Recent)
      <4>1. covered \in 0..MaxMessages /\ count - Recent + 1 \in 1..MaxMessages
        BY <1>1, <3>2 DEF BeforeRecent
      <4>2. Transcript!Given.upto = covered /\ Transcript!Given.from = count - Recent + 1
        BY <3>2 DEF Transcript!Given
      <4> QED
        BY <4>1, <4>2
    <3> QED
      BY <3>1, <3>2
  <2> QED
    BY <2>1, <2>2 DEF ReplayTyped
<1>6. CASE Transcript!ForgetHandle
  BY <1>6 DEF Transcript!ForgetHandle, ReplayTyped
<1>7. CASE UNCHANGED replayVars
  BY <1>7 DEF replayVars, ReplayTyped
<1> QED
  BY <1>2, <1>3, <1>4, <1>5, <1>6, <1>7 DEF Transcript!ReplayNext

-----------------------------------------------------------------------------
\* The plan: what awaits an approval, and what a request to approve has read, is a plan.
Gates == [state : {"none", "pending", "awaiting"}, explicit : BOOLEAN, plan : Plans \cup {NoPlan}]
Requests == [op : {"submit", "approve", "reject", "on", "off"}, seen : Gates, plan : Plans \cup {NoPlan},
             at : {"read", "filed", "gated", "removed", "told"}]

PlanTyped ==
  /\ gate \in Gates /\ file \in Plans \cup {NoPlan} /\ approved \subseteq Plans
  /\ task \in {"in_progress", "review"}
  /\ calls \in [Callers -> Requests \cup {Gate!Idle}]
  /\ gate.state = "awaiting" => gate.plan \in Plans
  /\ \A c \in Callers : calls[c] # Gate!Idle =>
       /\ calls[c].op = "submit" => calls[c].plan \in Plans
       /\ calls[c].op = "approve" => calls[c].seen.plan \in Plans

LEMMA PlanTypes == PlanTyped => Gate!PlanTypeOK
BY DEF PlanTyped, Gates, Gate!PlanTypeOK

LEMMA InitPlanTyped == Gate!PlanInit => PlanTyped
<1> SUFFICES ASSUME Gate!PlanInit PROVE PlanTyped
  OBVIOUS
<1>1. gate \in Gates /\ gate.state = "none"
  BY DEF Gate!PlanInit, Gates
<1>2. calls \in [Callers -> Requests \cup {Gate!Idle}] /\ \A c \in Callers : calls[c] = Gate!Idle
  BY DEF Gate!PlanInit
<1> QED
  BY <1>1, <1>2 DEF Gate!PlanInit, PlanTyped

LEMMA NextPlanTyped == PlanTyped /\ [Gate!PlanNext]_planVars => PlanTyped'
<1> SUFFICES ASSUME PlanTyped, [Gate!PlanNext]_planVars PROVE PlanTyped'
  OBVIOUS
<1> DEFINE Fits(call) == call # Gate!Idle =>
             /\ call.op = "submit" => call.plan \in Plans
             /\ call.op = "approve" => call.seen.plan \in Plans
<1>1. /\ gate \in Gates /\ file \in Plans \cup {NoPlan} /\ approved \subseteq Plans
      /\ task \in {"in_progress", "review"} /\ calls \in [Callers -> Requests \cup {Gate!Idle}]
      /\ (gate.state = "awaiting" => gate.plan \in Plans) /\ \A c \in Callers : Fits(calls[c])
  BY DEF PlanTyped
\* One request goes on.
<1>2. ASSUME NEW c \in Callers, NEW call \in Requests \cup {Gate!Idle}, Fits(call),
             calls' = [calls EXCEPT ![c] = call]
      PROVE  /\ calls' \in [Callers -> Requests \cup {Gate!Idle}]
             /\ \A d \in Callers : Fits(calls'[d])
  <2>1. calls' \in [Callers -> Requests \cup {Gate!Idle}]
    BY <1>1, <1>2
  <2>2. ASSUME NEW d \in Callers PROVE Fits(calls'[d])
    <3>1. calls'[d] = IF d = c THEN call ELSE calls[d]
      BY <1>1, <1>2
    <3>2. Fits(calls[d])
      BY <1>1
    <3> HIDE DEF Fits
    <3> QED
      BY <1>2, <3>1, <3>2
  <2> HIDE DEF Fits
  <2> QED
    BY <2>1, <2>2
<1>3. ASSUME NEW c \in Callers, NEW op \in {"submit", "approve", "reject", "on", "off"},
             NEW plan \in Plans \cup {NoPlan}, Gate!Start(c, op, plan),
             op = "submit" => plan \in Plans, op = "approve" => gate.plan \in Plans
      PROVE  /\ calls' \in [Callers -> Requests \cup {Gate!Idle}]
             /\ \A d \in Callers : Fits(calls'[d])
  <2> DEFINE call == [op |-> op, seen |-> gate, plan |-> plan, at |-> "read"]
  <2>1. call \in Requests
    BY <1>1 DEF Requests
  <2>2. Fits(call)
    BY <1>3
  <2>3. calls' = [calls EXCEPT ![c] = call]
    BY <1>3 DEF Gate!Start
  <2> HIDE DEF call, Fits
  <2> QED
    BY <1>2, <2>1, <2>2, <2>3
<1>4. ASSUME NEW c \in Callers, NEW at \in {"filed", "gated", "removed", "told"},
             calls[c] # Gate!Idle, Gate!Move(c, at)
      PROVE  /\ calls' \in [Callers -> Requests \cup {Gate!Idle}]
             /\ \A d \in Callers : Fits(calls'[d])
  <2> DEFINE call == [calls[c] EXCEPT !.at = at]
  <2>1. calls[c] \in Requests
    BY <1>1, <1>4
  <2>2. call \in Requests
    BY <2>1 DEF Requests
  <2>3. Fits(call)
    <3>1. call.op = calls[c].op /\ call.plan = calls[c].plan /\ call.seen = calls[c].seen
      BY <2>1 DEF Requests
    <3>2. Fits(calls[c])
      BY <1>1
    <3> QED
      BY <1>4, <3>1, <3>2
  <2>4. calls' = [calls EXCEPT ![c] = call]
    BY <1>1, <1>4 DEF Gate!Move
  <2> HIDE DEF call, Fits
  <2> QED
    BY <1>2, <2>2, <2>3, <2>4
<1>5. ASSUME NEW c \in Callers, Gate!Done(c)
      PROVE  /\ calls' \in [Callers -> Requests \cup {Gate!Idle}]
             /\ \A d \in Callers : Fits(calls'[d])
  <2>1. Fits(Gate!Idle)
    OBVIOUS
  <2> HIDE DEF Fits
  <2> QED
    BY <1>2, <1>5, <2>1 DEF Gate!Done
<1>6. ASSUME NEW c \in Callers, NEW op, NEW at, Gate!At(c, op, at)
      PROVE  calls[c] \in Requests /\ calls[c] # Gate!Idle /\ calls[c].op = op /\ Fits(calls[c])
  BY <1>1, <1>6 DEF Gate!At
<1>7. ASSUME NEW c \in Callers, Gate!StartSubmit(c) \/ Gate!StartDecision(c) \/ Gate!StartToggle(c)
      PROVE  PlanTyped'
  <2>1. UNCHANGED <<gate, file, approved, task>>
    BY <1>7 DEF Gate!StartSubmit, Gate!StartDecision, Gate!StartToggle
  <2>2. PICK op \in {"submit", "approve", "reject", "on", "off"}, plan \in Plans \cup {NoPlan} :
          /\ Gate!Start(c, op, plan)
          /\ (op = "submit" => plan \in Plans) /\ (op = "approve" => gate.state = "awaiting")
    BY <1>7 DEF Gate!StartSubmit, Gate!StartDecision, Gate!StartToggle, Gate!Awaited
  <2>3. op = "approve" => gate.plan \in Plans
    BY <1>1, <2>2
  <2>4. calls' \in [Callers -> Requests \cup {Gate!Idle}] /\ \A d \in Callers : Fits(calls'[d])
    BY <1>3, <2>2, <2>3
  <2> QED
    BY <1>1, <2>1, <2>4 DEF PlanTyped
<1>8. ASSUME NEW c \in Callers, Gate!WriteFile(c) PROVE PlanTyped'
  <2>1. file' = calls[c].plan /\ calls[c] \in Requests /\ UNCHANGED <<gate, approved, task>>
    BY <1>6, <1>8 DEF Gate!WriteFile
  <2>2. calls' \in [Callers -> Requests \cup {Gate!Idle}] /\ \A d \in Callers : Fits(calls'[d])
    BY <1>4, <1>6, <1>8 DEF Gate!WriteFile
  <2>3. file' \in Plans \cup {NoPlan}
    BY <2>1 DEF Requests
  <2> QED
    BY <1>1, <2>1, <2>2, <2>3 DEF PlanTyped
<1>9. ASSUME NEW c \in Callers, Gate!Submit(c) PROVE PlanTyped'
  <2>1. /\ calls[c] \in Requests /\ calls[c].plan \in Plans /\ UNCHANGED <<file, approved, task>>
        /\ gate' = [state |-> "awaiting", explicit |-> calls[c].seen.explicit, plan |-> calls[c].plan]
    BY <1>6, <1>9 DEF Gate!Submit
  <2>2. calls' \in [Callers -> Requests \cup {Gate!Idle}] /\ \A d \in Callers : Fits(calls'[d])
    BY <1>4, <1>6, <1>9 DEF Gate!Submit
  <2>3. gate' \in Gates /\ gate'.plan \in Plans
    BY <2>1 DEF Requests, Gates
  <2> QED
    BY <1>1, <2>1, <2>2, <2>3 DEF PlanTyped
<1>10. ASSUME NEW c \in Callers, Gate!Announce(c) \/ Gate!TellRejected(c) PROVE PlanTyped'
  <2>1. Gate!Done(c) /\ UNCHANGED <<gate, file, approved>> /\ task' \in {task, "review"}
    BY <1>10 DEF Gate!Announce, Gate!TellRejected
  <2>2. calls' \in [Callers -> Requests \cup {Gate!Idle}] /\ \A d \in Callers : Fits(calls'[d])
    BY <1>5, <2>1
  <2> QED
    BY <1>1, <2>1, <2>2 DEF PlanTyped
<1>11. ASSUME NEW c \in Callers, Gate!Approve(c) PROVE PlanTyped'
  <2>1. /\ calls[c] \in Requests /\ calls[c].seen.plan \in Plans /\ UNCHANGED <<file, task>>
        /\ gate' = [state |-> "none", explicit |-> FALSE, plan |-> calls[c].seen.plan]
        /\ approved' = approved \cup {calls[c].seen.plan} /\ Gate!Done(c)
    BY <1>6, <1>11 DEF Gate!Approve
  <2>2. calls' \in [Callers -> Requests \cup {Gate!Idle}] /\ \A d \in Callers : Fits(calls'[d])
    BY <1>5, <2>1
  <2>3. gate' \in Gates /\ gate'.state = "none" /\ approved' \subseteq Plans
    BY <1>1, <2>1 DEF Gates
  <2> QED
    BY <1>1, <2>1, <2>2, <2>3 DEF PlanTyped
<1>12. ASSUME NEW c \in Callers, Gate!RemoveFile(c) PROVE PlanTyped'
  <2>1. calls' \in [Callers -> Requests \cup {Gate!Idle}] /\ \A d \in Callers : Fits(calls'[d])
    BY <1>4, <1>6, <1>12 DEF Gate!RemoveFile
  <2> QED
    BY <1>1, <1>12, <2>1 DEF Gate!RemoveFile, PlanTyped
<1>13. Gate!Lowered \in Gates /\ Gate!Lowered.state = "none"
  BY DEF Gate!Lowered, Gates
<1>14. ASSUME NEW c \in Callers, Gate!Reject(c) PROVE PlanTyped'
  <2>1. calls' \in [Callers -> Requests \cup {Gate!Idle}] /\ \A d \in Callers : Fits(calls'[d])
    BY <1>4, <1>6, <1>14 DEF Gate!Reject
  <2>2. gate' = Gate!Lowered /\ UNCHANGED <<file, approved, task>>
    BY <1>14 DEF Gate!Reject
  <2> QED
    BY <1>1, <1>13, <2>1, <2>2 DEF PlanTyped
<1>15. ASSUME NEW c \in Callers, Gate!Toggle(c) PROVE PlanTyped'
  <2>1. calls' \in [Callers -> Requests \cup {Gate!Idle}] /\ \A d \in Callers : Fits(calls'[d])
    BY <1>5, <1>15 DEF Gate!Toggle
  <2>2. [state |-> "pending", explicit |-> TRUE, plan |-> NoPlan] \in Gates
    BY DEF Gates
  <2>3. UNCHANGED <<file, approved, task>>
    BY <1>15 DEF Gate!Toggle
  <2>4. gate' \in Gates /\ gate'.state # "awaiting"
    <3>1. CASE Gate!At(c, "on", "read")
                 /\ gate' = [state |-> "pending", explicit |-> TRUE, plan |-> NoPlan]
      BY <2>2, <3>1
    <3>2. CASE Gate!At(c, "off", "read") /\ gate' = Gate!Lowered
      BY <1>13, <3>2
    <3> QED
      BY <1>15, <3>1, <3>2 DEF Gate!Toggle
  <2> QED
    BY <1>1, <2>1, <2>3, <2>4 DEF PlanTyped
<1>16. CASE UNCHANGED planVars
  BY <1>1, <1>16 DEF planVars, PlanTyped
<1> QED
  BY <1>7, <1>8, <1>9, <1>10, <1>11, <1>12, <1>14, <1>15, <1>16 DEF Gate!PlanNext

-----------------------------------------------------------------------------
LEMMA SameTypes == Proved!TypeOK => Broker!TypeOK
BY DEF Proved!TypeOK, Broker!TypeOK, Broker!Kinds, Proved!Kinds, Broker!Requests, Proved!Requests,
       Broker!Answers, Proved!Answers, Broker!NoAnswer, Proved!NoAnswer, Broker!Waiting, Proved!Waiting,
       Broker!DeviceStates, Proved!DeviceStates

-----------------------------------------------------------------------------
\* However deltas, blocks, tool calls, failed writes and rate limits interleave, the notes of an
\* attempt are stored in the order the agent began them; the answer is its last word and the
\* last row; and a turn that ends normally has each segment with text in exactly one row, save
\* one whose own write failed (consumeAdapterEvents and the final write, core/sessions.go:795-844, 1179-1325).
THEOREM NotesStayInOrder == Spec => []NotesInOrder
<1>1. Init => SegInv
  BY InitSegInv DEF Init
<1>2. SegInv /\ [Next]_vars => SegInv'
  BY StepsOfOne, NextSegInv
<1>3. SegInv => NotesInOrder
  BY SegInvMeans
<1> QED
  BY <1>1, <1>2, <1>3, PTL DEF Spec

\* A handle belongs to the project the session is bound to, however late a turn's event
\* arrives (core/sessions.go:1363-1384), and an unattended turn never goes back to a target
\* that refused it (core/runtime.go:122-159), whatever chain the agent has.
THEOREM HandlesStay == Spec => []HandleOfProject
<1>1. Init => HandleInv /\ ChainInv
  BY InitHandleInv, InitChainInv DEF Init
<1>2. HandleInv /\ [Next]_vars => HandleInv'
  BY StepsOfOne, NextHandleInv
<1>3. HandleInv /\ ChainInv /\ [Next]_vars => ChainInv'
  BY StepsOfOne, NextChainInv
<1>4. HandleInv /\ ChainInv => HandleOfProject
  BY DEF HandleInv, ChainInv, HandleOfProject
<1> QED
  BY <1>1, <1>2, <1>3, <1>4, PTL DEF Spec

\* A turn implements TurnContract: the user's row first, at most one answer and nothing after
\* it, an error told only where no answer was written, and a goal run whose final status
\* agrees with it (core/sessions.go:564-848), for any number of attempts, notes and edits.
THEOREM ContractKept == Spec => KeepsContract
<1>1. Init => TurnInv /\ Stream!Contract!Init
  BY InitTurnInv, InitKeepsContract DEF Init
<1>2. TurnInv /\ [Next]_vars => TurnInv'
  BY StepsOfOne, NextTurnInv
<1>3. TurnInv /\ [Next]_vars => [Stream!Contract!Next]_(Stream!Contract!contractVars)
  BY StepsOfOne, NextKeepsContract
<1> QED
  BY <1>1, <1>2, <1>3, PTL DEF Spec, KeepsContract, Stream!KeepsContract, Stream!Contract!Spec

\* No message is told a fresh provider session twice (core/summary.go:26-127), and a plan
\* pinned into what it is told was approved, however submissions, decisions and toggles of
\* several devices interleave (core/plan.go:75-377).
THEOREM ToldOnce == Spec => []ToldOnceAndApproved
<1>1. Init => ReplayInv /\ Gate!PinnedWasApproved
  BY InitReplayInv, InitPlanInv DEF Init
<1>2. ReplayInv /\ [Next]_vars => ReplayInv'
  BY StepsOfOne, NextReplayInv
<1>3. Gate!PinnedWasApproved /\ [Next]_vars => Gate!PinnedWasApproved'
  BY StepsOfOne, NextPlanInv
<1>4. ReplayInv /\ Gate!PinnedWasApproved => ToldOnceAndApproved
  BY DEF ReplayInv, ToldOnceAndApproved
<1> QED
  BY <1>1, <1>2, <1>3, <1>4, PTL DEF Spec

\* However many devices answer, of any number of them, the task is put back at most once for
\* each card shown (server/roadmap_questions.go:29-57).
THEOREM OneRestorePerCard == Spec => []RestoredOncePerCard
<1> USE QueueCapAssumption, MaxCardsAssumption, KindsDisjoint
<1>1. Init => Proved!IInv /\ Proved!TicketInv
  BY SameInit, Proved!InitIInv, Proved!InitTickets DEF Init
<1>2. Proved!IInv /\ [Next]_vars => Proved!IInv'
  BY StepsOfOne, SameNext, Proved!NextIInv
<1>3. Proved!IInv /\ Proved!TicketInv /\ [Next]_vars => Proved!TicketInv'
  BY StepsOfOne, SameNext, Proved!NextTickets
<1>4. Proved!IInv /\ Proved!TicketInv => RestoredOncePerCard
  BY Proved!TicketsBoundRestores, SameRestores DEF RestoredOncePerCard
<1> QED
  BY <1>1, <1>2, <1>3, <1>4, PTL DEF Spec

\* The variables of the part of a turn that runs have their types: no queue of a broker outgrows
\* its capacity, a replay names messages there are, and what a request approves is a plan, not
\* the empty one (core/sessions.go:564-848, core/summary.go:26-127, core/plan.go:75-377).
THEOREM TypeCorrect == Spec => []TypeOK
<1> USE QueueCapAssumption, MaxCardsAssumption, KindsDisjoint
<1> DEFINE Invs == SegInv /\ TurnInv /\ ReplayInv /\ Proved!IInv
<1> DEFINE Typed == SegTyped /\ StreamTyped /\ ToldTyped /\ ReplayTyped /\ PlanTyped
<1>1. Init => Invs /\ Typed
  BY InitSegInv, InitTurnInv, InitReplayInv, SameInit, Proved!InitIInv, InitSegTyped, InitStreamTyped,
     InitReplayTyped, InitPlanTyped DEF Init
<1>2. Invs /\ [Next]_vars => Invs'
  BY StepsOfOne, NextSegInv, NextTurnInv, NextReplayInv, SameNext, Proved!NextIInv
<1>3. Invs /\ Typed /\ [Next]_vars => Typed'
  BY StepsOfOne, NextSegTyped, NextStreamTyped, NextToldTyped, NextReplayTyped, NextPlanTyped
<1>4. Invs /\ Typed => TypeOK
  BY SegTypes, StreamTypes, ReplayTypes, PlanTypes, SameTypes DEF TypeOK, Proved!IInv
<1> QED
  BY <1>1, <1>2, <1>3, <1>4, PTL DEF Spec
=============================================================================
