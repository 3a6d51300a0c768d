------------------------- MODULE DecisionBrokerProofs -------------------------
(***************************************************************************)
(* Proofs about DecisionBroker, for any sets of requests and devices and   *)
(* any queue capacity.  An outcome "allow" is traced back over the answer  *)
(* channel (SlotTraced) to the device that put it there; a device counts   *)
(* as decided only from its send on (UndecidedBefore), so no later step of *)
(* its own can change whom or what it answered.                            *)
(***************************************************************************)
EXTENDS DecisionBroker, TLAPS, FiniteSetTheorems

\* Device d allowed request r, and its send was accepted.
AllowedBy(d, r) ==
    /\ device[d].req = r
    /\ device[d].answer = "allow"
    /\ device[d].decided

UndecidedBefore ==
    \A d \in Devices : device[d].at \in {"idle", "found"} => ~device[d].decided

KnowsItsRequest ==
    \A d \in Devices : device[d].at # "idle" => device[d].req \in Requests

SlotTraced ==
    \A r \in Requests : slot[r] = "allow" => \E d \in Devices : AllowedBy(d, r)

IInv == TypeOK /\ PendingIsWaiting /\ UndecidedBefore /\ KnowsItsRequest
            /\ SlotTraced /\ AllowedByUser

USE QueueCapAssumption

-----------------------------------------------------------------------------
\* The initial state: nobody has asked or answered.
LEMMA InitIInv == Init => IInv
<1> SUFFICES ASSUME Init PROVE IInv
  OBVIOUS
<1>1. TypeOK
  BY DEF Init, TypeOK, DeviceStates, Answers, NoAnswer, Waiting, Kinds
<1> QED
  BY <1>1 DEF Init, IInv, PendingIsWaiting, UndecidedBefore, KnowsItsRequest,
     SlotTraced, AllowedByUser, Waiting, NoAnswer

\* The steps of a requester that leave its channel and the devices alone and
\* return nothing but a refusal.
LEMMA RequesterIInv ==
  ASSUME IInv, NEW r \in Requests,
         \/ Request(r) \/ HandOver(r) \/ SendOnClosedQueue(r)
         \/ ContextDone(r) \/ TimesOut(r) \/ Return(r)
  PROVE  IInv'
<1> USE DEF IInv
<1>1. TypeOK'
  <2> USE DEF TypeOK, turnVars, markVars, Waiting, Returns
  <2>1. CASE Request(r)
    BY <2>1 DEF Request
  <2>2. CASE HandOver(r)
    <3>1. KindOf(r) \in Kinds
      BY DEF KindOf, Kinds
    <3>2. ASSUME NEW q \in Seq(Requests), Len(q) < QueueCap
          PROVE  Append(q, r) \in Seq(Requests) /\ Len(Append(q, r)) <= QueueCap
      BY <3>2
    <3>3. queue' \in [Kinds -> Seq(Requests)]
      BY <2>2, <3>1, <3>2 DEF HandOver
    <3>4. \A k \in Kinds : Len(queue'[k]) <= QueueCap
      <4>1. CASE queue' = queue
        BY <4>1
      <4>2. CASE /\ Len(queue[KindOf(r)]) < QueueCap
                 /\ queue' = [queue EXCEPT ![KindOf(r)] = Append(@, r)]
        BY <4>2, <3>1, <3>2
      <4> QED
        BY <2>2, <4>1, <4>2 DEF HandOver
    <3> QED
      BY <2>2, <3>3, <3>4 DEF HandOver
  <2>3. CASE SendOnClosedQueue(r)
    BY <2>3 DEF SendOnClosedQueue
  <2>4. CASE ContextDone(r)
    BY <2>4 DEF ContextDone
  <2>5. CASE TimesOut(r)
    BY <2>5 DEF TimesOut
  <2>6. CASE Return(r)
    BY <2>6 DEF Return
  <2> QED
    BY <2>1, <2>2, <2>3, <2>4, <2>5, <2>6
<1>2. PendingIsWaiting'
  BY DEF PendingIsWaiting, TypeOK, Waiting, Returns, Request, HandOver,
     SendOnClosedQueue, ContextDone, TimesOut, Return
<1>3. UNCHANGED <<device, slot>>
  BY DEF Request, HandOver, SendOnClosedQueue, ContextDone, TimesOut, Return
<1>4. \A q \in Requests : outcome'[q] = "allow" => outcome[q] = "allow"
  BY DEF TypeOK, Returns, Request, HandOver, SendOnClosedQueue, ContextDone,
     TimesOut, Return
<1>5. (UndecidedBefore /\ KnowsItsRequest /\ SlotTraced)'
  BY <1>3 DEF UndecidedBefore, KnowsItsRequest, SlotTraced, AllowedBy
<1>6. AllowedByUser'
  BY <1>3, <1>4 DEF AllowedByUser
<1> QED
  BY <1>1, <1>2, <1>5, <1>6

\* Receiving an answer: an allow was traced to its device while in the channel.
LEMMA ReceiveIInv ==
  ASSUME IInv, NEW r \in Requests, Receive(r)
  PROVE  IInv'
<1> USE DEF IInv
<1>1. slot[r] \in Answers
  BY DEF Receive, TypeOK
<1>2. TypeOK'
  BY <1>1 DEF Receive, Returns, TypeOK, turnVars, markVars, Waiting
<1>3. PendingIsWaiting'
  BY DEF PendingIsWaiting, Receive, Returns, TypeOK, Waiting
<1>4. (UndecidedBefore /\ KnowsItsRequest)'
  BY DEF UndecidedBefore, KnowsItsRequest, Receive
<1>5. SlotTraced'
  BY DEF SlotTraced, AllowedBy, Receive, TypeOK, NoAnswer
<1>6. AllowedByUser'
  BY DEF AllowedByUser, SlotTraced, AllowedBy, Receive, Returns, TypeOK
<1> QED
  BY <1>2, <1>3, <1>4, <1>5, <1>6

\* The steps of the turn's loop and of the user on the board.
LEMMA LoopIInv ==
  ASSUME IInv,
         \/ \E k \in Kinds : Show(k)
         \/ \E r \in Questions : ShowFromStream(r)
         \/ TurnDone \/ Unsubscribe \/ UserMovesTask
  PROVE  IInv'
<1> USE DEF IInv
<1>1. UNCHANGED <<device, slot, outcome, requester, pending>>
  BY DEF Show, ShowFromStream, TurnDone, Unsubscribe, UserMovesTask, requestVars
<1>2. (PendingIsWaiting /\ UndecidedBefore /\ KnowsItsRequest /\ SlotTraced /\ AllowedByUser)'
  BY <1>1 DEF PendingIsWaiting, UndecidedBefore, KnowsItsRequest, SlotTraced,
     AllowedBy, AllowedByUser
<1>3. TypeOK'
  <2> USE DEF TypeOK, requestVars, markVars, turnVars
  <2>0. ASSUME NEW r \in Requests, MarkPending(r)
        PROVE  /\ meta' \in [Requests -> {"none", "keep", "restore"}]
               /\ task' \in {"in_progress", "review", "done"}
    <3>1. meta[r] \in {"none", "keep", "restore"}
      OBVIOUS
    <3> QED
      BY <2>0, <3>1 DEF MarkPending, Attach, MoveToReview
  <2>1. CASE \E k \in Kinds : Show(k)
    <3>1. PICK k \in Kinds : Show(k)
      BY <2>1
    <3>2. /\ Head(queue[k]) \in Requests
          /\ Tail(queue[k]) \in Seq(Requests)
          /\ Len(Tail(queue[k])) <= Len(queue[k])
      BY <3>1 DEF Show
    <3>3. queue' \in [Kinds -> Seq(Requests)]
      BY <3>1, <3>2 DEF Show
    <3>4. \A j \in Kinds : Len(queue'[j]) <= QueueCap
      BY <3>1, <3>2 DEF Show
    <3>5. cards' \in [Requests -> Nat]
      BY <3>1, <3>2 DEF Show
    <3> QED
      BY <2>0, <3>1, <3>2, <3>3, <3>4, <3>5 DEF Show
  <2>2. CASE \E r \in Questions : ShowFromStream(r)
    <3>1. PICK r \in Requests : ShowFromStream(r)
      BY <2>2 DEF Requests
    <3>2. cards' \in [Requests -> Nat]
      BY <3>1 DEF ShowFromStream
    <3> QED
      BY <2>0, <3>1, <3>2 DEF ShowFromStream
  <2>3. CASE TurnDone
    BY <2>3 DEF TurnDone, MoveToReview
  <2>4. CASE Unsubscribe
    BY <2>4 DEF Unsubscribe, Kinds
  <2>5. CASE UserMovesTask
    BY <2>5 DEF UserMovesTask
  <2> QED
    BY <2>1, <2>2, <2>3, <2>4, <2>5
<1> QED
  BY <1>2, <1>3

\* The steps of a device.  A send is where an answer enters the channel.
LEMMA DeviceIInv ==
  ASSUME IInv, NEW d \in Devices,
         \/ \E r \in Requests, a \in Answers : LookUp(d, r, a)
         \/ SendAnswer(d) \/ PopMark(d) \/ Restore(d)
  PROVE  IInv'
<1> USE DEF IInv
<1>0. device[d] \in DeviceStates
  BY DEF TypeOK
<1>1. TypeOK'
  <2>1. /\ device' \in [Devices -> DeviceStates]
        /\ slot' \in [Requests -> Answers \union {NoAnswer}]
    <3>1. ASSUME NEW r \in Requests, NEW a \in Answers, LookUp(d, r, a)
          PROVE  device' \in [Devices -> DeviceStates] /\ slot' = slot
      <4>1. [at |-> IF r \in pending THEN "found" ELSE "marking",
             req |-> r, answer |-> a, decided |-> FALSE, restored |-> FALSE] \in DeviceStates
        BY DEF DeviceStates
      <4> QED
        BY <3>1, <4>1 DEF LookUp, TypeOK
    <3>2. CASE SendAnswer(d)
      <4>1. \A f \in BOOLEAN :
              [[device[d] EXCEPT !.at = "marking"] EXCEPT !.decided = f] \in DeviceStates
        BY <1>0 DEF DeviceStates
      <4>2. device[d].answer \in Answers \union {NoAnswer}
        BY <1>0 DEF DeviceStates
      <4> QED
        BY <3>2, <4>1, <4>2 DEF SendAnswer, TypeOK
    <3>3. CASE PopMark(d)
      <4>1. \A l \in {"restoring", "done"} : [device[d] EXCEPT !.at = l] \in DeviceStates
        BY <1>0 DEF DeviceStates
      <4> QED
        BY <3>3, <4>1 DEF PopMark, TypeOK
    <3>4. CASE Restore(d)
      <4>1. [[device[d] EXCEPT !.at = "done"] EXCEPT !.restored = TRUE] \in DeviceStates
        BY <1>0 DEF DeviceStates
      <4> QED
        BY <3>4, <4>1 DEF Restore, TypeOK
    <3> QED
      BY <3>1, <3>2, <3>3, <3>4 DEF TypeOK
  <2>2. /\ meta' \in [Requests -> {"none", "keep", "restore"}]
        /\ task' \in {"in_progress", "review", "done"}
    BY DEF LookUp, SendAnswer, PopMark, Restore, TypeOK, markVars
  <2>3. UNCHANGED <<gated, loop, cards, queue, requester, subscribed, outcome, pending>>
    BY DEF LookUp, SendAnswer, PopMark, Restore, turnVars, requestVars
  <2> QED
    BY <2>1, <2>2, <2>3 DEF TypeOK
<1>2. UNCHANGED <<outcome, requester, pending>>
  BY DEF LookUp, SendAnswer, PopMark, Restore, requestVars
<1>3. PendingIsWaiting'
  BY <1>2 DEF PendingIsWaiting
<1>4. \A e \in Devices : e # d => device'[e] = device[e]
  BY DEF LookUp, SendAnswer, PopMark, Restore, TypeOK
<1>5. /\ device'[d].at \in {"idle", "found"} => ~device'[d].decided
      /\ device'[d].at # "idle" => device'[d].req \in Requests
  <2>2. ASSUME NEW r \in Requests, NEW a \in Answers, LookUp(d, r, a)
        PROVE  ~device'[d].decided /\ device'[d].req = r
    BY <2>2 DEF LookUp, TypeOK
  <2>3. CASE SendAnswer(d) \/ PopMark(d) \/ Restore(d)
    <3>1. device'[d].at \in {"marking", "restoring", "done"} /\ device'[d].req = device[d].req
      BY <2>3, <1>0 DEF SendAnswer, PopMark, Restore, TypeOK, DeviceStates
    <3>2. device[d].at # "idle"
      BY <2>3 DEF SendAnswer, PopMark, Restore, At
    <3> QED
      BY <3>1, <3>2 DEF KnowsItsRequest
  <2> QED
    BY <2>2, <2>3
<1>6. (UndecidedBefore /\ KnowsItsRequest)'
  BY <1>4, <1>5 DEF UndecidedBefore, KnowsItsRequest
<1>7. \A r \in Requests : AllowedBy(d, r) => AllowedBy(d, r)'
  <2>1. CASE At(d, "idle") \/ At(d, "found")
    BY <2>1 DEF AllowedBy, At, UndecidedBefore
  <2>2. CASE PopMark(d)
    BY <2>2, <1>0 DEF AllowedBy, PopMark, TypeOK, DeviceStates
  <2>3. CASE Restore(d)
    BY <2>3, <1>0 DEF AllowedBy, Restore, TypeOK, DeviceStates
  <2> QED
    BY <2>1, <2>2, <2>3 DEF LookUp, SendAnswer
<1>8. \A e \in Devices, r \in Requests : AllowedBy(e, r) => AllowedBy(e, r)'
  BY <1>4, <1>7 DEF AllowedBy
<1>9. AllowedByUser'
  BY <1>2, <1>8 DEF AllowedByUser, AllowedBy
<1>10. SlotTraced'
  <2>1. CASE UNCHANGED slot
    BY <2>1, <1>8 DEF SlotTraced
  <2>2. CASE SendAnswer(d) /\ slot[device[d].req] = NoAnswer
    <3>1. /\ device'[d].req = device[d].req
          /\ device'[d].answer = device[d].answer
          /\ device'[d].decided
      BY <2>2 DEF SendAnswer, TypeOK, DeviceStates
    <3>2. slot' = [slot EXCEPT ![device[d].req] = device[d].answer]
      BY <2>2 DEF SendAnswer
    <3>3. ASSUME NEW r \in Requests, slot'[r] = "allow"
          PROVE  \E e \in Devices : AllowedBy(e, r)'
      <4>1. CASE r = device[d].req
        BY <4>1, <3>1, <3>2, <3>3 DEF AllowedBy, TypeOK
      <4>2. CASE r # device[d].req
        <5>1. slot[r] = "allow"
          BY <4>2, <3>2, <3>3 DEF TypeOK
        <5> QED
          BY <5>1, <1>8 DEF SlotTraced
      <4> QED
        BY <4>1, <4>2
    <3> QED
      BY <3>3 DEF SlotTraced
  <2> QED
    BY <2>1, <2>2 DEF LookUp, SendAnswer, PopMark, Restore
<1> QED
  BY <1>1, <1>3, <1>6, <1>9, <1>10

\* A step of the broker, or a stutter, keeps the invariant.
LEMMA NextIInv == IInv /\ [Next]_vars => IInv'
<1> SUFFICES ASSUME IInv, [Next]_vars PROVE IInv'
  OBVIOUS
<1>1. CASE Next
  BY <1>1, RequesterIInv, ReceiveIInv, LoopIInv, DeviceIInv DEF Next, Waits
<1>2. CASE UNCHANGED vars
  BY <1>2 DEF vars, IInv, TypeOK, PendingIsWaiting, UndecidedBefore,
     KnowsItsRequest, SlotTraced, AllowedBy, AllowedByUser
<1> QED
  BY <1>1, <1>2

\* The strengthened invariant holds in every reachable state.
THEOREM Invariance == Spec => []IInv
<1> QED
  BY InitIInv, NextIInv, PTL DEF Spec

\* The brokers' variables keep their types; no queue outgrows its capacity.
THEOREM TypeCorrect == Spec => []TypeOK
<1>1. IInv => TypeOK
  BY DEF IInv
<1> QED
  BY <1>1, Invariance, PTL

\* No timer, cancelled context or full queue ever allows a tool: an allow is
\* the accepted answer of a device to that request.
THEOREM OnlyUsersAllow == Spec => []AllowedByUser
<1>1. IInv => AllowedByUser
  BY DEF IInv
<1> QED
  BY <1>1, Invariance, PTL

\* The pending maps list exactly the requests whose requester still waits, so
\* what the notification actions offer is what can still be decided.
THEOREM PendingIsExact == Spec => []PendingIsWaiting
<1>1. IInv => PendingIsWaiting
  BY DEF IInv
<1> QED
  BY <1>1, Invariance, PTL
-----------------------------------------------------------------------------
(***************************************************************************)
(* A restore undoes one card's move.  The mark of a request is a ticket to *)
(* restore: a card issues at most one, a mark holds at most one, and a     *)
(* device that pops it is the only one that has it from then on.           *)
(***************************************************************************)

\* The devices that took the ticket of request r, used or not.
Takers ==
    [r \in Requests |-> {d \in Devices : device[d].req = r /\ (device[d].restored \/ At(d, "restoring"))}]

Ticket == [r \in Requests |-> IF meta[r] = "restore" THEN 1 ELSE 0]

TakersFinite == \A r \in Requests : IsFiniteSet(Takers[r])

TicketsIssued == \A r \in Requests : Cardinality(Takers[r]) + Ticket[r] <= cards[r]

\* A device that is on its way has not restored yet.
RestoresLast == \A d \in Devices : device[d].restored => At(d, "done")

TicketInv == RestoresLast /\ TakersFinite /\ TicketsIssued

LEMMA InitTickets == Init => TicketInv
<1> SUFFICES ASSUME Init PROVE TicketInv
  OBVIOUS
<1>1. \A r \in Requests : Takers[r] = {}
  BY DEF Init, Takers, At
<1>2. \A r \in Requests : Ticket[r] = 0 /\ cards[r] = 0
  BY DEF Init, Ticket
<1>3. RestoresLast
  BY DEF Init, RestoresLast
<1>4. \A r \in Requests : IsFiniteSet(Takers[r]) /\ Cardinality(Takers[r]) = 0
  BY <1>1, FS_EmptySet
<1> QED
  BY <1>2, <1>3, <1>4 DEF TicketInv, TakersFinite, TicketsIssued

\* With the devices left alone, it is enough that no ticket is issued without a card.
LEMMA CardsPayForTickets ==
  ASSUME IInv, TicketInv, UNCHANGED device, cards' \in [Requests -> Nat],
         \A r \in Requests : Ticket'[r] - Ticket[r] <= cards'[r] - cards[r]
  PROVE  TicketInv'
<1>1. \A r \in Requests : Takers'[r] = Takers[r]
  BY DEF Takers, At
<1>2. \A r \in Requests : /\ Cardinality(Takers[r]) \in Nat /\ cards[r] \in Nat /\ cards'[r] \in Nat
                          /\ Ticket[r] \in Nat /\ Ticket'[r] \in Nat
  BY FS_CardinalityType DEF TicketInv, TakersFinite, IInv, TypeOK, Ticket
<1>3. RestoresLast'
  BY DEF TicketInv, RestoresLast, At
<1> QED
  BY <1>1, <1>2, <1>3 DEF TicketInv, TakersFinite, TicketsIssued

\* A card is shown, and its mark holds one ticket at most.
LEMMA ShownTickets ==
  ASSUME IInv, TicketInv, NEW r \in Requests, MarkPending(r), UNCHANGED device,
         cards' = [cards EXCEPT ![r] = @ + 1]
  PROVE  TicketInv'
<1>1. cards' \in [Requests -> Nat] /\ \A q \in Requests : cards[q] \in Nat
  BY DEF IInv, TypeOK
<1>2. \A q \in Requests : q # r => cards'[q] = cards[q] /\ meta'[q] = meta[q]
  BY DEF IInv, TypeOK, MarkPending, Attach
<1>3. cards'[r] = cards[r] + 1
  BY DEF IInv, TypeOK
<1> QED
  BY <1>1, <1>2, <1>3, CardsPayForTickets DEF Ticket

\* The other steps of the requester and of the loop issue nothing.
LEMMA OtherTickets ==
  ASSUME IInv, TicketInv, UNCHANGED <<device, cards, meta>>
  PROVE  TicketInv'
<1>1. \A r \in Requests : Ticket'[r] = Ticket[r] /\ cards'[r] = cards[r] /\ cards[r] \in Nat
  BY DEF Ticket, IInv, TypeOK
<1>2. cards' \in [Requests -> Nat]
  BY DEF IInv, TypeOK
<1> QED
  BY <1>1, <1>2, CardsPayForTickets DEF Ticket

\* A device's step: popping a mark turns its ticket into a taker, nothing else counts.
LEMMA DeviceTickets ==
  ASSUME IInv, TicketInv, NEW d \in Devices,
         \/ \E r \in Requests, a \in Answers : LookUp(d, r, a)
         \/ SendAnswer(d) \/ PopMark(d) \/ Restore(d)
  PROVE  TicketInv'
<1>0. /\ device[d] \in DeviceStates /\ device \in [Devices -> DeviceStates]
      /\ meta \in [Requests -> {"none", "keep", "restore"}] /\ cards \in [Requests -> Nat]
  BY DEF IInv, TypeOK
<1>1. cards' = cards /\ \A e \in Devices : e # d => device'[e] = device[e]
  BY <1>0 DEF LookUp, SendAnswer, PopMark, Restore, turnVars
<1>2. RestoresLast'
  BY <1>0, <1>1 DEF TicketInv, RestoresLast, At, LookUp, SendAnswer, PopMark, Restore, DeviceStates
<1>3. \A r \in Requests : Cardinality(Takers[r]) \in Nat /\ cards[r] \in Nat
  BY <1>0, FS_CardinalityType DEF TicketInv, TakersFinite
<1>4. CASE PopMark(d) /\ meta[device[d].req] = "restore"
  <2> DEFINE q == device[d].req
  <2>1. q \in Requests /\ ~device[d].restored /\ At(d, "marking")
    BY <1>4 DEF IInv, KnowsItsRequest, PopMark, At, TicketInv, RestoresLast
  <2>2. At(d, "restoring")' /\ device'[d].req = q
    BY <1>0, <1>4 DEF PopMark, At, DeviceStates
  <2>3. d \notin Takers[q] /\ Takers'[q] = Takers[q] \cup {d}
    BY <1>1, <2>1, <2>2 DEF Takers, At
  <2>4. IsFiniteSet(Takers'[q]) /\ Cardinality(Takers'[q]) = Cardinality(Takers[q]) + 1
    BY <2>1, <2>3, FS_AddElement DEF TicketInv, TakersFinite
  <2>5. Ticket[q] = 1 /\ Ticket'[q] = 0
    BY <1>0, <1>4, <2>1 DEF Ticket, PopMark
  <2>6. \A r \in Requests : r # q => Takers'[r] = Takers[r] /\ Ticket'[r] = Ticket[r]
    BY <1>0, <1>1, <1>4, <2>2 DEF Takers, At, Ticket, PopMark
  <2>7. TakersFinite'
    BY <2>4, <2>6 DEF TicketInv, TakersFinite
  <2>8. \A r \in Requests : Cardinality(Takers'[r]) + Ticket'[r] <= cards[r]
    BY <1>3, <2>1, <2>4, <2>5, <2>6 DEF TicketInv, TicketsIssued
  <2> QED
    BY <1>1, <1>2, <2>7, <2>8 DEF TicketInv, TicketsIssued
<1>5. CASE ~(PopMark(d) /\ meta[device[d].req] = "restore")
  <2>1. \A r \in Requests : d \in Takers'[r] <=> d \in Takers[r]
    BY <1>0, <1>5 DEF TicketInv, RestoresLast, Takers, At, LookUp, SendAnswer, PopMark, Restore,
       DeviceStates
  <2>2. \A r \in Requests : Takers'[r] = Takers[r]
    BY <1>1, <2>1 DEF Takers, At
  <2>3. \A r \in Requests : Ticket'[r] = Ticket[r]
    BY <1>0, <1>5 DEF Ticket, LookUp, SendAnswer, PopMark, Restore, markVars
  <2> QED
    BY <1>1, <1>2, <2>2, <2>3 DEF TicketInv, TakersFinite, TicketsIssued
<1> QED
  BY <1>4, <1>5

LEMMA NextTickets == IInv /\ TicketInv /\ [Next]_vars => TicketInv'
<1> SUFFICES ASSUME IInv, TicketInv, [Next]_vars PROVE TicketInv'
  OBVIOUS
<1>1. CASE \E r \in Requests : Request(r) \/ HandOver(r) \/ SendOnClosedQueue(r) \/ Waits(r) \/ Return(r)
  BY <1>1, OtherTickets DEF Request, HandOver, SendOnClosedQueue, Waits, ContextDone, TimesOut,
     Receive, Return, turnVars, markVars
<1>2. CASE \E k \in Kinds : Show(k)
  <2>1. PICK k \in Kinds : Show(k)
    BY <1>2
  <2>2. Head(queue[k]) \in Requests
    BY <2>1 DEF Show, IInv, TypeOK
  <2> QED
    BY <2>1, <2>2, ShownTickets DEF Show
<1>3. CASE \E r \in Questions : ShowFromStream(r)
  BY <1>3, ShownTickets DEF ShowFromStream, Requests
<1>4. CASE TurnDone \/ Unsubscribe \/ UserMovesTask \/ UNCHANGED vars
  BY <1>4, OtherTickets DEF TurnDone, Unsubscribe, UserMovesTask, turnVars, markVars, vars
<1>5. CASE \E d \in Devices :
             \/ \E r \in Requests, a \in Answers : LookUp(d, r, a)
             \/ SendAnswer(d) \/ PopMark(d) \/ Restore(d)
  BY <1>5, DeviceTickets
<1> QED
  BY <1>1, <1>2, <1>3, <1>4, <1>5 DEF Next

\* A restore has spent a ticket that a card issued.
LEMMA TicketsBoundRestores == IInv /\ TicketInv => RestoredOncePerCard
<1> SUFFICES ASSUME IInv, TicketInv, NEW r \in Requests
             PROVE  Cardinality({d \in Devices : device[d].req = r /\ device[d].restored}) <= cards[r]
  BY DEF RestoredOncePerCard
<1> DEFINE Restored == {d \in Devices : device[d].req = r /\ device[d].restored}
<1>1. Restored \in SUBSET Takers[r] /\ IsFiniteSet(Takers[r])
  BY DEF Takers, TicketInv, TakersFinite
<1>2. IsFiniteSet(Restored) /\ Cardinality(Restored) <= Cardinality(Takers[r])
  BY <1>1, FS_Subset
<1>3. Cardinality(Takers[r]) \in Nat /\ Cardinality(Restored) \in Nat /\ cards[r] \in Nat
  BY <1>1, <1>2, FS_CardinalityType DEF IInv, TypeOK
<1>4. Cardinality(Takers[r]) <= cards[r]
  BY <1>3 DEF TicketInv, TicketsIssued, Ticket
<1>5. Cardinality(Restored) <= cards[r]
  BY <1>2, <1>3, <1>4
<1> QED
  BY <1>5

\* However many devices answer, of any number of them, one card of a request
\* moves its task back once (server/roadmap_questions.go:29-57).
THEOREM OneRestorePerCard == Spec => []RestoredOncePerCard
<1>1. IInv /\ TicketInv => RestoredOncePerCard
  BY TicketsBoundRestores
<1>2. Init => TicketInv
  BY InitTickets
<1>3. IInv /\ TicketInv /\ [Next]_vars => TicketInv'
  BY NextTickets
<1> QED
  BY <1>1, <1>2, <1>3, Invariance, PTL DEF Spec
=============================================================================
