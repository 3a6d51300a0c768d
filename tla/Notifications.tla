--------------------------- MODULE Notifications ---------------------------
(***************************************************************************)
(* The notification engine: internal/notify/engine.go over the tables of   *)
(* internal/store/notifications.go, for the types the registry marks as    *)
(* deduplicating.                                                          *)
(*                                                                         *)
(* Producers change the domain - an ask is opened, or settled on whatever  *)
(* surface - and then publish without blocking into a bounded queue; when  *)
(* it is full the event is dropped. One worker takes the events in order   *)
(* and is started again when handling one panics. A statement the worker   *)
(* sends to the store may fail: it is logged and the work goes on. Left    *)
(* out is a failure of the look-up of an earlier notification, which       *)
(* counts as not found.                                                    *)
(***************************************************************************)
EXTENDS Naturals, Sequences

CONSTANTS
  Asks,        \* domain objects somebody has to decide about
  Channels,    \* delivery channels
  QueueDepth,  \* capacity of the queue
  MaxAsks,     \* bound on how often objects are opened
  MaxPanics    \* bound on panics of the worker and restarts of the daemon

VARIABLES
  asks,        \* the domain: the objects that wait for a decision
  asked,       \* how often one was opened
  owed,        \* events whose producer has not called Publish yet
  queue,       \* e.queue
  worker,      \* the event the worker handles and how far it is
  rows,        \* unresolved notifications about each object
  deliveries,  \* the state of the newest delivery row of each channel
  said,        \* for the properties: the last event the queue accepted about it
  panics

noteVars == <<asks, asked, owed, queue, worker, rows, deliveries, said, panics>>

Event == [kind: {"ask", "resolve"}, of: Asks]

NoteTypeOK ==
  /\ asks \subseteq Asks /\ asked \in 0..MaxAsks
  /\ owed \subseteq Event
  /\ queue \in Seq(Event) /\ Len(queue) <= QueueDepth
  /\ worker \in [at: {"idle", "took", "create", "deliver"}, kind: {"ask", "resolve"},
                 of: Asks, left: SUBSET Channels, sends: SUBSET Channels]
  /\ rows \in [Asks -> 0..MaxAsks]
  /\ deliveries \in [Channels -> {"none", "pending", "accepted", "failed"}]
  /\ said \in [Asks -> {"nothing", "ask", "resolve", "lost"}]
  /\ panics \in 0..MaxPanics

Waiting ==
  [at |-> "idle", kind |-> "ask", of |-> CHOOSE a \in Asks : TRUE, left |-> {}, sends |-> {}]

NoteInit ==
  /\ asks = {} /\ asked = 0
  /\ owed = {}
  /\ queue = <<>>
  /\ worker = Waiting
  /\ rows = [a \in Asks |-> 0]
  /\ deliveries = [c \in Channels |-> "none"]
  /\ said = [a \in Asks |-> "nothing"]
  /\ panics = 0

---------------------------------------------------------------------------
\* A producer opens an object or settles it; the event about it comes after.
Open(a) ==
  /\ a \notin asks /\ asked < MaxAsks
  /\ asks' = asks \cup {a} /\ asked' = asked + 1
  /\ owed' = owed \cup {[kind |-> "ask", of |-> a]}
  /\ UNCHANGED <<queue, worker, rows, deliveries, said, panics>>
Settle(a) ==
  /\ a \in asks
  /\ asks' = asks \ {a} /\ UNCHANGED asked
  /\ owed' = owed \cup {[kind |-> "resolve", of |-> a]}
  /\ UNCHANGED <<queue, worker, rows, deliveries, said, panics>>

\* Publish never blocks: the event is queued, or dropped with a line in the log.
\* A producer may also fire twice for the same open object.
Publish(ev) ==
  /\ ev \in owed
  /\ IF Len(queue) < QueueDepth
     THEN queue' = Append(queue, ev) /\ said' = [said EXCEPT ![ev.of] = ev.kind]
     ELSE UNCHANGED <<queue, said>>
  /\ owed' = owed \ {ev}
  /\ UNCHANGED <<asks, asked, worker, rows, deliveries, panics>>
PublishAgain(a) ==
  /\ a \in asks /\ said[a] = "ask" /\ Len(queue) < QueueDepth
  /\ queue' = Append(queue, [kind |-> "ask", of |-> a])
  /\ UNCHANGED <<asks, asked, owed, worker, rows, deliveries, said, panics>>

---------------------------------------------------------------------------
\* Mutation of Taken: the newest event first.
TakenNewest == Len(queue)
\* pump receives from the channel: events are handled in order.
Taken == 1
Take ==
  /\ worker.at = "idle" /\ queue # <<>>
  /\ worker' = [Waiting EXCEPT !.at = "took", !.kind = queue[Taken].kind, !.of = queue[Taken].of]
  /\ queue' = [i \in 1..(Len(queue) - 1) |-> IF i < Taken THEN queue[i] ELSE queue[i + 1]]
  /\ UNCHANGED <<asks, asked, owed, rows, deliveries, said, panics>>

\* The resolutions among the events about a that nobody will handle now.
Forget(gone) ==
  said' = [a \in Asks |-> IF said[a] = "resolve" /\ a \in gone THEN "lost" ELSE said[a]]
Queued(a) == \E i \in DOMAIN queue : queue[i].of = a
InHand(a) == worker.at # "idle" /\ worker.of = a

\* resolve: ResolveNotificationsByResource settles every unresolved row of the
\* object; when it fails the rows stay as they are.
Resolve ==
  /\ worker.at = "took" /\ worker.kind = "resolve"
  /\ \/ rows' = [rows EXCEPT ![worker.of] = 0] /\ UNCHANGED said
     \/ UNCHANGED rows /\ Forget({a \in Asks : InHand(a) /\ ~Queued(a)})
  /\ worker' = Waiting
  /\ UNCHANGED <<asks, asked, owed, queue, deliveries, panics>>

\* Mutation of Repeats: the same ask is announced every time the producer fires.
RepeatsNever == FALSE
\* FindUnresolvedNotification: one pending decision is one ask.
Repeats == rows[worker.of] > 0
Dedupe ==
  /\ worker.at = "took" /\ worker.kind = "ask"
  /\ worker' = IF Repeats THEN Waiting ELSE [worker EXCEPT !.at = "create"]
  /\ UNCHANGED <<asks, asked, owed, queue, rows, deliveries, said, panics>>

\* CreateNotification, and the in-app broadcast before any channel is tried.
Create ==
  /\ worker.at = "create"
  /\ \/ /\ rows' = [rows EXCEPT ![worker.of] = @ + 1]
        /\ \E on \in SUBSET Channels :   \* the channels the user left enabled
             worker' = [worker EXCEPT !.at = "deliver", !.left = on]
     \/ UNCHANGED rows /\ worker' = Waiting
  /\ UNCHANGED <<asks, asked, owed, queue, deliveries, said, panics>>

\* deliver goes through the channels: a row first, then Send, then its outcome;
\* a failing channel does not keep the event from the next one, and neither does
\* a row that cannot be written.
Attempt(c) ==
  /\ worker.at = "deliver" /\ c \in worker.left /\ worker.sends = {}
  /\ \/ /\ deliveries' = [deliveries EXCEPT ![c] = "pending"]
        /\ worker' = [worker EXCEPT !.sends = {c}]
     \/ UNCHANGED deliveries /\ worker' = [worker EXCEPT !.left = @ \ {c}]
  /\ UNCHANGED <<asks, asked, owed, queue, rows, said, panics>>
Outcome(c) ==
  /\ worker.at = "deliver" /\ c \in worker.sends
  /\ \E status \in {"accepted", "failed", "pending"} :   \* finish itself may fail
       deliveries' = [deliveries EXCEPT ![c] = status]
  /\ worker' = [worker EXCEPT !.left = @ \ {c}, !.sends = {}]
  /\ UNCHANGED <<asks, asked, owed, queue, rows, said, panics>>
\* Every pruneInterval inserts the history is trimmed: the newest row stays.
Delivered ==
  /\ worker.at = "deliver" /\ worker.left = {}
  /\ worker' = Waiting
  /\ \E trimmed \in SUBSET (Asks \ {worker.of}) :
       rows' = [a \in Asks |-> IF a \in trimmed THEN 0 ELSE rows[a]]
  /\ UNCHANGED <<asks, asked, owed, queue, deliveries, said, panics>>

\* The user acts on the notification or dismisses it: its row is resolved.
Dismiss(a) ==
  /\ rows[a] > 0
  /\ rows' = [rows EXCEPT ![a] = @ - 1]
  /\ UNCHANGED <<asks, asked, owed, queue, worker, deliveries, said, panics>>

\* run starts the loop again; the event that panicked is lost, and the delivery
\* that was under way stays pending.
AfterPanic == Waiting
Panic ==
  /\ worker.at # "idle" /\ panics < MaxPanics
  /\ panics' = panics + 1
  /\ worker' = AfterPanic
  /\ Forget({a \in Asks : InHand(a) /\ worker.kind = "resolve" /\ ~Queued(a)})
  /\ UNCHANGED <<asks, asked, owed, queue, rows, deliveries>>

\* The daemon stops - Close waits for the event in flight, a crash does not - and
\* starts with an empty queue.
Restart ==
  /\ panics < MaxPanics
  /\ panics' = panics + 1
  /\ worker' = Waiting /\ queue' = <<>> /\ owed' = {}
  /\ Forget({a \in Asks : Queued(a) \/ InHand(a)})
  /\ UNCHANGED <<asks, asked, rows, deliveries>>

WorkerStep ==
  Take \/ Resolve \/ Dedupe \/ Create \/ Delivered \/ \E c \in Channels : Attempt(c) \/ Outcome(c)

NoteNext ==
  \/ \E a \in Asks : Open(a) \/ Settle(a) \/ PublishAgain(a) \/ Dismiss(a)
  \/ \E ev \in owed : Publish(ev)
  \/ WorkerStep \/ Panic \/ Restart

NoteSpec == NoteInit /\ [][NoteNext]_noteVars

\* Producers return from Publish; the worker never stops working.
NoteFairSpec ==
  /\ NoteSpec
  /\ WF_noteVars(\E ev \in owed : Publish(ev))
  /\ WF_noteVars(WorkerStep)

---------------------------------------------------------------------------
\* One pending decision is one notification, however often its producer fires
\* and wherever the worker was interrupted.
OneNotificationPerAsk == \A a \in Asks : rows[a] <= 1

\* Once the queue has taken a resolution and nothing newer about the object, its
\* notifications are resolved in the end: a resolution cannot be overtaken by
\* the creation it follows. Only a panic, a failing statement or a restart while it
\* waits or is handled loses it, unless a newer event about the object waits.
QueuedResolutionSettles ==
  \A a \in Asks : (said[a] = "resolve") ~> (rows[a] = 0 \/ said[a] # "resolve")

=============================================================================
