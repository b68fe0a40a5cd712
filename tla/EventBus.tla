------------------------------ MODULE EventBus ------------------------------
(***************************************************************************)
(* The event bus (src/src/core/event_bus.cpp): a ring of QUEUE_SIZE        *)
(* events, drained by loop() in batches and handed to every subscriber.    *)
(* A handler may post while it runs, and what it posts may be delivered by *)
(* the very call of process() that runs it.  Everything here runs on the   *)
(* loop task: the bus has no lock, and nothing outside the lab endpoints   *)
(* posts from another task.                                                *)
(***************************************************************************)
EXTENDS Naturals, Sequences

CONSTANTS
  Events,        \* what an Event may be: type, source and value together
  Handlers,      \* the functions that may be subscribed
  QUEUE_SIZE,
  MAX_HANDLERS,
  maxEvents,     \* the argument loop() gives process()
  Posts          \* bound on the events posted in a behaviour

ASSUME BusAssumption ==
  /\ QUEUE_SIZE \in Nat \ {0} /\ MAX_HANDLERS \in Nat \ {0}
  /\ maxEvents \in Nat \ {0} /\ Posts \in Nat

VARIABLES
  queue_, head_, tail_, count_,
  handlers_,     \* the first handlerCount_ entries of handlers_
  processed,     \* local of process(): events taken so far
  event,         \* local of process(): its copy of the event in hand
  next,          \* local of process(): the handler to call next; 0 outside
  dropped_,      \* events post() refused
  accepted,      \* history: the events post() took
  seen           \* history: the events each handler was called with

ring    == <<queue_, head_, tail_, count_>>
taking  == <<processed, event, next>>
vars    == <<ring, handlers_, taking, dropped_, accepted, seen>>

\* tail_ is where head_ and count_ say the ring ends.
TypeOK ==
  /\ queue_ \in [0..QUEUE_SIZE-1 -> Events]
  /\ head_ \in 0..QUEUE_SIZE-1 /\ tail_ \in 0..QUEUE_SIZE-1
  /\ count_ \in 0..QUEUE_SIZE /\ tail_ = (head_ + count_) % QUEUE_SIZE
  /\ handlers_ \in Seq(Handlers) /\ Len(handlers_) <= MAX_HANDLERS
  /\ processed \in 0..maxEvents /\ event \in Events
  /\ next \in 0..MAX_HANDLERS
  /\ dropped_ \in 0..Posts
  /\ accepted \in Seq(Events)
  /\ seen \in [Handlers -> Seq(Events)]

Init == /\ queue_ \in {[i \in 0..QUEUE_SIZE-1 |-> e] : e \in Events}
        /\ head_ = 0 /\ tail_ = 0 /\ count_ = 0
        /\ handlers_ = <<>>
        /\ processed = 0 /\ event = queue_[0] /\ next = 0
        /\ dropped_ = 0 /\ accepted = <<>> /\ seen = [h \in Handlers |-> <<>>]

\* Fault: an index that runs off the ring.
FollowingUnwrapped(i) == i + 1

Following(i) == (i + 1) % QUEUE_SIZE

Subscribed == {handlers_[i] : i \in DOMAIN handlers_}

\* setup() subscribes before anything is posted; a second subscription of the
\* same function, and one too many, change nothing.
subscribe(h) ==
  /\ accepted = <<>> /\ next = 0
  /\ Len(handlers_) < MAX_HANDLERS /\ h \notin Subscribed
  /\ handlers_' = Append(handlers_, h)
  /\ UNCHANGED <<ring, taking, dropped_, accepted, seen>>

\* Fault: no check for a full ring.
postUnchecked(e) ==
  /\ Len(accepted) < Posts /\ handlers_ # <<>>
  /\ queue_' = [queue_ EXCEPT ![tail_] = e]
  /\ tail_' = Following(tail_)
  /\ count_' = count_ + 1
  /\ accepted' = Append(accepted, e)
  /\ UNCHANGED <<head_, handlers_, taking, dropped_, seen>>

\* A full ring drops the newest event.
post(e) ==
  /\ Len(accepted) + dropped_ < Posts /\ handlers_ # <<>>
  /\ IF count_ < QUEUE_SIZE
     THEN /\ queue_' = [queue_ EXCEPT ![tail_] = e]
          /\ tail_' = Following(tail_)
          /\ count_' = count_ + 1
          /\ accepted' = Append(accepted, e) /\ UNCHANGED dropped_
     ELSE /\ dropped_' = dropped_ + 1
          /\ UNCHANGED <<queue_, tail_, count_, accepted>>
  /\ UNCHANGED <<head_, handlers_, taking, seen>>

\* process() takes the next event out of the ring before any handler runs.
Pop ==
  /\ next = 0 /\ count_ > 0 /\ processed < maxEvents
  /\ event' = queue_[head_]
  /\ head_' = Following(head_)
  /\ count_' = count_ - 1
  /\ next' = 1
  /\ UNCHANGED <<queue_, tail_, handlers_, processed, dropped_, accepted, seen>>

\* Fault: the last handler of the list is left out.
CallOneLess ==
  /\ next > 0
  /\ seen' = [seen EXCEPT ![handlers_[next]] = Append(@, event)]
  /\ IF next + 1 < Len(handlers_)
     THEN next' = next + 1 /\ UNCHANGED processed
     ELSE next' = 0 /\ processed' = processed + 1
  /\ UNCHANGED <<ring, handlers_, event, dropped_, accepted>>

\* One handler call returns; its own posts are steps before this one.
Call ==
  /\ next > 0
  /\ seen' = [seen EXCEPT ![handlers_[next]] = Append(@, event)]
  /\ IF next < Len(handlers_)
     THEN next' = next + 1 /\ UNCHANGED processed
     ELSE next' = 0 /\ processed' = processed + 1
  /\ UNCHANGED <<ring, handlers_, event, dropped_, accepted>>

\* Fault: the budget of events is not renewed from call to call.
ReturnSpent ==
  /\ next = 0 /\ processed > 0 /\ (count_ = 0 \/ processed = maxEvents)
  /\ UNCHANGED vars

\* process() returns; the next pass of loop() will call it again.
Return ==
  /\ next = 0 /\ processed > 0 /\ (count_ = 0 \/ processed = maxEvents)
  /\ processed' = 0
  /\ UNCHANGED <<ring, handlers_, event, next, dropped_, accepted, seen>>

Process == Pop \/ Call \/ Return

Next == \/ \E h \in Handlers : subscribe(h)
        \/ \E e \in Events : post(e)
        \/ Process

Spec == Init /\ [][Next]_vars /\ WF_vars(Process)

-----------------------------------------------------------------------------
(* Properties *)

\* The events in the ring, oldest first.
Pending == [i \in 1..count_ |-> queue_[(head_ + i - 1) % QUEUE_SIZE]]

\* Every handler is called with every accepted event, once and in order: the
\* first handlers of the round have seen one event more than the others.
InOrderToEveryHandler ==
  \A i \in DOMAIN handlers_ :
     accepted = seen[handlers_[i]]
                  \o (IF next # 0 /\ i >= next THEN <<event>> ELSE <<>>)
                  \o Pending

\* The ring is the bounded FIFO, whatever the handlers post while it drains.
Fifo == INSTANCE BoundedFifo WITH fifo <- Pending, Capacity <- QUEUE_SIZE
FifoSpec == Fifo!Spec

\* Every event the bus took reaches every subscriber.
AllDelivered ==
  \A n \in 1..Posts :
     Len(accepted) >= n ~> \A h \in Subscribed : Len(seen[h]) >= n
=============================================================================
