--------------------------- MODULE EventBusProofs ---------------------------
(***************************************************************************)
(* Proofs about EventBus, for every size of the ring, of the handler list  *)
(* and of the batches loop() drains, and for every number of posts.        *)
(***************************************************************************)
EXTENDS EventBus, SequenceTheorems, TLAPS

\* TypeOK in three parts.
RingTyped   == /\ queue_ \in [0..QUEUE_SIZE-1 -> Events]
               /\ head_ \in 0..QUEUE_SIZE-1 /\ tail_ \in 0..QUEUE_SIZE-1
               /\ count_ \in 0..QUEUE_SIZE /\ tail_ = (head_ + count_) % QUEUE_SIZE
RoundTyped  == /\ handlers_ \in Seq(Handlers) /\ Len(handlers_) <= MAX_HANDLERS
               /\ processed \in 0..maxEvents /\ event \in Events
               /\ next \in 0..MAX_HANDLERS
GhostsTyped == /\ dropped_ \in 0..Posts
               /\ accepted \in Seq(Events)
               /\ seen \in [Handlers -> Seq(Events)]

\* Nothing is in the ring before somebody is subscribed and something posted.
Quiet == handlers_ = <<>> \/ accepted = <<>> => count_ = 0

\* A round goes over handlers that are there, within the budget of its batch.
InRound == next # 0 => /\ next \in 1..Len(handlers_)
                       /\ processed < maxEvents

\* Nobody is subscribed twice, nor called without being subscribed.
Once == /\ \A i, j \in 1..Len(handlers_) : handlers_[i] = handlers_[j] => i = j
        /\ \A h \in Handlers : h \notin Subscribed => seen[h] = <<>>

\* What of the event in hand the i-th handler has not been called with yet.
Share(i) == IF next # 0 /\ i >= next THEN <<event>> ELSE <<>>

\* InOrderToEveryHandler in these terms.
Ordered == \A i \in 1..Len(handlers_) :
             accepted = seen[handlers_[i]] \o Share(i) \o Pending

\* The inductive invariant.
IInv == /\ RingTyped /\ RoundTyped /\ GhostsTyped
        /\ Quiet /\ InRound /\ Once /\ Ordered

-----------------------------------------------------------------------------
(* The ring *)

\* What % does to an index that has gone round the ring once at most.
LEMMA Wrap ==
  ASSUME NEW q \in Nat \ {0}, NEW a \in 0..2*q-1
  PROVE  a % q = IF a < q THEN a ELSE a - q
<1>1. CASE a < q
  BY <1>1
<1>2. CASE a >= q
  <2>1. a = q + (a - q) /\ a - q \in 0..q-1
    BY <1>2
  <2>2. a \div q = 1
    BY <2>1
  <2> QED BY <2>1, <2>2
<1> QED BY <1>1, <1>2

\* The same for an index of the ring and a number of events in it.
LEMMA Around ==
  ASSUME NEW i \in 0..QUEUE_SIZE-1, NEW n \in 0..QUEUE_SIZE
  PROVE  (i + n) % QUEUE_SIZE = IF i + n < QUEUE_SIZE THEN i + n ELSE i + n - QUEUE_SIZE
<1>1. QUEUE_SIZE \in Nat \ {0}
  BY BusAssumption
<1>2. \A a \in 0..2*QUEUE_SIZE-1 :
        a % QUEUE_SIZE = IF a < QUEUE_SIZE THEN a ELSE a - QUEUE_SIZE
  BY <1>1, Wrap
<1>3. PICK a \in 0..2*QUEUE_SIZE-1 : a = i + n
  BY <1>1
<1>4. a % QUEUE_SIZE = IF a < QUEUE_SIZE THEN a ELSE a - QUEUE_SIZE
  BY <1>2, Zenon
<1> QED BY <1>1, <1>3, <1>4

\* Where the i-th of the pending events is.
Place(i) == IF head_ + i - 1 < QUEUE_SIZE THEN head_ + i - 1
                                          ELSE head_ + i - 1 - QUEUE_SIZE

\* What follows for Pending: it is a sequence of events, without a % in it.
Placed == /\ Pending \in Seq(Events) /\ Len(Pending) = count_
          /\ \A i \in 1..count_ : /\ Place(i) \in 0..QUEUE_SIZE-1
                                  /\ Pending[i] = queue_[Place(i)]

LEMMA PendingIsSeq == RingTyped => Placed
<1> SUFFICES ASSUME RingTyped PROVE Placed
  OBVIOUS
<1> USE BusAssumption DEF RingTyped
<1>1. ASSUME NEW i \in 1..count_
      PROVE  /\ (head_ + i - 1) % QUEUE_SIZE = Place(i)
             /\ Place(i) \in 0..QUEUE_SIZE-1
  <2>1. PICK n \in 0..QUEUE_SIZE : n = i - 1 /\ head_ + i - 1 = head_ + n
    OBVIOUS
  <2>2. (head_ + n) % QUEUE_SIZE = IF head_ + n < QUEUE_SIZE THEN head_ + n
                                                          ELSE head_ + n - QUEUE_SIZE
    BY Around
  <2> QED BY <2>1, <2>2 DEF Place
<1>2. Pending = [i \in 1..count_ |-> queue_[Place(i)]]
  BY <1>1 DEF Pending
<1>3. Pending \in [1..count_ -> Events]
  BY <1>1, <1>2
<1>4. count_ \in Nat
  OBVIOUS
<1>5. Pending \in Seq(Events)
  BY <1>3, <1>4, SeqDef, Zenon
<1>6. DOMAIN Pending = 1..count_
  BY <1>3
<1>7. Len(Pending) = count_
  BY <1>4, <1>5, <1>6
<1> QED BY <1>1, <1>2, <1>5, <1>7 DEF Placed

\* post() puts its event behind the others, in a slot none of them is in.
LEMMA PendingAppend ==
  ASSUME RingTyped, NEW e \in Events, count_ < QUEUE_SIZE,
         queue_' = [queue_ EXCEPT ![tail_] = e], head_' = head_, count_' = count_ + 1,
         RingTyped'
  PROVE  Pending' = Append(Pending, e)
<1> USE BusAssumption DEF RingTyped
<1>1. Placed /\ Placed'
  BY PendingIsSeq, PTL
<1>2. /\ Pending' \in Seq(Events) /\ Len(Pending') = count_ + 1
      /\ \A i \in 1..count_ + 1 : Pending'[i] = queue_'[Place(i)]
  <2>1. /\ Pending' \in Seq(Events) /\ Len(Pending') = count_'
        /\ \A i \in 1..count_' : Pending'[i] = queue_'[Place(i)']
    BY <1>1 DEF Placed
  <2>2. \A i \in 1..count_ + 1 : Place(i)' = Place(i)
    BY DEF Place
  <2> QED BY <2>1, <2>2
<1>3. tail_ = Place(count_ + 1)
  BY Around DEF Place
<1>4. \A i \in 1..count_ : Place(i) # tail_
  BY <1>3 DEF Place
<1>5. \A i \in 1..count_ : Pending'[i] = Pending[i]
  BY <1>1, <1>2, <1>4 DEF Placed
<1>6. Pending'[count_ + 1] = e
  BY <1>2, <1>3
<1>7. /\ Append(Pending, e) \in Seq(Events) /\ Len(Append(Pending, e)) = count_ + 1
      /\ \A i \in 1..count_ : Append(Pending, e)[i] = Pending[i]
      /\ Append(Pending, e)[count_ + 1] = e
  <2>1. Pending \in Seq(Events) /\ Len(Pending) = count_
    BY <1>1 DEF Placed
  <2>2. /\ Append(Pending, e) \in Seq(Events)
        /\ Len(Append(Pending, e)) = Len(Pending) + 1
        /\ \A i \in 1..Len(Pending) : Append(Pending, e)[i] = Pending[i]
        /\ Append(Pending, e)[Len(Pending) + 1] = e
    BY <2>1, AppendProperties
  <2> QED BY <2>1, <2>2
<1>8. ASSUME NEW i \in 1..count_ + 1 PROVE Pending'[i] = Append(Pending, e)[i]
  <2>1. CASE i = count_ + 1
    BY <1>6, <1>7, <2>1
  <2>2. CASE i # count_ + 1
    <3>1. i \in 1..count_
      BY <2>2
    <3> QED BY <1>5, <1>7, <3>1
  <2> QED BY <2>1, <2>2
<1> QED BY <1>2, <1>7, <1>8, SeqEqual

\* process() takes the oldest event, and the others keep their order.
LEMMA PendingTake ==
  ASSUME RingTyped, count_ > 0,
         queue_' = queue_, head_' = Following(head_), count_' = count_ - 1, RingTyped'
  PROVE  Pending = <<queue_[head_]>> \o Pending' /\ Pending' = Tail(Pending)
<1> USE BusAssumption DEF RingTyped
<1>1. Placed /\ Placed'
  BY PendingIsSeq, PTL
<1>2. /\ Pending' \in Seq(Events) /\ Len(Pending') = count_ - 1
      /\ \A i \in 1..count_ - 1 : Pending'[i] = queue_[Place(i)']
  BY <1>1 DEF Placed
<1>3. head_' = IF head_ + 1 < QUEUE_SIZE THEN head_ + 1 ELSE 0
  <2>1. 1 \in 0..QUEUE_SIZE
    OBVIOUS
  <2>2. (head_ + 1) % QUEUE_SIZE = IF head_ + 1 < QUEUE_SIZE THEN head_ + 1
                                                              ELSE head_ + 1 - QUEUE_SIZE
    BY <2>1, Around, Zenon
  <2> QED BY <2>2 DEF Following
<1>4. \A i \in 1..count_ - 1 : Place(i)' = Place(i + 1)
  BY <1>3 DEF Place
<1>5. \A i \in 1..count_ - 1 : Pending'[i] = Pending[i + 1]
  BY <1>1, <1>2, <1>4 DEF Placed
<1>6. Pending[1] = queue_[head_]
  BY <1>1 DEF Place, Placed
<1>7. Pending # <<>> /\ queue_[head_] \in Events
  BY <1>1 DEF Placed
<1>8. Pending' = Tail(Pending)
  <2>1. /\ Tail(Pending) \in Seq(Events) /\ Len(Tail(Pending)) = count_ - 1
        /\ \A i \in 1..count_ - 1 : Tail(Pending)[i] = Pending[i + 1]
    BY <1>1, <1>7, HeadTailProperties DEF Placed
  <2>2. \A i \in 1..count_ - 1 : Pending'[i] = Tail(Pending)[i]
    BY <1>5, <2>1
  <2> QED BY <1>2, <2>1, <2>2, SeqEqual
<1>9. Pending = <<Pending[1]>> \o Tail(Pending)
  <2>1. /\ Pending \in Seq(Events) /\ Pending # <<>>
        /\ 1 \in 1..Len(Pending) /\ Len(Pending) \in 1..Len(Pending)
    BY <1>1, <1>7 DEF Placed
  <2>2. SubSeq(Pending, 1, Len(Pending)) =
           <<Pending[1]>> \o SubSeq(Pending, 1 + 1, Len(Pending))
    BY <2>1, SubSeqRecursiveFirst, Zenon
  <2>3. SubSeq(Pending, 1, Len(Pending)) = Pending
    BY <2>1, SubSeqFull, Zenon
  <2>4. Tail(Pending) = SubSeq(Pending, 1 + 1, Len(Pending))
    BY <2>1, TailIsSubSeq
  <2> QED BY <2>2, <2>3, <2>4
<1> QED BY <1>6, <1>8, <1>9
-----------------------------------------------------------------------------
(* The invariant *)

LEMMA Typed == RingTyped /\ RoundTyped /\ GhostsTyped <=> TypeOK
BY DEF TypeOK, RingTyped, RoundTyped, GhostsTyped

LEMMA InOrder == RoundTyped => (InOrderToEveryHandler <=> Ordered)
<1> SUFFICES ASSUME RoundTyped PROVE InOrderToEveryHandler <=> Ordered
  OBVIOUS
<1>1. DOMAIN handlers_ = 1..Len(handlers_)
  BY DEF RoundTyped
<1> QED BY <1>1, Zenon DEF InOrderToEveryHandler, Ordered, Share

\* Everything InOrderToEveryHandler concatenates is a sequence of events.
LEMMA ShareIsSeq ==
  ASSUME RoundTyped, GhostsTyped, NEW i \in 1..Len(handlers_)
  PROVE  /\ handlers_[i] \in Handlers /\ seen[handlers_[i]] \in Seq(Events)
         /\ Share(i) \in Seq(Events)
<1>1. handlers_[i] \in Handlers
  BY DEF RoundTyped
<1>2. seen[handlers_[i]] \in Seq(Events)
  BY <1>1 DEF GhostsTyped
<1>3. Share(i) \in Seq(Events)
  BY DEF Share, RoundTyped
<1> QED BY <1>1, <1>2, <1>3

\* What is appended to the last of three sequences is appended to all of them.
LEMMA AppendBehind ==
  ASSUME NEW S, NEW s \in Seq(S), NEW t \in Seq(S), NEW e \in S
  PROVE  s \o Append(t, e) = Append(s \o t, e)
<1>1. <<e>> \in Seq(S) /\ s \o t \in Seq(S)
  BY ConcatProperties
<1>2. s \o Append(t, e) = s \o (t \o <<e>>)
  BY AppendIsConcat
<1>3. s \o (t \o <<e>>) = (s \o t) \o <<e>>
  BY <1>1, ConcatAssociative
<1>4. (s \o t) \o <<e>> = Append(s \o t, e)
  BY <1>1, AppendIsConcat
<1> QED BY <1>2, <1>3, <1>4

\* The event in hand may be counted with what was seen or with what is pending.
LEMMA ConcatInHand ==
  ASSUME NEW S, NEW s \in Seq(S), NEW e \in S, NEW t \in Seq(S)
  PROVE  s \o (<<e>> \o t) = s \o <<e>> \o t
<1>1. <<e>> \in Seq(S)
  OBVIOUS
<1> QED BY <1>1, ConcatAssociative

LEMMA InitIInv == Init => IInv
<1> SUFFICES ASSUME Init PROVE IInv
  OBVIOUS
<1> USE BusAssumption DEF Init
<1>1. RingTyped
  <2>1. 0 % QUEUE_SIZE = 0
    BY Wrap
  <2> QED BY <2>1 DEF RingTyped
<1>2. RoundTyped
  BY DEF RoundTyped
<1>3. GhostsTyped
  BY DEF GhostsTyped
<1>4. Quiet /\ InRound
  BY DEF Quiet, InRound
<1>5. Once
  BY DEF Once
<1>6. Ordered
  BY DEF Ordered
<1> QED BY <1>1, <1>2, <1>3, <1>4, <1>5, <1>6 DEF IInv

\* Every step keeps the invariant.
LEMMA NextIInv == IInv /\ [Next]_vars => IInv'
<1> SUFFICES ASSUME IInv, [Next]_vars PROVE IInv'
  OBVIOUS
<1> USE BusAssumption DEF IInv, ring, taking
<1>1. ASSUME NEW h \in Handlers, subscribe(h) PROVE IInv'
  <2> USE <1>1 DEF subscribe
  <2>1. RingTyped'
    BY DEF RingTyped
  <2>2. RoundTyped'
    BY DEF RoundTyped
  <2>3. GhostsTyped'
    BY DEF GhostsTyped
  <2>4. /\ Len(handlers_') = Len(handlers_) + 1
        /\ \A i \in 1..Len(handlers_) : handlers_'[i] = handlers_[i]
        /\ handlers_'[Len(handlers_) + 1] = h /\ Len(handlers_) \in Nat
    BY DEF RoundTyped
  <2>5. Quiet'
    BY DEF Quiet, RoundTyped
  <2>6. InRound'
    BY DEF InRound
  <2>7. Subscribed' = Subscribed \cup {h}
    <3>1. Subscribed = {handlers_[i] : i \in 1..Len(handlers_)}
      BY DEF Subscribed, RoundTyped
    <3>2. Subscribed' = {handlers_'[i] : i \in 1..Len(handlers_) + 1}
      BY <2>2, <2>4 DEF Subscribed, RoundTyped
    <3> QED BY <2>4, <3>1, <3>2
  <2>8. Once'
    <3>1. \A i \in 1..Len(handlers_) : handlers_[i] # h
      BY DEF Subscribed, RoundTyped
    <3>2. \A i, j \in 1..Len(handlers_') : handlers_'[i] = handlers_'[j] => i = j
      BY <2>4, <3>1 DEF Once
    <3> QED BY <2>7, <3>2 DEF Once
  <2>9. Ordered'
    <3>1. count_ = 0 /\ Pending = <<>> /\ Pending' = Pending
      BY DEF Quiet, Pending
    <3>2. ASSUME NEW i \in 1..Len(handlers_) PROVE seen[handlers_[i]] = <<>>
      <4>1. <<>> = seen[handlers_[i]] \o Share(i) \o Pending
        BY DEF Ordered
      <4>2. Share(i) = <<>>
        BY DEF Share
      <4>3. seen[handlers_[i]] \in Seq(Events)
        BY ShareIsSeq
      <4>4. seen[handlers_[i]] \o <<>> \o <<>> = seen[handlers_[i]]
        BY <4>3, ConcatEmptySeq
      <4> QED BY <3>1, <4>1, <4>2, <4>4
    <3>3. \A i \in 1..Len(handlers_') : seen[handlers_'[i]] = <<>>
      BY <2>4, <3>2 DEF Once
    <3>4. \A i \in 1..Len(handlers_') : Share(i)' = <<>>
      BY DEF Share
    <3>5. <<>> \o <<>> \o <<>> = <<>>
      BY EmptySeq, ConcatEmptySeq
    <3> QED BY <3>1, <3>3, <3>4, <3>5 DEF Ordered
  <2> QED BY <2>1, <2>2, <2>3, <2>5, <2>6, <2>8, <2>9
<1>2. ASSUME NEW e \in Events, post(e), count_ < QUEUE_SIZE PROVE IInv'
  <2> USE <1>2 DEF post
  <2>1. RingTyped'
    <3>1. tail_' = IF tail_ + 1 < QUEUE_SIZE THEN tail_ + 1 ELSE tail_ + 1 - QUEUE_SIZE
      <4>1. 1 \in 0..QUEUE_SIZE /\ tail_ \in 0..QUEUE_SIZE-1
        BY DEF RingTyped
      <4> QED BY <4>1, Around, Zenon DEF Following
    <3>2. tail_ = IF head_ + count_ < QUEUE_SIZE THEN head_ + count_
                                                 ELSE head_ + count_ - QUEUE_SIZE
      BY Around DEF RingTyped
    <3>3. (head_' + count_') % QUEUE_SIZE =
             IF head_' + count_' < QUEUE_SIZE THEN head_' + count_'
                                              ELSE head_' + count_' - QUEUE_SIZE
      <4>1. head_' \in 0..QUEUE_SIZE-1 /\ count_' \in 0..QUEUE_SIZE
        BY DEF RingTyped
      <4> QED BY <4>1, Around, Zenon
    <3>4. tail_' \in 0..QUEUE_SIZE-1 /\ tail_' = (head_' + count_') % QUEUE_SIZE
      BY <3>1, <3>2, <3>3 DEF RingTyped
    <3> QED BY <3>4 DEF RingTyped
  <2>2. RoundTyped'
    BY DEF RoundTyped
  <2>3. GhostsTyped'
    <3>1. accepted' \in Seq(Events)
      <4>1. accepted \in Seq(Events) /\ accepted' = Append(accepted, e)
        BY DEF GhostsTyped
      <4> QED BY <4>1, AppendProperties
    <3>2. dropped_' = dropped_ /\ seen' = seen
      OBVIOUS
    <3> QED BY <3>1, <3>2 DEF GhostsTyped
  <2>4. Quiet'
    BY DEF Quiet, GhostsTyped
  <2>5. InRound'
    BY DEF InRound
  <2>6. Once'
    BY DEF Once, Subscribed
  <2>7. Ordered'
    <3>1. Pending \in Seq(Events) /\ Pending' = Append(Pending, e)
      BY <2>1, PendingIsSeq, PendingAppend DEF Placed
    <3>2. ASSUME NEW i \in 1..Len(handlers_)
          PROVE  accepted' = seen[handlers_[i]] \o Share(i) \o Pending'
      <4> DEFINE s == seen[handlers_[i]] \o Share(i)
      <4>1. s \in Seq(Events)
        BY ShareIsSeq, ConcatProperties
      <4>2. accepted = s \o Pending
        BY DEF Ordered
      <4> HIDE DEF s
      <4>3. s \o Append(Pending, e) = Append(s \o Pending, e)
        BY <3>1, <4>1, AppendBehind
      <4>4. accepted' = s \o Pending'
        BY <3>1, <4>2, <4>3
      <4> QED BY <4>4 DEF s
    <3>3. Len(handlers_') = Len(handlers_) /\ seen' = seen /\ handlers_' = handlers_
      OBVIOUS
    <3>4. \A i \in 1..Len(handlers_) : Share(i)' = Share(i)
      BY DEF Share
    <3> QED BY <3>2, <3>3, <3>4, Zenon DEF Ordered
  <2> QED BY <2>1, <2>2, <2>3, <2>4, <2>5, <2>6, <2>7
<1>3. ASSUME NEW e \in Events, post(e), count_ >= QUEUE_SIZE PROVE IInv'
  <2> USE <1>3 DEF post
  <2>1. RingTyped'
    <3>1. UNCHANGED ring
      BY DEF RingTyped
    <3> QED BY <3>1 DEF RingTyped
  <2>2. RoundTyped'
    BY DEF RoundTyped
  <2>3. GhostsTyped'
    BY DEF GhostsTyped, RingTyped
  <2>4. Quiet'
    BY DEF Quiet
  <2>5. InRound'
    BY DEF InRound
  <2>6. Once'
    BY DEF Once, Subscribed
  <2>7. Ordered'
    <3>1. UNCHANGED <<queue_, count_, accepted, seen, handlers_, head_, next, event>>
      BY DEF RingTyped
    <3> QED BY <3>1, Zenon DEF Ordered, Share, Pending
  <2> QED BY <2>1, <2>2, <2>3, <2>4, <2>5, <2>6, <2>7
<1>4. ASSUME Pop PROVE IInv'
  <2> USE <1>4 DEF Pop
  <2>1. RingTyped'
    <3>1. head_' = IF head_ + 1 < QUEUE_SIZE THEN head_ + 1 ELSE head_ + 1 - QUEUE_SIZE
      <4>1. 1 \in 0..QUEUE_SIZE /\ head_ \in 0..QUEUE_SIZE-1
        BY DEF RingTyped
      <4> QED BY <4>1, Around, Zenon DEF Following
    <3>2. tail_ = IF head_ + count_ < QUEUE_SIZE THEN head_ + count_
                                                 ELSE head_ + count_ - QUEUE_SIZE
      BY Around DEF RingTyped
    <3>3. head_' \in 0..QUEUE_SIZE-1 /\ count_' \in 0..QUEUE_SIZE
      BY <3>1 DEF RingTyped
    <3>4. (head_' + count_') % QUEUE_SIZE =
             IF head_' + count_' < QUEUE_SIZE THEN head_' + count_'
                                              ELSE head_' + count_' - QUEUE_SIZE
      BY <3>3, Around, Zenon
    <3>5. tail_' = (head_' + count_') % QUEUE_SIZE
      BY <3>1, <3>2, <3>4 DEF RingTyped
    <3> QED BY <3>3, <3>5 DEF RingTyped
  <2>2. RoundTyped'
    <3>1. event' \in Events
      BY DEF RingTyped
    <3> QED BY <3>1 DEF RoundTyped
  <2>3. GhostsTyped'
    BY DEF GhostsTyped
  <2>4. Quiet'
    BY DEF Quiet, RingTyped
  <2>5. InRound'
    BY DEF InRound, RoundTyped, RingTyped, Quiet
  <2>6. Once'
    BY DEF Once, Subscribed
  <2>7. Ordered'
    <3>1. Pending = <<event'>> \o Pending'
      BY <2>1, PendingTake DEF RingTyped
    <3>2. Pending' \in Seq(Events)
      <4>1. Placed'
        BY <2>1, PendingIsSeq, PTL
      <4> QED BY <4>1 DEF Placed
    <3>3. event' \in Events
      BY DEF RingTyped
    <3>4. ASSUME NEW i \in 1..Len(handlers_)
          PROVE  accepted = seen[handlers_[i]] \o <<event'>> \o Pending'
      <4> DEFINE s == seen[handlers_[i]]
      <4>1. s \in Seq(Events)
        BY ShareIsSeq
      <4>2. Share(i) = <<>>
        BY DEF Share
      <4>3. accepted = s \o Share(i) \o Pending
        BY DEF Ordered
      <4> HIDE DEF s
      <4>4. s \o Share(i) = s
        BY <4>1, <4>2, ConcatEmptySeq
      <4>5. s \o (<<event'>> \o Pending') = s \o <<event'>> \o Pending'
        BY <3>2, <3>3, <4>1, ConcatInHand
      <4>6. accepted = s \o <<event'>> \o Pending'
        BY <3>1, <4>3, <4>4, <4>5
      <4> QED BY <4>6, Zenon DEF s
    <3>5. \A i \in 1..Len(handlers_) : Share(i)' = <<event'>>
      BY DEF Share
    <3>6. accepted' = accepted /\ seen' = seen /\ handlers_' = handlers_
      OBVIOUS
    <3> QED BY <3>4, <3>5, <3>6, Zenon DEF Ordered
  <2> QED BY <2>1, <2>2, <2>3, <2>4, <2>5, <2>6, <2>7
<1>5. ASSUME Call PROVE IInv'
  <2> USE <1>5 DEF Call
  <2> DEFINE h == handlers_[next]
  <2>1. next \in 1..Len(handlers_) /\ h \in Handlers /\ Len(handlers_) \in Nat
    BY ShareIsSeq DEF InRound, RoundTyped
  <2>2. seen' = [seen EXCEPT ![h] = Append(@, event)]
    OBVIOUS
  <2>3. \/ next < Len(handlers_) /\ next' = next + 1 /\ processed' = processed
        \/ next = Len(handlers_) /\ next' = 0 /\ processed' = processed + 1
    BY <2>1
  <2>4. handlers_' = handlers_ /\ accepted' = accepted /\ event' = event
    OBVIOUS
  <2> HIDE DEF h
  <2>5. RingTyped'
    BY DEF RingTyped
  <2>6. RoundTyped'
    BY <2>1, <2>3 DEF RoundTyped, InRound
  <2>7. GhostsTyped'
    <3>1. Append(seen[h], event) \in Seq(Events)
      BY <2>1 DEF GhostsTyped, RoundTyped
    <3>2. seen' \in [Handlers -> Seq(Events)]
      BY <2>1, <2>2, <3>1 DEF GhostsTyped
    <3> QED BY <3>2 DEF GhostsTyped
  <2>8. Quiet'
    BY DEF Quiet
  <2>9. InRound'
    BY <2>1, <2>3, <2>4 DEF InRound, RoundTyped
  <2>10. Once'
    <3>1. h \in Subscribed
      BY <2>1 DEF h, Subscribed, RoundTyped
    <3>2. \A g \in Handlers : g # h => seen'[g] = seen[g]
      BY <2>2 DEF GhostsTyped
    <3>3. Subscribed' = Subscribed
      BY <2>4 DEF Subscribed
    <3> QED BY <2>4, <3>1, <3>2, <3>3 DEF Once
  <2>11. Ordered'
    <3>1. Pending' = Pending
      BY DEF Pending
    <3>2. ASSUME NEW i \in 1..Len(handlers_)
          PROVE  accepted = seen'[handlers_[i]] \o Share(i)' \o Pending
      <4>1. handlers_[i] \in Handlers /\ seen[handlers_[i]] \in Seq(Events)
        BY ShareIsSeq
      <4>2. accepted = seen[handlers_[i]] \o Share(i) \o Pending
        BY DEF Ordered
      <4>3. CASE i = next
        <5>1. Share(i) = <<event>> /\ Share(i)' = <<>>
          BY <2>1, <2>3, <4>3 DEF Share
        <5>2. seen'[handlers_[i]] = Append(seen[handlers_[i]], event)
          BY <2>1, <2>2, <4>3 DEF h, GhostsTyped
        <5>3. event \in Events
          BY DEF RoundTyped
        <5>4. seen'[handlers_[i]] = seen[handlers_[i]] \o <<event>>
          BY <4>1, <5>2, <5>3, AppendIsConcat
        <5>5. seen'[handlers_[i]] \o <<>> = seen'[handlers_[i]]
          BY <4>1, <5>2, <5>3, ConcatEmptySeq, AppendProperties
        <5> QED BY <4>2, <5>1, <5>4, <5>5
      <4>4. CASE i # next
        <5>1. Share(i)' = Share(i)
          BY <2>1, <2>3, <2>4, <4>4 DEF Share
        <5>2. handlers_[i] # h
          BY <2>1, <4>4 DEF Once, h
        <5>3. seen'[handlers_[i]] = seen[handlers_[i]]
          BY <2>2, <4>1, <5>2 DEF GhostsTyped
        <5> QED BY <4>2, <5>1, <5>3
      <4> QED BY <4>3, <4>4
    <3> QED BY <2>4, <3>1, <3>2, Zenon DEF Ordered
  <2> QED BY <2>5, <2>6, <2>7, <2>8, <2>9, <2>10, <2>11
<1>6. ASSUME Return PROVE IInv'
  <2> USE <1>6 DEF Return
  <2>1. RingTyped'
    BY DEF RingTyped
  <2>2. RoundTyped'
    BY DEF RoundTyped
  <2>3. GhostsTyped'
    BY DEF GhostsTyped, RoundTyped
  <2>4. Quiet'
    BY DEF Quiet, RingTyped, RoundTyped, GhostsTyped
  <2>5. InRound'
    BY DEF InRound, RoundTyped, Quiet
  <2>6. Once'
    BY DEF Once, Subscribed, RoundTyped, GhostsTyped, InRound
  <2>7. Ordered'
    BY Zenon DEF Ordered, Share, Pending
  <2> QED BY <2>1, <2>2, <2>3, <2>4, <2>5, <2>6, <2>7
<1>7. CASE UNCHANGED vars
  <2> USE <1>7 DEF vars
  <2>1. RingTyped'
    BY DEF RingTyped
  <2>2. RoundTyped'
    BY DEF RoundTyped
  <2>3. GhostsTyped'
    BY DEF GhostsTyped, RoundTyped
  <2>4. Quiet'
    BY DEF Quiet, RingTyped, RoundTyped, GhostsTyped
  <2>5. InRound'
    BY DEF InRound, RoundTyped, Quiet
  <2>6. Once'
    BY DEF Once, Subscribed, RoundTyped, GhostsTyped, InRound
  <2>7. Ordered'
    BY Zenon DEF Ordered, Share, Pending
  <2> QED BY <2>1, <2>2, <2>3, <2>4, <2>5, <2>6, <2>7
<1>8. \A e \in Events : post(e) => count_ < QUEUE_SIZE \/ count_ >= QUEUE_SIZE
  BY DEF RingTyped
<1> QED BY <1>1, <1>2, <1>3, <1>4, <1>5, <1>6, <1>7, <1>8 DEF Next, Process

LEMMA Invariant == Spec => []IInv
<1> QED BY InitIInv, NextIInv, PTL DEF Spec

\* The indices stay in the ring and agree with the counter of its events, however
\* post() and process() interleave.
THEOREM TypeCorrect == Spec => []TypeOK
<1>1. IInv => TypeOK
  BY Typed DEF IInv
<1> QED BY <1>1, Invariant, PTL

\* No handler misses, repeats or overtakes an event the bus took, whatever the
\* handlers themselves post while process() goes over them.
THEOREM EveryHandlerInOrder == Spec => []InOrderToEveryHandler
<1>1. IInv => InOrderToEveryHandler
  BY InOrder DEF IInv
<1> QED BY <1>1, Invariant, PTL

-----------------------------------------------------------------------------
(* The refinement *)

\* A post that finds room appends to the FIFO, taking an event is its Take, and
\* every other step leaves it alone.
LEMMA StepRefines == IInv /\ [Next]_vars /\ IInv' => [Fifo!Next]_Pending
<1> SUFFICES ASSUME IInv, [Next]_vars, IInv' PROVE [Fifo!Next]_Pending
  OBVIOUS
<1> USE BusAssumption DEF IInv
<1>1. Pending \in Seq(Events) /\ Len(Pending) = count_
  BY PendingIsSeq DEF Placed
<1>2. ASSUME NEW e \in Events, post(e) PROVE [Fifo!Next]_Pending
  <2>1. CASE count_ < QUEUE_SIZE
    <3>1. Pending' = Append(Pending, e)
      BY <1>2, <2>1, PendingAppend DEF post
    <3> QED BY <1>1, <2>1, <3>1 DEF Fifo!Next, Fifo!Post
  <2>2. CASE ~(count_ < QUEUE_SIZE)
    <3>1. UNCHANGED <<queue_, head_, count_>>
      BY <1>2, <2>2 DEF post
    <3> QED BY <3>1 DEF Pending
  <2> QED BY <2>1, <2>2
<1>3. ASSUME Pop PROVE [Fifo!Next]_Pending
  <2>1. Pending' = Tail(Pending)
    BY <1>3, PendingTake DEF Pop, RingTyped
  <2>2. Pending # <<>>
    BY <1>1, <1>3 DEF Pop
  <2> QED BY <2>1, <2>2 DEF Fifo!Next, Fifo!Take
<1>4. ASSUME UNCHANGED ring PROVE [Fifo!Next]_Pending
  BY <1>4 DEF ring, Pending
<1>5. ASSUME NEW h \in Handlers, subscribe(h) PROVE UNCHANGED ring
  BY <1>5 DEF subscribe
<1>6. Call \/ Return \/ UNCHANGED vars => UNCHANGED ring
  BY DEF Call, Return, vars
<1> QED BY <1>2, <1>3, <1>4, <1>5, <1>6 DEF Next, Process

\* The ring, its indices wrapping and its oldest slot reused while handlers run,
\* is nothing but the bounded FIFO.
THEOREM RingIsFifo == Spec => FifoSpec
<1>1. Init => Fifo!Init
  BY DEF Init, Pending, Fifo!Init
<1> QED BY <1>1, Invariant, StepRefines, PTL DEF Spec, FifoSpec, Fifo!Spec
=============================================================================
