------------------------- MODULE BoundedQueueProof -------------------------
(***************************************************************************)
(* Proofs about BoundedQueue, for any number of producers and consumers,   *)
(* any capacity and any range of the indexes the capacity divides: the     *)
(* sides never touch one slot at once, no wake-up is lost, and the queue   *)
(* implements a bounded FIFO.                                              *)
(***************************************************************************)
EXTENDS BoundedQueue, TLAPS

\* Only the holder of a side's mutex is inside a call, and only the thread that
\* tests a predicate holds the cv_mutex; what a thread saw when it tested or
\* checked still holds when it acts on it, because the other side can only
\* make more room, or bring more elements.
OneProducer == \A p \in Producer : pc[p] # "idle" => writeMutex = p
OneConsumer == \A c \in Consumer : pc[c] # "idle" => readMutex = c
CvHeld ==
    /\ \A p \in Producer : producerCv = p <=> pc[p] \in {"test", "block"}
    /\ \A c \in Consumer : consumerCv = c <=> pc[c] \in {"test", "block"}
Sides ==
    /\ \A p \in Producer : pc[p] \notin {"read", "advance"}
    /\ \A c \in Consumer : pc[c] \notin {"write", "publish"}
SizeInv ==
    /\ Size <= Capacity
    /\ \A p \in Producer : pc[p] \in {"write", "publish"} => HasRoom
    /\ \A c \in Consumer : pc[c] \in {"read", "advance"} => HasElement

\* NoLostWakeup from the test of the predicate on: the cv_mutex keeps the
\* notification out until the thread sleeps.
WakeupsPending ==
    /\ \A p \in Producer : pc[p] \in {"block", "sleep"} /\ HasRoom =>
            \E c \in Consumer : pc[c] = "notify"
    /\ \A c \in Consumer : pc[c] \in {"block", "sleep"} /\ HasElement =>
            \E p \in Producer : pc[p] = "notify"
    /\ \A c \in Consumer : pc[c] = "sleep" => ~ Stopped(c)

IInv == TypeOK /\ OneProducer /\ OneConsumer /\ CvHeld /\ Sides /\ SizeInv /\ WakeupsPending

-----------------------------------------------------------------------------
(* Index arithmetic *)

\* A full queue is not mistaken for an empty one (the indexes are wider than
\* the capacity).
LEMMA CapacityFacts ==
    /\ Capacity \in Nat /\ Capacity > 0
    /\ IndexRange \in Nat
    /\ Capacity < IndexRange
<1>1. PICK k \in 2 .. IndexRange : IndexRange = Capacity * k
  BY QueueAssumption
<1>2. Capacity \in Nat /\ Capacity > 0 /\ IndexRange \in Nat /\ k \in Nat /\ k >= 2
  BY <1>1, QueueAssumption
<1>3. Capacity * k >= Capacity * 2
  BY <1>2, Z3
<1> QED BY <1>1, <1>2, <1>3

\* Size is the unsigned difference of the indexes.
LEMMA SizeFacts ==
    ASSUME TypeOK
    PROVE  /\ Size \in 0 .. IndexRange - 1
           /\ HasElement <=> Size > 0
BY CapacityFacts DEF TypeOK, Size, HasElement

\* A push of a queue that is not full makes it longer by one (++producer.index).
LEMMA SizePublish ==
    ASSUME TypeOK, Size < Capacity, writeIndex' = Inc(writeIndex), readIndex' = readIndex
    PROVE  Size' = Size + 1 /\ writeIndex' \in 0 .. IndexRange - 1
BY CapacityFacts DEF TypeOK, Size, Inc

\* A pop of a queue that is not empty makes it shorter by one (++consumer.index).
LEMMA SizeAdvance ==
    ASSUME TypeOK, Size > 0, readIndex' = Inc(readIndex), writeIndex' = writeIndex
    PROVE  Size' = Size - 1 /\ readIndex' \in 0 .. IndexRange - 1
BY CapacityFacts DEF TypeOK, Size, Inc

\* Division with remainder by Capacity.
LEMMA Division ==
    ASSUME NEW a \in Nat
    PROVE  /\ a \div Capacity \in Int
           /\ a % Capacity \in 0 .. Capacity - 1
           /\ a = Capacity * (a \div Capacity) + (a % Capacity)
BY CapacityFacts, Z3

\* Multiples of Capacity that differ do so by at least Capacity.
LEMMA Multiples ==
    ASSUME NEW q \in Int, NEW r \in Int, q > r
    PROVE  Capacity * q >= Capacity * r + Capacity
<1>1. Capacity \in Nat /\ Capacity > 0
  BY CapacityFacts
<1>2. Capacity * q >= Capacity * (r + 1)
  BY <1>1, Z3
<1>3. Capacity * (r + 1) = Capacity * r + Capacity
  BY <1>1, Z3
<1>4. Capacity * q \in Int /\ Capacity * r \in Int /\ Capacity * (r + 1) \in Int
  BY <1>1
<1> QED BY <1>1, <1>2, <1>3, <1>4

\* Positions less than Capacity apart are different slots.
LEMMA SlotsDiffer ==
    ASSUME NEW a \in Nat, NEW b \in Nat, b < a, a - b < Capacity
    PROVE  a % Capacity # b % Capacity
<1>1. SUFFICES ASSUME a % Capacity = b % Capacity PROVE FALSE
  OBVIOUS
<1>2. PICK q \in Int : a = Capacity * q + (a % Capacity)
  BY Division
<1>3. PICK r \in Int : b = Capacity * r + (b % Capacity)
  BY Division
<1>4. /\ Capacity \in Int
      /\ Capacity * q \in Int /\ Capacity * r \in Int
      /\ a % Capacity \in Int /\ b % Capacity \in Int
  BY CapacityFacts, Division
<1>5. Capacity * q > Capacity * r /\ Capacity * q < Capacity * r + Capacity
  BY <1>1, <1>2, <1>3, <1>4
<1>6. ~ (q > r)
  BY <1>4, <1>5, Multiples
<1>7. ~ (r > q)
  BY <1>4, <1>5, Multiples, CapacityFacts
<1>8. q = r
  BY <1>6, <1>7
<1> QED BY <1>4, <1>5, <1>8

\* Adding the range of an index does not change the slot: Capacity divides it.
LEMMA SlotOfWrapped ==
    ASSUME NEW i \in Nat
    PROVE  (i + IndexRange) % Capacity = i % Capacity
<1>1. PICK k \in 2 .. IndexRange : IndexRange = Capacity * k
  BY QueueAssumption
<1>2. IndexRange \in Nat /\ k \in Int /\ Capacity \in Nat /\ Capacity > 0 /\ i + IndexRange \in Nat
  BY <1>1, CapacityFacts
<1> DEFINE m == i % Capacity
           n == (i + IndexRange) % Capacity
<1>3. PICK q \in Int : i = Capacity * q + m
  BY Division
<1>4. PICK r \in Int : i + IndexRange = Capacity * r + n
  BY <1>2, Division
<1>5. m \in 0 .. Capacity - 1 /\ n \in 0 .. Capacity - 1
  BY <1>2, Division
<1> HIDE DEF m, n
<1>6. Capacity * (q + k) = Capacity * q + Capacity * k
  BY <1>2, Z3
<1>7. /\ Capacity * (q + k) \in Int /\ Capacity * q \in Int
      /\ Capacity * k \in Int /\ Capacity * r \in Int
      /\ q + k \in Int
  BY <1>2
<1>8. Capacity * r + n = Capacity * (q + k) + m
  BY <1>1, <1>2, <1>3, <1>4, <1>5, <1>6, <1>7
<1>9. ~ (r > q + k) /\ ~ (q + k > r)
  BY <1>2, <1>5, <1>7, <1>8, Multiples
<1>10. r = q + k
  BY <1>7, <1>9
<1>11. n = m
  BY <1>5, <1>7, <1>8, <1>10
<1> QED BY <1>11 DEF m, n

\* The slots of the next write and the next read differ in a queue that is
\* neither empty nor full.
LEMMA SlotFacts ==
    ASSUME TypeOK, Size > 0, Size < Capacity
    PROVE  Slot(writeIndex) # Slot(readIndex)
<1>1. writeIndex \in Nat /\ readIndex \in Nat /\ writeIndex + IndexRange \in Nat
  BY CapacityFacts DEF TypeOK
<1>2. CASE writeIndex >= readIndex
  BY <1>1, <1>2, SlotsDiffer, CapacityFacts DEF Size, Slot
<1>3. CASE writeIndex < readIndex
  <2>1. (writeIndex + IndexRange) - readIndex = Size
    BY <1>1, <1>3, CapacityFacts DEF Size
  <2>2. readIndex < writeIndex + IndexRange
    BY <1>1, CapacityFacts DEF TypeOK
  <2>3. (writeIndex + IndexRange) % Capacity # readIndex % Capacity
    BY <1>1, <2>1, <2>2, SlotsDiffer
  <2> QED BY <1>1, <2>3, SlotOfWrapped DEF Slot
<1> QED BY <1>1, <1>2, <1>3

-----------------------------------------------------------------------------
(* The invariant *)

\* At most one thread of a side sleeps, so notify_one wakes whoever sleeps there.
LEMMA NotifyFacts ==
    ASSUME TypeOK, OneProducer, OneConsumer,
           NEW t \in Thread, NEW others, others = Producer \/ others = Consumer, t \notin others
    PROVE  NotifyOne(t, others) =
               [u \in Thread |-> IF u = t THEN "idle"
                                 ELSE IF u \in others /\ pc[u] = "sleep" THEN "lock" ELSE pc[u]]
<1> DEFINE sleeping == {u \in others : pc[u] = "sleep"}
<1>1. sleeping \subseteq Thread
  BY DEF Thread
<1>2. \A u, v \in sleeping : u = v
  BY DEF OneProducer, OneConsumer
<1>3. pc = [u \in Thread |-> pc[u]]
  BY DEF TypeOK
<1>4. CASE sleeping = {}
  <2>1. NotifyOne(t, others) = [pc EXCEPT ![t] = "idle"]
    BY <1>4 DEF NotifyOne
  <2>2. \A u \in others : pc[u] # "sleep"
    BY <1>4
  <2> HIDE DEF sleeping
  <2> QED BY <1>3, <2>1, <2>2
<1>5. CASE sleeping # {}
  <2> DEFINE s == CHOOSE u \in sleeping : TRUE
  <2>1. s \in sleeping
    BY <1>5
  <2>2. NotifyOne(t, others) = [pc EXCEPT ![t] = "idle", ![s] = "lock"]
    BY <1>5 DEF NotifyOne
  <2>3. \A u \in Thread : (u \in others /\ pc[u] = "sleep") <=> u = s
    BY <1>1, <1>2, <2>1
  <2>4. s \in Thread /\ s # t
    BY <1>1, <2>1
  <2> HIDE DEF s, sleeping
  <2> QED BY <1>3, <2>2, <2>3, <2>4
<1> QED BY <1>4, <1>5

\* An empty queue with nobody in it satisfies the invariant.
LEMMA InitIInv == Init => IInv
<1> SUFFICES ASSUME Init PROVE IInv
  OBVIOUS
<1> USE CapacityFacts, QueueAssumption
<1>1. TypeOK
  <2>1. 0 \in 0 .. IndexRange - 1
    OBVIOUS
  <2>2. FALSE \in BOOLEAN
    OBVIOUS
  <2> QED BY <2>1, <2>2 DEF Init, TypeOK
<1>2. OneProducer /\ OneConsumer /\ CvHeld /\ Sides
  BY DEF Init, OneProducer, OneConsumer, CvHeld, Sides, Thread
<1>3. SizeInv /\ WakeupsPending
  BY DEF Init, SizeInv, WakeupsPending, Stopped, Size, HasRoom, HasElement, Thread
<1> QED BY <1>1, <1>2, <1>3 DEF IInv

\* Steps of a producer other than the notification: what changes is its own
\* place, and the write index by one.
LEMMA ProducerKeepsIInv ==
    ASSUME IInv, NEW p \in Producer,
           \/ \E wait \in BOOLEAN, v \in Value : EmplaceBegin(p, wait, v)
           \/ EmplaceCheck(p) \/ EmplaceLock(p) \/ EmplaceTest(p) \/ EmplaceSleep(p)
           \/ EmplaceWrite(p) \/ EmplacePublish(p)
    PROVE  IInv'
<1> USE DEF IInv
<1>0. /\ p \in Thread /\ Producer \subseteq Thread /\ Consumer \subseteq Thread
      /\ p \notin Consumer /\ Nil \notin Producer /\ Nil \notin Consumer
      /\ \A c \in Consumer : c # p
  BY QueueAssumption DEF Thread
<1> USE <1>0
<1>1. CASE \E wait \in BOOLEAN, v \in Value : EmplaceBegin(p, wait, v)
  <2>1. TypeOK'
    BY <1>1 DEF EmplaceBegin, TypeOK, Goto, indexes
  <2>2. OneProducer' /\ OneConsumer' /\ CvHeld' /\ Sides'
    BY <1>1 DEF EmplaceBegin, TypeOK, Goto, OneProducer, OneConsumer, CvHeld, Sides
  <2>3. Size' = Size /\ HasRoom' = HasRoom /\ HasElement' = HasElement
    BY <1>1 DEF EmplaceBegin, indexes, Size, HasRoom, HasElement
  <2>4. SizeInv' /\ WakeupsPending'
    BY <1>1, <2>3 DEF EmplaceBegin, TypeOK, Goto, SizeInv, WakeupsPending, Stopped
  <2> QED BY <2>1, <2>2, <2>4
<1>2. CASE EmplaceCheck(p)
  <2>1. TypeOK'
    BY <1>2 DEF EmplaceCheck, TypeOK, Goto, indexes, callers
  <2>2. OneProducer' /\ OneConsumer' /\ CvHeld' /\ Sides'
    BY <1>2 DEF EmplaceCheck, TypeOK, Goto, OneProducer, OneConsumer, CvHeld, Sides
  <2>3. Size' = Size /\ HasRoom' = HasRoom /\ HasElement' = HasElement
    BY <1>2 DEF EmplaceCheck, indexes, Size, HasRoom, HasElement
  <2>4. ~ Full => HasRoom
    BY SizeFacts, CapacityFacts DEF SizeInv, Full, HasRoom
  <2>5. SizeInv' /\ WakeupsPending'
    BY <1>2, <2>3, <2>4 DEF EmplaceCheck, TypeOK, Goto, SizeInv, WakeupsPending, Stopped, callers
  <2> QED BY <2>1, <2>2, <2>5
<1>3. CASE EmplaceLock(p)
  <2>1. TypeOK'
    BY <1>3 DEF EmplaceLock, TypeOK, Goto, indexes, callers
  <2>2. OneProducer' /\ OneConsumer' /\ CvHeld' /\ Sides'
    BY <1>3 DEF EmplaceLock, TypeOK, Goto, OneProducer, OneConsumer, CvHeld, Sides
  <2>3. Size' = Size /\ HasRoom' = HasRoom /\ HasElement' = HasElement
    BY <1>3 DEF EmplaceLock, indexes, Size, HasRoom, HasElement
  <2>4. SizeInv' /\ WakeupsPending'
    BY <1>3, <2>3 DEF EmplaceLock, TypeOK, Goto, SizeInv, WakeupsPending, Stopped, callers
  <2> QED BY <2>1, <2>2, <2>4
<1>4. CASE EmplaceTest(p)
  <2>1. TypeOK'
    BY <1>4 DEF EmplaceTest, TypeOK, Goto, indexes, callers
  <2>2. OneProducer' /\ OneConsumer' /\ CvHeld' /\ Sides'
    BY <1>4 DEF EmplaceTest, TypeOK, Goto, OneProducer, OneConsumer, CvHeld, Sides
  <2>3. Size' = Size /\ HasRoom' = HasRoom /\ HasElement' = HasElement
    BY <1>4 DEF EmplaceTest, indexes, Size, HasRoom, HasElement
  <2>4. SizeInv' /\ WakeupsPending'
    BY <1>4, <2>3 DEF EmplaceTest, TypeOK, Goto, SizeInv, WakeupsPending, Stopped, callers
  <2> QED BY <2>1, <2>2, <2>4
<1>7. CASE EmplaceSleep(p)
  <2>1. TypeOK'
    BY <1>7 DEF EmplaceSleep, TypeOK, Goto, indexes, callers
  <2>2. OneProducer' /\ OneConsumer' /\ CvHeld' /\ Sides'
    BY <1>7 DEF EmplaceSleep, TypeOK, Goto, OneProducer, OneConsumer, CvHeld, Sides
  <2>3. Size' = Size /\ HasRoom' = HasRoom /\ HasElement' = HasElement
    BY <1>7 DEF EmplaceSleep, indexes, Size, HasRoom, HasElement
  <2>4. SizeInv' /\ WakeupsPending'
    BY <1>7, <2>3 DEF EmplaceSleep, TypeOK, Goto, SizeInv, WakeupsPending, Stopped, callers
  <2> QED BY <2>1, <2>2, <2>4
<1>5. CASE EmplaceWrite(p)
  <2>1. TypeOK'
    BY <1>5 DEF EmplaceWrite, TypeOK, Goto, mutexes, callers
  <2>2. OneProducer' /\ OneConsumer' /\ CvHeld' /\ Sides'
    BY <1>5 DEF EmplaceWrite, TypeOK, Goto, OneProducer, OneConsumer, CvHeld, Sides, mutexes
  <2>3. Size' = Size /\ HasRoom' = HasRoom /\ HasElement' = HasElement
    BY <1>5 DEF EmplaceWrite, Size, HasRoom, HasElement
  <2>4. SizeInv' /\ WakeupsPending'
    BY <1>5, <2>3 DEF EmplaceWrite, TypeOK, Goto, SizeInv, WakeupsPending, Stopped, callers
  <2> QED BY <2>1, <2>2, <2>4
<1>6. CASE EmplacePublish(p)
  <2>1. Size < Capacity /\ Size' = Size + 1 /\ writeIndex' \in 0 .. IndexRange - 1
    BY <1>6, SizePublish DEF EmplacePublish, SizeInv, HasRoom
  <2>2. TypeOK'
    BY <1>6, <2>1 DEF EmplacePublish, TypeOK, Goto, mutexes, callers
  <2>3. OneProducer' /\ OneConsumer' /\ CvHeld' /\ Sides'
    BY <1>6 DEF EmplacePublish, TypeOK, Goto, OneProducer, OneConsumer, CvHeld, Sides, mutexes
  <2>4. HasElement'
    <3>1. (TypeOK => (HasElement <=> Size > 0))'
      BY SizeFacts, PTL
    <3> QED BY <2>1, <2>2, <3>1, SizeFacts, CapacityFacts
  <2>5. SizeInv'
    <3>1. \A q \in Producer : pc'[q] \notin {"write", "publish"}
      BY <1>6 DEF EmplacePublish, TypeOK, Goto, OneProducer
    <3>2. Size' <= Capacity
      BY <2>1, SizeFacts, CapacityFacts
    <3> QED BY <2>4, <3>1, <3>2 DEF SizeInv
  <2>6. WakeupsPending'
    <3>1. \A q \in Producer : pc'[q] \notin {"block", "sleep"}
      BY <1>6 DEF EmplacePublish, TypeOK, Goto, OneProducer
    <3>2. pc'[p] = "notify"
      BY <1>6 DEF EmplacePublish, TypeOK, Goto
    <3>3. \A c \in Consumer : pc'[c] = "sleep" => ~ Stopped(c)'
      BY <1>6 DEF EmplacePublish, TypeOK, Goto, WakeupsPending, Stopped, callers
    <3> QED BY <3>1, <3>2, <3>3 DEF WakeupsPending
  <2> QED BY <2>2, <2>3, <2>5, <2>6
<1> QED BY <1>1, <1>2, <1>3, <1>4, <1>5, <1>6, <1>7

\* The same for a consumer and the read index.
LEMMA ConsumerKeepsIInv ==
    ASSUME IInv, NEW c \in Consumer,
           \/ \E wait \in BOOLEAN, token \in BOOLEAN : PopBegin(c, wait, token)
           \/ PopCheck(c) \/ PopLock(c) \/ PopTest(c) \/ PopSleep(c) \/ PopRead(c) \/ PopAdvance(c)
    PROVE  IInv'
<1> USE DEF IInv
<1>0. /\ c \in Thread /\ Producer \subseteq Thread /\ Consumer \subseteq Thread
      /\ c \notin Producer /\ Nil \notin Producer /\ Nil \notin Consumer
      /\ \A p \in Producer : p # c
  BY QueueAssumption DEF Thread
<1> USE <1>0
<1>1. CASE \E wait \in BOOLEAN, token \in BOOLEAN : PopBegin(c, wait, token)
  <2>1. TypeOK'
    BY <1>1 DEF PopBegin, TypeOK, Goto, indexes
  <2>2. OneProducer' /\ OneConsumer' /\ CvHeld' /\ Sides'
    BY <1>1 DEF PopBegin, TypeOK, Goto, OneProducer, OneConsumer, CvHeld, Sides
  <2>3. Size' = Size /\ HasRoom' = HasRoom /\ HasElement' = HasElement
    BY <1>1 DEF PopBegin, indexes, Size, HasRoom, HasElement
  <2>4. SizeInv' /\ WakeupsPending'
    BY <1>1, <2>3 DEF PopBegin, TypeOK, Goto, SizeInv, WakeupsPending, Stopped
  <2> QED BY <2>1, <2>2, <2>4
<1>2. CASE PopCheck(c)
  <2>1. TypeOK'
    BY <1>2 DEF PopCheck, TypeOK, Goto, indexes, callers
  <2>2. OneProducer' /\ OneConsumer' /\ CvHeld' /\ Sides'
    BY <1>2 DEF PopCheck, TypeOK, Goto, OneProducer, OneConsumer, CvHeld, Sides
  <2>3. Size' = Size /\ HasRoom' = HasRoom /\ HasElement' = HasElement
    BY <1>2 DEF PopCheck, indexes, Size, HasRoom, HasElement
  <2>4. SizeInv' /\ WakeupsPending'
    BY <1>2, <2>3 DEF PopCheck, TypeOK, Goto, SizeInv, WakeupsPending, Stopped, callers
  <2> QED BY <2>1, <2>2, <2>4
<1>3. CASE PopLock(c)
  <2>1. TypeOK'
    BY <1>3 DEF PopLock, TypeOK, Goto, indexes, callers
  <2>2. OneProducer' /\ OneConsumer' /\ CvHeld' /\ Sides'
    BY <1>3 DEF PopLock, TypeOK, Goto, OneProducer, OneConsumer, CvHeld, Sides
  <2>3. Size' = Size /\ HasRoom' = HasRoom /\ HasElement' = HasElement
    BY <1>3 DEF PopLock, indexes, Size, HasRoom, HasElement
  <2>4. SizeInv' /\ WakeupsPending'
    BY <1>3, <2>3 DEF PopLock, TypeOK, Goto, SizeInv, WakeupsPending, Stopped, callers
  <2> QED BY <2>1, <2>2, <2>4
<1>4. CASE PopTest(c)
  <2>1. TypeOK'
    BY <1>4 DEF PopTest, PopStopped, TypeOK, Goto, indexes, callers
  <2>2. OneProducer' /\ OneConsumer' /\ CvHeld' /\ Sides'
    BY <1>4 DEF PopTest, PopStopped, TypeOK, Goto, OneProducer, OneConsumer, CvHeld, Sides
  <2>3. Size' = Size /\ HasRoom' = HasRoom /\ HasElement' = HasElement
    BY <1>4 DEF PopTest, PopStopped, indexes, Size, HasRoom, HasElement
  <2>4. SizeInv' /\ WakeupsPending'
    BY <1>4, <2>3 DEF PopTest, PopStopped, TypeOK, Goto, SizeInv, WakeupsPending, Stopped, callers
  <2> QED BY <2>1, <2>2, <2>4
<1>7. CASE PopSleep(c)
  <2>1. TypeOK'
    BY <1>7 DEF PopSleep, PopStopped, TypeOK, Goto, indexes, callers
  <2>2. OneProducer' /\ OneConsumer' /\ CvHeld' /\ Sides'
    BY <1>7 DEF PopSleep, PopStopped, TypeOK, Goto, OneProducer, OneConsumer, CvHeld, Sides
  <2>3. Size' = Size /\ HasRoom' = HasRoom /\ HasElement' = HasElement
    BY <1>7 DEF PopSleep, PopStopped, indexes, Size, HasRoom, HasElement
  <2>4. SizeInv' /\ WakeupsPending'
    BY <1>7, <2>3 DEF PopSleep, PopStopped, TypeOK, Goto, SizeInv, WakeupsPending, Stopped, callers
  <2> QED BY <2>1, <2>2, <2>4
<1>5. CASE PopRead(c)
  <2>1. TypeOK'
    <3>1. Slot(readIndex) \in 0 .. Capacity - 1
      BY Division, CapacityFacts DEF TypeOK, Slot
    <3> QED BY <1>5, <3>1 DEF PopRead, TypeOK, Goto, mutexes
  <2>2. OneProducer' /\ OneConsumer' /\ CvHeld' /\ Sides'
    BY <1>5 DEF PopRead, TypeOK, Goto, OneProducer, OneConsumer, CvHeld, Sides, mutexes
  <2>3. Size' = Size /\ HasRoom' = HasRoom /\ HasElement' = HasElement
    BY <1>5 DEF PopRead, Size, HasRoom, HasElement
  <2>4. SizeInv' /\ WakeupsPending'
    BY <1>5, <2>3 DEF PopRead, TypeOK, Goto, SizeInv, WakeupsPending, Stopped
  <2> QED BY <2>1, <2>2, <2>4
<1>6. CASE PopAdvance(c)
  <2>1. Size > 0
    BY <1>6, SizeFacts DEF PopAdvance, SizeInv
  <2>2. Size' = Size - 1 /\ readIndex' \in 0 .. IndexRange - 1
    BY <1>6, <2>1, SizeAdvance DEF PopAdvance
  <2>3. TypeOK'
    BY <1>6, <2>2 DEF PopAdvance, TypeOK, Goto, mutexes, callers
  <2>4. OneProducer' /\ OneConsumer' /\ CvHeld' /\ Sides'
    BY <1>6 DEF PopAdvance, TypeOK, Goto, OneProducer, OneConsumer, CvHeld, Sides, mutexes
  <2>5. HasRoom'
    BY <2>2, SizeFacts, CapacityFacts DEF HasRoom, SizeInv
  <2>6. SizeInv'
    <3>1. \A d \in Consumer : pc'[d] \notin {"read", "advance"}
      BY <1>6 DEF PopAdvance, TypeOK, Goto, OneConsumer
    <3>2. Size' <= Capacity
      BY <2>2, SizeFacts, CapacityFacts DEF SizeInv
    <3> QED BY <2>5, <3>1, <3>2 DEF SizeInv
  <2>7. WakeupsPending'
    <3>1. \A d \in Consumer : pc'[d] \notin {"block", "sleep"}
      BY <1>6 DEF PopAdvance, TypeOK, Goto, OneConsumer
    <3>2. pc'[c] = "notify"
      BY <1>6 DEF PopAdvance, TypeOK, Goto
    <3> QED BY <3>1, <3>2 DEF WakeupsPending
  <2> QED BY <2>3, <2>4, <2>6, <2>7
<1> QED BY <1>1, <1>2, <1>3, <1>4, <1>5, <1>6, <1>7

\* The notifications: nobody of the other side sleeps afterwards, and nobody of
\* the own side, whose mutex the notifier held.
LEMMA NotifyKeepsIInv ==
    ASSUME IInv, \/ \E p \in Producer : EmplaceNotify(p)
                 \/ \E c \in Consumer : PopNotify(c)
    PROVE  IInv'
<1> USE DEF IInv
<1>0. /\ Producer \subseteq Thread /\ Consumer \subseteq Thread
      /\ Nil \notin Producer /\ Nil \notin Consumer
      /\ \A p \in Producer, c \in Consumer : p # c
  BY QueueAssumption DEF Thread
<1> USE <1>0
<1>1. ASSUME NEW p \in Producer, EmplaceNotify(p) PROVE IInv'
  <2>1. p \in Thread /\ p \notin Consumer
    BY QueueAssumption
  <2>2. pc' = [u \in Thread |-> IF u = p THEN "idle"
                                ELSE IF u \in Consumer /\ pc[u] = "sleep" THEN "lock" ELSE pc[u]]
    BY <1>1, <2>1, NotifyFacts DEF EmplaceNotify
  <2>3. TypeOK'
    <3>1. pc' \in [Thread -> {"idle", "check", "lock", "test", "block", "sleep", "write", "publish",
                              "read", "advance", "notify"}]
      BY <2>2 DEF TypeOK
    <3> QED BY <1>1, <3>1 DEF EmplaceNotify, TypeOK, indexes, callers
  <2>4. OneProducer' /\ OneConsumer' /\ CvHeld' /\ Sides'
    BY <1>1, <2>1, <2>2 DEF EmplaceNotify, OneProducer, OneConsumer, CvHeld, Sides
  <2>5. Size' = Size /\ HasRoom' = HasRoom /\ HasElement' = HasElement
    BY <1>1 DEF EmplaceNotify, indexes, Size, HasRoom, HasElement
  <2>6. SizeInv'
    BY <2>2, <2>5 DEF SizeInv
  <2>7. WakeupsPending'
    <3>1. \A q \in Producer : pc'[q] \notin {"block", "sleep"}
      BY <1>1, <2>2 DEF EmplaceNotify, OneProducer
    <3>2. \A c \in Consumer : pc'[c] \notin {"block", "sleep"}
      BY <1>1, <2>1, <2>2 DEF EmplaceNotify, CvHeld
    <3> QED BY <3>1, <3>2 DEF WakeupsPending
  <2> QED BY <2>3, <2>4, <2>6, <2>7
<1>2. ASSUME NEW c \in Consumer, PopNotify(c) PROVE IInv'
  <2>1. c \in Thread /\ c \notin Producer
    BY QueueAssumption
  <2>2. pc' = [u \in Thread |-> IF u = c THEN "idle"
                                ELSE IF u \in Producer /\ pc[u] = "sleep" THEN "lock" ELSE pc[u]]
    BY <1>2, <2>1, NotifyFacts DEF PopNotify
  <2>3. TypeOK'
    <3>1. pc' \in [Thread -> {"idle", "check", "lock", "test", "block", "sleep", "write", "publish",
                              "read", "advance", "notify"}]
      BY <2>2 DEF TypeOK
    <3> QED BY <1>2, <3>1 DEF PopNotify, TypeOK, indexes, callers
  <2>4. OneProducer' /\ OneConsumer' /\ CvHeld' /\ Sides'
    BY <1>2, <2>1, <2>2 DEF PopNotify, OneProducer, OneConsumer, CvHeld, Sides
  <2>5. Size' = Size /\ HasRoom' = HasRoom /\ HasElement' = HasElement
    BY <1>2 DEF PopNotify, indexes, Size, HasRoom, HasElement
  <2>6. SizeInv'
    BY <2>2, <2>5 DEF SizeInv
  <2>7. WakeupsPending'
    <3>1. \A d \in Consumer : pc'[d] \notin {"block", "sleep"}
      BY <1>2, <2>2 DEF PopNotify, OneConsumer
    <3>2. \A p \in Producer : pc'[p] \notin {"block", "sleep"}
      BY <1>2, <2>1, <2>2 DEF PopNotify, CvHeld
    <3> QED BY <3>1, <3>2 DEF WakeupsPending
  <2> QED BY <2>3, <2>4, <2>6, <2>7
<1> QED BY <1>1, <1>2

\* Wake-ups without a notification, spurious or by a stop request.
LEMMA WakeupKeepsIInv ==
    ASSUME IInv, RequestStop \/ \E t \in Thread : SpuriousWakeup(t)
    PROVE  IInv'
<1> USE DEF IInv
<1>0. /\ Producer \subseteq Thread /\ Consumer \subseteq Thread
      /\ \A p \in Producer : p \notin Consumer
  BY QueueAssumption DEF Thread
<1> USE <1>0
<1>1. CASE RequestStop
  <2>1. TypeOK'
    <3>1. pc' \in [Thread -> {"idle", "check", "lock", "test", "block", "sleep", "write", "publish",
                              "read", "advance", "notify"}]
      BY <1>1 DEF RequestStop, TypeOK
    <3> QED BY <1>1, <3>1 DEF RequestStop, TypeOK, indexes, mutexes
  <2>2. OneProducer' /\ OneConsumer' /\ CvHeld' /\ Sides'
    BY <1>1 DEF RequestStop, TypeOK, OneProducer, OneConsumer, CvHeld, Sides, mutexes
  <2>3. Size' = Size /\ HasRoom' = HasRoom /\ HasElement' = HasElement
    BY <1>1 DEF RequestStop, indexes, Size, HasRoom, HasElement
  <2>4. SizeInv' /\ WakeupsPending'
    BY <1>1, <2>3 DEF RequestStop, TypeOK, SizeInv, WakeupsPending, Stopped
  <2> QED BY <2>1, <2>2, <2>4
<1>2. ASSUME NEW t \in Thread, SpuriousWakeup(t) PROVE IInv'
  <2>1. TypeOK'
    BY <1>2 DEF SpuriousWakeup, TypeOK, Goto, indexes, mutexes, callers
  <2>2. OneProducer' /\ OneConsumer' /\ CvHeld' /\ Sides'
    BY <1>2 DEF SpuriousWakeup, TypeOK, Goto, OneProducer, OneConsumer, CvHeld, Sides, mutexes
  <2>3. Size' = Size /\ HasRoom' = HasRoom /\ HasElement' = HasElement
    BY <1>2 DEF SpuriousWakeup, indexes, Size, HasRoom, HasElement
  <2>4. SizeInv' /\ WakeupsPending'
    BY <1>2, <2>3 DEF SpuriousWakeup, TypeOK, Goto, SizeInv, WakeupsPending, Stopped, callers
  <2> QED BY <2>1, <2>2, <2>4
<1> QED BY <1>1, <1>2

\* Every step keeps the invariant.
LEMMA IInvHolds == Spec => []IInv
<1>1. IInv /\ [Next]_vars => IInv'
  <2> SUFFICES ASSUME IInv, [Next]_vars PROVE IInv'
    OBVIOUS
  <2>1. CASE Next
    <3>1. CASE \E p \in Producer, wait \in BOOLEAN, v \in Value : EmplaceBegin(p, wait, v)
      BY <3>1, ProducerKeepsIInv
    <3>2. CASE \E p \in Producer : ProducerStep(p)
      BY <3>2, ProducerKeepsIInv, NotifyKeepsIInv DEF ProducerStep
    <3>3. CASE \E c \in Consumer, wait \in BOOLEAN, token \in BOOLEAN : PopBegin(c, wait, token)
      BY <3>3, ConsumerKeepsIInv
    <3>4. CASE \E c \in Consumer : ConsumerStep(c)
      BY <3>4, ConsumerKeepsIInv, NotifyKeepsIInv DEF ConsumerStep
    <3>5. CASE RequestStop \/ \E t \in Thread : SpuriousWakeup(t)
      BY <3>5, WakeupKeepsIInv
    <3> QED BY <2>1, <3>1, <3>2, <3>3, <3>4, <3>5 DEF Next
  <2>2. CASE UNCHANGED vars
    <3>1. TypeOK' /\ OneProducer' /\ OneConsumer' /\ CvHeld' /\ Sides'
      BY <2>2 DEF IInv, vars, TypeOK, OneProducer, OneConsumer, CvHeld, Sides
    <3>2. SizeInv' /\ WakeupsPending'
      BY <2>2 DEF IInv, vars, SizeInv, WakeupsPending, Stopped, Size, HasRoom, HasElement
    <3> QED BY <3>1, <3>2 DEF IInv
  <2> QED BY <2>1, <2>2
<1> QED BY <1>1, InitIInv, PTL DEF Spec

-----------------------------------------------------------------------------
(* The theorems *)

\* The state of the queue keeps its type, the indexes across their wrap-around.
THEOREM TypeCorrect == Spec => []TypeOK
BY IInvHolds, PTL DEF IInv

\* The two sides never work on one slot at the same time, for every capacity
\* that divides the range of the indexes (SPSCQueue::m_data).
THEOREM NoSlotRaceHolds == Spec => []NoSlotRace
<1>1. IInv => NoSlotRace
  <2> SUFFICES ASSUME IInv, NEW p \in Producer, NEW c \in Consumer,
                      pc[p] = "write", pc[c] = "read"
               PROVE  Slot(writeIndex) # Slot(readIndex)
    BY DEF NoSlotRace
  <2>1. Size < Capacity /\ Size > 0
    BY SizeFacts DEF IInv, SizeInv, HasRoom
  <2> QED BY <2>1, SlotFacts DEF IInv
<1> QED BY <1>1, IInvHolds, PTL

\* No thread sleeps in EmplaceWait or PopWait without a wake-up on its way once
\* there is room, an element or a stop request.
THEOREM NoLostWakeupHolds == Spec => []NoLostWakeup
<1>1. IInv => NoLostWakeup
  BY DEF IInv, WakeupsPending, NoLostWakeup
<1> QED BY <1>1, IInvHolds, PTL

-----------------------------------------------------------------------------
(* The refinement of BoundedFifo *)

\* What a producer is about to publish is the element it was called with: it
\* is in its slot, where no consumer touches it.
Written ==
    \A p \in Producer :
        /\ pc[p] # "idle" => item[p] \in Value
        /\ pc[p] = "publish" => data[Slot(writeIndex)] = item[p]

\* The number of elements that are moved out and still counted by the indexes.
Moved == IF \E c \in Consumer : pc[c] = "advance" THEN 1 ELSE 0

\* Contents without the wrap-around of the indexes.
Elements == [i \in 1 .. Size - Moved |-> data[(readIndex + Moved + i - 1) % Capacity]]

\* An index and its wrapped value have the same slot, up to twice the range.
LEMMA SlotOfIndex ==
    ASSUME NEW a \in Nat, a < 2 * IndexRange
    PROVE  Slot(a % IndexRange) = a % Capacity
<1> USE CapacityFacts
<1>1. CASE a < IndexRange
  <2>1. a % IndexRange = a
    BY <1>1
  <2> QED BY <2>1 DEF Slot
<1>2. CASE a >= IndexRange
  <2>1. a - IndexRange \in 0 .. IndexRange - 1
    BY <1>2
  <2>2. a % IndexRange = a - IndexRange
    BY <1>2, <2>1, Z3
  <2>3. ((a - IndexRange) + IndexRange) % Capacity = (a - IndexRange) % Capacity
    BY <2>1, SlotOfWrapped
  <2>4. (a - IndexRange) + IndexRange = a
    OBVIOUS
  <2> QED BY <2>2, <2>3, <2>4 DEF Slot
<1> QED BY <1>1, <1>2

\* The write index is Size positions behind the read index.
LEMMA SlotOfWrite ==
    ASSUME TypeOK
    PROVE  Slot(writeIndex) = (readIndex + Size) % Capacity
<1>1. writeIndex \in Nat /\ readIndex \in Nat /\ IndexRange \in Nat
  BY CapacityFacts DEF TypeOK
<1>2. CASE writeIndex >= readIndex
  <2>1. readIndex + Size = writeIndex
    BY <1>1, <1>2 DEF Size
  <2> QED BY <2>1 DEF Slot
<1>3. CASE writeIndex < readIndex
  <2>1. readIndex + Size = writeIndex + IndexRange
    BY <1>1, <1>3 DEF Size
  <2> QED BY <1>1, <2>1, SlotOfWrapped DEF Slot
<1> QED BY <1>1, <1>2, <1>3

\* An element that was moved out is still counted.
LEMMA MovedFacts == IInv => Moved \in {0, 1} /\ Moved <= Size /\ Size \in Nat /\ Size <= Capacity
<1> SUFFICES ASSUME IInv PROVE Moved \in {0, 1} /\ Moved <= Size /\ Size \in Nat /\ Size <= Capacity
  OBVIOUS
<1>1. Size \in Nat /\ Size <= Capacity
  BY SizeFacts, CapacityFacts DEF IInv, SizeInv
<1>2. (\E c \in Consumer : pc[c] = "advance") => Size > 0
  BY SizeFacts DEF IInv, SizeInv
<1> QED BY <1>1, <1>2 DEF Moved

\* The two ways to say what is inside agree.
LEMMA ContentsFacts == IInv => Contents = Elements
<1> SUFFICES ASSUME IInv PROVE Contents = Elements
  OBVIOUS
<1>1. /\ readIndex \in Nat /\ readIndex < IndexRange /\ IndexRange \in Nat /\ Capacity \in Nat
      /\ Size \in Nat /\ Size < IndexRange /\ Moved \in {0, 1} /\ Moved <= Size
  BY CapacityFacts, MovedFacts, SizeFacts DEF IInv, TypeOK
<1>2. Contents = [i \in 1 .. Size - Moved |-> data[Slot((readIndex + Moved + i - 1) % IndexRange)]]
  BY DEF Contents, Moved
<1>3. ASSUME NEW i \in 1 .. Size - Moved
      PROVE  Slot((readIndex + Moved + i - 1) % IndexRange) = (readIndex + Moved + i - 1) % Capacity
  <2>1. readIndex + Moved + i - 1 \in Nat /\ readIndex + Moved + i - 1 < 2 * IndexRange
    BY <1>1
  <2> QED BY <2>1, SlotOfIndex
<1> QED BY <1>2, <1>3 DEF Elements

\* A step that leaves indexes and slots alone, and in which nobody starts or
\* stops advancing, leaves the elements inside.
LEMMA ElementsKept ==
    ASSUME IInv, IInv', UNCHANGED indexes, Moved' = Moved
    PROVE  Contents' = Contents
<1>1. Size' = Size
  BY DEF indexes, Size
<1>2. Elements' = Elements
  BY <1>1 DEF Elements, indexes
<1>3. Contents = Elements /\ (Contents = Elements)'
  BY ContentsFacts, PTL
<1> QED BY <1>2, <1>3

\* Every step keeps what a producer wrote.
LEMMA WrittenHolds == Spec => []Written
<1>1. Init => Written
  BY DEF Init, Written, Thread
<1>2. IInv /\ IInv' /\ Written /\ [Next]_vars => Written'
  <2> SUFFICES ASSUME IInv, IInv', Written, [Next]_vars PROVE Written'
    OBVIOUS
  <2>0. /\ Producer \subseteq Thread /\ Consumer \subseteq Thread
        /\ \A p \in Producer, c \in Consumer : p # c
    BY QueueAssumption DEF Thread
  <2> USE <2>0
  <2>1. ASSUME NEW p \in Producer, NEW wait \in BOOLEAN, NEW v \in Value, EmplaceBegin(p, wait, v)
        PROVE  Written'
    BY <2>1 DEF EmplaceBegin, Goto, indexes, IInv, TypeOK, Written
  <2>2. ASSUME NEW p \in Producer, EmplaceCheck(p) \/ EmplaceLock(p) \/ EmplaceTest(p) \/ EmplaceSleep(p)
        PROVE  Written'
    BY <2>2 DEF EmplaceCheck, EmplaceLock, EmplaceTest, EmplaceSleep, Goto, indexes, callers, IInv, TypeOK, Written
  <2>3. ASSUME NEW p \in Producer, EmplaceWrite(p) PROVE Written'
    <3>1. Slot(writeIndex) \in 0 .. Capacity - 1
      BY Division, CapacityFacts DEF IInv, TypeOK, Slot
    <3>2. \A q \in Producer : q # p => pc'[q] = "idle"
      BY <2>3 DEF EmplaceWrite, Goto, IInv, TypeOK, OneProducer
    <3>3. item[p] \in Value /\ data'[Slot(writeIndex)] = item[p]
      BY <2>3, <3>1 DEF EmplaceWrite, IInv, TypeOK, Written
    <3> QED BY <2>3, <3>2, <3>3 DEF EmplaceWrite, callers, Written, Slot
  <2>4. ASSUME NEW p \in Producer, EmplacePublish(p) PROVE Written'
    <3>1. \A q \in Producer : pc'[q] # "publish"
      BY <2>4 DEF EmplacePublish, Goto, IInv, TypeOK, OneProducer
    <3>2. \A q \in Producer : pc'[q] # "idle" => item'[q] \in Value
      BY <2>4 DEF EmplacePublish, Goto, callers, IInv, TypeOK, Written
    <3> QED BY <3>1, <3>2 DEF Written
  <2>5. ASSUME NEW p \in Producer, EmplaceNotify(p) PROVE Written'
    <3>1. pc' = [u \in Thread |-> IF u = p THEN "idle"
                                  ELSE IF u \in Consumer /\ pc[u] = "sleep" THEN "lock" ELSE pc[u]]
      BY <2>5, NotifyFacts DEF EmplaceNotify, IInv
    <3> QED BY <2>5, <3>1 DEF EmplaceNotify, indexes, callers, Written
  <2>6. ASSUME NEW c \in Consumer,
               \/ \E wait \in BOOLEAN, token \in BOOLEAN : PopBegin(c, wait, token)
               \/ PopCheck(c) \/ PopLock(c) \/ PopTest(c) \/ PopSleep(c)
        PROVE  Written'
    BY <2>6 DEF PopBegin, PopCheck, PopLock, PopTest, PopSleep, PopStopped, Goto, indexes, callers, IInv, TypeOK, Written
  <2>7. ASSUME NEW c \in Consumer, PopRead(c) PROVE Written'
    <3>1. ASSUME NEW p \in Producer, pc[p] = "publish" PROVE Slot(writeIndex) # Slot(readIndex)
      <4>1. Size < Capacity /\ Size > 0
        BY <2>7, <3>1, SizeFacts DEF PopRead, IInv, SizeInv, HasRoom
      <4> QED BY <4>1, SlotFacts DEF IInv
    <3>2. \A p \in Producer : pc'[p] = pc[p] /\ item'[p] = item[p]
      BY <2>7 DEF PopRead, Goto, IInv, TypeOK
    <3>3. Slot(writeIndex) \in 0 .. Capacity - 1 /\ Slot(writeIndex)' = Slot(writeIndex)
      BY <2>7, Division, CapacityFacts DEF IInv, TypeOK, Slot, PopRead
    <3>4. \A p \in Producer : pc[p] = "publish" => data'[Slot(writeIndex)] = data[Slot(writeIndex)]
      BY <2>7, <3>1, <3>3 DEF PopRead, IInv, TypeOK
    <3> QED BY <3>2, <3>3, <3>4 DEF Written
  <2>8. ASSUME NEW c \in Consumer, PopAdvance(c) PROVE Written'
    BY <2>8 DEF PopAdvance, Goto, callers, IInv, TypeOK, Written
  <2>9. ASSUME NEW c \in Consumer, PopNotify(c) PROVE Written'
    <3>1. pc' = [u \in Thread |-> IF u = c THEN "idle"
                                  ELSE IF u \in Producer /\ pc[u] = "sleep" THEN "lock" ELSE pc[u]]
      BY <2>9, NotifyFacts DEF PopNotify, IInv
    <3> QED BY <2>9, <3>1 DEF PopNotify, indexes, callers, Written
  <2>10. ASSUME NEW t \in Thread, SpuriousWakeup(t) PROVE Written'
    BY <2>10 DEF SpuriousWakeup, Goto, indexes, callers, IInv, TypeOK, Written
  <2>11. CASE RequestStop
    BY <2>11 DEF RequestStop, indexes, IInv, TypeOK, Written
  <2>12. CASE UNCHANGED vars
    BY <2>12 DEF vars, Written, Slot
  <2> QED
    BY <2>1, <2>2, <2>3, <2>4, <2>5, <2>6, <2>7, <2>8, <2>9, <2>10, <2>11, <2>12
       DEF Next, ProducerStep, ConsumerStep
<1> QED BY <1>1, <1>2, IInvHolds, PTL DEF Spec

\* The next write is to a slot that holds nothing a consumer is still to get.
LEMMA WriteKeepsElements ==
    ASSUME IInv, IInv', NEW p \in Producer, EmplaceWrite(p)
    PROVE  Contents' = Contents
<1>1. /\ readIndex \in Nat /\ Capacity \in Nat /\ Size \in Nat /\ Size < Capacity
      /\ Moved \in {0, 1} /\ Moved <= Size
  BY CapacityFacts, MovedFacts DEF IInv, TypeOK, SizeInv, HasRoom, EmplaceWrite
<1>2. p \in Thread /\ p \notin Consumer /\ Consumer \subseteq Thread
  BY QueueAssumption DEF Thread
<1>3. Moved' = Moved /\ Size' = Size /\ readIndex' = readIndex
  BY <1>2 DEF EmplaceWrite, Goto, IInv, TypeOK, Moved, Size
<1>4. ASSUME NEW i \in 1 .. Size - Moved
      PROVE  data'[(readIndex + Moved + i - 1) % Capacity] = data[(readIndex + Moved + i - 1) % Capacity]
  <2> DEFINE a == readIndex + Moved + i - 1
             b == readIndex + Size
  <2>1. a \in Nat /\ b \in Nat /\ a < b /\ b - a < Capacity
    BY <1>1
  <2>2. a % Capacity # b % Capacity
    BY <2>1, SlotsDiffer
  <2>3. a % Capacity \in 0 .. Capacity - 1
    BY <2>1, Division
  <2>4. Slot(writeIndex) = b % Capacity
    BY SlotOfWrite DEF IInv
  <2> HIDE DEF a, b
  <2>5. data'[a % Capacity] = data[a % Capacity]
    BY <2>2, <2>3, <2>4 DEF EmplaceWrite, IInv, TypeOK
  <2> QED BY <2>5 DEF a
<1>5. Elements' = Elements
  BY <1>3, <1>4 DEF Elements
<1>6. Contents = Elements /\ (Contents = Elements)'
  BY ContentsFacts, PTL
<1> QED BY <1>5, <1>6

\* Publishing the index appends the element that was written.
LEMMA PublishPuts ==
    ASSUME IInv, IInv', Written, NEW p \in Producer, EmplacePublish(p)
    PROVE  /\ Contents' = Append(Contents, item[p])
           /\ item[p] \in Value
           /\ Len(Contents) < Capacity
<1>1. /\ readIndex \in Nat /\ Capacity \in Nat /\ Size \in Nat /\ Size < Capacity
      /\ Moved \in {0, 1} /\ Moved <= Size
  BY CapacityFacts, MovedFacts DEF IInv, TypeOK, SizeInv, HasRoom, EmplacePublish
<1>2. p \in Thread /\ p \notin Consumer /\ Consumer \subseteq Thread
  BY QueueAssumption DEF Thread
<1>3. Moved' = Moved /\ readIndex' = readIndex /\ data' = data
  BY <1>2 DEF EmplacePublish, Goto, IInv, TypeOK, Moved
<1>4. Size' = Size + 1
  BY <1>1, SizePublish DEF EmplacePublish, IInv
<1>5. data[(readIndex + Size) % Capacity] = item[p] /\ item[p] \in Value
  BY SlotOfWrite DEF EmplacePublish, IInv, Written
<1> DEFINE n == Size - Moved
           At(i) == data[(readIndex + Moved + i - 1) % Capacity]
<1>6. n \in Nat /\ n < Capacity /\ readIndex + Moved + (n + 1) - 1 = readIndex + Size
  BY <1>1
<1>7. Contents = [i \in 1 .. n |-> At(i)]
  BY ContentsFacts DEF Elements
<1>8. Contents' = [i \in 1 .. n + 1 |-> At(i)]
  <2>1. (Contents = Elements)'
    BY ContentsFacts, PTL
  <2>2. Size' - Moved' = n + 1
    BY <1>1, <1>3, <1>4
  <2> QED BY <1>3, <2>1, <2>2 DEF Elements
<1>9. At(n + 1) = item[p]
  BY <1>5, <1>6
<1> HIDE DEF n, At
<1>10. Len(Contents) = n
  BY <1>6, <1>7
<1>11. Contents' = Append(Contents, item[p])
  BY <1>6, <1>7, <1>8, <1>9
<1> QED BY <1>5, <1>6, <1>10, <1>11

\* Moving the first element out takes it off the queue.
LEMMA ReadTakes ==
    ASSUME IInv, IInv', NEW c \in Consumer, PopRead(c)
    PROVE  /\ Contents # <<>>
           /\ data[Slot(readIndex)] = Head(Contents)
           /\ Contents' = Tail(Contents)
<1>1. /\ readIndex \in Nat /\ Capacity \in Nat /\ Size \in Nat /\ Size <= Capacity /\ Size > 0
      /\ Slot(readIndex) = (readIndex + 0) % Capacity
  BY CapacityFacts, MovedFacts, SizeFacts DEF IInv, TypeOK, SizeInv, PopRead, Slot
<1>2. c \in Thread /\ Consumer \subseteq Thread
  BY DEF Thread
<1>3. \A d \in Consumer : pc[d] # "advance"
  BY DEF PopRead, IInv, OneConsumer
<1>4. Moved = 0
  BY <1>3 DEF Moved
<1>5. pc'[c] = "advance"
  BY <1>2 DEF PopRead, Goto, IInv, TypeOK
<1>6. Moved' = 1 /\ Size' = Size /\ readIndex' = readIndex
  BY <1>5 DEF PopRead, Moved, Size
<1> DEFINE At(i) == data[(readIndex + i - 1) % Capacity]
<1>7. ASSUME NEW i \in 1 .. Size - 1
      PROVE  data'[(readIndex + 1 + i - 1) % Capacity] = At(i + 1)
  <2>1. /\ readIndex + i \in Nat /\ readIndex < readIndex + i /\ (readIndex + i) - readIndex < Capacity
        /\ readIndex + 1 + i - 1 = readIndex + i /\ readIndex + (i + 1) - 1 = readIndex + i
        /\ readIndex + 0 = readIndex
    BY <1>1
  <2>2. (readIndex + i) % Capacity # Slot(readIndex)
    BY <1>1, <2>1, SlotsDiffer
  <2>3. (readIndex + i) % Capacity \in 0 .. Capacity - 1
    BY <2>1, Division
  <2>4. data'[(readIndex + i) % Capacity] = data[(readIndex + i) % Capacity]
    BY <2>2, <2>3 DEF PopRead, IInv, TypeOK
  <2> QED BY <2>1, <2>4
<1>8. Contents = [i \in 1 .. Size |-> At(i)]
  <2>1. \A i \in 1 .. Size : readIndex + 0 + i - 1 = readIndex + i - 1
    BY <1>1
  <2>2. Contents = [i \in 1 .. Size - 0 |-> data[(readIndex + 0 + i - 1) % Capacity]]
    BY <1>4, ContentsFacts DEF Elements
  <2>3. Size - 0 = Size
    BY <1>1
  <2> QED BY <2>1, <2>2, <2>3
<1>9. Contents' = [i \in 1 .. Size - 1 |-> At(i + 1)]
  <2>1. (Contents = Elements)'
    BY ContentsFacts, PTL
  <2>2. Elements' = [i \in 1 .. Size - 1 |-> data'[(readIndex + 1 + i - 1) % Capacity]]
    BY <1>6 DEF Elements
  <2> QED BY <1>7, <2>1, <2>2
<1>10. data[Slot(readIndex)] = At(1)
  BY <1>1
<1> HIDE DEF At
<1>11. Len(Contents) = Size /\ Contents # <<>> /\ Head(Contents) = At(1)
  BY <1>1, <1>8
<1>12. Tail(Contents) = [i \in 1 .. Size - 1 |-> At(i + 1)]
  BY <1>1, <1>8, <1>11
<1> QED BY <1>9, <1>10, <1>11, <1>12

\* The read index moves past a slot that was already empty.
LEMMA AdvanceKeepsElements ==
    ASSUME IInv, IInv', NEW c \in Consumer, PopAdvance(c)
    PROVE  Contents' = Contents
<1>1. /\ readIndex \in Nat /\ readIndex < IndexRange /\ Capacity \in Nat /\ IndexRange \in Nat
      /\ Size \in Nat /\ Size > 0
  BY CapacityFacts, MovedFacts, SizeFacts DEF IInv, TypeOK, SizeInv, PopAdvance
<1>2. c \in Thread /\ Consumer \subseteq Thread
  BY DEF Thread
<1>3. Moved = 1
  BY DEF PopAdvance, Moved
<1>4. \A d \in Consumer : pc'[d] # "advance"
  BY <1>2 DEF PopAdvance, Goto, IInv, TypeOK, OneConsumer
<1>5. Moved' = 0 /\ data' = data /\ Size' = Size - 1
  BY <1>1, <1>4, SizeAdvance DEF PopAdvance, Moved, IInv
<1>6. ASSUME NEW i \in 1 .. Size - 1
      PROVE  (readIndex' + 0 + i - 1) % Capacity = (readIndex + 1 + i - 1) % Capacity
  <2>1. CASE readIndex + 1 = IndexRange
    <3>1. readIndex' = 0
      BY <2>1 DEF PopAdvance, Inc
    <3>2. i - 1 \in Nat /\ 0 + 0 + i - 1 = i - 1 /\ readIndex + 1 + i - 1 = (i - 1) + IndexRange
      BY <1>1, <2>1
    <3> QED BY <3>1, <3>2, SlotOfWrapped
  <2>2. CASE readIndex + 1 # IndexRange
    <3>1. readIndex' = readIndex + 1
      BY <2>2 DEF PopAdvance, Inc
    <3>2. readIndex' + 0 + i - 1 = readIndex + 1 + i - 1
      BY <1>1, <3>1
    <3> QED BY <3>2
  <2> QED BY <2>1, <2>2
<1>7. Elements = [i \in 1 .. Size - 1 |-> data[(readIndex + 1 + i - 1) % Capacity]]
  BY <1>3 DEF Elements
<1>8. Elements' = [i \in 1 .. Size - 1 |-> data[(readIndex' + 0 + i - 1) % Capacity]]
  <2>1. (Size - 1) - 0 = Size - 1
    BY <1>1
  <2> QED BY <1>5, <2>1 DEF Elements
<1>9. Elements' = Elements
  BY <1>6, <1>7, <1>8
<1>10. Contents = Elements /\ (Contents = Elements)'
  BY ContentsFacts, PTL
<1> QED BY <1>9, <1>10

\* The queue implements a bounded FIFO of any capacity: an element enters when
\* its index is published (Emplace), leaves when it is moved out of its slot
\* (Pop), and every other step changes nothing of it.
THEOREM RefinesFifo == Spec => ImplementsFifo
<1> DEFINE outs == [d \in Consumer |-> item[d]]
<1>1. Init => Fifo!Init
  <2> SUFFICES ASSUME Init PROVE Fifo!Init
    OBVIOUS
  <2>1. Size = 0 /\ Moved = 0
    BY DEF Init, Size, Moved, Thread
  <2>2. Contents = Elements
    BY InitIInv, ContentsFacts
  <2>3. Elements = <<>>
    BY <2>1 DEF Elements
  <2>4. outs = [d \in Consumer |-> NoValue]
    BY DEF Init, Thread
  <2> QED BY <2>2, <2>3, <2>4 DEF Fifo!Init
<1>2. IInv /\ IInv' /\ Written /\ [Next]_vars => [Fifo!Next]_(Fifo!vars)
  <2> SUFFICES ASSUME IInv, IInv', Written, [Next]_vars
               PROVE  Fifo!Next \/ (Contents' = Contents /\ outs' = outs)
    BY DEF Fifo!vars
  <2>0. /\ Producer \subseteq Thread /\ Consumer \subseteq Thread
        /\ \A p \in Producer, c \in Consumer : p # c
    BY QueueAssumption DEF Thread
  <2> USE <2>0
  <2>1. ASSUME NEW p \in Producer,
               \/ \E wait \in BOOLEAN, v \in Value : EmplaceBegin(p, wait, v)
               \/ EmplaceCheck(p) \/ EmplaceLock(p) \/ EmplaceTest(p) \/ EmplaceSleep(p)
        PROVE  Contents' = Contents /\ outs' = outs
    <3>1. UNCHANGED indexes
      BY <2>1 DEF EmplaceBegin, EmplaceCheck, EmplaceLock, EmplaceTest, EmplaceSleep
    <3>2. \A c \in Consumer : pc'[c] = pc[c] /\ item'[c] = item[c]
      BY <2>1 DEF EmplaceBegin, EmplaceCheck, EmplaceLock, EmplaceTest, EmplaceSleep, Goto, callers, IInv, TypeOK
    <3>3. Moved' = Moved /\ outs' = outs
      BY <3>2 DEF Moved
    <3> QED BY <3>1, <3>3, ElementsKept
  <2>2. ASSUME NEW p \in Producer, EmplaceWrite(p) PROVE Contents' = Contents /\ outs' = outs
    BY <2>2, WriteKeepsElements DEF EmplaceWrite, callers
  <2>3. ASSUME NEW p \in Producer, EmplacePublish(p) PROVE Fifo!Put
    <3>1. outs' = outs
      BY <2>3 DEF EmplacePublish, callers
    <3> QED BY <2>3, <3>1, PublishPuts DEF Fifo!Put
  <2>4. ASSUME NEW p \in Producer, EmplaceNotify(p) PROVE Contents' = Contents /\ outs' = outs
    <3>1. pc' = [u \in Thread |-> IF u = p THEN "idle"
                                  ELSE IF u \in Consumer /\ pc[u] = "sleep" THEN "lock" ELSE pc[u]]
      BY <2>4, NotifyFacts DEF EmplaceNotify, IInv
    <3>2. \A c \in Consumer : pc'[c] = "advance" <=> pc[c] = "advance"
      BY <3>1
    <3>3. Moved' = Moved
      BY <3>2 DEF Moved
    <3> QED BY <2>4, <3>3, ElementsKept DEF EmplaceNotify, callers
  <2>5. ASSUME NEW c \in Consumer,
               \/ \E wait \in BOOLEAN, token \in BOOLEAN : PopBegin(c, wait, token)
               \/ PopCheck(c) \/ PopLock(c) \/ PopTest(c) \/ PopSleep(c)
        PROVE  Contents' = Contents /\ outs' = outs
    <3>1. UNCHANGED indexes /\ item' = item
      BY <2>5 DEF PopBegin, PopCheck, PopLock, PopTest, PopSleep, PopStopped, callers
    <3>2. \A d \in Consumer : pc'[d] = "advance" <=> pc[d] = "advance"
      BY <2>5 DEF PopBegin, PopCheck, PopLock, PopTest, PopSleep, PopStopped, Goto, IInv, TypeOK
    <3>3. Moved' = Moved
      BY <3>2 DEF Moved
    <3> QED BY <3>1, <3>3, ElementsKept
  <2>6. ASSUME NEW c \in Consumer, PopRead(c) PROVE Fifo!Take(c)
    <3>1. outs' = [outs EXCEPT ![c] = data[Slot(readIndex)]]
      BY <2>6 DEF PopRead, IInv, TypeOK
    <3> QED BY <2>6, <3>1, ReadTakes DEF Fifo!Take
  <2>7. ASSUME NEW c \in Consumer, PopAdvance(c) PROVE Contents' = Contents /\ outs' = outs
    BY <2>7, AdvanceKeepsElements DEF PopAdvance, callers
  <2>8. ASSUME NEW c \in Consumer, PopNotify(c) PROVE Contents' = Contents /\ outs' = outs
    <3>1. pc' = [u \in Thread |-> IF u = c THEN "idle"
                                  ELSE IF u \in Producer /\ pc[u] = "sleep" THEN "lock" ELSE pc[u]]
      BY <2>8, NotifyFacts DEF PopNotify, IInv
    <3>2. \A d \in Consumer : pc'[d] = "advance" <=> pc[d] = "advance"
      BY <2>8, <3>1 DEF PopNotify
    <3>3. Moved' = Moved
      BY <3>2 DEF Moved
    <3> QED BY <2>8, <3>3, ElementsKept DEF PopNotify, callers
  <2>9. ASSUME RequestStop \/ \E t \in Thread : SpuriousWakeup(t)
        PROVE  Contents' = Contents /\ outs' = outs
    <3>1. UNCHANGED indexes /\ item' = item
      BY <2>9 DEF RequestStop, SpuriousWakeup, callers
    <3>2. \A d \in Consumer : pc'[d] = "advance" <=> pc[d] = "advance"
      BY <2>9 DEF RequestStop, SpuriousWakeup, Goto, IInv, TypeOK
    <3>3. Moved' = Moved
      BY <3>2 DEF Moved
    <3> QED BY <3>1, <3>3, ElementsKept
  <2>10. CASE UNCHANGED vars
    <3>1. UNCHANGED indexes /\ Moved' = Moved /\ outs' = outs
      BY <2>10 DEF vars, indexes, Moved
    <3> QED BY <3>1, ElementsKept
  <2> HIDE DEF outs
  <2> QED
    BY <2>1, <2>2, <2>3, <2>4, <2>5, <2>6, <2>7, <2>8, <2>9, <2>10
       DEF Next, ProducerStep, ConsumerStep, Fifo!Next
<1> QED BY <1>1, <1>2, IInvHolds, WrittenHolds, PTL DEF Spec, ImplementsFifo, Fifo!Spec
=============================================================================
