---------------------------- MODULE BoundedQueue ----------------------------
(***************************************************************************)
(* The bounded queues of common/bounded_threadsafe_queue.h.  SPSCQueue is  *)
(* a ring of slots with a write and a read index, each advanced by one     *)
(* side only, and a condition variable per side.  MPSCQueue and MPMCQueue  *)
(* put a mutex in front of a side; with one producer and one consumer      *)
(* these mutexes are never contended and the module is SPSCQueue itself.   *)
(*                                                                         *)
(* One action is one access to what the sides share: an index, a slot, a   *)
(* cv_mutex.  The local copies write_index and read_index equal the shared *)
(* index of the own side, which nobody else changes meanwhile.             *)
(***************************************************************************)
EXTENDS Integers, Sequences

CONSTANTS
    Producer,    \* threads that call TryEmplace and EmplaceWait
    Consumer,    \* threads that call TryPop and PopWait
    Value,       \* the elements
    NoValue,     \* the content of a slot that was never written or moved from
    Nil,         \* no thread
    Capacity,    \* number of slots
    IndexRange   \* values of an index: 2^64 in the code, where it is a size_t

\* Capacity is a power of two (the static_assert) and so divides the range of
\* a size_t, which is larger.
ASSUME QueueAssumption ==
    /\ Capacity \in Nat \ {0}
    /\ IndexRange \in Nat \ {0}
    /\ \E k \in 2 .. IndexRange : IndexRange = Capacity * k
    /\ Nil \notin Producer \cup Consumer
    /\ Producer \cap Consumer = {}
    /\ NoValue \notin Value

Thread == Producer \cup Consumer

VARIABLES
    writeIndex,  \* producer.index
    readIndex,   \* consumer.index
    data,        \* m_data
    writeMutex,  \* write_mutex, the producer in Emplace
    readMutex,   \* read_mutex, the consumer in Pop
    producerCv,  \* producer.cv_mutex
    consumerCv,  \* consumer.cv_mutex
    pc,          \* where each thread is
    useToken,    \* the consumer is in Pop<PopMode::WaitWithStopToken>
    item,        \* the element to push, or the last one popped
    stop         \* a stop was requested

vars == <<writeIndex, readIndex, data, writeMutex, readMutex, producerCv, consumerCv, pc,
          useToken, item, stop>>

indexes == <<writeIndex, readIndex, data>>
mutexes == <<writeMutex, readMutex, producerCv, consumerCv>>
callers == <<useToken, item, stop>>

Init ==
    /\ writeIndex = 0
    /\ readIndex = 0
    /\ data = [i \in 0 .. Capacity - 1 |-> NoValue]
    /\ writeMutex = Nil /\ readMutex = Nil
    /\ producerCv = Nil /\ consumerCv = Nil
    /\ pc = [t \in Thread |-> "idle"]
    /\ useToken = [c \in Consumer |-> FALSE]
    /\ item = [t \in Thread |-> NoValue]
    /\ stop = FALSE

-----------------------------------------------------------------------------
(* Index arithmetic *)

\* ++index
IncUnbounded(i) == i + 1
Inc(i) == IF i + 1 = IndexRange THEN 0 ELSE i + 1

\* write_index - read_index, unsigned: the number of elements.
Size == IF writeIndex >= readIndex THEN writeIndex - readIndex
        ELSE writeIndex - readIndex + IndexRange

Slot(i) == i % Capacity

\* The condition under which TryEmplace gives up.
Full == Size = Capacity

\* The predicate of EmplaceWait.
HasRoomOffByOne == Size <= Capacity
HasRoom == Size < Capacity

\* The condition of TryPop and the predicates of PopWait.
HasElement == readIndex # writeIndex

Goto(t, label) == pc' = [pc EXCEPT ![t] = label]

-----------------------------------------------------------------------------
(* Emplace *)

\* TryEmplace and EmplaceWait up to the first access to the queue.
EmplaceBegin(p, wait, v) ==
    /\ pc[p] = "idle"
    /\ writeMutex = Nil
    /\ writeMutex' = p
    /\ item' = [item EXCEPT ![p] = v]
    /\ Goto(p, IF wait THEN "lock" ELSE "check")
    /\ UNCHANGED <<indexes, readMutex, producerCv, consumerCv, useToken, stop>>

\* PushMode::Try
EmplaceCheck(p) ==
    /\ pc[p] = "check"
    /\ \/ /\ ~ Full
          /\ Goto(p, "write")
          /\ UNCHANGED writeMutex
       \/ /\ Full
          /\ Goto(p, "idle")
          /\ writeMutex' = Nil
    /\ UNCHANGED <<indexes, readMutex, producerCv, consumerCv, callers>>

\* PushMode::Wait: the lock is taken first, and again after every wake-up.
EmplaceLock(p) ==
    /\ pc[p] = "lock"
    /\ producerCv = Nil
    /\ producerCv' = p
    /\ Goto(p, "test")
    /\ UNCHANGED <<indexes, writeMutex, readMutex, consumerCv, callers>>

\* The predicate: on with the push and the lock released, or on to sleep.
EmplaceTest(p) ==
    /\ pc[p] = "test"
    /\ \/ /\ HasRoom
          /\ Goto(p, "write")
          /\ producerCv' = Nil
       \/ /\ ~ HasRoom
          /\ Goto(p, "block")
          /\ UNCHANGED producerCv
    /\ UNCHANGED <<indexes, writeMutex, readMutex, consumerCv, callers>>

\* wait() releases the lock and sleeps in one step.
EmplaceSleep(p) ==
    /\ pc[p] = "block"
    /\ producerCv' = Nil
    /\ Goto(p, "sleep")
    /\ UNCHANGED <<indexes, writeMutex, readMutex, consumerCv, callers>>

EmplaceWrite(p) ==
    /\ pc[p] = "write"
    /\ data' = [data EXCEPT ![Slot(writeIndex)] = item[p]]
    /\ Goto(p, "publish")
    /\ UNCHANGED <<writeIndex, readIndex, mutexes, callers>>

EmplacePublish(p) ==
    /\ pc[p] = "publish"
    /\ writeIndex' = Inc(writeIndex)
    /\ Goto(p, "notify")
    /\ UNCHANGED <<readIndex, data, mutexes, callers>>

\* notify_one of a side's condition variable, as a thread leaves.
NotifyNobody(t, others) == [pc EXCEPT ![t] = "idle"]
NotifyOne(t, others) ==
    LET sleeping == {u \in others : pc[u] = "sleep"}
    IN  IF sleeping = {} THEN [pc EXCEPT ![t] = "idle"]
        ELSE [pc EXCEPT ![t] = "idle", ![CHOOSE u \in sleeping : TRUE] = "lock"]

\* consumer.cv.notify_one() under consumer.cv_mutex; the call returns.
EmplaceNotifyUnlocked(p) ==
    /\ pc[p] = "notify"
    /\ pc' = NotifyOne(p, Consumer)
    /\ writeMutex' = Nil
    /\ UNCHANGED <<indexes, readMutex, producerCv, consumerCv, callers>>
EmplaceNotify(p) ==
    /\ pc[p] = "notify"
    /\ consumerCv = Nil
    /\ pc' = NotifyOne(p, Consumer)
    /\ writeMutex' = Nil
    /\ UNCHANGED <<indexes, readMutex, producerCv, consumerCv, callers>>

-----------------------------------------------------------------------------
(* Pop *)

PopBegin(c, wait, token) ==
    /\ pc[c] = "idle"
    /\ readMutex = Nil
    /\ readMutex' = c
    /\ useToken' = [useToken EXCEPT ![c] = token]
    /\ Goto(c, IF wait THEN "lock" ELSE "check")
    /\ UNCHANGED <<indexes, writeMutex, producerCv, consumerCv, item, stop>>

\* PopMode::Try
PopCheck(c) ==
    /\ pc[c] = "check"
    /\ \/ /\ HasElement
          /\ Goto(c, "read")
          /\ UNCHANGED readMutex
       \/ /\ ~ HasElement
          /\ Goto(c, "idle")
          /\ readMutex' = Nil
    /\ UNCHANGED <<indexes, writeMutex, producerCv, consumerCv, callers>>

PopLock(c) ==
    /\ pc[c] = "lock"
    /\ consumerCv = Nil
    /\ consumerCv' = c
    /\ Goto(c, "test")
    /\ UNCHANGED <<indexes, writeMutex, readMutex, producerCv, callers>>

Stopped(c) == useToken[c] /\ stop

\* Pop returns without an element.
PopStopped(c) ==
    /\ Goto(c, "idle")
    /\ consumerCv' = Nil
    /\ readMutex' = Nil

\* The predicate of the wait and the check of the stop token behind it: a
\* requested stop wins over an element that is there.
PopTest(c) ==
    /\ pc[c] = "test"
    /\ \/ /\ Stopped(c)
          /\ PopStopped(c)
       \/ /\ ~ Stopped(c) /\ HasElement
          /\ Goto(c, "read")
          /\ consumerCv' = Nil
          /\ UNCHANGED readMutex
       \/ /\ ~ Stopped(c) /\ ~ HasElement
          /\ Goto(c, "block")
          /\ UNCHANGED <<consumerCv, readMutex>>
    /\ UNCHANGED <<indexes, writeMutex, producerCv, callers>>

\* wait() looks at the token once more under the mutex that request_stop()
\* notifies under, then releases the lock and sleeps in one step.
PopSleep(c) ==
    /\ pc[c] = "block"
    /\ \/ /\ Stopped(c)
          /\ PopStopped(c)
       \/ /\ ~ Stopped(c)
          /\ Goto(c, "sleep")
          /\ consumerCv' = Nil
          /\ UNCHANGED readMutex
    /\ UNCHANGED <<indexes, writeMutex, producerCv, callers>>

\* The element is moved out of its slot.
PopRead(c) ==
    /\ pc[c] = "read"
    /\ item' = [item EXCEPT ![c] = data[Slot(readIndex)]]
    /\ data' = [data EXCEPT ![Slot(readIndex)] = NoValue]
    /\ Goto(c, "advance")
    /\ UNCHANGED <<writeIndex, readIndex, mutexes, useToken, stop>>

PopAdvanceToWrite(c) ==
    /\ pc[c] = "advance"
    /\ readIndex' = writeIndex
    /\ Goto(c, "notify")
    /\ UNCHANGED <<writeIndex, data, mutexes, callers>>

PopAdvance(c) ==
    /\ pc[c] = "advance"
    /\ readIndex' = Inc(readIndex)
    /\ Goto(c, "notify")
    /\ UNCHANGED <<writeIndex, data, mutexes, callers>>

\* producer.cv.notify_one() under producer.cv_mutex; the call returns.
PopNotify(c) ==
    /\ pc[c] = "notify"
    /\ producerCv = Nil
    /\ pc' = NotifyOne(c, Producer)
    /\ readMutex' = Nil
    /\ UNCHANGED <<indexes, writeMutex, producerCv, consumerCv, callers>>

-----------------------------------------------------------------------------
(* The rest *)

\* A condition variable may wake a thread for no reason.
SpuriousWakeup(t) ==
    /\ pc[t] = "sleep"
    /\ Goto(t, "lock")
    /\ UNCHANGED <<indexes, mutexes, callers>>

\* request_stop() on the token: condition_variable_any wakes its waiters.
RequestStop ==
    /\ ~ stop
    /\ stop' = TRUE
    /\ pc' = [t \in Thread |-> IF t \in Consumer /\ pc[t] = "sleep" /\ useToken[t]
                               THEN "lock" ELSE pc[t]]
    /\ UNCHANGED <<indexes, mutexes, useToken, item>>

ProducerStep(p) ==
    \/ EmplaceCheck(p)
    \/ EmplaceLock(p)
    \/ EmplaceTest(p)
    \/ EmplaceSleep(p)
    \/ EmplaceWrite(p)
    \/ EmplacePublish(p)
    \/ EmplaceNotify(p)

ConsumerStep(c) ==
    \/ PopCheck(c)
    \/ PopLock(c)
    \/ PopTest(c)
    \/ PopSleep(c)
    \/ PopRead(c)
    \/ PopAdvance(c)
    \/ PopNotify(c)

Next ==
    \/ \E p \in Producer, wait \in BOOLEAN, v \in Value : EmplaceBegin(p, wait, v)
    \/ \E p \in Producer : ProducerStep(p)
    \/ \E c \in Consumer, wait \in BOOLEAN, token \in BOOLEAN : PopBegin(c, wait, token)
    \/ \E c \in Consumer : ConsumerStep(c)
    \/ \E t \in Thread : SpuriousWakeup(t)
    \/ RequestStop

Spec == Init /\ [][Next]_vars

\* A thread inside a call goes on.  It may have to wait for a cv_mutex, which is
\* held from a test to the sleep only, however often: strong fairness.  A
\* consumer calls PopWait again, as the GPU thread does in its loop until it is
\* stopped (gpu_thread.cpp); nothing else has to be called.
Fairness ==
    /\ \A p \in Producer : SF_vars(ProducerStep(p))
    /\ \A c \in Consumer : SF_vars(ConsumerStep(c))
    /\ \A c \in Consumer : SF_vars(~ stop /\ PopBegin(c, TRUE, TRUE))

FairSpec == Spec /\ Fairness

-----------------------------------------------------------------------------
(* Properties *)

\* The indexes stay in their range, the slots hold elements, the mutexes name a
\* thread of their side.
TypeOK ==
    /\ writeIndex \in 0 .. IndexRange - 1
    /\ readIndex \in 0 .. IndexRange - 1
    /\ data \in [0 .. Capacity - 1 -> Value \cup {NoValue}]
    /\ writeMutex \in Producer \cup {Nil} /\ readMutex \in Consumer \cup {Nil}
    /\ producerCv \in Producer \cup {Nil} /\ consumerCv \in Consumer \cup {Nil}
    /\ pc \in [Thread -> {"idle", "check", "lock", "test", "block", "sleep", "write", "publish",
                          "read", "advance", "notify"}]
    /\ useToken \in [Consumer -> BOOLEAN]
    /\ item \in [Thread -> Value \cup {NoValue}]
    /\ stop \in BOOLEAN

\* A producer constructs an element and a consumer moves one out at the same
\* time only in different slots, across the wrap-around of the indexes too.
NoSlotRace ==
    \A p \in Producer, c \in Consumer :
        pc[p] = "write" /\ pc[c] = "read" => Slot(writeIndex) # Slot(readIndex)

\* A producer that sleeps although there is room is about to be woken: a
\* consumer has advanced and not yet notified.  Likewise for a consumer that
\* sleeps although there is an element, or although its stop was requested.
NoLostWakeup ==
    /\ \A p \in Producer : pc[p] = "sleep" /\ HasRoom => \E c \in Consumer : pc[c] = "notify"
    /\ \A c \in Consumer : pc[c] = "sleep" /\ HasElement => \E p \in Producer : pc[p] = "notify"
    /\ \A c \in Consumer : pc[c] = "sleep" => ~ Stopped(c)

\* The elements inside: from the first slot that was not moved out of.
Contents ==
    LET moved == IF \E c \in Consumer : pc[c] = "advance" THEN 1 ELSE 0
    IN  [i \in 1 .. Size - moved |-> data[Slot((readIndex + moved + i - 1) % IndexRange)]]

\* The queue is a bounded FIFO: an element enters when its index is published
\* and leaves when it is moved out of its slot.
Fifo == INSTANCE BoundedFifo WITH
    queue <- Contents,
    out <- [c \in Consumer |-> item[c]]

ImplementsFifo == Fifo!Spec

\* EmplaceWait returns as long as somebody keeps popping, and PopWait with a
\* stop token returns once the stop is requested.
CallsReturn ==
    /\ \A p \in Producer : pc[p] # "idle" ~> pc[p] = "idle" \/ stop
    /\ \A c \in Consumer : pc[c] # "idle" /\ useToken[c] /\ stop ~> pc[c] = "idle"
=============================================================================
