----------------------- MODULE KSynchronizationObject -----------------------
(***************************************************************************)
(* Waiting for several objects at once: KSynchronizationObject::Wait       *)
(* and NotifyAvailable (k_synchronization_object.{h,cpp}) with the events  *)
(* that are waited for (k_readable_event.cpp), the four ways a wait can    *)
(* end - signal, timeout, cancellation, termination - and KThread::Sleep,  *)
(* the other wait a timer ends (k_thread.cpp, k_thread_queue.cpp).         *)
(*                                                                         *)
(* An object keeps a singly linked list of nodes that live on the stacks   *)
(* of the waiting threads, one node per handle, so a thread that passes a  *)
(* handle twice is on the list twice.  The lists are modelled with their   *)
(* pointers because NotifyAvailable walks a list while the threads it      *)
(* wakes take their nodes off it.                                          *)
(*                                                                         *)
(* Whatever runs under the scheduler lock is one action, except that walk: *)
(* it is one action per node, and nothing else happens until it is over.   *)
(***************************************************************************)
EXTENDS Integers, FiniteSets, Sequences, SequencesExt

CONSTANTS
    Thread,      \* the threads that wait
    Object,      \* the synchronization objects
    MaxObjects,  \* Svc::ArgumentHandleCountMax, the handles of one wait
    Nil          \* the null pointer

ASSUME MaxObjectsAssumption == MaxObjects \in Nat

VARIABLES
    lists,          \* m_thread_list_head, m_thread_list_tail, the nodes' next
    signaled,       \* m_is_signaled of each object
    walk,           \* the loop of NotifyAvailable: the object and cur_node
    objects,        \* the argument of the thread's Wait
    state,          \* KThread: m_thread_state
    waitQueue,      \* m_wait_queue: of Wait, of Sleep, or none
    syncedIndex,    \* m_synced_index
    waitResult,     \* m_wait_result
    cancellable,    \* m_cancellable
    waitCancelled,  \* m_wait_cancelled
    terminating,    \* m_termination_requested
    timer           \* the thread has a task in the KHardwareTimer

vars == <<lists, signaled, walk, objects, state, waitQueue, syncedIndex, waitResult,
          cancellable, waitCancelled, terminating, timer>>

threadFlags == <<cancellable, waitCancelled, terminating>>

Node == Thread \X (1 .. MaxObjects)

ASSUME ThreadAssumption == IsFiniteSet(Thread) /\ Nil \notin Node

Arguments == UNION {[1 .. n -> Object] : n \in 0 .. MaxObjects}

Results == {"Success", "TimedOut", "Cancelled", "TerminationRequested", "None"}

NoWalk == [object |-> Nil, node |-> Nil]

Init ==
    /\ lists = [head |-> [o \in Object |-> Nil],
                tail |-> [o \in Object |-> Nil],
                next |-> [n \in Node |-> Nil]]
    /\ signaled = [o \in Object |-> FALSE]
    /\ walk = NoWalk
    /\ objects = [t \in Thread |-> <<>>]
    /\ state = [t \in Thread |-> "Runnable"]
    /\ waitQueue = [t \in Thread |-> "none"]
    /\ syncedIndex = [t \in Thread |-> -1]
    /\ waitResult = [t \in Thread |-> "None"]
    /\ cancellable = [t \in Thread |-> FALSE]
    /\ waitCancelled = [t \in Thread |-> FALSE]
    /\ terminating = [t \in Thread |-> FALSE]
    /\ timer = [t \in Thread |-> FALSE]

-----------------------------------------------------------------------------
(* The thread lists *)

\* The nodes reached from a node, in order.
Chain(l, node) ==
    LET from[k \in 0 .. Cardinality(Node)] ==
            [n \in Node \cup {Nil} |->
                IF n = Nil \/ k = 0 THEN <<>> ELSE <<n>> \o from[k - 1][l.next[n]]]
    IN  from[Cardinality(Node)][node]

\* LinkNode
LinkNode(l, o, n) ==
    [head |-> IF l.tail[o] = Nil THEN [l.head EXCEPT ![o] = n] ELSE l.head,
     tail |-> [l.tail EXCEPT ![o] = n],
     next |-> IF l.tail[o] = Nil THEN l.next ELSE [l.next EXCEPT ![l.tail[o]] = n]]

\* UnlinkNode looks for the node before n from the head.
PrevNode(l, o, n) ==
    LET chain == Chain(l, l.head[o]) IN
    IF Head(chain) = n THEN Nil ELSE CHOOSE p \in Range(chain) : l.next[p] = n

TailKept(l, o, n) == l.tail
TailAfterUnlink(l, o, n) ==
    IF l.tail[o] = n THEN [l.tail EXCEPT ![o] = PrevNode(l, o, n)] ELSE l.tail

\* The node that is taken off keeps its own next pointer.
NextCleared(l, o, n) ==
    LET prev == PrevNode(l, o, n) IN
    [m \in Node |-> IF m = n THEN Nil ELSE IF m = prev THEN l.next[n] ELSE l.next[m]]
NextAfterUnlink(l, o, n) ==
    LET prev == PrevNode(l, o, n) IN
    IF prev = Nil THEN l.next ELSE [l.next EXCEPT ![prev] = l.next[n]]

UnlinkNode(l, o, n) ==
    [head |-> IF l.head[o] = n THEN [l.head EXCEPT ![o] = l.next[n]] ELSE l.head,
     tail |-> TailAfterUnlink(l, o, n),
     next |-> NextAfterUnlink(l, o, n)]

\* "Add the waiters": the nodes are initialised and linked in argument order.
LinkAll(t, objs) ==
    LET after[k \in 0 .. Len(objs)] ==
            IF k = 0 THEN lists
            ELSE LinkNode([after[k - 1] EXCEPT !.next[<<t, k>>] = Nil], objs[k], <<t, k>>)
    IN  after[Len(objs)]

\* Both handlers of the wait queue take every node off its list.
UnlinkAll(t) ==
    LET after[k \in 0 .. Len(objects[t])] ==
            IF k = 0 THEN lists ELSE UnlinkNode(after[k - 1], objects[t][k], <<t, k>>)
    IN  after[Len(objects[t])]

-----------------------------------------------------------------------------
(* A thread enters and leaves a wait *)

SchedulerUnlocked == walk = NoWalk

\* The thread runs outside of Wait and Sleep.
Running(t) == state[t] = "Runnable" /\ waitResult[t] = "None"

\* The checks of Wait before it blocks, in their order; "block" when none
\* applies.  The index is that of the first signaled object.
FirstOf(indices) == CHOOSE i \in indices : \A j \in indices : i <= j

WaitOutcome(t, objs, timeout) ==
    LET ready == {i \in DOMAIN objs : signaled[objs[i]]} IN
    IF terminating[t] THEN [result |-> "TerminationRequested", index |-> -1]
    ELSE IF ready # {} THEN [result |-> "Success", index |-> FirstOf(ready)]
    ELSE [result |-> IF timeout = "zero" THEN "TimedOut"
                     ELSE IF waitCancelled[t] THEN "Cancelled" ELSE "block", index |-> -1]

\* Wait returns at once.  Only the Cancelled outcome clears m_wait_cancelled.
WaitReturns(t, objs, timeout) ==
    LET outcome == WaitOutcome(t, objs, timeout) IN
    /\ SchedulerUnlocked
    /\ Running(t)
    /\ outcome.result # "block"
    /\ objects' = [objects EXCEPT ![t] = objs]
    /\ syncedIndex' = [syncedIndex EXCEPT ![t] = outcome.index]
    /\ waitResult' = [waitResult EXCEPT ![t] = outcome.result]
    /\ waitCancelled' = [waitCancelled EXCEPT ![t] = @ /\ outcome.result # "Cancelled"]
    /\ UNCHANGED <<lists, signaled, walk, state, waitQueue, cancellable, terminating, timer>>

\* Wait links its nodes and blocks; the timer is armed when the scheduler
\* lock is released (KScopedSchedulerLockAndSleep).
WaitBlocks(t, objs, timeout) ==
    /\ SchedulerUnlocked
    /\ Running(t)
    /\ WaitOutcome(t, objs, timeout).result = "block"
    /\ lists' = LinkAll(t, objs)
    /\ objects' = [objects EXCEPT ![t] = objs]
    /\ cancellable' = [cancellable EXCEPT ![t] = TRUE]
    /\ syncedIndex' = [syncedIndex EXCEPT ![t] = -1]
    /\ state' = [state EXCEPT ![t] = "Waiting"]
    /\ waitQueue' = [waitQueue EXCEPT ![t] = "Wait"]
    /\ timer' = [timer EXCEPT ![t] = timeout = "positive"]
    /\ UNCHANGED <<signaled, walk, waitResult, waitCancelled, terminating>>

\* KThread::Sleep: not cancellable, always with a timer.
Sleep(t) ==
    /\ SchedulerUnlocked
    /\ Running(t)
    /\ ~terminating[t]
    /\ state' = [state EXCEPT ![t] = "Waiting"]
    /\ waitQueue' = [waitQueue EXCEPT ![t] = "Sleep"]
    /\ timer' = [timer EXCEPT ![t] = TRUE]
    /\ UNCHANGED <<lists, signaled, walk, objects, syncedIndex, waitResult, threadFlags>>

\* A thread that was woken, or did not block, returns to its caller with the
\* index and the result; its stack frame, and its nodes, are gone.  A woken
\* thread does not run before the scheduler lock is released, because cores
\* choose their next thread only then.
Return(t) ==
    /\ SchedulerUnlocked
    /\ state[t] = "Runnable"
    /\ waitResult[t] # "None"
    /\ objects' = [objects EXCEPT ![t] = <<>>]
    /\ syncedIndex' = [syncedIndex EXCEPT ![t] = -1]
    /\ waitResult' = [waitResult EXCEPT ![t] = "None"]
    /\ lists' = [lists EXCEPT !.next = [n \in Node |-> IF n[1] = t THEN Nil ELSE @[n]]]
    /\ UNCHANGED <<signaled, walk, state, waitQueue, threadFlags, timer>>

-----------------------------------------------------------------------------
(* A wait ends *)

\* CancelTask: the thread has no timer task when its wait is over.  When the
\* timer itself ended the wait it has taken the task out already.
TimerAfterWait(t, result) == [timer EXCEPT ![t] = FALSE]

\* KThreadQueue::EndWait and CancelWait, and what the queue of Wait does first.
EndWait(t, result, index) ==
    /\ lists' = IF waitQueue[t] = "Wait" THEN UnlinkAll(t) ELSE lists
    /\ cancellable' = [cancellable EXCEPT ![t] = @ /\ waitQueue[t] # "Wait"]
    /\ syncedIndex' = [syncedIndex EXCEPT ![t] = index]
    /\ waitResult' = [waitResult EXCEPT ![t] = result]
    /\ state' = [state EXCEPT ![t] = "Runnable"]
    /\ waitQueue' = [waitQueue EXCEPT ![t] = "none"]
    /\ timer' = TimerAfterWait(t, result)

\* KReadableEvent::Signal of an event that was not signaled: NotifyAvailable
\* starts at the head.
Signal(o) ==
    /\ SchedulerUnlocked
    /\ ~signaled[o]
    /\ signaled' = [signaled EXCEPT ![o] = TRUE]
    /\ walk' = IF lists.head[o] = Nil THEN NoWalk ELSE [object |-> o, node |-> lists.head[o]]
    /\ UNCHANGED <<lists, objects, state, waitQueue, syncedIndex, waitResult, threadFlags, timer>>

\* The first position of an object in a thread's argument.
LastIndex(t, o) ==
    CHOOSE i \in DOMAIN objects[t] :
        objects[t][i] = o /\ \A j \in DOMAIN objects[t] : objects[t][j] = o => j <= i
FirstIndex(t, o) == FirstOf({i \in DOMAIN objects[t] : objects[t][i] = o})

\* After a node the loop goes on with its next pointer, read after the call.
WalkTo(o, node) == IF node = Nil THEN NoWalk ELSE [object |-> o, node |-> node]

\* One turn of the loop of NotifyAvailable: the node's thread is woken if it
\* still waits; a thread that is on the list twice was woken by its first node.
NotifyNode ==
    LET t == walk.node[1] IN
    /\ walk # NoWalk
    /\ \/ /\ state[t] = "Waiting"
          /\ EndWait(t, "Success", FirstIndex(t, walk.object))
       \/ /\ state[t] # "Waiting"
          /\ UNCHANGED <<lists, cancellable, syncedIndex, waitResult, state, waitQueue, timer>>
    /\ walk' = WalkTo(walk.object, lists'.next[walk.node])
    /\ UNCHANGED <<signaled, objects, waitCancelled, terminating>>

\* KReadableEvent::Reset of a signaled event.
Reset(o) ==
    /\ SchedulerUnlocked
    /\ signaled[o]
    /\ signaled' = [signaled EXCEPT ![o] = FALSE]
    /\ UNCHANGED <<lists, walk, objects, state, waitQueue, syncedIndex, waitResult, threadFlags, timer>>

\* The timer takes the thread's task out and calls KThread::OnTimer.
OnTimerOfWaitOnly(t) ==
    /\ SchedulerUnlocked
    /\ timer[t]
    /\ \/ waitQueue[t] = "Wait" /\ EndWait(t, "TimedOut", syncedIndex[t])
       \/ /\ waitQueue[t] # "Wait"
          /\ timer' = [timer EXCEPT ![t] = FALSE]
          /\ UNCHANGED <<lists, cancellable, syncedIndex, waitResult, state, waitQueue>>
    /\ UNCHANGED <<signaled, walk, objects, waitCancelled, terminating>>
OnTimer(t) ==
    /\ SchedulerUnlocked
    /\ timer[t]
    /\ \/ state[t] = "Waiting" /\ EndWait(t, "TimedOut", syncedIndex[t])
       \/ /\ state[t] # "Waiting"
          /\ timer' = [timer EXCEPT ![t] = FALSE]
          /\ UNCHANGED <<lists, cancellable, syncedIndex, waitResult, state, waitQueue>>
    /\ UNCHANGED <<signaled, walk, objects, waitCancelled, terminating>>

\* KThread::WaitCancel (svcCancelSynchronization): end the wait if there is one
\* that can be cancelled, otherwise remember the request for the next Wait.
WaitCancel(t) ==
    /\ SchedulerUnlocked
    /\ \/ /\ state[t] = "Waiting" /\ cancellable[t]
          /\ waitCancelled' = [waitCancelled EXCEPT ![t] = FALSE]
          /\ EndWait(t, "Cancelled", syncedIndex[t])
       \/ /\ ~(state[t] = "Waiting" /\ cancellable[t])
          /\ waitCancelled' = [waitCancelled EXCEPT ![t] = TRUE]
          /\ UNCHANGED <<lists, cancellable, syncedIndex, waitResult, state, waitQueue, timer>>
    /\ UNCHANGED <<signaled, walk, objects, terminating>>

\* KThread::RequestTerminate of a thread that was started.
RequestTerminate(t) ==
    /\ SchedulerUnlocked
    /\ ~terminating[t]
    /\ terminating' = [terminating EXCEPT ![t] = TRUE]
    /\ \/ state[t] = "Waiting" /\ EndWait(t, "TerminationRequested", syncedIndex[t])
       \/ /\ state[t] # "Waiting"
          /\ UNCHANGED <<lists, cancellable, syncedIndex, waitResult, state, waitQueue, timer>>
    /\ UNCHANGED <<signaled, walk, objects, waitCancelled>>

-----------------------------------------------------------------------------
Next ==
    \/ \E t \in Thread, objs \in Arguments, timeout \in {"zero", "positive", "infinite"} :
          WaitReturns(t, objs, timeout) \/ WaitBlocks(t, objs, timeout)
    \/ \E t \in Thread :
          Sleep(t) \/ Return(t) \/ OnTimer(t) \/ WaitCancel(t) \/ RequestTerminate(t)
    \/ \E o \in Object : Signal(o) \/ Reset(o)
    \/ NotifyNode

Spec == Init /\ [][Next]_vars

\* The loop of NotifyAvailable runs to its end, an armed timer fires;
\* nobody has to signal, cancel or return to its caller.  The
\* timer is strongly fair: it asks for the scheduler lock, a mutex that others
\* take and release again and again, and gets it in the end.
Fairness ==
    /\ WF_vars(NotifyNode)
    /\ \A t \in Thread : SF_vars(OnTimer(t))

FairSpec == Spec /\ Fairness

-----------------------------------------------------------------------------
\* The list pointers lead to nodes, and every member of the threads has its type.
TypeOK ==
    /\ lists.head \in [Object -> Node \cup {Nil}]
    /\ lists.tail \in [Object -> Node \cup {Nil}]
    /\ lists.next \in [Node -> Node \cup {Nil}]
    /\ signaled \in [Object -> BOOLEAN]
    /\ walk \in {NoWalk} \cup [object : Object, node : Node]
    /\ objects \in [Thread -> Arguments]
    /\ state \in [Thread -> {"Runnable", "Waiting"}]
    /\ waitQueue \in [Thread -> {"none", "Wait", "Sleep"}]
    /\ syncedIndex \in [Thread -> {-1} \cup (1 .. MaxObjects)]
    /\ waitResult \in [Thread -> Results]
    /\ \A f \in {cancellable, waitCancelled, terminating, timer} : f \in [Thread -> BOOLEAN]

\* A thread blocked in Wait waits for objects none of which is signaled: the
\* check before blocking and the walk over the list leave no gap, whatever
\* the order of nodes and however often a handle was passed.  Nor does it
\* sleep on a cancellation that came before the wait it was meant for.
NoMissedSignal ==
    \A t \in Thread : waitQueue[t] = "Wait" =>
        /\ walk = NoWalk => \A i \in DOMAIN objects[t] : ~signaled[objects[t][i]]
        /\ ~waitCancelled[t]

\* The lists hold exactly the nodes of the threads that are blocked in Wait,
\* each on the list of its object, and the tail pointers are right: no node
\* outlives the stack frame of its thread.  Nor does a timer outlive the wait
\* it was armed for, so that it cannot end a later one.
ListsMatchWaiters ==
    /\ TypeOK
    /\ \A o \in Object :
        LET chain == Chain(lists, lists.head[o]) IN
        /\ IsInjective(chain)
        /\ Range(chain) = {n \in Node : /\ waitQueue[n[1]] = "Wait"
                                        /\ n[2] \in DOMAIN objects[n[1]]
                                        /\ objects[n[1]][n[2]] = o}
        /\ lists.tail[o] = IF chain = <<>> THEN Nil ELSE Last(chain)
    /\ \A t \in Thread : timer[t] => state[t] = "Waiting"

\* A wait that ends with Success names the first handle of an object that is
\* signaled at that moment.
SuccessNamesSignaledObject ==
    [][\A t \in Thread :
          waitResult[t] = "None" /\ waitResult'[t] = "Success" =>
              /\ syncedIndex'[t] \in DOMAIN objects'[t]
              /\ signaled'[objects'[t][syncedIndex'[t]]]
              /\ \A j \in 1 .. syncedIndex'[t] - 1 : objects'[t][j] # objects'[t][syncedIndex'[t]]
      ]_vars

\* A wait with a timeout ends.
TimedWaitEnds == \A t \in Thread : timer[t] ~> state[t] = "Runnable"
=============================================================================
