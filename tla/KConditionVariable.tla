------------------------ MODULE KConditionVariable ------------------------
(***************************************************************************)
(* The locks and condition variables of guest programs: the kernel half in *)
(* k_condition_variable.cpp with the waiter lists and the priority         *)
(* inheritance of k_thread.cpp, driven by the user-space half of the       *)
(* protocol (code that is not part of the repository), which works on a    *)
(* lock word with compare-and-swap and calls the kernel on contention.     *)
(*                                                                         *)
(* A lock word holds the handle of its owner and a wait bit; handles are   *)
(* identified with threads.  Kernel calls run under the scheduler lock and *)
(* are one action each; the loop of Signal is one action per thread, with  *)
(* only user-space steps in between.  Waiters of equal priority are chosen *)
(* from in any order.                                                      *)
(***************************************************************************)
EXTENDS Integers, FiniteSets, FiniteSetsExt

CONSTANTS
    Thread,           \* threads of one guest process
    NoThread,         \* the null KThread*, and the handle 0
    Address,          \* addresses of lock words
    Key,              \* condition variable keys
    NoKey,            \* the thread is not in a condition variable's tree
    BasePriority,     \* initial base priority of each thread, 0 is the highest
    Priorities,       \* base priorities that SetBasePriority gives
    TerminatingPriority,  \* TerminatingThreadPriority
    Terminable,       \* threads whose termination may be requested
    Mortal            \* threads that may exit

ASSUME PriorityAssumption ==
    /\ BasePriority \in [Thread -> Nat]
    /\ Priorities \subseteq Nat
    /\ TerminatingPriority \in Nat

ASSUME ThreadAssumption ==
    /\ IsFiniteSet(Thread) /\ NoThread \notin Thread
    /\ Terminable \subseteq Thread /\ Mortal \subseteq Thread

ASSUME WordAssumption == Address # {} /\ NoKey \notin Key

VARIABLES
    mem,         \* the lock words: owner's handle and HandleWaitMask bit
    cvFlag,      \* the word at each key: HasWaiterFlag
    base,        \* m_base_priority
    prio,        \* m_priority
    lockOwner,   \* m_waiting_lock_info->GetOwner()
    addressKey,  \* m_address_key of a thread that waits
    cvKey,       \* m_condvar_key, when in the tree
    state,       \* m_thread_state
    waitQueue,   \* m_wait_queue: of WaitForAddress, of Wait, or none
    waitResult,  \* m_wait_result
    timer,       \* the thread has a task in the KHardwareTimer
    terminating, \* m_termination_requested
    ref,         \* the reference WaitForAddress holds to the owner thread
    handle,      \* the process's handle of the thread is open
    signal,      \* the loop of Signal: its key, and how many threads are left
    crashed,     \* a null KThread* was used
    pc, target, seen, held  \* the user-space half: lock wanted, owner read, locks held

kernelVars == <<base, terminating, handle, crashed>>
userVars == <<pc, target, seen, held>>
waitVars == <<state, waitQueue, waitResult, timer>>
vars == <<mem, cvFlag, prio, lockOwner, addressKey, cvKey, waitVars, ref, signal, kernelVars, userVars>>

FreeWord == [owner |-> NoThread, wait |-> FALSE]
NoSignal == [key |-> NoKey, left |-> 0]

Init ==
    /\ mem = [a \in Address |-> FreeWord]
    /\ cvFlag = [k \in Key |-> FALSE]
    /\ base = BasePriority
    /\ prio = BasePriority
    /\ lockOwner = [t \in Thread |-> NoThread]
    /\ addressKey \in [Thread -> {CHOOSE a \in Address : TRUE}]
    /\ cvKey = [t \in Thread |-> NoKey]
    /\ state = [t \in Thread |-> "Runnable"]
    /\ waitQueue = [t \in Thread |-> "none"]
    /\ waitResult = [t \in Thread |-> "Success"]
    /\ timer = [t \in Thread |-> FALSE]
    /\ terminating = [t \in Thread |-> FALSE]
    /\ ref = [t \in Thread |-> NoThread]
    /\ handle = [t \in Thread |-> TRUE]
    /\ signal = NoSignal
    /\ crashed = FALSE
    /\ pc = [t \in Thread |-> "idle"]
    /\ target \in [Thread -> {CHOOSE a \in Address : TRUE}]
    /\ seen = [t \in Thread |-> NoThread]
    /\ held = [t \in Thread |-> {}]

SchedulerUnlocked == signal = NoSignal

-----------------------------------------------------------------------------
(* Waiter lists and priority inheritance.  owners maps each thread to the  *)
(* thread it waits for, prios to its priority, as they are at some moment. *)

Waiters(owners, t) == {w \in Thread : owners[w] = t}

\* The loop body of RestorePriority: the priority the thread should have.
InheritedPriority(owners, prios, bases, t) ==
    Min({bases[t]} \cup {prios[w] : w \in Waiters(owners, t)})

\* One turn of RestorePriority's loop: recompute the thread's priority and, if
\* that changed it, go on to the thread it waits for.
RestoreStep(owners, bases, c) ==
    LET u == c.thread
        new == InheritedPriority(owners, c.prios, bases, u)
    IN  IF u = NoThread THEN c
        ELSE IF new = c.prios[u] THEN [prios |-> c.prios, thread |-> NoThread]
        ELSE [prios |-> [c.prios EXCEPT ![u] = new], thread |-> owners[u]]

\* RestorePriority: recompute the thread's priority and, as long as something
\* changes, that of the thread it waits for, and so on.
RestoreOnlyFirst(owners, bases, prios, t) ==
    [prios EXCEPT ![t] = InheritedPriority(owners, prios, bases, t)]
RestorePriority(owners, bases, prios, t) ==
    LET after[k \in 0 .. Cardinality(Thread)] ==
            IF k = 0 THEN [prios |-> prios, thread |-> t]
            ELSE RestoreStep(owners, bases, after[k - 1])
    IN  after[Cardinality(Thread)].prios

\* AddWaiter: the priorities after w became a waiter of t.
AddWaiter(owners, t, w) ==
    IF prio[w] < prio[t] THEN RestorePriority(owners, base, prio, t) ELSE prio

\* RemoveWaiter: the priorities after w stopped being a waiter of t.
RemoveWaiter(owners, t, w) ==
    IF prio[t] = prio[w] /\ prio[t] < base[t]
    THEN RestorePriority(owners, base, prio, t) ELSE prio

\* The waiters of t for one lock, and those the tree may have in front.
LockWaiters(t, a) == {w \in Waiters(lockOwner, t) : addressKey[w] = a}
Highest(W) == {w \in W : \A v \in W : prio[w] <= prio[v]}

\* RemoveUserWaiterByKey: next takes the lock info of t with the other waiters
\* over; t's priority may drop.
PassLockInfoForgettingRest(t, next, a) ==
    LET owners == [w \in Thread |-> IF w \in LockWaiters(t, a) THEN NoThread ELSE lockOwner[w]]
    IN  /\ lockOwner' = owners
        /\ prio' = RemoveWaiter(owners, t, next)
PassLockInfo(t, next, a) ==
    LET owners == [w \in Thread |-> IF w = next THEN NoThread
                                    ELSE IF w \in LockWaiters(t, a) THEN next
                                    ELSE lockOwner[w]]
    IN  /\ lockOwner' = owners
        /\ prio' = RemoveWaiter(owners, t, next)

\* The word written for the next owner.
NextWordBitLost(t, next, a) == [owner |-> next, wait |-> FALSE]
NextWordZero(t, next, a) == FreeWord
NextWord(t, next, a) == [owner |-> next, wait |-> LockWaiters(t, a) # {next}]

-----------------------------------------------------------------------------
(* Beginning and ending a wait *)

EndWait(t, result) ==
    /\ state' = [state EXCEPT ![t] = "Runnable"]
    /\ waitQueue' = [waitQueue EXCEPT ![t] = "none"]
    /\ waitResult' = [waitResult EXCEPT ![t] = result]
    /\ timer' = [timer EXCEPT ![t] = FALSE]

BeginWait(t, queue, timed) ==
    /\ state' = [state EXCEPT ![t] = "Waiting"]
    /\ waitQueue' = [waitQueue EXCEPT ![t] = queue]
    /\ timer' = [timer EXCEPT ![t] = timed]
    /\ UNCHANGED waitResult

\* CancelWait of either queue: off the owner's list, out of the tree.  A wait
\* of WaitForAddress takes it for granted that there is an owner.
CancelWait(t, result) ==
    LET owners == [lockOwner EXCEPT ![t] = NoThread] IN
    /\ lockOwner' = owners
    /\ prio' = IF lockOwner[t] = NoThread THEN prio ELSE RemoveWaiter(owners, lockOwner[t], t)
    /\ cvKey' = [cvKey EXCEPT ![t] = NoKey]
    /\ EndWait(t, result)

-----------------------------------------------------------------------------
(* The user-space half of the lock *)

\* Lock: take a free word, or set the wait bit and ask the kernel to wait for
\* the owner that was read.
UserLock(t, a) ==
    /\ \/ pc[t] = "idle" /\ a \notin held[t] /\ ~terminating[t]
       \/ pc[t] = "retry" /\ target[t] = a
    /\ state[t] = "Runnable"
    /\ \/ /\ mem[a] = FreeWord
          /\ mem' = [mem EXCEPT ![a] = [owner |-> t, wait |-> FALSE]]
          /\ held' = [held EXCEPT ![t] = @ \cup {a}]
          /\ pc' = [pc EXCEPT ![t] = "idle"]
          /\ UNCHANGED <<target, seen>>
       \/ /\ mem[a] # FreeWord
          /\ mem' = [mem EXCEPT ![a].wait = TRUE]
          /\ seen' = [seen EXCEPT ![t] = mem[a].owner]
          /\ target' = [target EXCEPT ![t] = a]
          /\ pc' = [pc EXCEPT ![t] = "arbitrate"]
          /\ UNCHANGED held
    /\ UNCHANGED <<cvFlag, prio, lockOwner, addressKey, cvKey, waitVars, ref, signal, kernelVars>>

\* Unlock without contention.
UserUnlock(t, a) ==
    /\ pc[t] = "idle"
    /\ state[t] = "Runnable"
    /\ a \in held[t]
    /\ mem[a] = [owner |-> t, wait |-> FALSE]
    /\ mem' = [mem EXCEPT ![a] = FreeWord]
    /\ held' = [held EXCEPT ![t] = @ \ {a}]
    /\ UNCHANGED <<cvFlag, prio, lockOwner, addressKey, cvKey, waitVars, ref, signal, kernelVars,
                   pc, target, seen>>

-----------------------------------------------------------------------------
(* Kernel calls on a lock *)

\* The tag is still the handle that user space read, with the wait bit.
WordUnchanged(t) == mem[target[t]] = [owner |-> seen[t], wait |-> TRUE]

\* The early returns of WaitForAddress: an error for a thread that is to
\* terminate or an owner that does not exist, success when the word changed.
WaitForAddressReturns(t) ==
    /\ SchedulerUnlocked
    /\ pc[t] = "arbitrate"
    /\ terminating[t] \/ ~WordUnchanged(t) \/ ~handle[seen[t]]
    /\ pc' = [pc EXCEPT ![t] = IF ~WordUnchanged(t) /\ ~terminating[t] THEN "retry" ELSE "idle"]
    /\ seen' = [seen EXCEPT ![t] = NoThread]
    /\ UNCHANGED <<mem, cvFlag, prio, lockOwner, addressKey, cvKey, waitVars, ref, signal,
                   kernelVars, target, held>>

\* WaitForAddress blocks as a waiter of the owner.
WaitForAddressBlocks(t) ==
    LET owner == seen[t]
        owners == [lockOwner EXCEPT ![t] = owner]
    IN
    /\ SchedulerUnlocked
    /\ pc[t] = "arbitrate"
    /\ ~terminating[t]
    /\ WordUnchanged(t)
    /\ handle[owner]
    /\ addressKey' = [addressKey EXCEPT ![t] = target[t]]
    /\ lockOwner' = owners
    /\ prio' = AddWaiter(owners, owner, t)
    /\ BeginWait(t, "address", FALSE)
    /\ ref' = [ref EXCEPT ![t] = owner]
    /\ seen' = [seen EXCEPT ![t] = NoThread]
    /\ pc' = [pc EXCEPT ![t] = "wait_address"]
    /\ UNCHANGED <<mem, cvFlag, cvKey, signal, kernelVars, target, held>>

\* WaitForAddress returns after its wait; on success user space looks at the
\* word again to see whether it owns the lock now.
WaitForAddressReturn(t) ==
    /\ SchedulerUnlocked
    /\ pc[t] = "wait_address"
    /\ state[t] = "Runnable"
    /\ ref' = [ref EXCEPT ![t] = NoThread]
    /\ LET owner == mem[target[t]].owner = t
           success == waitResult[t] = "Success"
       IN  /\ held' = [held EXCEPT ![t] = IF success /\ owner THEN @ \cup {target[t]} ELSE @]
           /\ pc' = [pc EXCEPT ![t] = IF success /\ ~owner THEN "retry" ELSE "idle"]
    /\ UNCHANGED <<mem, cvFlag, prio, lockOwner, addressKey, cvKey, waitVars, signal, kernelVars,
                   target, seen>>

\* The threads RemoveUserWaiterByKey may return, null when there is no waiter.
NextOwners(t, a) == IF LockWaiters(t, a) = {} THEN {NoThread} ELSE Highest(LockWaiters(t, a))

\* What SignalToAddress and Wait do to the lock they give up.
ReleaseTo(t, next, a) ==
    IF next = NoThread
    THEN /\ mem' = [mem EXCEPT ![a] = FreeWord]
         /\ UNCHANGED <<lockOwner, prio>>
    ELSE /\ mem' = [mem EXCEPT ![a] = NextWord(t, next, a)]
         /\ PassLockInfo(t, next, a)

\* SignalToAddress: unlock a contended lock.
SignalToAddress(t, a) ==
    /\ SchedulerUnlocked
    /\ pc[t] = "idle"
    /\ state[t] = "Runnable"
    /\ a \in held[t]
    /\ mem[a] # [owner |-> t, wait |-> FALSE]
    /\ \E next \in NextOwners(t, a) :
          /\ ReleaseTo(t, next, a)
          /\ IF next = NoThread THEN UNCHANGED waitVars ELSE EndWait(next, "Success")
    /\ held' = [held EXCEPT ![t] = @ \ {a}]
    /\ UNCHANGED <<cvFlag, addressKey, cvKey, ref, signal, kernelVars, pc, target, seen>>

-----------------------------------------------------------------------------
(* Kernel calls on a condition variable *)

\* Wait when the timeout is zero: the lock is released all the same.
CvWaitZero(t, a, k) ==
    /\ SchedulerUnlocked
    /\ pc[t] = "idle"
    /\ state[t] = "Runnable"
    /\ ~terminating[t]
    /\ a \in held[t]
    /\ \E next \in NextOwners(t, a) :
          /\ ReleaseTo(t, next, a)
          /\ IF next = NoThread THEN UNCHANGED waitVars ELSE EndWait(next, "Success")
    /\ cvFlag' = [cvFlag EXCEPT ![k] = TRUE]
    /\ held' = [held EXCEPT ![t] = @ \ {a}]
    /\ pc' = [pc EXCEPT ![t] = "retry"]
    /\ target' = [target EXCEPT ![t] = a]
    /\ UNCHANGED <<addressKey, cvKey, ref, signal, kernelVars, seen>>

\* Wait: release the lock, set the flag, enter the tree and block.
CvWait(t, a, k, timed) ==
    /\ SchedulerUnlocked
    /\ pc[t] = "idle"
    /\ state[t] = "Runnable"
    /\ ~terminating[t]
    /\ a \in held[t]
    /\ \E next \in NextOwners(t, a) :
          /\ ReleaseTo(t, next, a)
          /\ state' = [u \in Thread |-> IF u = next THEN "Runnable"
                                        ELSE IF u = t THEN "Waiting" ELSE state[u]]
          /\ waitQueue' = [u \in Thread |-> IF u = next THEN "none"
                                            ELSE IF u = t THEN "condvar" ELSE waitQueue[u]]
          /\ waitResult' = [u \in Thread |-> IF u = next THEN "Success" ELSE waitResult[u]]
          /\ timer' = [u \in Thread |-> IF u = next THEN FALSE
                                        ELSE IF u = t THEN timed ELSE timer[u]]
    /\ cvFlag' = [cvFlag EXCEPT ![k] = TRUE]
    /\ cvKey' = [cvKey EXCEPT ![t] = k]
    /\ addressKey' = [addressKey EXCEPT ![t] = a]
    /\ held' = [held EXCEPT ![t] = @ \ {a}]
    /\ pc' = [pc EXCEPT ![t] = "wait_condvar"]
    /\ target' = [target EXCEPT ![t] = a]
    /\ UNCHANGED <<ref, signal, kernelVars, seen>>

\* Wait returns: with success the lock is held again, after a timeout user
\* space takes it anew.
CvWaitReturn(t) ==
    /\ SchedulerUnlocked
    /\ pc[t] = "wait_condvar"
    /\ state[t] = "Runnable"
    /\ \/ /\ waitResult[t] = "Success"
          /\ held' = [held EXCEPT ![t] = @ \cup {target[t]}]
          /\ pc' = [pc EXCEPT ![t] = "idle"]
       \/ /\ waitResult[t] # "Success"
          /\ pc' = [pc EXCEPT ![t] = IF waitResult[t] = "TimedOut" THEN "retry" ELSE "idle"]
          /\ UNCHANGED held
    /\ UNCHANGED <<mem, cvFlag, prio, lockOwner, addressKey, cvKey, waitVars, ref, signal,
                   kernelVars, target, seen>>

\* Signal begins; user space calls it only when the flag at the key is set.
\* A count of 0 stands for all of them.
Signal(k, count) ==
    /\ SchedulerUnlocked
    /\ cvFlag[k]
    /\ signal' = [key |-> k, left |-> IF count = 0 THEN Cardinality(Thread) ELSE count]
    /\ UNCHANGED <<mem, cvFlag, prio, lockOwner, addressKey, cvKey, waitVars, ref, kernelVars, userVars>>

CvWaiters(k) == {t \in Thread : cvKey[t] = k}

\* One turn of the loop, with SignalImpl: the thread leaves the tree and gets
\* the lock if it is free, becomes a waiter of the owner, or fails if the word
\* names a thread that does not exist.
SignalNext ==
    /\ signal # NoSignal
    /\ signal.left > 0
    /\ \E t \in Highest(CvWaiters(signal.key)) :
        LET a == addressKey[t]
            owner == mem[a].owner
            owners == [lockOwner EXCEPT ![t] = owner]
        IN
        /\ cvKey' = [cvKey EXCEPT ![t] = NoKey]
        /\ \/ /\ mem[a] = FreeWord
              /\ mem' = [mem EXCEPT ![a] = [owner |-> t, wait |-> FALSE]]
              /\ EndWait(t, "Success")
              /\ UNCHANGED <<lockOwner, prio>>
           \/ /\ mem[a] # FreeWord
              /\ mem' = [mem EXCEPT ![a].wait = TRUE]
              /\ \/ /\ handle[owner]
                    /\ lockOwner' = owners
                    /\ prio' = AddWaiter(owners, owner, t)
                    /\ UNCHANGED waitVars
                 \/ /\ ~handle[owner]
                    /\ EndWait(t, "InvalidState")
                    /\ UNCHANGED <<lockOwner, prio>>
    /\ signal' = [signal EXCEPT !.left = @ - 1]
    /\ UNCHANGED <<cvFlag, addressKey, ref, kernelVars, userVars>>

\* The loop ends; the flag is cleared when nobody waits for the key any more.
FlagAfterSignal(k) == CvWaiters(k) # {} /\ cvFlag[k]

SignalEnd ==
    /\ signal # NoSignal
    /\ signal.left = 0 \/ CvWaiters(signal.key) = {}
    /\ cvFlag' = [cvFlag EXCEPT ![signal.key] = FlagAfterSignal(signal.key)]
    /\ signal' = NoSignal
    /\ UNCHANGED <<mem, prio, lockOwner, addressKey, cvKey, waitVars, ref, kernelVars, userVars>>

-----------------------------------------------------------------------------
(* What else happens to a thread *)

\* The timer fires: KThread::OnTimer.
OnTimer(t) ==
    /\ SchedulerUnlocked
    /\ timer[t]
    /\ state[t] = "Waiting"
    /\ CancelWait(t, "TimedOut")
    /\ UNCHANGED <<mem, cvFlag, addressKey, ref, signal, kernelVars, userVars>>

SetBasePriority(t, p) ==
    /\ SchedulerUnlocked
    /\ handle[t]
    /\ p # base[t]
    /\ base' = [base EXCEPT ![t] = p]
    /\ prio' = RestorePriority(lockOwner, base', prio, t)
    /\ UNCHANGED <<mem, cvFlag, lockOwner, addressKey, cvKey, waitVars, ref, signal,
                   terminating, handle, crashed, userVars>>

\* RequestTerminate: the base priority is raised, a wait is cancelled.
RequestTerminate(t) ==
    LET bases == [base EXCEPT ![t] = IF @ > TerminatingPriority THEN TerminatingPriority ELSE @]
        raised == IF bases = base THEN prio ELSE RestorePriority(lockOwner, bases, prio, t)
        owners == [lockOwner EXCEPT ![t] = NoThread]
        o == lockOwner[t]
    IN
    /\ SchedulerUnlocked
    /\ ~terminating[t]
    /\ terminating' = [terminating EXCEPT ![t] = TRUE]
    /\ base' = bases
    /\ \/ /\ state[t] = "Waiting"
          /\ lockOwner' = owners
          /\ prio' = IF o # NoThread /\ raised[o] = raised[t] /\ raised[o] < bases[o]
                     THEN RestorePriority(owners, bases, raised, o) ELSE raised
          /\ cvKey' = [cvKey EXCEPT ![t] = NoKey]
          /\ EndWait(t, "TerminationRequested")
       \/ /\ state[t] = "Runnable"
          /\ prio' = raised
          /\ UNCHANGED <<lockOwner, cvKey, waitVars>>
    /\ UNCHANGED <<mem, cvFlag, addressKey, ref, signal, handle, crashed, userVars>>

\* A thread exits, with or without the locks it holds.
Exit(t) ==
    /\ SchedulerUnlocked
    /\ pc[t] = "idle"
    /\ state[t] = "Runnable"
    /\ state' = [state EXCEPT ![t] = "Terminated"]
    /\ UNCHANGED <<mem, cvFlag, prio, lockOwner, addressKey, cvKey, waitQueue, waitResult, timer,
                   ref, signal, kernelVars, userVars>>

\* The process closes the thread's handle, whatever the thread is doing.
CloseHandle(t) ==
    /\ SchedulerUnlocked
    /\ handle[t]
    /\ handle' = [handle EXCEPT ![t] = FALSE]
    /\ UNCHANGED <<mem, cvFlag, prio, lockOwner, addressKey, cvKey, waitVars, ref, signal, base,
                   terminating, crashed, userVars>>

\* "Remove all waiters" of every lock info in the held list.
AllWaiters(t) == Waiters(lockOwner, t)

\* Finalize, when the last reference to an exited thread is gone: its waiters
\* leave its lists and their waits are cancelled.  The CancelWait of
\* WaitForAddress then looks for an owner that is not there any more.
Finalize(t) ==
    LET W == AllWaiters(t) IN
    /\ SchedulerUnlocked
    /\ state[t] = "Terminated"
    /\ ~handle[t]
    /\ ~\E u \in Thread : ref[u] = t
    /\ state' = [u \in Thread |-> IF u = t THEN "Finalized" ELSE IF u \in W THEN "Runnable" ELSE state[u]]
    /\ lockOwner' = [u \in Thread |-> IF u \in W THEN NoThread ELSE lockOwner[u]]
    /\ crashed' = (crashed \/ \E u \in W : waitQueue[u] = "address")
    /\ waitQueue' = [u \in Thread |-> IF u \in W THEN "none" ELSE waitQueue[u]]
    /\ waitResult' = [u \in Thread |-> IF u \in W THEN "InvalidState" ELSE waitResult[u]]
    /\ timer' = [u \in Thread |-> timer[u] /\ u \notin W]
    /\ UNCHANGED <<mem, cvFlag, prio, addressKey, cvKey, ref, signal, base, terminating, handle, userVars>>

-----------------------------------------------------------------------------
ThreadStep(t) ==
    \/ \E a \in Address : UserLock(t, a) \/ UserUnlock(t, a) \/ SignalToAddress(t, a)
    \/ WaitForAddressReturns(t) \/ WaitForAddressBlocks(t) \/ WaitForAddressReturn(t)
    \/ \E a \in Address, k \in Key :
          CvWaitZero(t, a, k) \/ \E timed \in BOOLEAN : CvWait(t, a, k, timed)
    \/ CvWaitReturn(t)

Next ==
    \/ \E t \in Thread : ThreadStep(t) \/ OnTimer(t) \/ Finalize(t)
    \/ \E t \in Thread, p \in Priorities : SetBasePriority(t, p)
    \/ \E k \in Key, count \in 0 .. 1 : Signal(k, count)
    \/ SignalNext \/ SignalEnd
    \/ \E t \in Terminable : RequestTerminate(t)
    \/ \E t \in Mortal : Exit(t) \/ CloseHandle(t)

Spec == Init /\ [][Next]_vars

-----------------------------------------------------------------------------
\* The lock words hold handles, and every member of the threads has its type.
TypeOK ==
    /\ mem \in [Address -> [owner : Thread \cup {NoThread}, wait : BOOLEAN]]
    /\ cvFlag \in [Key -> BOOLEAN]
    /\ base \in [Thread -> Nat] /\ prio \in [Thread -> Nat]
    /\ lockOwner \in [Thread -> Thread \cup {NoThread}]
    /\ addressKey \in [Thread -> Address]
    /\ cvKey \in [Thread -> Key \cup {NoKey}]
    /\ state \in [Thread -> {"Runnable", "Waiting", "Terminated", "Finalized"}]
    /\ waitQueue \in [Thread -> {"none", "address", "condvar"}]
    /\ timer \in [Thread -> BOOLEAN] /\ terminating \in [Thread -> BOOLEAN]
    /\ ref \in [Thread -> Thread \cup {NoThread}]
    /\ held \in [Thread -> SUBSET Address]

Alive(t) == state[t] \in {"Runnable", "Waiting"}

\* Every thread runs at the better of its base priority and the priorities of
\* the threads that wait for a lock it holds, along whole chains of waiters
\* and through releases, timeouts, terminations and changes of base priority.
PriorityInherited ==
    \A t \in Thread : Alive(t) => prio[t] = InheritedPriority(lockOwner, prio, base, t)

\* A thread that believes it holds a lock is named in the lock word: no two
\* threads hold it, whether they got it from Lock or from a condition variable.
LockExclusion == \A t \in Thread : \A a \in held[t] : mem[a].owner = t

\* A thread that waits for a lock is on the list of the thread the word names,
\* and the wait bit is set: the owner cannot unlock without the kernel.  Owners
\* have inherited the priorities of their waiters.
WaiterKnownToOwner ==
    /\ TypeOK
    /\ PriorityInherited
    /\ \A t \in Thread : state[t] = "Waiting" /\ lockOwner[t] # NoThread =>
        mem[addressKey[t]] = [owner |-> lockOwner[t], wait |-> TRUE]

\* A blocked thread can be found by whoever has to wake it: it is in the tree
\* of a condition variable or on the list of a lock's owner that exists.  While
\* it is in the tree the flag at its key is set, so that user space does not
\* skip the call of Signal.
BlockedIsReachable ==
    \A t \in Thread : state[t] = "Waiting" =>
        /\ (cvKey[t] # NoKey) # (lockOwner[t] # NoThread)
        /\ lockOwner[t] # NoThread => state[lockOwner[t]] # "Finalized"
        /\ SchedulerUnlocked /\ cvKey[t] # NoKey => cvFlag[cvKey[t]]
=============================================================================
