----------------------------- MODULE KLightLock -----------------------------
(***************************************************************************)
(* KLightLock (k_light_lock.cpp), the lock every kernel object uses for    *)
(* its own state, together with the parts of KThread it leans on: the      *)
(* waiter lists of the priority-inheritance machinery, suspension and      *)
(* termination (k_thread.cpp).                                             *)
(*                                                                         *)
(* Everything a function does while it holds the global scheduler lock is  *)
(* one action; the compare-and-swaps on m_tag outside that lock are        *)
(* actions of their own and interleave with it.  Which of several waiters  *)
(* inherits the lock depends on priorities that other threads change at    *)
(* any time: the choice is left open here.                                 *)
(***************************************************************************)
EXTENDS FiniteSets

CONSTANTS
    Thread,       \* the kernel threads that use the lock
    NoThread,     \* the null KThread*
    SuspendType,  \* the reasons a thread can be suspended for
    Terminable    \* the threads whose termination may be requested

ASSUME NoThreadAssumption == NoThread \notin Thread

ASSUME TerminableAssumption == Terminable \subseteq Thread

VARIABLES
    tag,                  \* m_tag: owner pointer with the has-waiters bit in bit 0
    lockPc,               \* where each thread is inside Lock() / Unlock()
    seen,                 \* LockSlowPath's _owner argument
    state,                \* m_thread_state & Mask
    suspended,            \* the suspend bits of m_thread_state
    request,              \* m_suspend_request_flags
    allowed,              \* m_suspend_allowed_flags: all of them, or none
    lockOwner,            \* the owner of m_waiting_lock_info (GetLockOwner)
    terminationRequested  \* m_termination_requested

lockVars ==
    <<tag, lockPc, seen, state, suspended, request, allowed, lockOwner, terminationRequested>>

Free == [owner |-> NoThread, waiters |-> FALSE]

Tag == {Free} \cup [owner : Thread, waiters : BOOLEAN]

-----------------------------------------------------------------------------
\* GetSuspendFlags()
SuspendFlags(t) == IF allowed[t] THEN request[t] ELSE {}

\* IsSuspended()
IsSuspended(t) == SuspendFlags(t) # {}

\* The threads of the lock info in t's held list; their number is
\* m_num_kernel_waiters, as this is the only kernel lock in sight.
KernelWaiters(t) == {w \in Thread : lockOwner[w] = t}

LockInit ==
    /\ tag = Free
    /\ lockPc = [t \in Thread |-> "idle"]
    /\ seen = [t \in Thread |-> Free]
    /\ state = [t \in Thread |-> "Runnable"]
    /\ suspended = [t \in Thread |-> {}]
    /\ request = [t \in Thread |-> {}]
    /\ allowed = [t \in Thread |-> TRUE]
    /\ lockOwner = [t \in Thread |-> NoThread]
    /\ terminationRequested = [t \in Thread |-> FALSE]

-----------------------------------------------------------------------------
(* Lock() *)

\* The load and the compare_exchange loop: take a free lock, otherwise set
\* the has-waiters bit and go down the slow path with the tag just written.
LockCompareExchange(t) ==
    /\ lockPc[t] \in {"idle", "retry"}
    /\ state[t] = "Runnable"
    /\ \/ /\ tag = Free
          /\ tag' = [owner |-> t, waiters |-> FALSE]
          /\ lockPc' = [lockPc EXCEPT ![t] = "locked"]
          /\ UNCHANGED seen
       \/ /\ tag # Free
          /\ tag' = [owner |-> tag.owner, waiters |-> TRUE]
          /\ seen' = [seen EXCEPT ![t] = tag']
          /\ lockPc' = [lockPc EXCEPT ![t] = "lock_slow"]
    /\ UNCHANGED <<state, suspended, request, allowed, lockOwner, terminationRequested>>

\* "Ensure we actually have locking to do": the tag is still the one Lock() wrote.
OwnerUnchangedDropped(t) == TRUE
OwnerUnchanged(t) == tag = seen[t]

\* LockSlowPath when the tag moved on since: return false, Lock() loops.
LockSlowPathRetry(t) ==
    /\ lockPc[t] = "lock_slow"
    /\ state[t] = "Runnable"
    /\ ~OwnerUnchanged(t)
    /\ lockPc' = [lockPc EXCEPT ![t] = "retry"]
    /\ seen' = [seen EXCEPT ![t] = Free]
    /\ UNCHANGED <<tag, state, suspended, request, allowed, lockOwner, terminationRequested>>

\* LockSlowPath when it is still the same: wait on the owner, which is let
\* run if it was suspended, because it has a kernel waiter now.
LockSlowPathWait(t) ==
    LET owner == seen[t].owner IN
    /\ lockPc[t] = "lock_slow"
    /\ state[t] = "Runnable"
    /\ OwnerUnchanged(t)
    /\ seen' = [seen EXCEPT ![t] = Free]
    /\ lockOwner' = [lockOwner EXCEPT ![t] = owner]
    /\ state' = [state EXCEPT ![t] = "Waiting"]
    /\ suspended' = IF IsSuspended(owner)
                    THEN [suspended EXCEPT ![owner] = {}]
                    ELSE suspended
    /\ lockPc' = [lockPc EXCEPT ![t] = "wait"]
    /\ UNCHANGED <<tag, request, allowed, terminationRequested>>

\* The thread was made runnable again: LockSlowPath returns true whatever
\* ended the wait, and Lock() returns.
LockReturn(t) ==
    /\ lockPc[t] = "wait"
    /\ state[t] = "Runnable"
    /\ lockPc' = [lockPc EXCEPT ![t] = "locked"]
    /\ UNCHANGED <<tag, seen, state, suspended, request, allowed, lockOwner, terminationRequested>>

-----------------------------------------------------------------------------
(* Unlock() *)

\* The compare_exchange_strong from "mine, no waiters" to free.
UnlockCompareExchange(t) ==
    /\ lockPc[t] = "locked"
    /\ state[t] = "Runnable"
    /\ \/ /\ tag = [owner |-> t, waiters |-> FALSE]
          /\ tag' = Free
          /\ lockPc' = [lockPc EXCEPT ![t] = "idle"]
       \/ /\ tag # [owner |-> t, waiters |-> FALSE]
          /\ lockPc' = [lockPc EXCEPT ![t] = "unlock_slow"]
          /\ UNCHANGED tag
    /\ UNCHANGED <<seen, state, suspended, request, allowed, lockOwner, terminationRequested>>

\* next_tag: the new owner, with the bit set when waiters remain.
NextTagBitLost(next, rest) == [owner |-> next, waiters |-> FALSE]
NextTagOwnerLost(next, rest) == [owner |-> NoThread, waiters |-> rest # {}]
NextTagZero(next, rest) == Free
NextTag(next, rest) == [owner |-> next, waiters |-> rest # {}]

\* The suspend bits after UnlockSlowPath of t: t, which may have been let run
\* because of its waiters, is suspended again; next, when waiters come with
\* the lock, is let run.
SuspendedAfterUnlockNextForgotten(t, next, rest) ==
    [u \in Thread |-> IF u = t /\ IsSuspended(t) THEN SuspendFlags(t) ELSE suspended[u]]
SuspendedAfterUnlock(t, next, rest) ==
    [u \in Thread |->
        CASE u = t /\ IsSuspended(t) -> SuspendFlags(t)
          [] u = next /\ IsSuspended(next) /\ rest # {} -> {}
          [] OTHER -> suspended[u]]

\* UnlockSlowPath when t has no waiter on this lock (RemoveKernelWaiterByKey
\* returns null): the tag becomes 0.
UnlockSlowPathFree(t) ==
    /\ lockPc[t] = "unlock_slow"
    /\ state[t] = "Runnable"
    /\ KernelWaiters(t) = {}
    /\ suspended' = SuspendedAfterUnlock(t, NoThread, {})
    /\ tag' = Free
    /\ lockPc' = [lockPc EXCEPT ![t] = "idle"]
    /\ UNCHANGED <<seen, state, request, allowed, lockOwner, terminationRequested>>

\* UnlockSlowPath when it has: one waiter is woken as the owner and takes
\* the lock info with the other waiters over.
UnlockSlowPathPass(t) ==
    /\ lockPc[t] = "unlock_slow"
    /\ state[t] = "Runnable"
    /\ \E next \in KernelWaiters(t) :
        LET rest == KernelWaiters(t) \ {next} IN
        /\ lockOwner' = [w \in Thread |-> IF w = next THEN NoThread
                                          ELSE IF w \in rest THEN next
                                          ELSE lockOwner[w]]
        /\ state' = [state EXCEPT ![next] = "Runnable"]
        /\ suspended' = SuspendedAfterUnlock(t, next, rest)
        /\ tag' = NextTag(next, rest)
    /\ lockPc' = [lockPc EXCEPT ![t] = "idle"]
    /\ UNCHANGED <<seen, request, allowed, terminationRequested>>

-----------------------------------------------------------------------------
(* What other threads do to t *)

\* RequestSuspend, with TrySuspend: a thread with kernel waiters keeps running.
RequestSuspend(t, type) ==
    /\ type \notin request[t]
    /\ request' = [request EXCEPT ![t] = @ \cup {type}]
    /\ suspended' = IF KernelWaiters(t) = {}
                    THEN [suspended EXCEPT ![t] = IF allowed[t] THEN request'[t] ELSE {}]
                    ELSE suspended
    /\ UNCHANGED <<tag, lockPc, seen, state, allowed, lockOwner, terminationRequested>>

\* Resume, with UpdateState.
Resume(t, type) ==
    /\ type \in request[t]
    /\ request' = [request EXCEPT ![t] = @ \ {type}]
    /\ suspended' = [suspended EXCEPT ![t] = IF allowed[t] THEN request'[t] ELSE {}]
    /\ UNCHANGED <<tag, lockPc, seen, state, allowed, lockOwner, terminationRequested>>

\* RequestTerminate: suspension ends and a wait is cancelled, which takes the
\* thread off its owner's waiter list (ThreadQueueImplForKLightLock).
RequestTermination(t) ==
    /\ ~terminationRequested[t]
    /\ terminationRequested' = [terminationRequested EXCEPT ![t] = TRUE]
    /\ allowed' = [allowed EXCEPT ![t] = @ /\ ~IsSuspended(t)]
    /\ suspended' = IF IsSuspended(t) THEN [suspended EXCEPT ![t] = {}] ELSE suspended
    /\ lockOwner' = [lockOwner EXCEPT ![t] = NoThread]
    /\ state' = [state EXCEPT ![t] = "Runnable"]
    /\ UNCHANGED <<tag, lockPc, seen, request>>

-----------------------------------------------------------------------------
Step(t) ==
    \/ LockCompareExchange(t)
    \/ LockSlowPathRetry(t)
    \/ LockSlowPathWait(t)
    \/ LockReturn(t)
    \/ UnlockCompareExchange(t)
    \/ UnlockSlowPathFree(t)
    \/ UnlockSlowPathPass(t)

LockNext ==
    \/ \E t \in Thread : Step(t)
    \/ \E t \in Thread, type \in SuspendType : RequestSuspend(t, type) \/ Resume(t, type)
    \/ \E t \in Terminable : RequestTermination(t)

LockSpec == LockInit /\ [][LockNext]_lockVars

\* A thread that is not suspended gets to run, and finishes what it does with
\* the lock.  A suspended one may still run until its core reschedules, but
\* nothing makes it.  Nobody is obliged to call Lock() at all.
Progress(t) == Step(t) /\ suspended[t] = {} /\ lockPc[t] # "idle"

FairLockSpec == LockSpec /\ \A t \in Thread : WF_lockVars(Progress(t))

-----------------------------------------------------------------------------
\* The tag is free or names a thread, and every member of the threads has its
\* type.
LockTypeOK ==
    /\ tag \in Tag
    /\ lockPc \in [Thread -> {"idle", "retry", "lock_slow", "wait", "locked", "unlock_slow"}]
    /\ seen \in [Thread -> Tag]
    /\ state \in [Thread -> {"Runnable", "Waiting"}]
    /\ suspended \in [Thread -> SUBSET SuspendType]
    /\ request \in [Thread -> SUBSET SuspendType]
    /\ allowed \in [Thread -> BOOLEAN]
    /\ lockOwner \in [Thread -> Thread \cup {NoThread}]
    /\ terminationRequested \in [Thread -> BOOLEAN]

\* The thread is between the return of Lock() and the end of Unlock().
Inside(t) == lockPc[t] \in {"locked", "unlock_slow"}

\* No thread has been told to terminate so far.  A wait that termination
\* cancels makes Lock() return without the lock, so that what the lock
\* promises about ownership it promises until then.
NoTermination == \A t \in Thread : ~terminationRequested[t]

\* A sleeper is on the waiter list of the tag's owner and the tag says so.
SleepersRegistered ==
    \A t \in Thread : state[t] = "Waiting" => lockOwner[t] = tag.owner /\ tag.waiters

\* A thread that Lock() returned to is the one the tag names, so no two
\* threads are inside: the assertions IsLockedByCurrentThread() of the lock's
\* users hold (k_page_table_base.cpp).
MutualExclusion == NoTermination => \A t \in Thread : Inside(t) => tag.owner = t

\* A sleeping thread is on the waiter list of the thread that owns the lock
\* now, and the has-waiters bit is set: the owner's Unlock() cannot take the
\* fast path and leave it asleep.
NoForgottenWaiter == NoTermination => SleepersRegistered

\* The thread is suspended although others wait for it in the kernel.
SuspendedOwner(t) == suspended[t] # {} /\ KernelWaiters(t) # {}

\* What a step does not do to a thread others wait for.
NoOwnerSuspended ==
    \A t \in Thread :
        SuspendedOwner(t)' => SuspendedOwner(t) \/ \E type \in SuspendType : Resume(t, type)

\* A thread gets suspended with kernel waiters, or gets kernel waiters while
\* it is suspended, only when one of several suspensions of it is resumed:
\* TrySuspend looks for waiters first, both slow paths let a suspended owner
\* continue, and UpdateState in Resume applies the other suspensions
\* whatever waits for the thread.
WaitersKeepOwnerRunning == [][NoOwnerSuspended]_lockVars

\* Whoever a thread waits for passes the lock on, unless it is a suspended
\* owner at some time.
OwnerMovesOn ==
    \A t, o \in Thread : lockOwner[t] = o ~> (lockOwner[t] # o \/ SuspendedOwner(o))

\* The lock is a Mutex.
AbstractMutex == INSTANCE Mutex WITH
    holder <- tag.owner,
    blocked <- {t \in Thread : state[t] = "Waiting"}

\* KLightLock implements the abstract mutex until a termination is requested:
\* steps on the tag and on the waiter lists add up to acquiring, blocking and
\* releasing or passing on.
ImplementsMutex ==
    AbstractMutex!Init /\ [][NoTermination' => AbstractMutex!Next]_(AbstractMutex!vars)
=============================================================================
