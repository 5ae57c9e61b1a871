--------------------------- MODULE KResourceLimit ---------------------------
(***************************************************************************)
(* KResourceLimit (k_resource_limit.cpp) on its KLightConditionVariable    *)
(* (k_light_condition_variable.cpp): reservations that wait for releases,  *)
(* with a timeout, under one lock and one condition variable for all the   *)
(* resources of the limit.                                                 *)
(*                                                                         *)
(* m_lock is a KLightLock: it excludes until a thread is terminated while  *)
(* it sleeps in Lock(), which then returns without the lock (KLightLock).  *)
(* From then on two threads may be in the section, a test may be stale     *)
(* when it is acted on and an update of the counters may be lost.  A call  *)
(* that does not wait is one action.  Numbers are the signed integers up   *)
(* to MaxInt, as s64 are up to 2^63 - 1.                                   *)
(***************************************************************************)
EXTENDS Integers, FiniteSets, FiniteSetsExt

CONSTANTS
    Thread,         \* threads that reserve and release
    Resource,       \* LimitableResource
    Amount,         \* what a reservation asks for
    Limit,          \* the values a limit is set to
    MaxInt,         \* the largest s64
    Terminable,     \* threads whose termination may be requested
    MaxLosses,      \* bound on the updates that are lost
    None            \* no thread, no resource

ASSUME MaxIntAssumption == MaxInt \in Nat /\ MaxLosses \in Nat

ASSUME AmountAssumption == Amount \subseteq 0 .. MaxInt /\ Limit \subseteq 0 .. MaxInt

ASSUME ThreadAssumption ==
    IsFiniteSet(Thread) /\ Terminable \subseteq Thread /\ None \notin Thread \cup Resource

VARIABLES
    m_limit_values, m_current_values, m_current_hints, m_peak_values,
    m_waiter_count,
    m_lock,         \* the thread that holds it
    lockless,       \* threads whose wait for m_lock a termination has cancelled
    lockBypassed,   \* there has been such a thread
    losses,         \* updates that were lost so far
    m_wait_list,    \* of m_cond_var
    pc,             \* where each thread is in Reserve
    which, value,   \* Reserve's arguments, and what the thread has reserved then
    expired,        \* GetTick() has reached the timeout
    terminating,    \* IsTerminationRequested()
    hinted          \* the hint of the thread's reservation has been released

limitVars == <<m_limit_values, m_current_values, m_current_hints, m_peak_values>>

lockVars == <<m_lock, lockless, lockBypassed>>

vars == <<limitVars, m_waiter_count, lockVars, losses, m_wait_list, pc, which, value, expired,
          terminating, hinted>>

\* SetLimitValue has been called for every resource.
Init ==
    /\ m_limit_values \in [Resource -> Limit]
    /\ m_current_values = [r \in Resource |-> 0]
    /\ m_current_hints = [r \in Resource |-> 0]
    /\ m_peak_values = [r \in Resource |-> 0]
    /\ m_waiter_count = 0
    /\ m_lock = None
    /\ lockless = {}
    /\ lockBypassed = FALSE
    /\ losses = 0
    /\ m_wait_list = {}
    /\ pc = [t \in Thread |-> "idle"]
    /\ which = [t \in Thread |-> None]
    /\ value = [t \in Thread |-> 0]
    /\ expired = [t \in Thread |-> FALSE]
    /\ terminating = [t \in Thread |-> FALSE]
    /\ hinted = [t \in Thread |-> FALSE]

-----------------------------------------------------------------------------
\* Common::WrappingAdd
WrappingAdd(a, b) == IF a + b > MaxInt THEN a + b - 2 * (MaxInt + 1) ELSE a + b

Current(t) == m_current_values[which[t]]

\* "If we would overflow, don't allow to succeed."
WouldOverflowUnchecked(t) == FALSE
WouldOverflow(t) == WrappingAdd(Current(t), value[t]) <= Current(t)

Fits(t) == WrappingAdd(Current(t), value[t]) <= m_limit_values[which[t]]

\* There will be room when what is hinted at has been released, and time is left.
MayWaitForever(t) ==
    m_current_hints[which[t]] + value[t] <= m_limit_values[which[t]]
MayWait(t) ==
    /\ m_current_hints[which[t]] + value[t] <= m_limit_values[which[t]]
    /\ ~expired[t]

-----------------------------------------------------------------------------
(* m_lock and what it protects *)

\* Lock() returns with the lock, or to a thread that was terminated in it.
LockReturns(t) == m_lock = None \/ t \in lockless

Lock(t) ==
    /\ LockReturns(t)
    /\ m_lock' = IF t \in lockless THEN m_lock ELSE t
    /\ UNCHANGED <<lockless, lockBypassed>>

\* Without the lock, UnlockSlowPath finds no waiter of t and frees the tag.
Unlock(t) ==
    /\ m_lock' = None
    /\ lockless' = lockless \ {t}
    /\ UNCHANGED lockBypassed

InSection(t) == pc[t] \in {"loop", "add", "wait"}

\* t updates counters; beside another thread in the section it may lose the
\* update, or make that thread lose one, which is the same.
LossesOf(t) ==
    IF (\E u \in Thread \ {t} : InSection(u)) /\ losses < MaxLosses THEN {0, 1} ELSE {0}

-----------------------------------------------------------------------------
(* Reserve *)

Reserve(t, r, v) ==
    /\ pc[t] = "idle" /\ ~terminating[t]
    /\ which[t] = None
    /\ which' = [which EXCEPT ![t] = r]
    /\ value' = [value EXCEPT ![t] = v]
    /\ expired' = [expired EXCEPT ![t] = FALSE]
    /\ pc' = [pc EXCEPT ![t] = "reserve"]
    /\ UNCHANGED <<limitVars, m_waiter_count, lockVars, losses, m_wait_list, terminating, hinted>>

\* Reserve returns false, whether it had taken the lock before or not.
ReturnFalse(t) ==
    /\ pc' = [pc EXCEPT ![t] = "idle"]
    /\ which' = [which EXCEPT ![t] = None]
    /\ value' = [value EXCEPT ![t] = 0]
    /\ Unlock(t)
    /\ UNCHANGED <<limitVars, m_waiter_count, losses, m_wait_list, expired, terminating, hinted>>

ReserveRefused(t) ==
    /\ pc[t] = "reserve"
    /\ LockReturns(t)
    /\ m_current_hints[which[t]] >= m_limit_values[which[t]]
    /\ ReturnFalse(t)

ReserveLock(t) ==
    /\ pc[t] = "reserve"
    /\ Lock(t)
    /\ m_current_hints[which[t]] < m_limit_values[which[t]]
    /\ pc' = [pc EXCEPT ![t] = "loop"]
    /\ UNCHANGED <<limitVars, m_waiter_count, losses, m_wait_list, which, value, expired,
                   terminating, hinted>>

ReserveGiveUp(t) ==
    /\ pc[t] = "loop"
    /\ WouldOverflow(t) \/ (~Fits(t) /\ ~MayWait(t))
    /\ ReturnFalse(t)

ReserveFits(t) ==
    /\ pc[t] = "loop"
    /\ ~WouldOverflow(t)
    /\ Fits(t)
    /\ pc' = [pc EXCEPT ![t] = "add"]
    /\ UNCHANGED <<limitVars, m_waiter_count, lockVars, losses, m_wait_list, which, value, expired,
                   terminating, hinted>>

\* The thread holds the reservation now.
ReserveAdd(t, loss) ==
    LET r == which[t]
        sum == WrappingAdd(Current(t), value[t])
    IN
    /\ pc[t] = "add"
    /\ IF loss = 1
       THEN UNCHANGED <<m_current_values, m_current_hints, m_peak_values>>
       ELSE /\ m_current_values' = [m_current_values EXCEPT ![r] = sum]
            /\ m_current_hints' = [m_current_hints EXCEPT ![r] = @ + value[t]]
            /\ m_peak_values' = [m_peak_values EXCEPT ![r] = IF @ < sum THEN sum ELSE @]
    /\ losses' = losses + loss
    /\ Unlock(t)
    /\ pc' = [pc EXCEPT ![t] = "idle"]
    /\ UNCHANGED <<m_limit_values, m_waiter_count, m_wait_list, which, value, expired, terminating,
                   hinted>>

ReserveWait(t, loss) ==
    /\ pc[t] = "loop"
    /\ ~WouldOverflow(t)
    /\ ~Fits(t)
    /\ MayWait(t)
    /\ m_waiter_count' = m_waiter_count + (1 - loss)
    /\ losses' = losses + loss
    /\ pc' = [pc EXCEPT ![t] = "wait"]
    /\ UNCHANGED <<limitVars, lockVars, m_wait_list, which, value, expired, terminating, hinted>>

-----------------------------------------------------------------------------
(* KLightConditionVariable::Wait, without allow_terminating_thread *)

\* m_waiter_count--, and the loop goes on.
WaitReturns(t, loss) ==
    /\ m_waiter_count' = m_waiter_count - (1 - loss)
    /\ losses' = losses + loss
    /\ pc' = [pc EXCEPT ![t] = "loop"]
    /\ UNCHANGED <<limitVars, m_wait_list, which, value, expired, terminating, hinted>>

\* A thread that is to terminate comes back at once, with the lock.
WaitTerminating(t, loss) ==
    /\ pc[t] = "wait"
    /\ terminating[t]
    /\ WaitReturns(t, loss)
    /\ UNCHANGED lockVars

WaitSleep(t) ==
    /\ pc[t] = "wait"
    /\ ~terminating[t]
    /\ Unlock(t)
    /\ m_wait_list' = m_wait_list \cup {t}
    /\ pc' = [pc EXCEPT ![t] = "asleep"]
    /\ UNCHANGED <<limitVars, m_waiter_count, losses, which, value, expired, terminating, hinted>>

\* A wait that ends: the lock has to be taken again.
Woken(S) == [t \in Thread |-> IF t \in S THEN "relock" ELSE pc[t]]

WaitRelock(t, loss) ==
    /\ pc[t] = "relock"
    /\ Lock(t)
    /\ WaitReturns(t, loss)

\* Broadcast, if m_waiter_count says that it is needed.
BroadcastToSeveral == m_waiter_count > 1
BroadcastNeeded == m_waiter_count # 0

-----------------------------------------------------------------------------
(* Release *)

\* Of the value and of the hint of t's reservation, or of one of them.
Release(t, v, h, loss) ==
    LET r == which[t] IN
    /\ LockReturns(t)
    /\ IF loss = 1
       THEN UNCHANGED <<m_current_values, m_current_hints>>
       ELSE /\ m_current_values' = [m_current_values EXCEPT ![r] = @ - v]
            /\ m_current_hints' = [m_current_hints EXCEPT ![r] = @ - h]
    /\ losses' = losses + loss
    /\ Unlock(t)
    /\ pc' = Woken(IF BroadcastNeeded THEN m_wait_list ELSE {})
    /\ m_wait_list' = IF BroadcastNeeded THEN {} ELSE m_wait_list
    /\ UNCHANGED <<m_limit_values, m_peak_values, m_waiter_count, expired, terminating>>

HasReservation(t) == pc[t] = "idle" /\ which[t] # None

\* The hint goes first: a thread that exits, a process that terminates.
ReleaseHint(t, loss) ==
    /\ HasReservation(t)
    /\ ~hinted[t]
    /\ Release(t, 0, value[t], loss)
    /\ hinted' = [hinted EXCEPT ![t] = TRUE]
    /\ UNCHANGED <<which, value>>

ReleaseValue(t, loss) ==
    /\ HasReservation(t)
    /\ Release(t, value[t], IF hinted[t] THEN 0 ELSE value[t], loss)
    /\ hinted' = [hinted EXCEPT ![t] = FALSE]
    /\ which' = [which EXCEPT ![t] = None]
    /\ value' = [value EXCEPT ![t] = 0]

-----------------------------------------------------------------------------
(* The rest *)

\* A limit may be raised and lowered, and nobody is woken.
LimitAllowed(r, v) == m_current_values[r] <= v

SetLimitValue(t, r, v) ==
    /\ pc[t] = "idle"
    /\ terminating[t] => t \in lockless
    /\ LockReturns(t)
    /\ LimitAllowed(r, v)
    /\ m_limit_values' = [m_limit_values EXCEPT ![r] = v]
    /\ m_peak_values' = [m_peak_values EXCEPT ![r] = m_current_values[r]]
    /\ Unlock(t)
    /\ UNCHANGED <<m_current_values, m_current_hints, m_waiter_count, losses, m_wait_list, pc,
                   which, value, expired, terminating, hinted>>

\* The timeout of t's call passes.  No caller passes a negative one, which
\* would never do so.
TimePasses(t) ==
    /\ pc[t] # "idle"
    /\ ~expired[t]
    /\ expired' = [expired EXCEPT ![t] = TRUE]
    /\ UNCHANGED <<limitVars, m_waiter_count, lockVars, losses, m_wait_list, pc, which, value,
                   terminating, hinted>>

\* OnTimer and RequestTerminate cancel the wait.
OnTimer(t) ==
    /\ pc[t] = "asleep"
    /\ expired[t]
    /\ pc' = Woken({t})
    /\ m_wait_list' = m_wait_list \ {t}
    /\ UNCHANGED <<limitVars, m_waiter_count, lockVars, losses, which, value, expired, terminating,
                   hinted>>

RequestTerminate(t) ==
    /\ ~terminating[t]
    /\ terminating' = [terminating EXCEPT ![t] = TRUE]
    /\ pc' = Woken({t} \cap m_wait_list)
    /\ m_wait_list' = m_wait_list \ {t}
    /\ UNCHANGED <<limitVars, m_waiter_count, lockVars, losses, which, value, expired, hinted>>

\* The same of a thread that sleeps in m_lock's Lock(), of whatever call: the
\* wait that is cancelled is that one, and Lock() returns.
RequestTerminateInLock(t) ==
    /\ ~terminating[t]
    /\ pc[t] \in {"idle", "reserve", "relock"}
    /\ m_lock # None
    /\ terminating' = [terminating EXCEPT ![t] = TRUE]
    /\ lockless' = lockless \cup {t}
    /\ lockBypassed' = TRUE
    /\ UNCHANGED <<limitVars, m_waiter_count, m_lock, losses, m_wait_list, pc, which, value, expired,
                   hinted>>

-----------------------------------------------------------------------------
Step(t) ==
    \/ ReserveRefused(t)
    \/ ReserveLock(t)
    \/ ReserveGiveUp(t)
    \/ ReserveFits(t)
    \/ WaitSleep(t)
    \/ \E loss \in LossesOf(t) :
        \/ ReserveAdd(t, loss)
        \/ ReserveWait(t, loss)
        \/ WaitTerminating(t, loss)
        \/ WaitRelock(t, loss)

Timer(t) == TimePasses(t) \/ OnTimer(t)

Next ==
    \/ \E t \in Thread :
        \/ Step(t)
        \/ Timer(t)
        \/ \E loss \in LossesOf(t) : ReleaseHint(t, loss) \/ ReleaseValue(t, loss)
        \/ \E r \in Resource, v \in Amount : Reserve(t, r, v)
        \/ \E r \in Resource, v \in Limit : SetLimitValue(t, r, v)
    \/ \E t \in Terminable : RequestTerminate(t) \/ RequestTerminateInLock(t)

Spec == Init /\ [][Next]_vars

\* Threads go on with their calls, time passes and timers fire.
FairSpec ==
    /\ Spec
    /\ \A t \in Thread : WF_vars(Step(t)) /\ WF_vars(TimePasses(t)) /\ WF_vars(OnTimer(t))

-----------------------------------------------------------------------------
\* The threads with a reservation of r whose value, or hint, is not released.
Holders(r) == {t \in Thread : pc[t] = "idle" /\ which[t] = r}

\* What is accounted for is what is reserved, never more than the limit: the
\* assertions of all the functions of KResourceLimit, across waits, timeouts,
\* changed limits, terminations and hints that are released before their
\* values, until a termination lets a thread pass m_lock.
AccountsMatch ==
    ~lockBypassed =>
    \A r \in Resource :
        /\ m_current_values[r] = MapThenSumSet(LAMBDA t : value[t], Holders(r))
        /\ m_current_hints[r] = MapThenSumSet(LAMBDA t : value[t], {t \in Holders(r) : ~hinted[t]})
        /\ m_current_hints[r] <= m_current_values[r]
        /\ m_current_values[r] <= m_peak_values[r]
        /\ m_peak_values[r] <= m_limit_values[r]

\* What a step does not release if a thread sleeps before and after it.
NothingReleased ==
    ~lockBypassed' =>
    \A t \in m_wait_list \cap m_wait_list', r \in Resource :
        m_current_values'[r] >= m_current_values[r] /\ m_current_hints'[r] >= m_current_hints[r]

\* Nobody sleeps through a release: m_waiter_count never hides a sleeper, for
\* whatever reason the other waits have ended, until a termination lets a
\* thread pass m_lock.
NobodySleepsThroughRelease == [][NothingReleased]_vars

\* The lock is given up in the end by the thread that holds it, even by one
\* whose waits return at once because it is to terminate, and also after a
\* termination has let a thread pass m_lock.
LockIsReleased == \A t \in Thread : (m_lock = t) ~> (m_lock # t)
=============================================================================
