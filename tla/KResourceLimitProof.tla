------------------------ MODULE KResourceLimitProof ------------------------
(***************************************************************************)
(* Proofs about KResourceLimit, for any number of threads, resources and   *)
(* values, until a termination lets a thread pass m_lock: a release wakes  *)
(* every thread that sleeps for it, and what is accounted for is the sum   *)
(* of the reservations and never exceeds the limit.                        *)
(***************************************************************************)
EXTENDS KResourceLimit, WellFoundedInduction, FiniteSetTheorems, TLAPS

(* The inductive invariant, part by part *)

Places == {"idle", "reserve", "loop", "add", "wait", "asleep", "relock"}

TypeInv ==
    /\ m_limit_values \in [Resource -> Limit]
    /\ m_current_values \in [Resource -> Int]
    /\ m_current_hints \in [Resource -> Int]
    /\ m_peak_values \in [Resource -> Int]
    /\ m_waiter_count \in Int
    /\ m_lock \in Thread \cup {None}
    /\ lockless = {}
    /\ m_wait_list \subseteq Thread
    /\ pc \in [Thread -> Places]
    /\ which \in [Thread -> Resource \cup {None}]
    /\ value \in [Thread -> Nat]

\* A thread in Reserve has named a resource; m_lock is held in the loop of
\* Reserve; m_cond_var's list has the threads that sleep.
ThreadsOK ==
    /\ \A t \in Thread : pc[t] # "idle" => which[t] \in Resource
    /\ \A t \in Thread : m_lock = t <=> InSection(t)
    /\ \A t \in Thread : t \in m_wait_list <=> pc[t] = "asleep"

\* The threads between m_waiter_count++ and m_waiter_count--.
Waiting == {t \in Thread : pc[t] \in {"wait", "asleep", "relock"}}

WaitersCounted == m_waiter_count = Cardinality(Waiting)

\* What is reserved is never more than the limit, and m_peak_values in between.
WithinLimit ==
    \A r \in Resource : m_current_values[r] <= m_peak_values[r] /\ m_peak_values[r] <= m_limit_values[r]

\* What Reserve has tested is still so when it adds.
AddOK == \A t \in Thread : pc[t] = "add" => ~WouldOverflow(t) /\ Fits(t)

\* What holds until a thread passes m_lock.
IInv == TypeInv /\ ThreadsOK /\ WaitersCounted /\ WithinLimit /\ AddOK

-----------------------------------------------------------------------------
USE MaxIntAssumption, AmountAssumption, ThreadAssumption
USE DEF Places

\* m_lock excludes, so no update is lost by a thread in the section or by one
\* that finds m_lock free.
LEMMA NoLoss ==
    ASSUME IInv, NEW t \in Thread, InSection(t) \/ m_lock = None
    PROVE  LossesOf(t) = {0}
<1>1. \A u \in Thread \ {t} : ~InSection(u)
  BY DEF IInv, ThreadsOK
<1> QED BY <1>1 DEF LossesOf

\* Lock() returns with the lock only.
LEMMA LockFree ==
    ASSUME IInv, NEW t \in Thread, LockReturns(t)
    PROVE  m_lock = None
BY DEF IInv, TypeInv, LockReturns

\* What one thread more or less means for the count.
LEMMA WaitingFacts ==
    /\ IsFiniteSet(Waiting) /\ Cardinality(Waiting) \in Nat
    /\ Cardinality(Waiting) = 0 <=> Waiting = {}
    /\ \A t \in Thread : t \notin Waiting => Cardinality(Waiting \cup {t}) = Cardinality(Waiting) + 1
    /\ \A t \in Waiting : Cardinality(Waiting \ {t}) = Cardinality(Waiting) - 1
<1>1. IsFiniteSet(Waiting)
  BY FS_Subset DEF Waiting
<1> QED BY <1>1, FS_CardinalityType, FS_EmptySet, FS_AddElement, FS_RemoveElement

\* A test that has been made stays true while the limit and what is reserved
\* stay, or while nobody is about to add.
LEMMA AddKept ==
    ASSUME IInv,
           \/ /\ UNCHANGED <<m_limit_values, m_current_values>>
              /\ \A u \in Thread : pc'[u] = "add" => pc[u] = "add" /\ which'[u] = which[u] /\ value'[u] = value[u]
           \/ \A u \in Thread : pc'[u] # "add"
    PROVE  AddOK'
BY DEF IInv, AddOK, WouldOverflow, Fits, Current

\* Steps of Reserve that neither wait nor add.
LEMMA ReserveStep ==
    ASSUME IInv, NEW t \in Thread,
           \/ \E r \in Resource, v \in Amount : Reserve(t, r, v)
           \/ ReserveRefused(t) \/ ReserveLock(t) \/ ReserveGiveUp(t) \/ ReserveFits(t) \/ TimePasses(t)
    PROVE  IInv'
<1> USE DEF Reserve, ReserveRefused, ReserveLock, ReserveGiveUp, ReserveFits, TimePasses, ReturnFalse, Lock,
            Unlock, LockReturns, limitVars, lockVars
<1>1. TypeInv'
  BY DEF IInv, TypeInv
<1>2. ThreadsOK'
  BY DEF IInv, TypeInv, ThreadsOK, InSection
<1>3. Waiting' = Waiting
  BY DEF IInv, TypeInv, Waiting
<1>4. WaitersCounted'
  BY <1>3 DEF IInv, WaitersCounted
<1>5. WithinLimit'
  BY DEF IInv, WithinLimit
<1>6. UNCHANGED <<m_limit_values, m_current_values>>
  OBVIOUS
<1>7. AddOK'
  <2>1. CASE ReserveFits(t)
    <3>1. UNCHANGED <<which, value>> /\ ~WouldOverflow(t) /\ Fits(t)
          /\ \A u \in Thread : pc'[u] = "add" => pc[u] = "add" \/ u = t
      BY <2>1 DEF IInv, TypeInv
    <3>2. \A u \in Thread : pc'[u] = "add" => ~WouldOverflow(u) /\ Fits(u)
      BY <3>1 DEF IInv, AddOK
    <3> QED BY <1>6, <3>1, <3>2 DEF AddOK, WouldOverflow, Fits, Current
  <2>2. CASE ~ReserveFits(t)
    <3>1. \A u \in Thread : pc'[u] = "add" => pc[u] = "add" /\ which'[u] = which[u] /\ value'[u] = value[u]
      BY <2>2 DEF IInv, TypeInv
    <3> QED BY <1>6, <3>1, AddKept
  <2> QED BY <2>1, <2>2
<1> QED BY <1>1, <1>2, <1>4, <1>5, <1>7 DEF IInv

\* Reserve succeeds: the sum is larger than before and within the limit.
LEMMA ReserveAddStep ==
    ASSUME IInv, NEW t \in Thread, ReserveAdd(t, 0)
    PROVE  /\ IInv'
           /\ \A r \in Resource : /\ m_current_values'[r] >= m_current_values[r]
                                  /\ m_current_hints'[r] >= m_current_hints[r]
<1> USE DEF ReserveAdd, Unlock
<1> DEFINE sum == WrappingAdd(Current(t), value[t])
<1>1. /\ which[t] \in Resource /\ value[t] \in Nat /\ Current(t) = m_current_values[which[t]]
      /\ Current(t) \in Int
  BY DEF IInv, ThreadsOK, TypeInv, Current
<1>0. ~WouldOverflow(t) /\ Fits(t)
  BY DEF IInv, AddOK
<1>2. sum \in Int /\ Current(t) < sum /\ sum <= m_limit_values[which[t]]
  BY <1>0, <1>1 DEF WrappingAdd, WouldOverflow, Fits
<1> HIDE DEF sum
<1>3. /\ m_current_values' = [m_current_values EXCEPT ![which[t]] = sum]
      /\ m_peak_values' = [m_peak_values EXCEPT ![which[t]] = IF @ < sum THEN sum ELSE @]
      /\ m_current_hints' = [m_current_hints EXCEPT ![which[t]] = @ + value[t]]
      /\ m_limit_values' = m_limit_values
  BY DEF sum
<1>4. TypeInv'
  BY <1>1, <1>2, <1>3 DEF IInv, TypeInv
<1>5. ThreadsOK'
  BY DEF IInv, TypeInv, ThreadsOK, InSection
<1>6. Waiting' = Waiting
  BY DEF IInv, TypeInv, Waiting
<1>7. WaitersCounted'
  BY <1>6 DEF IInv, WaitersCounted
<1>8. WithinLimit'
  <2> HIDE DEF ReserveAdd
  <2>0. \A r \in Resource : m_limit_values[r] \in Limit
    BY DEF IInv, TypeInv
  <2>4. \A x \in Limit : x \in Int
    OBVIOUS
  <2>5. m_peak_values \in [Resource -> Int] /\ m_current_values \in [Resource -> Int]
    BY DEF IInv, TypeInv
  <2>1. /\ \A r \in Resource : m_limit_values[r] \in Int
        /\ m_peak_values \in [Resource -> Int] /\ m_current_values \in [Resource -> Int]
    BY <2>0, <2>4, <2>5
  <2>2. \A r \in Resource : m_current_values[r] <= m_peak_values[r] /\ m_peak_values[r] <= m_limit_values[r]
    BY DEF IInv, WithinLimit
  <2>3. ASSUME NEW r \in Resource
        PROVE  m_current_values'[r] <= m_peak_values'[r] /\ m_peak_values'[r] <= m_limit_values[r]
    <3>1. CASE r = which[t]
      <4>1. m_current_values'[r] = sum /\ m_peak_values'[r] = IF m_peak_values[r] < sum THEN sum ELSE m_peak_values[r]
        BY <1>1, <1>3, <2>1, <3>1
      <4> QED BY <1>2, <2>1, <2>2, <3>1, <4>1
    <3>2. CASE r # which[t]
      BY <1>3, <2>1, <2>2, <3>2
    <3> QED BY <3>1, <3>2
  <2> QED BY <1>3, <2>3 DEF WithinLimit
<1>9. \A r \in Resource : /\ m_current_values'[r] >= m_current_values[r]
                          /\ m_current_hints'[r] >= m_current_hints[r]
  <2> HIDE DEF ReserveAdd
  <2>1. m_current_values \in [Resource -> Int] /\ m_current_hints \in [Resource -> Int]
    BY DEF IInv, TypeInv
  <2> QED BY <1>1, <1>2, <1>3, <2>1
<1>10. \A u \in Thread : pc'[u] # "add"
  BY DEF IInv, TypeInv, ThreadsOK, InSection
<1>11. AddOK'
  BY <1>10, AddKept
<1> QED BY <1>4, <1>5, <1>7, <1>8, <1>9, <1>11 DEF IInv

\* m_waiter_count++
LEMMA ReserveWaitStep ==
    ASSUME IInv, NEW t \in Thread, ReserveWait(t, 0)
    PROVE  IInv'
<1> USE DEF ReserveWait, limitVars, lockVars
<1>1. TypeInv'
  BY DEF IInv, TypeInv
<1>2. ThreadsOK'
  BY DEF IInv, TypeInv, ThreadsOK, InSection
<1>3. Waiting' = Waiting \cup {t} /\ t \notin Waiting
  BY DEF IInv, TypeInv, Waiting
<1>4. WaitersCounted'
  BY <1>3, WaitingFacts DEF IInv, WaitersCounted
<1>5. WithinLimit'
  BY DEF IInv, WithinLimit
<1>6. AddOK'
  BY AddKept DEF IInv, TypeInv
<1> QED BY <1>1, <1>2, <1>4, <1>5, <1>6 DEF IInv

\* m_waiter_count--, after a wait that did not sleep or when the lock has been
\* taken again.
LEMMA WaitEndStep ==
    ASSUME IInv, NEW t \in Thread, WaitTerminating(t, 0) \/ WaitRelock(t, 0)
    PROVE  IInv'
<1> USE DEF WaitTerminating, WaitRelock, WaitReturns, Lock, LockReturns, limitVars, lockVars
<1>1. TypeInv'
  BY DEF IInv, TypeInv
<1>2. ThreadsOK'
  BY DEF IInv, TypeInv, ThreadsOK, InSection
<1>3. Waiting' = Waiting \ {t} /\ t \in Waiting
  BY DEF IInv, TypeInv, Waiting
<1>4. WaitersCounted'
  BY <1>3, WaitingFacts DEF IInv, WaitersCounted
<1>5. WithinLimit'
  BY DEF IInv, WithinLimit
<1>6. AddOK'
  BY AddKept DEF IInv, TypeInv
<1> QED BY <1>1, <1>2, <1>4, <1>5, <1>6 DEF IInv

\* A sleep begins, or is cancelled by the timer or a termination.
LEMMA SleepStep ==
    ASSUME IInv, NEW t \in Thread, WaitSleep(t) \/ OnTimer(t) \/ RequestTerminate(t)
    PROVE  IInv'
<1> USE DEF WaitSleep, OnTimer, RequestTerminate, Woken, Unlock, limitVars, lockVars
<1>1. TypeInv'
  BY DEF IInv, TypeInv
<1>2. ThreadsOK'
  BY DEF IInv, TypeInv, ThreadsOK, InSection
<1>3. Waiting' = Waiting
  BY DEF IInv, TypeInv, ThreadsOK, Waiting
<1>4. WaitersCounted'
  BY <1>3 DEF IInv, WaitersCounted
<1>5. WithinLimit'
  BY DEF IInv, WithinLimit
<1>6. AddOK'
  BY AddKept DEF IInv, TypeInv
<1> QED BY <1>1, <1>2, <1>4, <1>5, <1>6 DEF IInv

\* Release wakes all that sleep: m_waiter_count is not 0 if anybody does.
LEMMA ReleaseStep ==
    ASSUME IInv, NEW t \in Thread, ReleaseHint(t, 0) \/ ReleaseValue(t, 0)
    PROVE  IInv' /\ m_wait_list' = {}
<1>1. PICK v \in Nat, h \in Nat : Release(t, v, h, 0)
  BY DEF IInv, TypeInv, ReleaseHint, ReleaseValue
<1>2. which[t] \in Resource /\ pc[t] = "idle"
  BY DEF IInv, TypeInv, ReleaseHint, ReleaseValue, HasReservation
<1>3. m_wait_list' = {}
  <2>1. CASE BroadcastNeeded
    BY <1>1, <2>1 DEF Release
  <2>2. CASE ~BroadcastNeeded
    <3>1. Waiting = {}
      BY <2>2, WaitingFacts DEF IInv, WaitersCounted, BroadcastNeeded
    <3>2. m_wait_list = {}
      BY <3>1 DEF IInv, TypeInv, ThreadsOK, Waiting
    <3> QED BY <1>1, <2>2, <3>2 DEF Release
  <2> QED BY <2>1, <2>2
<1>4. pc' = [u \in Thread |-> IF u \in m_wait_list THEN "relock" ELSE pc[u]]
  <2>1. CASE BroadcastNeeded
    BY <1>1, <2>1 DEF Release, Woken
  <2>2. CASE ~BroadcastNeeded
    BY <1>1, <1>3, <2>2 DEF Release, Woken
  <2> QED BY <2>1, <2>2
<1>5. /\ which' \in [Thread -> Resource \cup {None}] /\ value' \in [Thread -> Nat]
      /\ \A u \in Thread \ {t} : which'[u] = which[u]
  BY DEF IInv, TypeInv, ReleaseHint, ReleaseValue
<1>0. /\ m_lock = None /\ m_lock' = None /\ lockless' = {}
      /\ m_current_values' = [m_current_values EXCEPT ![which[t]] = @ - v]
      /\ m_current_hints' = [m_current_hints EXCEPT ![which[t]] = @ - h]
      /\ UNCHANGED <<m_limit_values, m_peak_values, m_waiter_count>>
  BY <1>1, LockFree DEF IInv, TypeInv, Release, Unlock
<1>6. TypeInv'
  BY <1>0, <1>2, <1>3, <1>4, <1>5 DEF IInv, TypeInv
<1>7. ThreadsOK'
  BY <1>0, <1>2, <1>3, <1>4, <1>5 DEF IInv, TypeInv, ThreadsOK, InSection
<1>8. Waiting' = Waiting
  BY <1>4 DEF IInv, TypeInv, ThreadsOK, Waiting
<1>9. WaitersCounted'
  BY <1>0, <1>8 DEF IInv, WaitersCounted
<1>10. WithinLimit'
  BY <1>0, <1>2 DEF IInv, TypeInv, WithinLimit
<1>11. \A u \in Thread : pc'[u] # "add"
  BY <1>0, <1>4 DEF IInv, TypeInv, ThreadsOK, InSection
<1>12. AddOK'
  BY <1>11, AddKept
<1> QED BY <1>3, <1>6, <1>7, <1>9, <1>10, <1>12 DEF IInv

\* SetLimitValue refuses a limit below what is reserved.
LEMMA SetLimitValueStep ==
    ASSUME IInv, NEW t \in Thread, NEW r \in Resource, NEW v \in Limit, SetLimitValue(t, r, v)
    PROVE  IInv'
<1> USE DEF SetLimitValue, Unlock
<1>0. m_lock = None
  BY LockFree
<1>1. TypeInv'
  BY DEF IInv, TypeInv
<1>2. ThreadsOK'
  BY <1>0 DEF IInv, ThreadsOK, InSection
<1>3. Waiting' = Waiting
  BY DEF Waiting
<1>4. WaitersCounted'
  BY <1>3 DEF IInv, WaitersCounted
<1>5. WithinLimit'
  BY DEF IInv, TypeInv, WithinLimit, LimitAllowed
<1>6. \A u \in Thread : pc'[u] # "add"
  BY <1>0 DEF IInv, ThreadsOK, InSection
<1>7. AddOK'
  BY <1>6, AddKept
<1> QED BY <1>1, <1>2, <1>4, <1>5, <1>7 DEF IInv

-----------------------------------------------------------------------------
\* Nothing is reserved, and nobody waits, at first.
LEMMA InitIInv == Init => IInv
<1> SUFFICES ASSUME Init PROVE IInv
  OBVIOUS
<1> USE DEF Init
<1>1. TypeInv /\ ThreadsOK /\ AddOK
  BY DEF TypeInv, ThreadsOK, AddOK, InSection
<1>2. Waiting = {}
  BY DEF Waiting
<1>3. WaitersCounted
  BY <1>2, FS_EmptySet DEF WaitersCounted
<1>4. \A r \in Resource : m_limit_values[r] \in 0 .. MaxInt
  BY AmountAssumption
<1>5. WithinLimit
  BY <1>4 DEF WithinLimit
<1> QED BY <1>1, <1>3, <1>5 DEF IInv

\* The steps there are while m_lock excludes: nothing is lost.
SafeStep ==
    \/ \E t \in Thread :
        \/ ReserveRefused(t) \/ ReserveLock(t) \/ ReserveGiveUp(t) \/ ReserveFits(t) \/ TimePasses(t)
        \/ WaitSleep(t) \/ OnTimer(t) \/ RequestTerminate(t)
        \/ ReserveAdd(t, 0) \/ ReserveWait(t, 0) \/ WaitTerminating(t, 0) \/ WaitRelock(t, 0)
        \/ ReleaseHint(t, 0) \/ ReleaseValue(t, 0)
        \/ \E r \in Resource, v \in Amount : Reserve(t, r, v)
        \/ \E r \in Resource, v \in Limit : SetLimitValue(t, r, v)
    \/ UNCHANGED vars

\* A step after which nobody has passed m_lock is one of them.
LEMMA StepsAreSafe ==
    ASSUME IInv, [Next]_vars, ~lockBypassed'
    PROVE  SafeStep
<1>1. ASSUME NEW t \in Thread, NEW loss \in LossesOf(t),
             ReserveAdd(t, loss) \/ ReserveWait(t, loss) \/ WaitTerminating(t, loss)
      PROVE  loss = 0
  <2>1. InSection(t)
    BY <1>1 DEF ReserveAdd, ReserveWait, WaitTerminating, InSection
  <2> QED BY <2>1, NoLoss
<1>2. ASSUME NEW t \in Thread, NEW loss \in LossesOf(t),
             WaitRelock(t, loss) \/ ReleaseHint(t, loss) \/ ReleaseValue(t, loss)
      PROVE  loss = 0
  <2>1. LockReturns(t)
    BY <1>2 DEF WaitRelock, ReleaseHint, ReleaseValue, Release, Lock
  <2> QED BY <2>1, LockFree, NoLoss
<1>3. ASSUME NEW t \in Thread, Step(t) PROVE SafeStep
  <2>1. CASE \E loss \in LossesOf(t) : ReserveAdd(t, loss) \/ ReserveWait(t, loss) \/ WaitTerminating(t, loss)
                                       \/ WaitRelock(t, loss)
    <3>1. PICK loss \in LossesOf(t) : ReserveAdd(t, loss) \/ ReserveWait(t, loss) \/ WaitTerminating(t, loss)
                                       \/ WaitRelock(t, loss)
      BY <2>1
    <3>2. loss = 0
      BY <1>1, <1>2, <3>1
    <3> QED BY <3>1, <3>2 DEF SafeStep
  <2>2. CASE ReserveRefused(t) \/ ReserveLock(t) \/ ReserveGiveUp(t) \/ ReserveFits(t) \/ WaitSleep(t)
    BY <2>2, Zenon DEF SafeStep
  <2> QED BY <1>3, <2>1, <2>2, Zenon DEF Step
<1>4. ASSUME NEW t \in Thread, \E loss \in LossesOf(t) : ReleaseHint(t, loss) \/ ReleaseValue(t, loss)
      PROVE  SafeStep
  <2>1. PICK loss \in LossesOf(t) : ReleaseHint(t, loss) \/ ReleaseValue(t, loss)
    BY <1>4
  <2>2. loss = 0
    BY <1>2, <2>1
  <2> QED BY <2>1, <2>2 DEF SafeStep
<1>5. ASSUME NEW t \in Terminable PROVE t \in Thread /\ ~RequestTerminateInLock(t)
  BY DEF RequestTerminateInLock
<1>6. ASSUME NEW t \in Terminable, RequestTerminate(t) PROVE SafeStep
  BY <1>5, <1>6, Zenon DEF SafeStep
<1>7. ASSUME NEW t \in Thread,
             \/ Timer(t)
             \/ \E r \in Resource, v \in Amount : Reserve(t, r, v)
             \/ \E r \in Resource, v \in Limit : SetLimitValue(t, r, v)
      PROVE  SafeStep
  BY <1>7, Zenon DEF Timer, SafeStep
<1>8. ASSUME UNCHANGED vars PROVE SafeStep
  BY <1>8 DEF SafeStep
<1>9. CASE Next
  BY <1>3, <1>4, <1>5, <1>6, <1>7, <1>9, Zenon DEF Next
<1> QED BY <1>8, <1>9

\* What every step leaves true, and the one kind of step that takes anything
\* away from what is accounted for.
LEMMA NextIInv ==
    ASSUME IInv, SafeStep
    PROVE  /\ IInv'
           /\ m_wait_list' # {} =>
                \A r \in Resource : /\ m_current_values'[r] >= m_current_values[r]
                                    /\ m_current_hints'[r] >= m_current_hints[r]
<1> DEFINE Kept == m_current_values' = m_current_values /\ m_current_hints' = m_current_hints
           Grown == \A r \in Resource : /\ m_current_values'[r] >= m_current_values[r]
                                        /\ m_current_hints'[r] >= m_current_hints[r]
<1>1. Kept => Grown
  BY DEF IInv, TypeInv
<1> DEFINE Good == IInv' /\ (m_wait_list' # {} => Grown)
<1>2. ASSUME NEW t \in Thread,
             ReserveRefused(t) \/ ReserveLock(t) \/ ReserveGiveUp(t) \/ ReserveFits(t) \/ TimePasses(t)
      PROVE  Good
  <2>1. IInv'
    BY <1>2, ReserveStep
  <2>2. Kept
    BY <1>2 DEF ReserveRefused, ReserveLock, ReserveGiveUp, ReserveFits, TimePasses, ReturnFalse, limitVars
  <2> QED BY <1>1, <2>1, <2>2
<1>3. ASSUME NEW t \in Thread, ReserveAdd(t, 0) PROVE Good
  BY <1>3, ReserveAddStep
<1>4. ASSUME NEW t \in Thread, ReserveWait(t, 0) PROVE Good
  BY <1>1, <1>4, ReserveWaitStep DEF ReserveWait, limitVars
<1>5. ASSUME NEW t \in Thread, WaitTerminating(t, 0) \/ WaitRelock(t, 0) PROVE Good
  BY <1>1, <1>5, WaitEndStep DEF WaitTerminating, WaitRelock, WaitReturns, limitVars
<1>6. ASSUME NEW t \in Thread, WaitSleep(t) \/ OnTimer(t) \/ RequestTerminate(t) PROVE Good
  BY <1>1, <1>6, SleepStep DEF WaitSleep, OnTimer, RequestTerminate, limitVars
<1>7. ASSUME NEW t \in Thread, ReleaseHint(t, 0) \/ ReleaseValue(t, 0) PROVE Good
  BY <1>7, ReleaseStep
<1>8. ASSUME NEW t \in Thread, NEW r \in Resource, NEW v \in Amount, Reserve(t, r, v) PROVE Good
  <2>1. IInv'
    BY <1>8, ReserveStep
  <2> QED BY <1>1, <1>8, <2>1 DEF Reserve, limitVars
<1>9. ASSUME NEW t \in Thread, NEW r \in Resource, NEW v \in Limit, SetLimitValue(t, r, v) PROVE Good
  BY <1>1, <1>9, SetLimitValueStep DEF SetLimitValue
<1>10. ASSUME UNCHANGED vars PROVE Good
  <2>1. IInv'
    BY <1>10 DEF IInv, TypeInv, ThreadsOK, InSection, WaitersCounted, Waiting, WithinLimit, AddOK,
                 WouldOverflow, Fits, Current, vars, limitVars, lockVars
  <2> QED BY <1>10, <2>1, <1>1 DEF vars, limitVars
<1> HIDE DEF Good
<1>11. Good
  BY <1>2, <1>3, <1>4, <1>5, <1>6, <1>7, <1>8, <1>9, <1>10, Zenon DEF SafeStep
<1> QED BY <1>11 DEF Good

\* Once m_lock has been passed, that is remembered.
LEMMA BypassIsKept ==
    ASSUME [Next]_vars, lockBypassed
    PROVE  lockBypassed'
<1> USE DEF lockVars, Lock, Unlock
<1>1. ASSUME NEW t \in Thread, Step(t) PROVE lockBypassed'
  BY <1>1 DEF Step, ReserveRefused, ReserveLock, ReserveGiveUp, ReserveFits, ReturnFalse, WaitSleep, ReserveAdd,
              ReserveWait, WaitTerminating, WaitRelock
<1>2. ASSUME NEW t \in Thread, Timer(t) PROVE lockBypassed'
  BY <1>2 DEF Timer, TimePasses, OnTimer
<1>3. ASSUME NEW t \in Thread, NEW loss, ReleaseHint(t, loss) \/ ReleaseValue(t, loss) PROVE lockBypassed'
  BY <1>3 DEF ReleaseHint, ReleaseValue, Release
<1>4. ASSUME NEW t \in Thread, NEW r, NEW v, Reserve(t, r, v) \/ SetLimitValue(t, r, v) PROVE lockBypassed'
  BY <1>4 DEF Reserve, SetLimitValue
<1>5. ASSUME NEW t \in Terminable, RequestTerminate(t) \/ RequestTerminateInLock(t) PROVE lockBypassed'
  BY <1>5 DEF RequestTerminate, RequestTerminateInLock
<1>6. ASSUME UNCHANGED vars PROVE lockBypassed'
  BY <1>6 DEF vars
<1>7. CASE Next
  BY <1>1, <1>2, <1>3, <1>4, <1>5, <1>7, Zenon DEF Next
<1> QED BY <1>6, <1>7

\* The invariant holds in every behaviour, until somebody passes m_lock.
LEMMA Invariance == Spec => [](~lockBypassed => IInv)
<1>1. (~lockBypassed => IInv) /\ [Next]_vars => (~lockBypassed => IInv)'
  BY BypassIsKept, StepsAreSafe, NextIInv
<1> QED BY <1>1, InitIInv, PTL DEF Spec

-----------------------------------------------------------------------------
\* KResourceLimit::Release broadcasts whenever a thread sleeps in Reserve:
\* m_waiter_count counts it from before it sleeps until after it has the lock
\* again, however the sleeps of the others end, until a termination lets a
\* thread pass m_lock.
THEOREM NobodySleepsThroughReleaseHolds == Spec => NobodySleepsThroughRelease
<1>1. (~lockBypassed => IInv) /\ [Next]_vars => [NothingReleased]_vars
  BY BypassIsKept, StepsAreSafe, NextIInv DEF NothingReleased
<1> QED BY <1>1, Invariance, PTL DEF Spec, NobodySleepsThroughRelease

\* m_waiter_count is the number of threads that are in the wait of Reserve: a
\* wait that returns at once because the thread terminates, a timeout and a
\* broadcast are all counted down once.  A termination that lets a thread pass
\* m_lock ends this.
THEOREM WaitersCountedHolds == Spec => [](~lockBypassed => WaitersCounted)
<1>1. IInv => WaitersCounted
  BY DEF IInv
<1> QED BY <1>1, Invariance, PTL

\* KResourceLimit never hands out more than the limit, even though Reserve
\* adds with wrap-around and SetLimitValue may lower the limit meanwhile,
\* until a termination lets a thread pass m_lock.
THEOREM WithinLimitHolds == Spec => [](~lockBypassed => WithinLimit)
<1>1. IInv => WithinLimit
  BY DEF IInv
<1> QED BY <1>1, Invariance, PTL

-----------------------------------------------------------------------------
(* The accounts.  Sums over sets of threads come first: the recursion that *)
(* MapThenSumSet stands for is shown to have a solution, and the solution  *)
(* to be a sum, by looking at a least counterexample.                      *)

\* Every nonempty set of numbers has a least member: the provers' induction.
LEMMA LeastNumber ==
    ASSUME NEW S \in SUBSET Nat, S # {}
    PROVE  \E n \in S : \A m \in S : n <= m
<1>1. IsWellFoundedOn(OpToRel(<, Nat), Nat)
  BY NatLessThanWellFounded
<1>2. PICK n \in S : \A m \in S : ~(<<m, n>> \in OpToRel(<, Nat))
  BY <1>1, WFMin
<1>3. \A m \in S : ~(m < n)
  BY <1>2 DEF OpToRel
<1> QED BY <1>3

\* The sum of the values of the threads in S.
SumOf(v, S) == MapThenSumSet(LAMBDA t : v[t], S)

\* One element of a set of threads, the one a sum takes first.
First(s) == CHOOSE x \in s : TRUE

\* A function that adds the values up set by set.
AddsUp(f, v, S) ==
    f = [s \in SUBSET S |-> IF s = {} THEN 0 ELSE v[First(s)] + f[s \ {First(s)}]]

\* Sets of threads are finite, and smaller without one of their members.
LEMMA SubsetFacts ==
    ASSUME NEW S \in SUBSET Thread
    PROVE  /\ IsFiniteSet(S) /\ Cardinality(S) \in Nat
           /\ Cardinality(S) = 0 <=> S = {}
           /\ S # {} => First(S) \in S
           /\ \A x \in S : Cardinality(S \ {x}) = Cardinality(S) - 1
<1>1. IsFiniteSet(S)
  BY FS_Subset
<1> QED BY <1>1, FS_CardinalityType, FS_EmptySet, FS_RemoveElement DEF First

\* There is such a function, although it is defined by recursion.
LEMMA AddsUpExists == ASSUME NEW v, NEW S \in SUBSET Thread PROVE \E f : AddsUp(f, v, S)
<1> DEFINE D(n) == {s \in SUBSET S : Cardinality(s) <= n}
           Part(f, n) == f = [s \in D(n) |-> IF s = {} THEN 0 ELSE v[First(s)] + f[s \ {First(s)}]]
           Bad == {n \in Nat : ~\E f : Part(f, n)}
<1> HIDE DEF Part, Bad
<1>0. Cardinality(S) \in Nat
  BY SubsetFacts
<1>1. \A s \in SUBSET S : s \in SUBSET Thread /\ Cardinality(s) \in Nat /\ Cardinality(s) <= Cardinality(S)
  BY SubsetFacts, FS_Subset
<1>2. Bad = {}
  <2> SUFFICES ASSUME Bad # {} PROVE FALSE
    OBVIOUS
  <2>1. PICK n \in Bad : \A m \in Bad : n <= m
    BY LeastNumber DEF Bad
  <2>2. CASE n = 0
    <3> DEFINE g == [s \in D(0) |-> 0]
    <3>1. \A s \in D(0) : s = {}
      BY <1>1, SubsetFacts
    <3>2. Part(g, 0)
      BY <3>1 DEF Part
    <3> QED BY <2>1, <2>2, <3>2 DEF Bad
  <2>3. CASE n # 0
    <3>1. n \in Nat /\ n - 1 \in Nat /\ n - 1 \notin Bad
      BY <2>1, <2>3 DEF Bad
    <3>2. PICK f : Part(f, n - 1)
      BY <3>1 DEF Bad
    <3> DEFINE g == [s \in D(n) |-> IF s = {} THEN 0 ELSE v[First(s)] + f[s \ {First(s)}]]
    <3>3. ASSUME NEW s \in D(n), s # {} PROVE s \ {First(s)} \in D(n - 1) /\ s \ {First(s)} \in D(n)
      <4>1. s \ {First(s)} \in SUBSET S /\ Cardinality(s \ {First(s)}) = Cardinality(s) - 1
        BY <1>1, <3>3, SubsetFacts
      <4> QED BY <1>1, <3>1, <4>1
    <3>4. \A s \in D(n - 1) : s \in D(n)
      BY <1>1, <3>1
    <3>5. \A s \in D(n - 1) : f[s] = g[s]
      BY <3>2, <3>4 DEF Part
    <3>6. \A s \in D(n) : g[s] = IF s = {} THEN 0 ELSE v[First(s)] + g[s \ {First(s)}]
      BY <3>3, <3>5
    <3>7. Part(g, n)
      <4> HIDE DEF D
      <4> QED BY <3>6 DEF Part
    <3> QED BY <2>1, <3>7 DEF Bad
  <2> QED BY <2>2, <2>3
<1>3. PICK f : Part(f, Cardinality(S))
  BY <1>0, <1>2 DEF Bad
<1>4. D(Cardinality(S)) = SUBSET S
  BY <1>1
<1> QED BY <1>3, <1>4 DEF Part, AddsUp

\* The sum over a set is what such a function gives for it.
LEMMA SumOfAddsUp ==
    ASSUME NEW v, NEW S \in SUBSET Thread
    PROVE  \E f : AddsUp(f, v, S) /\ SumOf(v, S) = f[S]
<1> DEFINE c == CHOOSE f : AddsUp(f, v, S)
<1>1. AddsUp(c, v, S)
  BY AddsUpExists
<1>2. SumOf(v, S) = (CHOOSE f : AddsUp(f, v, S))[S]
  BY DEF SumOf, MapThenSumSet, MapThenFoldSet, AddsUp, First
<1> QED BY <1>1, <1>2

\* Two such functions agree where the values do.
LEMMA AddsUpSame ==
    ASSUME NEW v, NEW w, NEW S \in SUBSET Thread, NEW T \in SUBSET Thread, NEW f, NEW g,
           AddsUp(f, v, S), AddsUp(g, w, T)
    PROVE  \A R \in SUBSET (S \cap T) : (\A x \in R : v[x] = w[x]) => f[R] = g[R]
<1> SUFFICES ASSUME NEW R \in SUBSET (S \cap T), \A x \in R : v[x] = w[x] PROVE f[R] = g[R]
  OBVIOUS
<1> DEFINE Bad == {n \in Nat : \E s \in SUBSET R : Cardinality(s) = n /\ f[s] # g[s]}
<1>1. \A s \in SUBSET R : s \in SUBSET Thread /\ Cardinality(s) \in Nat
  BY SubsetFacts
<1>2. Bad = {}
  <2> SUFFICES ASSUME Bad # {} PROVE FALSE
    OBVIOUS
  <2>1. PICK n \in Bad : \A m \in Bad : n <= m
    <3> HIDE DEF Bad
    <3>1. Bad \in SUBSET Nat
      BY DEF Bad
    <3> QED BY <3>1, LeastNumber
  <2>2. PICK s \in SUBSET R : Cardinality(s) = n /\ f[s] # g[s]
    BY <2>1
  <2>3. s \in SUBSET S /\ s \in SUBSET T
    OBVIOUS
  <2>4. s # {}
    BY <2>2, <2>3 DEF AddsUp
  <2> DEFINE r == s \ {First(s)}
  <2>5. First(s) \in s /\ r \in SUBSET R /\ r \in SUBSET S /\ r \in SUBSET T /\ Cardinality(r) = n - 1
    BY <1>1, <2>2, <2>4, SubsetFacts
  <2>6. f[r] = g[r]
    <3>1. n \in Nat /\ n - 1 \in Nat
      BY <1>1, <2>2, <2>5
    <3>2. n - 1 \notin Bad
      BY <2>1, <3>1
    <3> QED BY <2>5, <3>1, <3>2
  <2>7. f[s] = v[First(s)] + f[r] /\ g[s] = w[First(s)] + g[r]
    BY <2>3, <2>4 DEF AddsUp
  <2> QED BY <2>2, <2>5, <2>6, <2>7
<1> QED BY <1>1, <1>2

\* The sum depends on the values of the set's members only.
LEMMA SumOfSame ==
    ASSUME NEW v, NEW w, NEW S \in SUBSET Thread, \A x \in S : v[x] = w[x]
    PROVE  SumOf(v, S) = SumOf(w, S)
<1>1. PICK f : AddsUp(f, v, S) /\ SumOf(v, S) = f[S]
  BY SumOfAddsUp
<1>2. PICK g : AddsUp(g, w, S) /\ SumOf(w, S) = g[S]
  BY SumOfAddsUp
<1>3. S \in SUBSET (S \cap S)
  OBVIOUS
<1>4. f[S] = g[S]
  <2>1. \A R \in SUBSET (S \cap S) : (\A x \in R : v[x] = w[x]) => f[R] = g[R]
    BY <1>1, <1>2, AddsUpSame
  <2> QED BY <1>3, <2>1
<1> QED BY <1>1, <1>2, <1>4

\* The sum over no thread, and with and without one of the threads.
LEMMA SumOfFacts ==
    ASSUME NEW v \in [Thread -> Nat]
    PROVE  /\ SumOf(v, {}) = 0
           /\ \A S \in SUBSET Thread : SumOf(v, S) \in Nat
           /\ \A S \in SUBSET Thread : \A x \in S : SumOf(v, S) = v[x] + SumOf(v, S \ {x})
<1>1. PICK f : AddsUp(f, v, Thread)
  BY AddsUpExists
<1>2. ASSUME NEW S \in SUBSET Thread PROVE SumOf(v, S) = f[S]
  <2>1. PICK g : AddsUp(g, v, S) /\ SumOf(v, S) = g[S]
    BY SumOfAddsUp
  <2> QED BY <1>1, <2>1, AddsUpSame
<1>3. f[{}] = 0
  BY <1>1 DEF AddsUp
<1>6. ASSUME NEW q \in SUBSET Thread, q # {} PROVE f[q] = v[First(q)] + f[q \ {First(q)}]
  BY <1>1, <1>6 DEF AddsUp
<1> DEFINE Bad == {n \in Nat : \E s \in SUBSET Thread : Cardinality(s) = n /\
                      ~(f[s] \in Nat /\ \A x \in s : f[s] = v[x] + f[s \ {x}])}
<1>4. Bad = {}
  <2> SUFFICES ASSUME Bad # {} PROVE FALSE
    OBVIOUS
  <2>1. PICK n \in Bad : \A m \in Bad : n <= m
    <3> HIDE DEF Bad
    <3>1. Bad \in SUBSET Nat
      BY DEF Bad
    <3> QED BY <3>1, LeastNumber
  <2>2. PICK s \in SUBSET Thread : Cardinality(s) = n /\ ~(f[s] \in Nat /\ \A x \in s : f[s] = v[x] + f[s \ {x}])
    BY <2>1
  <2>3. ASSUME s = {} PROVE FALSE
    <3>1. f[s] \in Nat /\ \A x \in s : FALSE
      BY <1>3, <2>3
    <3> QED BY <2>2, <3>1
  <2> DEFINE y == First(s)
             r == s \ {y}
  <2>4. ASSUME NEW q \in SUBSET Thread, Cardinality(q) = n - 1
        PROVE  f[q] \in Nat /\ \A x \in q : f[q] = v[x] + f[q \ {x}]
    <3>1. n - 1 \in Nat /\ n - 1 \notin Bad
      BY <2>1, <2>4, SubsetFacts
    <3> QED BY <2>4, <3>1
  <2>5. f[s] = v[y] + f[r] /\ y \in s
    <3>1. y \in s
      BY <2>3, SubsetFacts
    <3> QED BY <1>6, <2>3, <3>1
  <2>6. f[r] \in Nat /\ \A x \in r : f[r] = v[x] + f[r \ {x}]
    BY <2>2, <2>4, <2>5, SubsetFacts
  <2>7. f[s] \in Nat
    BY <2>5, <2>6
  <2>8. ASSUME NEW x \in s PROVE f[s] = v[x] + f[s \ {x}]
    <3>1. CASE x = y
      BY <2>5, <3>1
    <3>2. CASE x # y
      <4>1. Cardinality(s \ {x}) = n - 1 /\ y \in s \ {x} /\ s \ {x} \in SUBSET Thread
        BY <2>2, <2>5, <3>2, SubsetFacts
      <4>2. f[s \ {x}] \in Nat /\ f[s \ {x}] = v[y] + f[(s \ {x}) \ {y}]
        BY <2>4, <4>1
      <4>3. (s \ {x}) \ {y} = r \ {x} /\ x \in r
        BY <3>2
      <4>4. f[r] = v[x] + f[r \ {x}]
        BY <2>6, <4>3
      <4>5. f[r \ {x}] \in Nat
        <5>0. r \in SUBSET Thread /\ Cardinality(r) = n - 1 /\ n \in Nat
          BY <2>2, <2>5, SubsetFacts
        <5>3. r \ {x} \in SUBSET Thread /\ Cardinality(r \ {x}) = Cardinality(r) - 1
          BY <4>3, <5>0, SubsetFacts
        <5>4. Cardinality(r \ {x}) \in Nat
          BY <5>3, SubsetFacts
        <5>1. r \ {x} \in SUBSET Thread /\ Cardinality(r \ {x}) = n - 2 /\ Cardinality(r \ {x}) \in Nat
          BY <5>0, <5>3, <5>4
        <5>5. n - 2 \in Nat
          BY <5>0, <5>1
        <5>6. n - 2 < n
          BY <5>0
        <5>2. n - 2 \in Nat /\ n - 2 \notin Bad
          <6> HIDE DEF Bad
          <6> QED BY <2>1, <5>0, <5>5, <5>6
        <5> QED BY <5>1, <5>2
      <4>6. v[x] \in Nat /\ v[y] \in Nat
        BY <2>5
      <4>7. \A a, b, c \in Nat : a + (b + c) = b + (a + c)
        OBVIOUS
      <4>8. f[s] = v[y] + (v[x] + f[r \ {x}])
        <5> HIDE DEF Bad, r, y
        <5> QED BY <2>5, <4>4
      <4>9. f[s \ {x}] = v[y] + f[r \ {x}]
        <5> HIDE DEF Bad
        <5> QED BY <4>2, <4>3
      <4> HIDE DEF Bad, r, y
      <4> QED BY <4>5, <4>6, <4>7, <4>8, <4>9
    <3> QED BY <3>1, <3>2
  <2> QED BY <2>2, <2>7, <2>8
<1>5. \A S \in SUBSET Thread : f[S] \in Nat /\ \A x \in S : f[S] = v[x] + f[S \ {x}]
  BY <1>4, SubsetFacts
<1> QED BY <1>2, <1>3, <1>5

\* A sum over fewer threads is not larger.
LEMMA SumOfSubset ==
    ASSUME NEW v \in [Thread -> Nat], NEW S \in SUBSET Thread, NEW T \in SUBSET S
    PROVE  SumOf(v, T) <= SumOf(v, S)
<1> DEFINE Bad == {n \in Nat : \E s \in SUBSET S : Cardinality(s) = n /\
                      \E t \in SUBSET s : ~(SumOf(v, t) <= SumOf(v, s))}
<1>2. Bad = {}
  <2> SUFFICES ASSUME Bad # {} PROVE FALSE
    OBVIOUS
  <2>1. PICK n \in Bad : \A m \in Bad : n <= m
    <3> HIDE DEF Bad
    <3>1. Bad \in SUBSET Nat
      BY DEF Bad
    <3> QED BY <3>1, LeastNumber
  <2>0. PICK s \in SUBSET S : Cardinality(s) = n /\ \E t \in SUBSET s : ~(SumOf(v, t) <= SumOf(v, s))
    BY <2>1
  <2>2. PICK t \in SUBSET s : Cardinality(s) = n /\ ~(SumOf(v, t) <= SumOf(v, s))
    BY <2>0
  <2>3. CASE t = s
    BY <2>2, <2>3, SumOfFacts
  <2>4. CASE t # s
    <3>1. PICK x \in s : x \notin t
      BY <2>4
    <3>2. t \in SUBSET (s \ {x}) /\ s \ {x} \in SUBSET S /\ Cardinality(s \ {x}) = n - 1
      BY <2>2, <3>1, SubsetFacts
    <3>3. n - 1 \in Nat /\ n - 1 \notin Bad
      BY <2>1, <3>2, SubsetFacts
    <3>4. SumOf(v, t) <= SumOf(v, s \ {x})
      BY <3>2, <3>3
    <3>5. SumOf(v, s) = v[x] + SumOf(v, s \ {x}) /\ SumOf(v, s \ {x}) \in Nat /\ SumOf(v, t) \in Nat
      BY SumOfFacts
    <3> QED BY <2>2, <3>4, <3>5
  <2> QED BY <2>3, <2>4
<1> QED BY <1>2, SubsetFacts

\* The threads whose hint counts.
Hinting(r) == {t \in Holders(r) : ~hinted[t]}

\* A hint is released ahead of its value by a thread with a reservation only,
\* and both accounts are the sums of what the threads hold.
AccountsOK ==
    /\ hinted \in [Thread -> BOOLEAN]
    /\ value \in [Thread -> 0 .. MaxInt]
    /\ \A t \in Thread : hinted[t] => HasReservation(t)
    /\ \A r \in Resource : /\ m_current_values[r] = SumOf(value, Holders(r))
                           /\ m_current_hints[r] = SumOf(value, Hinting(r))

\* Sets of threads, and their sums.
LEMMA HolderFacts ==
    ASSUME IInv, AccountsOK, NEW r
    PROVE  /\ Holders(r) \in SUBSET Thread /\ Hinting(r) \in SUBSET Thread
           /\ value \in [Thread -> Nat]
           /\ SumOf(value, Holders(r)) \in Nat /\ SumOf(value, Hinting(r)) \in Nat
<1>1. Holders(r) \in SUBSET Thread /\ Hinting(r) \in SUBSET Thread /\ value \in [Thread -> Nat]
  BY DEF Holders, Hinting, IInv, TypeInv
<1> QED BY <1>1, SumOfFacts

\* Steps that leave every reservation as it is.
LEMMA AccountsKept ==
    ASSUME IInv, AccountsOK, hinted' = hinted, value' \in [Thread -> 0 .. MaxInt],
           m_current_values' = m_current_values, m_current_hints' = m_current_hints,
           \A t \in Thread : HasReservation(t)' <=> HasReservation(t),
           \A t \in Thread : HasReservation(t) => which'[t] = which[t] /\ value'[t] = value[t]
    PROVE  AccountsOK'
<1>1. ASSUME NEW r \in Resource
      PROVE  /\ m_current_values'[r] = SumOf(value', Holders(r)')
             /\ m_current_hints'[r] = SumOf(value', Hinting(r)')
  <2>1. Holders(r)' = Holders(r) /\ \A t \in Holders(r) : value'[t] = value[t]
    BY DEF Holders, HasReservation
  <2>2. Hinting(r)' = Hinting(r) /\ \A t \in Hinting(r) : value'[t] = value[t]
    BY <2>1 DEF Hinting
  <2>3. Holders(r) \in SUBSET Thread /\ Hinting(r) \in SUBSET Thread
    BY HolderFacts
  <2>4. /\ SumOf(value', Holders(r)) = SumOf(value, Holders(r))
        /\ SumOf(value', Hinting(r)) = SumOf(value, Hinting(r))
    BY <2>1, <2>2, <2>3, SumOfSame
  <2> QED BY <2>1, <2>2, <2>4 DEF AccountsOK
<1> QED BY <1>1 DEF AccountsOK

\* Reserve succeeds: the sum did not wrap, and the thread is a holder now.
LEMMA AccountsReserve ==
    ASSUME IInv, AccountsOK, NEW t \in Thread, ReserveAdd(t, 0)
    PROVE  AccountsOK'
<1> DEFINE q == which[t]
           sum == WrappingAdd(Current(t), value[t])
<1>1. /\ pc[t] = "add" /\ ~WouldOverflow(t)
      /\ m_current_values' = [m_current_values EXCEPT ![q] = sum]
      /\ m_current_hints' = [m_current_hints EXCEPT ![q] = @ + value[t]]
      /\ pc' = [pc EXCEPT ![t] = "idle"]
      /\ UNCHANGED <<which, value, hinted>>
  BY DEF ReserveAdd, IInv, AddOK
<1>2. /\ q \in Resource /\ value[t] \in 0 .. MaxInt /\ Current(t) = m_current_values[q]
      /\ Current(t) \in Int /\ pc \in [Thread -> Places]
      /\ m_current_values \in [Resource -> Int] /\ m_current_hints \in [Resource -> Int]
      /\ ~hinted[t]
  BY <1>1 DEF IInv, ThreadsOK, TypeInv, Current, AccountsOK, HasReservation
<1>3. sum = m_current_values[q] + value[t]
  BY <1>1, <1>2 DEF WrappingAdd, WouldOverflow
<1> HIDE DEF sum
<1>4. ASSUME NEW r \in Resource
      PROVE  /\ m_current_values'[r] = SumOf(value', Holders(r)')
             /\ m_current_hints'[r] = SumOf(value', Hinting(r)')
  <2>0. /\ m_current_values[r] = SumOf(value, Holders(r)) /\ m_current_hints[r] = SumOf(value, Hinting(r))
    BY DEF AccountsOK
  <2>1. CASE r # q
    <3>1. Holders(r)' = Holders(r) /\ Hinting(r)' = Hinting(r)
      BY <1>1, <1>2, <2>1 DEF Holders, Hinting
    <3>2. m_current_values'[r] = m_current_values[r] /\ m_current_hints'[r] = m_current_hints[r]
      BY <1>1, <1>2, <2>1
    <3> QED BY <1>1, <2>0, <3>1, <3>2
  <2>2. CASE r = q
    <3>1. /\ Holders(r)' = Holders(r) \cup {t} /\ t \notin Holders(r)
          /\ Hinting(r)' = Hinting(r) \cup {t} /\ t \notin Hinting(r)
      BY <1>1, <1>2, <2>2 DEF Holders, Hinting
    <3>2. /\ Holders(r)' \in SUBSET Thread /\ t \in Holders(r)' /\ Holders(r)' \ {t} = Holders(r)
          /\ Hinting(r)' \in SUBSET Thread /\ t \in Hinting(r)' /\ Hinting(r)' \ {t} = Hinting(r)
      BY <3>1 DEF Holders, Hinting
    <3>3. value \in [Thread -> Nat] /\ SumOf(value, Holders(r)) \in Nat /\ SumOf(value, Hinting(r)) \in Nat
      BY HolderFacts
    <3>4. /\ SumOf(value, Holders(r)') = value[t] + SumOf(value, Holders(r))
          /\ SumOf(value, Hinting(r)') = value[t] + SumOf(value, Hinting(r))
      BY <3>2, <3>3, SumOfFacts
    <3>5. m_current_values'[r] = m_current_values[r] + value[t] /\ m_current_hints'[r] = m_current_hints[r] + value[t]
      BY <1>1, <1>2, <1>3, <2>2
    <3> QED BY <1>1, <1>2, <2>0, <3>3, <3>4, <3>5
  <2> QED BY <2>1, <2>2
<1>5. \A u \in Thread : hinted'[u] => HasReservation(u)'
  BY <1>1, <1>2 DEF AccountsOK, HasReservation
<1> QED BY <1>1, <1>4, <1>5 DEF AccountsOK

\* Only threads that sleep are woken: no reservation comes or goes with it.
LEMMA WokenFacts ==
    ASSUME IInv, NEW S \in SUBSET m_wait_list, pc' = Woken(S)
    PROVE  \A u \in Thread : pc'[u] = "idle" <=> pc[u] = "idle"
BY DEF IInv, TypeInv, ThreadsOK, Woken

\* Release takes what it is given off both accounts.
LEMMA ReleaseFacts ==
    ASSUME IInv, AccountsOK, NEW t \in Thread, HasReservation(t), NEW v \in Nat, NEW h \in Nat,
           Release(t, v, h, 0)
    PROVE  /\ \A u \in Thread : pc'[u] = "idle" <=> pc[u] = "idle"
           /\ which[t] \in Resource /\ t \in Holders(which[t])
           /\ m_current_values'[which[t]] = m_current_values[which[t]] - v
           /\ m_current_hints'[which[t]] = m_current_hints[which[t]] - h
           /\ \A r \in Resource \ {which[t]} : /\ m_current_values'[r] = m_current_values[r]
                                               /\ m_current_hints'[r] = m_current_hints[r]
<1>1. \A u \in Thread : pc'[u] = "idle" <=> pc[u] = "idle"
  <2> DEFINE S == IF BroadcastNeeded THEN m_wait_list ELSE {}
  <2>1. pc' = Woken(S) /\ S \in SUBSET m_wait_list
    BY DEF Release
  <2> HIDE DEF S
  <2> QED BY <2>1, WokenFacts
<1>2. which[t] \in Resource /\ t \in Holders(which[t])
  BY DEF HasReservation, Holders, IInv, TypeInv
<1> QED BY <1>1, <1>2 DEF Release, IInv, TypeInv

\* The hint is released, and the value stays.
LEMMA AccountsReleaseHint ==
    ASSUME IInv, AccountsOK, NEW t \in Thread, ReleaseHint(t, 0)
    PROVE  AccountsOK'
<1> DEFINE q == which[t]
<1>1. /\ HasReservation(t) /\ ~hinted[t] /\ Release(t, 0, value[t], 0)
      /\ hinted' = [hinted EXCEPT ![t] = TRUE] /\ which' = which /\ value' = value
  BY DEF ReleaseHint
<1>2. value[t] \in Nat /\ hinted' \in [Thread -> BOOLEAN] /\ hinted'[t] /\ \A u \in Thread \ {t} : hinted'[u] = hinted[u]
  BY <1>1 DEF AccountsOK
<1>3. /\ \A u \in Thread : pc'[u] = "idle" <=> pc[u] = "idle"
      /\ q \in Resource /\ t \in Holders(q)
      /\ m_current_values'[q] = m_current_values[q] - 0 /\ m_current_hints'[q] = m_current_hints[q] - value[t]
      /\ \A r \in Resource \ {q} : /\ m_current_values'[r] = m_current_values[r]
                                   /\ m_current_hints'[r] = m_current_hints[r]
  BY <1>1, <1>2, ReleaseFacts
<1>4. ASSUME NEW r \in Resource
      PROVE  /\ m_current_values'[r] = SumOf(value', Holders(r)')
             /\ m_current_hints'[r] = SumOf(value', Hinting(r)')
  <2>0. /\ m_current_values[r] = SumOf(value, Holders(r)) /\ m_current_hints[r] = SumOf(value, Hinting(r))
        /\ m_current_values[r] \in Int
    BY DEF AccountsOK, IInv, TypeInv
  <2>1. Holders(r)' = Holders(r) /\ Hinting(r)' = Hinting(r) \ {t}
    BY <1>1, <1>2, <1>3 DEF Holders, Hinting
  <2>2. CASE r # q
    <3>1. t \notin Hinting(r)
      BY <2>2 DEF Holders, Hinting
    <3>2. Hinting(r) \ {t} = Hinting(r)
      BY <3>1
    <3> QED BY <1>1, <1>3, <2>0, <2>1, <2>2, <3>2
  <2>3. CASE r = q
    <3>1. t \in Hinting(r)
      BY <1>1, <1>3, <2>3 DEF Hinting
    <3>2. Hinting(r) \in SUBSET Thread /\ value \in [Thread -> Nat] /\ Hinting(r) \ {t} \in SUBSET Thread
      BY HolderFacts
    <3>3. SumOf(value, Hinting(r)) = value[t] + SumOf(value, Hinting(r) \ {t}) /\ SumOf(value, Hinting(r) \ {t}) \in Nat
      BY <3>1, <3>2, SumOfFacts
    <3> QED BY <1>1, <1>2, <1>3, <2>0, <2>1, <2>3, <3>3
  <2> QED BY <2>2, <2>3
<1>5. \A u \in Thread : hinted'[u] => HasReservation(u)'
  BY <1>1, <1>2, <1>3 DEF AccountsOK, HasReservation
<1> QED BY <1>1, <1>2, <1>4, <1>5 DEF AccountsOK

\* The value is released, with the hint unless that has gone before.
LEMMA AccountsReleaseValue ==
    ASSUME IInv, AccountsOK, NEW t \in Thread, ReleaseValue(t, 0)
    PROVE  AccountsOK'
<1> DEFINE q == which[t]
           h == IF hinted[t] THEN 0 ELSE value[t]
<1>1. /\ HasReservation(t) /\ Release(t, value[t], h, 0)
      /\ hinted' = [hinted EXCEPT ![t] = FALSE]
      /\ which' = [which EXCEPT ![t] = None]
      /\ value' = [value EXCEPT ![t] = 0]
  BY DEF ReleaseValue
<1>2. /\ value[t] \in Nat /\ h \in Nat
      /\ hinted' \in [Thread -> BOOLEAN] /\ ~hinted'[t] /\ \A u \in Thread \ {t} : hinted'[u] = hinted[u]
      /\ value' \in [Thread -> 0 .. MaxInt] /\ \A u \in Thread \ {t} : value'[u] = value[u]
      /\ which'[t] = None /\ \A u \in Thread \ {t} : which'[u] = which[u]
  BY <1>1 DEF AccountsOK, IInv, TypeInv
<1>3. /\ \A u \in Thread : pc'[u] = "idle" <=> pc[u] = "idle"
      /\ q \in Resource /\ t \in Holders(q)
      /\ m_current_values'[q] = m_current_values[q] - value[t] /\ m_current_hints'[q] = m_current_hints[q] - h
      /\ \A r \in Resource \ {q} : /\ m_current_values'[r] = m_current_values[r]
                                   /\ m_current_hints'[r] = m_current_hints[r]
  <2> HIDE DEF h
  <2> QED BY <1>1, <1>2, ReleaseFacts
<1>4. ASSUME NEW r \in Resource
      PROVE  /\ m_current_values'[r] = SumOf(value', Holders(r)')
             /\ m_current_hints'[r] = SumOf(value', Hinting(r)')
  <2>0. /\ m_current_values[r] = SumOf(value, Holders(r)) /\ m_current_hints[r] = SumOf(value, Hinting(r))
    BY DEF AccountsOK
  <2>1. Holders(r)' = Holders(r) \ {t} /\ Hinting(r)' = Hinting(r) \ {t}
    BY <1>2, <1>3 DEF Holders, Hinting
  <2>2. /\ Holders(r) \in SUBSET Thread /\ Hinting(r) \in SUBSET Thread /\ value \in [Thread -> Nat]
        /\ SumOf(value, Holders(r)) \in Nat /\ SumOf(value, Hinting(r)) \in Nat
    BY HolderFacts
  <2>3. /\ SumOf(value', Holders(r) \ {t}) = SumOf(value, Holders(r) \ {t})
        /\ SumOf(value', Hinting(r) \ {t}) = SumOf(value, Hinting(r) \ {t})
    BY <1>2, <2>2, SumOfSame
  <2>4. /\ t \in Holders(r) => SumOf(value, Holders(r)) = value[t] + SumOf(value, Holders(r) \ {t})
        /\ t \in Hinting(r) => SumOf(value, Hinting(r)) = value[t] + SumOf(value, Hinting(r) \ {t})
        /\ t \notin Holders(r) => Holders(r) \ {t} = Holders(r)
        /\ t \notin Hinting(r) => Hinting(r) \ {t} = Hinting(r)
        /\ SumOf(value, Holders(r) \ {t}) \in Nat /\ SumOf(value, Hinting(r) \ {t}) \in Nat
    BY <2>2, SumOfFacts
  <2>5. CASE r # q
    <3>1. t \notin Holders(r) /\ t \notin Hinting(r)
      BY <2>5 DEF Holders, Hinting
    <3> QED BY <1>3, <2>0, <2>1, <2>3, <2>4, <2>5, <3>1
  <2>6. CASE r = q
    <3>1. t \in Holders(r) /\ (t \in Hinting(r) <=> ~hinted[t])
      BY <1>3, <2>6 DEF Hinting
    <3>2. m_current_values'[r] = SumOf(value', Holders(r)')
      BY <1>2, <1>3, <2>0, <2>1, <2>3, <2>4, <2>6, <3>1
    <3>3. CASE hinted[t]
      <4>1. m_current_hints'[r] = m_current_hints[r] - 0 /\ m_current_hints[r] \in Nat
        BY <1>3, <2>0, <2>2, <2>6, <3>3
      <4>2. Hinting(r)' = Hinting(r) /\ SumOf(value', Hinting(r)) = SumOf(value, Hinting(r))
        BY <2>1, <2>3, <2>4, <3>1, <3>3
      <4> QED BY <2>0, <3>2, <4>1, <4>2
    <3>4. CASE ~hinted[t]
      BY <1>2, <1>3, <2>0, <2>1, <2>3, <2>4, <2>6, <3>1, <3>2, <3>4
    <3> QED BY <3>3, <3>4
  <2> QED BY <2>5, <2>6
<1>5. \A u \in Thread : hinted'[u] => HasReservation(u)'
  BY <1>2, <1>3 DEF AccountsOK, HasReservation
<1> QED BY <1>2, <1>4, <1>5 DEF AccountsOK

\* Every step keeps the accounts.
LEMMA AccountsNext ==
    ASSUME IInv, AccountsOK, SafeStep
    PROVE  AccountsOK'
<1>0. /\ value \in [Thread -> 0 .. MaxInt] /\ which \in [Thread -> Resource \cup {None}]
      /\ pc \in [Thread -> Places]
  BY DEF AccountsOK, IInv, TypeInv
<1>1. ASSUME NEW t \in Thread, NEW r \in Resource, NEW v \in Amount, Reserve(t, r, v) PROVE AccountsOK'
  <2>1. /\ UNCHANGED <<hinted, m_current_values, m_current_hints>> /\ value' \in [Thread -> 0 .. MaxInt]
        /\ ~HasReservation(t) /\ ~HasReservation(t)'
        /\ \A u \in Thread \ {t} : pc'[u] = pc[u] /\ which'[u] = which[u] /\ value'[u] = value[u]
    BY <1>0, <1>1 DEF Reserve, limitVars, HasReservation
  <2> QED BY <2>1, AccountsKept DEF HasReservation
<1>2. ASSUME NEW t \in Thread, ReserveRefused(t) \/ ReserveGiveUp(t) PROVE AccountsOK'
  <2>1. /\ UNCHANGED <<hinted, m_current_values, m_current_hints>> /\ value' \in [Thread -> 0 .. MaxInt]
        /\ ~HasReservation(t) /\ ~HasReservation(t)'
        /\ \A u \in Thread \ {t} : pc'[u] = pc[u] /\ which'[u] = which[u] /\ value'[u] = value[u]
    BY <1>0, <1>2 DEF ReserveRefused, ReserveGiveUp, ReturnFalse, limitVars, HasReservation
  <2> QED BY <2>1, AccountsKept DEF HasReservation
<1>3. ASSUME NEW t \in Thread,
             \/ ReserveLock(t) \/ ReserveFits(t) \/ WaitSleep(t)
             \/ ReserveWait(t, 0) \/ WaitTerminating(t, 0) \/ WaitRelock(t, 0)
      PROVE AccountsOK'
  <2>1. /\ UNCHANGED <<hinted, m_current_values, m_current_hints, which, value>>
        /\ ~HasReservation(t) /\ ~HasReservation(t)'
        /\ \A u \in Thread \ {t} : pc'[u] = pc[u]
    BY <1>0, <1>3 DEF ReserveLock, ReserveFits, ReserveWait, WaitTerminating, WaitSleep, WaitRelock,
                        WaitReturns, limitVars, HasReservation
  <2> QED BY <1>0, <2>1, AccountsKept DEF HasReservation
<1>4. ASSUME UNCHANGED <<hinted, m_current_values, m_current_hints, which, value>>,
             NEW S \in SUBSET m_wait_list, pc' = Woken(S)
      PROVE AccountsOK'
  <2>1. \A u \in Thread : pc'[u] = "idle" <=> pc[u] = "idle"
    BY <1>4, WokenFacts
  <2> QED BY <1>0, <1>4, <2>1, AccountsKept DEF HasReservation
<1>5. ASSUME NEW t \in Thread, OnTimer(t) \/ RequestTerminate(t) PROVE AccountsOK'
  <2>1. UNCHANGED <<hinted, m_current_values, m_current_hints, which, value>>
    BY <1>5 DEF OnTimer, RequestTerminate, limitVars
  <2>2. CASE OnTimer(t)
    <3>1. {t} \in SUBSET m_wait_list /\ pc' = Woken({t})
      BY <2>2 DEF OnTimer, IInv, ThreadsOK
    <3> QED BY <1>4, <2>1, <3>1
  <2>3. CASE RequestTerminate(t)
    <3>1. {t} \cap m_wait_list \in SUBSET m_wait_list /\ pc' = Woken({t} \cap m_wait_list)
      BY <2>3 DEF RequestTerminate
    <3> QED BY <1>4, <2>1, <3>1
  <2> QED BY <1>5, <2>2, <2>3
<1>6. ASSUME UNCHANGED <<hinted, m_current_values, m_current_hints, which, value, pc>> PROVE AccountsOK'
  BY <1>0, <1>6, AccountsKept DEF HasReservation
<1>7. ASSUME NEW t \in Thread, TimePasses(t) PROVE AccountsOK'
  BY <1>6, <1>7 DEF TimePasses, limitVars
<1>8. ASSUME NEW t \in Thread, NEW r \in Resource, NEW v \in Limit, SetLimitValue(t, r, v) PROVE AccountsOK'
  BY <1>6, <1>8 DEF SetLimitValue
<1>9. ASSUME UNCHANGED vars PROVE AccountsOK'
  BY <1>6, <1>9 DEF vars, limitVars
<1>10. ASSUME NEW t \in Thread, ReserveAdd(t, 0) PROVE AccountsOK'
  BY <1>10, AccountsReserve
<1>11. ASSUME NEW t \in Thread, ReleaseHint(t, 0) \/ ReleaseValue(t, 0) PROVE AccountsOK'
  BY <1>11, AccountsReleaseHint, AccountsReleaseValue
<1> QED BY <1>1, <1>2, <1>3, <1>5, <1>7, <1>8, <1>9, <1>10, <1>11, Zenon DEF SafeStep

\* KResourceLimit's two accounts are, in every state, the sums of what threads
\* have reserved and of the hints not yet released, hints never exceed values,
\* values never the peak, and the peak never the limit: Reserve and both forms
\* of Release, across waits, timeouts and changed limits, until a termination
\* lets a thread pass m_lock.
THEOREM AccountsMatchHolds == Spec => []AccountsMatch
<1>1. ASSUME Init PROVE AccountsOK
  <2>1. /\ hinted \in [Thread -> BOOLEAN] /\ value \in [Thread -> 0 .. MaxInt] /\ value \in [Thread -> Nat]
        /\ \A t \in Thread : ~hinted[t]
    BY <1>1 DEF Init
  <2>2. ASSUME NEW r \in Resource PROVE Holders(r) = {} /\ Hinting(r) = {}
    BY <1>1 DEF Init, Holders, Hinting
  <2>3. SumOf(value, {}) = 0
    BY <2>1, SumOfFacts
  <2>4. \A r \in Resource : m_current_values[r] = 0 /\ m_current_hints[r] = 0
    BY <1>1 DEF Init
  <2> QED BY <2>1, <2>2, <2>3, <2>4 DEF AccountsOK
<1>2. (~lockBypassed => IInv /\ AccountsOK) /\ [Next]_vars => (~lockBypassed => AccountsOK)'
  BY BypassIsKept, StepsAreSafe, AccountsNext
<1>3. ASSUME ~lockBypassed => IInv /\ AccountsOK PROVE AccountsMatch
  <2> SUFFICES ASSUME ~lockBypassed PROVE AccountsMatch
    BY DEF AccountsMatch
  <2>0. IInv /\ AccountsOK
    BY <1>3
  <2>1. ASSUME NEW r \in Resource
        PROVE  /\ m_current_values[r] = SumOf(value, Holders(r))
               /\ m_current_hints[r] = SumOf(value, Hinting(r))
               /\ m_current_hints[r] <= m_current_values[r]
               /\ m_current_values[r] <= m_peak_values[r]
               /\ m_peak_values[r] <= m_limit_values[r]
    <3>1. Holders(r) \in SUBSET Thread /\ Hinting(r) \in SUBSET Holders(r) /\ value \in [Thread -> Nat]
      BY <2>0, HolderFacts DEF Hinting
    <3>2. SumOf(value, Hinting(r)) <= SumOf(value, Holders(r))
      BY <3>1, SumOfSubset
    <3> QED BY <2>0, <3>2 DEF AccountsOK, IInv, WithinLimit
  <2> QED BY <2>1 DEF AccountsMatch, SumOf, Hinting
<1> QED BY <1>1, <1>2, <1>3, Invariance, PTL DEF Spec
=============================================================================
