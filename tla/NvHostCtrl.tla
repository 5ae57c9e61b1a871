----------------------------- MODULE NvHostCtrl -----------------------------
(***************************************************************************)
(* The events of nvhost_ctrl (nvhost_ctrl.cpp) on top of host1x's          *)
(* SyncpointManager.  The guest registers events, has one signaled when a  *)
(* syncpoint reaches a value, cancels that wait, and unregisters events;   *)
(* the GPU threads run the actions that signal them.                       *)
(*                                                                         *)
(* events_mutex serialises the calls of the guest.  The actions do not     *)
(* take it: they and the calls meet in the atomic status of an event.  The *)
(* kernel event of a slot is there when the slot is registered; of its     *)
(* signals the model keeps whether the guest still waits for one.  The     *)
(* guest only clears events it has registered, and waits for values it has *)
(* submitted work for.                                                     *)
(***************************************************************************)
EXTENDS SyncpointManager, FiniteSets

CONSTANTS
    Modulus,            \* the range of a u32; larger than MaxValue
    FailLimit,          \* the fails above which a wait stalls: 2 in the code
    InterfaceManaged    \* whether counter_max is left to the interface

ASSUME ModulusAssumption == Modulus \in Nat /\ MaxValue \in Nat /\ Modulus > 2 * MaxValue

ASSUME FailLimitAssumption == FailLimit \in Nat

\* The slots are the indexes of the array of events.
ASSUME SlotAssumption == /\ IsFiniteSet(Slot) /\ Slot # {}
                         /\ Slot = 0 .. Cardinality(Slot) - 1
                         /\ None \notin Slot \cup [expected_value : Nat, slot : Slot]

VARIABLES
    status, registered, fails, wait_handle,     \* the members of events[slot]
    assigned,       \* whether assigned_syncpt is this syncpoint
    awaited,        \* the value the guest waits for with the slot's kernel event, if any
    events_mutex,   \* the thread that holds it
    counter_min,    \* nvdrv's copy of the syncpoint
    counter_max     \* what the submitted work will make of it

eventVars == <<status, registered, fails, wait_handle, assigned, awaited>>

counterVars == <<counter_min, counter_max>>

\* What awaited is when the guest waits for nothing, and when the wait is lost.
Nothing == 0

Overtaken == -1

vars == <<managerVars, pc, slot, value, eventVars, events_mutex, counterVars>>

Init ==
    /\ ManagerInit
    /\ status = [s \in Slot |-> "Available"]
    /\ registered = [s \in Slot |-> FALSE]
    /\ fails = [s \in Slot |-> 0]
    /\ wait_handle = [s \in Slot |-> None]
    /\ assigned = [s \in Slot |-> FALSE]
    /\ awaited = [s \in Slot |-> Nothing]
    /\ events_mutex = None
    /\ counter_min = 0
    /\ counter_max = 0

-----------------------------------------------------------------------------
\* HasSyncpointExpired, with unsigned differences.
HasSyncpointExpired(min, threshold) ==
    LET minus(a) == (a + Modulus - threshold) % Modulus
    IN  IF InterfaceManaged THEN minus(min) < Modulus \div 2
        ELSE minus(counter_max) >= minus(min)

\* IsBeingUsed()
IsBeingUsed(s) == status[s] \in {"Waiting", "Cancelling", "Signalling"}

\* FindFreeNvEvent: a registered event of this syncpoint, the first free slot,
\* the last registered event, or slot 0 after all.
Usable == {s \in Slot : registered[s] /\ ~IsBeingUsed(s)}

Smallest(S) == CHOOSE s \in S : \A r \in S : s <= r

Largest(S) == CHOOSE s \in S : \A r \in S : s >= r

FindFreeNvEvent ==
    LET known == {s \in Usable : assigned[s]}
        free == {s \in Slot : ~registered[s]}
    IN  CASE known # {} -> Smallest(known)
          [] known = {} /\ free # {} -> Smallest(free)
          [] known = {} /\ free = {} /\ Usable # {} -> Largest(Usable)
          [] OTHER -> Smallest(Slot)

\* CreateNvEvent
CreateNvEvent(s) ==
    /\ status' = [status EXCEPT ![s] = "Available"]
    /\ registered' = [registered EXCEPT ![s] = TRUE]
    /\ fails' = [fails EXCEPT ![s] = 0]
    /\ assigned' = [assigned EXCEPT ![s] = FALSE]
    /\ awaited' = [awaited EXCEPT ![s] = Nothing]

\* FreeNvEvent
FreeNvEvent(s) ==
    /\ status' = [status EXCEPT ![s] = "Available"]
    /\ registered' = [registered EXCEPT ![s] = FALSE]
    /\ awaited' = [awaited EXCEPT ![s] = Nothing]

-----------------------------------------------------------------------------
(* The action that IocCtrlEventWait registers *)

ActionExchange(t) ==
    /\ pc[t] = "run"
    /\ pc' = Move(t, IF status[slot[t]] = "Waiting" THEN "run_signal" ELSE "run_store")
    /\ status' = [status EXCEPT ![slot[t]] = "Signalling"]
    /\ UNCHANGED <<managerVars, slot, value, registered, fails, wait_handle, assigned,
                   awaited, events_mutex, counterVars>>

\* The kernel event is signaled.  A guest whose value is not reached yet, as
\* the signal is late and for an earlier wait, has to wait on.
ActionSignal(t) ==
    /\ pc[t] = "run_signal"
    /\ awaited' = [awaited EXCEPT ![slot[t]] = IF @ <= syncpoint THEN Nothing ELSE @]
    /\ pc' = Move(t, "run_store")
    /\ UNCHANGED <<managerVars, slot, value, status, registered, fails, wait_handle, assigned,
                   events_mutex, counterVars>>

\* The store of an action that is late overtakes the wait that has begun
\* meanwhile: its own action will not find Waiting, and will not signal.
ActionStore(t) ==
    /\ pc[t] = "run_store"
    /\ awaited' = [awaited EXCEPT ![slot[t]] =
                    IF status[slot[t]] = "Waiting" THEN Overtaken ELSE @]
    /\ status' = [status EXCEPT ![slot[t]] = "Signalled"]
    /\ pc' = Move(t, "ran")
    /\ UNCHANGED <<managerVars, slot, value, registered, fails, wait_handle, assigned,
                   events_mutex, counterVars>>

-----------------------------------------------------------------------------
(* The guest submits work and the GPU threads do it *)

\* IncrementSyncpointMaxExt
Submit ==
    /\ counter_max < MaxValue
    /\ counter_max' = counter_max + 1
    /\ UNCHANGED <<managerVars, pc, slot, value, eventVars, events_mutex, counter_min>>

Increment(t) ==
    /\ syncpoint < counter_max
    /\ IncrementFetchAdd(t)
    /\ UNCHANGED <<eventVars, events_mutex, counterVars>>

-----------------------------------------------------------------------------
(* IocCtrlEventWait *)

\* Without the lock: the fence is signalled already, by the cached value or
\* by the present one.  A wait that names its event unmarks its failures.
EventWaitSignalled(c, v) ==
    /\ pc[c] = "idle"
    /\ v \in 1 .. counter_max
    /\ counter_min' = IF HasSyncpointExpired(counter_min, v) THEN counter_min ELSE syncpoint
    /\ HasSyncpointExpired(counter_min', v)
    /\ \/ UNCHANGED fails
       \/ \E s \in Slot : fails' = [fails EXCEPT ![s] = 0]
    /\ UNCHANGED <<managerVars, pc, slot, value, status, registered, wait_handle, assigned,
                   awaited, events_mutex, counter_max>>

\* It is not: take the lock next, for a given event or for a new one.
EventWait(c, s, v) ==
    /\ pc[c] = "idle"
    /\ v \in 1 .. counter_max
    /\ ~HasSyncpointExpired(counter_min, v)
    /\ counter_min' = syncpoint
    /\ ~HasSyncpointExpired(counter_min', v)
    /\ slot' = [slot EXCEPT ![c] = s]
    /\ value' = [value EXCEPT ![c] = v]
    /\ pc' = Move(c, "event_wait")
    /\ UNCHANGED <<managerVars, eventVars, events_mutex, counter_max>>

\* The call returns and gives the lock up.
Return(c) ==
    /\ pc' = Move(c, "idle")
    /\ slot' = [slot EXCEPT ![c] = None]
    /\ value' = [value EXCEPT ![c] = 0]
    /\ events_mutex' = None

\* The lock is taken and the event found, made if need be.
EventWaitLock(c) ==
    /\ pc[c] = "event_wait"
    /\ events_mutex = None
    /\ events_mutex' = c
    /\ IF slot[c] # None THEN UNCHANGED <<slot, eventVars>>
       ELSE LET s == FindFreeNvEvent IN
            /\ slot' = [slot EXCEPT ![c] = s]
            /\ IF registered[s] THEN UNCHANGED eventVars
               ELSE CreateNvEvent(s) /\ UNCHANGED wait_handle
    /\ pc' = Move(c, "event_check")
    /\ UNCHANGED <<managerVars, value, counterVars>>

\* check_failing() for the event c waits on.
Failing(c) == fails[slot[c]] > FailLimit

\* A timeout of 0, or an event that is not there or in use.
EventWaitReturn(c) ==
    /\ pc[c] = "event_check"
    /\ ~Failing(c) \/ ~registered[slot[c]] \/ IsBeingUsed(slot[c])
    /\ Return(c)
    /\ UNCHANGED <<managerVars, eventVars, counterVars>>

\* After too many cancelled waits the application is stalled until the value is
\* reached, with the lock held.
EventWaitStall(c) ==
    /\ pc[c] = "event_check"
    /\ Failing(c)
    /\ pc' = Move(c, "wait")
    /\ UNCHANGED <<managerVars, slot, value, eventVars, events_mutex, counterVars>>

EventWaitStalled(c) ==
    /\ pc[c] = "waited"
    /\ fails' = [fails EXCEPT ![slot[c]] = 0]
    /\ Return(c)
    /\ UNCHANGED <<managerVars, status, registered, wait_handle, assigned, awaited, counterVars>>

EventWaitCheck(c) ==
    /\ pc[c] = "event_check"
    /\ registered[slot[c]] /\ ~IsBeingUsed(slot[c])
    /\ ~Failing(c)
    /\ pc' = Move(c, "event_store")
    /\ UNCHANGED <<managerVars, slot, value, eventVars, events_mutex, counterVars>>

EventWaitRegister(c) ==
    LET s == slot[c] IN
    /\ pc[c] = "event_store"
    /\ status' = [status EXCEPT ![s] = "Waiting"]
    /\ assigned' = [assigned EXCEPT ![s] = TRUE]
    /\ awaited' = [awaited EXCEPT ![s] = value[c]]
    /\ pc' = Move(c, "register")
    /\ UNCHANGED <<managerVars, slot, value, registered, fails, wait_handle, events_mutex,
                   counterVars>>

\* RegisterHostAction has returned; the handle is empty if the action ran.
EventWaitRegistered(c) ==
    /\ pc[c] \in {"stored", "ran_now"}
    /\ wait_handle' = [wait_handle EXCEPT ![slot[c]] =
                        IF pc[c] = "stored" THEN ActionOf(c) ELSE None]
    /\ Return(c)
    /\ UNCHANGED <<managerVars, status, registered, fails, assigned, awaited, counterVars>>

-----------------------------------------------------------------------------
(* IocCtrlClearEventWait *)

ClearBegin(c, s) ==
    /\ pc[c] = "idle"
    /\ registered[s]
    /\ events_mutex = None
    /\ events_mutex' = c
    /\ slot' = [slot EXCEPT ![c] = s]
    /\ pc' = Move(c, IF status[s] = "Waiting" THEN "deregister" ELSE "clear")
    /\ status' = [status EXCEPT ![s] = "Cancelling"]
    /\ UNCHANGED <<managerVars, value, registered, fails, wait_handle, assigned, awaited,
                   counterVars>>

\* DeregisterHostAction, UpdateMin, and the handle is dropped.
DeregisterAction(c) ==
    /\ pc[c] = "deregister"
    /\ guard = None
    /\ action_storage' = Deregistered(wait_handle[slot[c]])
    /\ counter_min' = syncpoint
    /\ wait_handle' = [wait_handle EXCEPT ![slot[c]] = None]
    /\ pc' = Move(c, "clear")
    /\ UNCHANGED <<syncpoint, guard, slot, value, status, registered, fails, assigned, awaited,
                   events_mutex, counter_max>>

\* Failures are counted as far as check_failing tells them apart.
FailsAfterClear(n) == IF n > FailLimit THEN n ELSE n + 1

\* The guest has given the wait up, and the kernel event is cleared.
ClearStore(c) ==
    LET s == slot[c] IN
    /\ pc[c] = "clear"
    /\ fails' = [fails EXCEPT ![s] = FailsAfterClear(@)]
    /\ status' = [status EXCEPT ![s] = "Cancelled"]
    /\ awaited' = [awaited EXCEPT ![s] = Nothing]
    /\ Return(c)
    /\ UNCHANGED <<managerVars, registered, wait_handle, assigned, counterVars>>

-----------------------------------------------------------------------------
(* Registration *)

\* IocCtrlEventRegister of a slot without an event.
EventRegister(c, s) ==
    /\ pc[c] = "idle"
    /\ events_mutex = None
    /\ ~registered[s]
    /\ CreateNvEvent(s)
    /\ UNCHANGED <<managerVars, pc, slot, value, wait_handle, events_mutex, counterVars>>

\* FreeEvent, as long as it reads: an event in use is left alone.  What comes
\* next is "free" for IocCtrlEventUnregister and "create" for
\* IocCtrlEventRegister.  The batch is a row of such calls.
FreeEvent(c, s, next) ==
    /\ pc[c] = "idle"
    /\ events_mutex = None
    /\ registered[s] /\ ~IsBeingUsed(s)
    /\ events_mutex' = c
    /\ slot' = [slot EXCEPT ![c] = s]
    /\ pc' = Move(c, next)
    /\ UNCHANGED <<managerVars, value, eventVars, counterVars>>

EventUnregister(c) ==
    /\ pc[c] = "free"
    /\ FreeNvEvent(slot[c])
    /\ Return(c)
    /\ UNCHANGED <<managerVars, fails, wait_handle, assigned, counterVars>>

\* What was there is freed and made anew.
EventRegisterAgain(c) ==
    /\ pc[c] = "create"
    /\ CreateNvEvent(slot[c])
    /\ Return(c)
    /\ UNCHANGED <<managerVars, wait_handle, counterVars>>

-----------------------------------------------------------------------------
ActionStep(t) == ActionExchange(t) \/ ActionSignal(t) \/ ActionStore(t)

IncrementerStep(t) ==
    \/ ActionStep(t)
    \/ Increment(t)
    \/ IncrementStep(t) /\ UNCHANGED <<eventVars, events_mutex, counterVars>>

\* The rest of a call once it has its locks.
IoctlStep(c) ==
    \/ ActionStep(c)
    \/ ClientStep(c) /\ UNCHANGED <<eventVars, events_mutex, counterVars>>
    \/ EventWaitReturn(c)
    \/ EventWaitStall(c)
    \/ EventWaitStalled(c)
    \/ EventWaitCheck(c)
    \/ EventWaitRegister(c)
    \/ EventWaitRegistered(c)
    \/ DeregisterAction(c)
    \/ ClearStore(c)
    \/ EventUnregister(c)
    \/ EventRegisterAgain(c)

Ioctl(c) ==
    \/ \E v \in 1 .. MaxValue :
        \/ EventWaitSignalled(c, v)
        \/ \E s \in Slot \cup {None} : EventWait(c, s, v)
    \/ EventWaitLock(c)
    \/ \E s \in Slot :
        \/ ClearBegin(c, s)
        \/ EventRegister(c, s)
        \/ \E next \in {"free", "create"} : FreeEvent(c, s, next)
    \/ SpuriousWakeup(c) /\ UNCHANGED <<eventVars, events_mutex, counterVars>>

Next ==
    \/ Submit
    \/ \E t \in Incrementer : IncrementerStep(t)
    \/ \E c \in Client : IoctlStep(c) \/ Ioctl(c)

Spec == Init /\ [][Next]_vars

\* Submitted work gets done and calls that have the lock go on.  The guest
\* does not have to call, and the lock need not be fair.
FairSpec ==
    /\ Spec
    /\ \A t \in Incrementer : WF_vars(IncrementerStep(t))
    /\ \A c \in Client : WF_vars(IoctlStep(c))

-----------------------------------------------------------------------------
\* An event that waits has its action: stored, or with the thread that is
\* about to store or run it.
WaitingHasAction ==
    \A s \in Slot : status[s] = "Waiting" =>
        \/ \E i \in DOMAIN action_storage : action_storage[i].slot = s
        \/ \E t \in Thread : slot[t] = s /\ pc[t] \in {"register", "register_guard", "run"}

\* The application is stalled until the syncpoint reaches c's value.
Stalled(c) == pc[c] \in {"wait", "wait_guard", "cv_wait", "waited"}


\* A slot without an event is not in use: the assertion of CreateNvEvent.
FreeSlotIsIdle == \A s \in Slot : ~registered[s] => ~IsBeingUsed(s)
=============================================================================
