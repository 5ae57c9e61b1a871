-------------------------- MODULE SyncpointManager --------------------------
(***************************************************************************)
(* host1x's SyncpointManager (syncpoint_manager.cpp): a counter that GPU   *)
(* threads increment, actions that run when it reaches a value, and waits  *)
(* for a value.  The counter is atomic and outside of guard, the mutex of  *)
(* the list of actions.  One host syncpoint is modelled; the others, and   *)
(* the guest ones, are the same code over other elements of the arrays.    *)
(*                                                                         *)
(* What an action does is left to the module that registers it: a thread   *)
(* at "run" runs the action of slot[t] and comes to "ran" when it is done. *)
(***************************************************************************)
EXTENDS Naturals, Sequences, SequencesExt

CONSTANTS
    Incrementer,    \* threads that increment the syncpoint
    Client,         \* threads that register actions and wait
    Slot,           \* what the registered actions are for
    None,           \* no thread, no action
    MaxValue        \* bound on the syncpoint, below 2^32

Thread == Incrementer \cup Client

ASSUME ThreadAssumption == Incrementer \cap Client = {} /\ None \notin Thread

VARIABLES
    syncpoint,          \* syncpoints_host[id]
    action_storage,     \* host_action_storage[id]
    guard,              \* the thread that holds the mutex across steps
    pc,                 \* what each thread is doing
    slot,               \* whose action a thread runs or registers
    value               \* a client's expected_value, an incrementer's new_value

managerVars == <<syncpoint, action_storage, guard>>

ManagerInit ==
    /\ syncpoint = 0
    /\ action_storage = << >>
    /\ guard = None
    /\ pc = [t \in Thread |-> "idle"]
    /\ slot = [t \in Thread |-> None]
    /\ value = [t \in Thread |-> 0]

Move(t, next) == [pc EXCEPT ![t] = next]

-----------------------------------------------------------------------------
(* RegisterAction *)

\* The load before the lock: the action may run at once, without it.
RegisterLoad(t) ==
    /\ pc[t] = "register"
    /\ pc' = Move(t, IF syncpoint >= value[t] THEN "run" ELSE "register_guard")
    /\ UNCHANGED <<managerVars, slot, value>>

\* The load under the lock.
ReachedUnderGuardUnchecked(t) == FALSE
ReachedUnderGuard(t) == syncpoint >= value[t]

RegisterRun(t) ==
    /\ pc[t] = "register_guard"
    /\ guard = None
    /\ ReachedUnderGuard(t)
    /\ guard' = t
    /\ pc' = Move(t, "run")
    /\ UNCHANGED <<syncpoint, action_storage, slot, value>>

ActionOf(t) == [expected_value |-> value[t], slot |-> slot[t]]

\* The new action goes before the first with a value that is not smaller.
Emplaced(action) ==
    LET place == CHOOSE i \in 1 .. Len(action_storage) + 1 :
                    /\ \A j \in 1 .. i - 1 : action_storage[j].expected_value < action.expected_value
                    /\ i <= Len(action_storage) =>
                            action_storage[i].expected_value >= action.expected_value
    IN  InsertAt(action_storage, place, action)

RegisterStore(t) ==
    /\ pc[t] = "register_guard"
    /\ guard = None
    /\ ~ReachedUnderGuard(t)
    /\ action_storage' = Emplaced(ActionOf(t))
    /\ pc' = Move(t, "stored")
    /\ UNCHANGED <<syncpoint, guard, slot, value>>

GuardAfterRun(t) == IF guard = t THEN None ELSE guard

\* The action ran in RegisterAction itself.
RegisterRan(t) ==
    /\ pc[t] = "ran"
    /\ t \in Client
    /\ guard' = GuardAfterRun(t)
    /\ pc' = Move(t, "ran_now")
    /\ UNCHANGED <<syncpoint, action_storage, slot, value>>

\* DeregisterAction, with the lock free: the action is erased if it is still there.
DeregisteredByValue(action) ==
    SelectSeq(action_storage, LAMBDA a : a.expected_value # action.expected_value)
Deregistered(action) == RemoveFirst(action_storage, action)

-----------------------------------------------------------------------------
(* Increment *)

IncrementFetchAdd(t) ==
    /\ pc[t] = "idle"
    /\ syncpoint < MaxValue
    /\ syncpoint' = syncpoint + 1
    /\ value' = [value EXCEPT ![t] = syncpoint']
    /\ pc' = Move(t, "increment_guard")
    /\ UNCHANGED <<action_storage, guard, slot>>

IncrementGuard(t) ==
    /\ pc[t] = "increment_guard"
    /\ guard = None
    /\ guard' = t
    /\ pc' = Move(t, "increment_loop")
    /\ UNCHANGED <<syncpoint, action_storage, slot, value>>

\* The loop goes on as long as the first action is due.
FirstIsDue(t) == action_storage # << >> /\ Head(action_storage).expected_value <= value[t]

IncrementRun(t) ==
    /\ pc[t] = "increment_loop"
    /\ FirstIsDue(t)
    /\ slot' = [slot EXCEPT ![t] = Head(action_storage).slot]
    /\ pc' = Move(t, "run")
    /\ UNCHANGED <<managerVars, value>>

IncrementErase(t) ==
    /\ pc[t] = "ran"
    /\ t \in Incrementer
    /\ action_storage' = Tail(action_storage)
    /\ slot' = [slot EXCEPT ![t] = None]
    /\ pc' = Move(t, "increment_loop")
    /\ UNCHANGED <<syncpoint, guard, value>>

\* notify_all: the sleepers have to take the lock again.
NotifyAll(pcs) == [u \in Thread |-> IF pcs[u] = "cv_wait" THEN "wait_guard" ELSE pcs[u]]

IncrementEnd(t) ==
    /\ pc[t] = "increment_loop"
    /\ ~FirstIsDue(t)
    /\ guard' = None
    /\ pc' = NotifyAll(Move(t, "idle"))
    /\ value' = [value EXCEPT ![t] = 0]
    /\ UNCHANGED <<syncpoint, action_storage, slot>>

-----------------------------------------------------------------------------
(* Wait *)

WaitLoad(t) ==
    /\ pc[t] = "wait"
    /\ pc' = Move(t, IF syncpoint >= value[t] THEN "waited" ELSE "wait_guard")
    /\ UNCHANGED <<managerVars, slot, value>>

WaitGuard(t) ==
    /\ pc[t] = "wait_guard"
    /\ guard = None
    /\ pc' = Move(t, IF syncpoint >= value[t] THEN "waited" ELSE "cv_wait")
    /\ UNCHANGED <<managerVars, slot, value>>

\* The condition variable may wake a sleeper by itself.
SpuriousWakeup(t) ==
    /\ pc[t] = "cv_wait"
    /\ pc' = Move(t, "wait_guard")
    /\ UNCHANGED <<managerVars, slot, value>>

-----------------------------------------------------------------------------
IncrementStep(t) ==
    \/ IncrementGuard(t)
    \/ IncrementRun(t)
    \/ IncrementErase(t)
    \/ IncrementEnd(t)

ClientStep(t) ==
    \/ RegisterLoad(t)
    \/ RegisterRun(t)
    \/ RegisterStore(t)
    \/ RegisterRan(t)
    \/ WaitLoad(t)
    \/ WaitGuard(t)

-----------------------------------------------------------------------------
\* The thread has made the counter reach v and has not finished with the
\* actions yet.
Incrementing(t, v) ==
    /\ t \in Incrementer
    /\ pc[t] # "idle"
    /\ value[t] >= v

\* Nothing is left behind by an increment: an action whose value is reached,
\* and a sleeper that waits for it, still have a thread to come that runs or
\* wakes them.
NothingOverdue ==
    /\ \A i \in DOMAIN action_storage :
        action_storage[i].expected_value <= syncpoint =>
            \E t \in Incrementer : Incrementing(t, action_storage[i].expected_value)
    /\ \A c \in Client : pc[c] = "cv_wait" /\ value[c] <= syncpoint =>
            \E t \in Incrementer : Incrementing(t, value[c])
=============================================================================
