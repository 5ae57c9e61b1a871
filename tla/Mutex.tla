------------------------------- MODULE Mutex -------------------------------
(***************************************************************************)
(* What a kernel lock promises its users: at most one holder, and a thread *)
(* that blocked on the lock is never forgotten - as long as some thread is *)
(* blocked, the lock is held, and a release passes it on directly.         *)
(***************************************************************************)

CONSTANTS Thread,   \* the threads that use the lock
          NoThread  \* "the lock is free"

VARIABLES holder,   \* the thread that owns the lock, or NoThread
          blocked   \* the threads that sleep until the lock is handed to them

vars == <<holder, blocked>>

Init == holder = NoThread /\ blocked = {}

\* A free lock is taken.
Acquire(t) ==
    /\ holder = NoThread
    /\ t \notin blocked
    /\ holder' = t
    /\ UNCHANGED blocked

\* A thread that finds the lock held goes to sleep on it.
Block(t) ==
    /\ holder \notin {NoThread, t}
    /\ t \notin blocked
    /\ blocked' = blocked \cup {t}
    /\ UNCHANGED holder

\* The holder gives the lock up: to a sleeper when there is one.
Release(t) ==
    /\ holder = t
    /\ \/ /\ blocked = {}
          /\ holder' = NoThread
          /\ UNCHANGED blocked
       \/ \E n \in blocked : holder' = n /\ blocked' = blocked \ {n}

Next == \E t \in Thread : Acquire(t) \/ Block(t) \/ Release(t)

Spec == Init /\ [][Next]_vars
=============================================================================
