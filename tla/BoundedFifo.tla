---------------------------- MODULE BoundedFifo ----------------------------
(***************************************************************************)
(* What the bounded queues of common/bounded_threadsafe_queue.h promise:   *)
(* elements come out once each, in the order they went in, and no more     *)
(* than Capacity of them are inside.                                       *)
(***************************************************************************)
EXTENDS Naturals, Sequences

CONSTANTS
    Consumer,  \* the threads that take elements out
    Value,     \* the elements
    NoValue,   \* what a consumer has before it took anything
    Capacity   \* the size of the queue

VARIABLES
    queue,  \* the elements inside, oldest first
    out     \* the last element each consumer got

vars == <<queue, out>>

Init == queue = <<>> /\ out = [c \in Consumer |-> NoValue]

Put ==
    /\ Len(queue) < Capacity
    /\ \E v \in Value : queue' = Append(queue, v)
    /\ UNCHANGED out

Take(c) ==
    /\ queue # <<>>
    /\ out' = [out EXCEPT ![c] = Head(queue)]
    /\ queue' = Tail(queue)

Next == Put \/ \E c \in Consumer : Take(c)

Spec == Init /\ [][Next]_vars
=============================================================================
