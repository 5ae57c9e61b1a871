----------------------- MODULE MCKConditionVariable -----------------------
(***************************************************************************)
(* Instances of KConditionVariable for TLC.                                *)
(***************************************************************************)
EXTENDS KConditionVariable

CONSTANTS t1, t2, t3

\* Different base priorities, all below the terminating one.
ThreeBasePriorities == [t \in Thread |-> CASE t = t1 -> 5 [] t = t2 -> 4 [] OTHER -> 3]
=============================================================================
