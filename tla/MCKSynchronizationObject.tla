---------------------- MODULE MCKSynchronizationObject ----------------------
(***************************************************************************)
(* Instances of KSynchronizationObject for TLC.                            *)
(***************************************************************************)
EXTENDS KSynchronizationObject, TLC

Symmetry == Permutations(Thread) \cup Permutations(Object)
=============================================================================
