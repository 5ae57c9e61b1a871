---------------------------- MODULE MCKLightLock ----------------------------
(***************************************************************************)
(* Instances of KLightLock for TLC, and the ways its code could be wrong.  *)
(***************************************************************************)
EXTENDS KLightLock, TLC

\* Liveness is checked without symmetry.
Symmetry == Permutations(Thread)
=============================================================================
