------------------------- MODULE MCKAddressArbiter -------------------------
(***************************************************************************)
(* Instances of KAddressArbiter for TLC.                                   *)
(***************************************************************************)
EXTENDS KAddressArbiter, TLC

Symmetry == Permutations(Thread)

\* The least and the greatest of four values.
EdgeValues == {-2, 1}
=============================================================================
