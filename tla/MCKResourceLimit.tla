-------------------------- MODULE MCKResourceLimit --------------------------
(***************************************************************************)
(* KResourceLimit for TLC: small numbers, so that sums wrap around.        *)
(***************************************************************************)
EXTENDS KResourceLimit
=============================================================================
