----------------------------- MODULE MCKSession -----------------------------
(***************************************************************************)
(* KSession for TLC: two client threads, one asynchronous request and two  *)
(* server threads.                                                         *)
(***************************************************************************)
EXTENDS KSession
=============================================================================
