---------------------------- MODULE MCNvHostCtrl ----------------------------
(***************************************************************************)
(* NvHostCtrl for TLC.                                                     *)
(***************************************************************************)
EXTENDS NvHostCtrl
=============================================================================
