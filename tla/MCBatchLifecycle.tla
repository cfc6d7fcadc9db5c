-------------------------- MODULE MCBatchLifecycle ---------------------------
(***************************************************************************)
(* Small instances of BatchLifecycle for TLC.                              *)
(***************************************************************************)
EXTENDS BatchLifecycle
=============================================================================
