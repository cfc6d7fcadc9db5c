--------------------------- MODULE MCOmegaExecution ---------------------------
(***************************************************************************)
(* A small instance of OmegaExecution for TLC.                             *)
(***************************************************************************)
EXTENDS OmegaExecution
=============================================================================
