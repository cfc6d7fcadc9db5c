--------------------------- MODULE MCDailyPipeline ---------------------------
(***************************************************************************)
(* Small instances of DailyPipeline for TLC.                               *)
(***************************************************************************)
EXTENDS DailyPipeline, TLC

\* Runners are interchangeable where no property names one.
Symmetry == Permutations(Runner)
=============================================================================
