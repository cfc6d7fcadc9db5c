--------------------------- MODULE MCSourceRouting ---------------------------
(***************************************************************************)
(* A policy of two sources, one of which is also asked for by name, and a  *)
(* code that is asked for but is no source.                                *)
(***************************************************************************)
EXTENDS SourceRouting

CONSTANTS a, b, c

\* Both sources have a weight, or one has and nobody is the backup.
MCPolicy ==
  {[candidates |-> {a, b}, named |-> {a, b}, vacant |-> FALSE],
   [candidates |-> {a}, named |-> {a}, vacant |-> TRUE]}
=============================================================================
