---------------------------- MODULE MCMuScheduler ----------------------------
(***************************************************************************)
(* Small instances of MuScheduler for TLC.                                 *)
(***************************************************************************)
EXTENDS MuScheduler, TLC

CONSTANTS s1, s2, k1, k2

\* Every schedule runs every 2 units, retries after 1 and is locked for 2.
MCFrequency == [k \in Schedule |-> 2]
MCRetryBackoff == [k \in Schedule |-> 1]
MCLockTimeout == [k \in Schedule |-> 2]

\* Schedulers are interchangeable where no property names one.
Symmetry == Permutations(Scheduler)
=============================================================================
