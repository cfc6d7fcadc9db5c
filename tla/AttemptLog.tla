------------------------------ MODULE AttemptLog ------------------------------
(***************************************************************************)
(* What the attempts of automation actions are to be, whoever executes     *)
(* them: a log for each action that only grows at its end, by one entry    *)
(* for each of some actions at once, and that says "executed" no more      *)
(* often than the effect of the action was run before.                     *)
(***************************************************************************)
EXTENDS Naturals, Sequences, FiniteSets

CONSTANTS
  Action,
  Row,       \* what an entry may say
  Executed   \* the rows that say the effect was run

VARIABLES
  log,       \* [Action -> entries in their order]
  effects    \* [Action -> how often its effect was run]

Claims(entries) == Cardinality({n \in DOMAIN entries : entries[n] \in Executed})

Init ==
  /\ log = [a \in Action |-> <<>>]
  /\ effects = [a \in Action |-> 0]

RunEffect(a) ==
  /\ effects' = [effects EXCEPT ![a] = @ + 1]
  /\ UNCHANGED log

Record(S, rows) ==
  /\ log' = [a \in Action |-> IF a \in S THEN Append(log[a], rows[a]) ELSE log[a]]
  /\ \A a \in S : Claims(log'[a]) <= effects[a]
  /\ UNCHANGED effects

Next ==
  \/ \E a \in Action : RunEffect(a)
  \/ \E S \in SUBSET Action : \E rows \in [S -> Row] : Record(S, rows)

Spec == Init /\ [][Next]_<<log, effects>>
=============================================================================
