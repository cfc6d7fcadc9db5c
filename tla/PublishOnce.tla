----------------------------- MODULE PublishOnce -----------------------------
(***************************************************************************)
(* What readers of a dataset are promised about a load: it is published in *)
(* one step and whole, or it is withdrawn, or it stays invisible for ever. *)
(* Neither end is ever taken back.                                         *)
(***************************************************************************)
CONSTANT Load

VARIABLE state    \* [Load -> "pending", "published" or "withdrawn"]

Init == state = [v \in Load |-> "pending"]

Publish(v) ==
  /\ state[v] = "pending"
  /\ state' = [state EXCEPT ![v] = "published"]

Withdraw(v) ==
  /\ state[v] = "pending"
  /\ state' = [state EXCEPT ![v] = "withdrawn"]

Next == \E v \in Load : Publish(v) \/ Withdraw(v)

Spec == Init /\ [][Next]_state
=============================================================================
