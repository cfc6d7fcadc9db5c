--------------------------- MODULE MCRouteApproval ---------------------------
(***************************************************************************)
(* A small instance of RouteApproval for TLC: a control c1 that one batch  *)
(* alone leads to, and c2 that the batch and the command API lead to.      *)
(* A callback and a command bring the same key, the others bring none.     *)
(***************************************************************************)
EXTENDS RouteApproval, TLC

CONSTANTS c1, c2, s1, s2, batch, single, k1

MCCovers == batch :> {c1, c2} @@ single :> {c2}

Request(entry, selector, decision, signer, required, given) ==
  [entry |-> entry, selector |-> selector, decision |-> decision,
   signer |-> signer, required |-> required, given |-> given]

MCMessage ==
  {Request("callback", batch, "approved", s1, 2, Nobody),
   Request("callback", batch, "approved", s2, 2, k1),
   Request("callback", batch, "rejected", s1, 1, Nobody),
   Request("command", single, "approved", s1, 1, k1),
   Request("command", single, "hold", s2, 1, Nobody)}

Symmetry == Permutations(Process)
=============================================================================
