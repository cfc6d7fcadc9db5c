----------------------------- MODULE LeaseService -----------------------------
(***************************************************************************)
(* What clients of a lock with a lease may rely on, each by what it was    *)
(* told itself: a resource is granted for its whole term, to one client at *)
(* a time until that term is over, and no term is cut short or prolonged.  *)
(***************************************************************************)
EXTENDS Naturals

CONSTANTS
  Client,
  Resource,
  Term,      \* [Resource -> time a grant lasts]
  None       \* no resource

VARIABLE grant   \* [Client -> what it was granted and the time left]

NoGrant == [on |-> None, left |-> 0]

Init == grant = [c \in Client |-> NoGrant]

\* A client whose term is over may not know it, and keeps its grant.
Grant(c, r) ==
  /\ grant[c] = NoGrant
  /\ \A d \in Client : grant[d].on = r => grant[d].left = 0
  /\ grant' = [grant EXCEPT ![c] = [on |-> r, left |-> Term[r]]]

GiveBack(c) == grant' = [grant EXCEPT ![c] = NoGrant]

Elapse ==
  grant' = [c \in Client |->
    [on |-> grant[c].on, left |-> IF grant[c].left = 0 THEN 0 ELSE grant[c].left - 1]]

Next ==
  \/ \E c \in Client : GiveBack(c) \/ \E r \in Resource : Grant(c, r)
  \/ Elapse

Spec == Init /\ [][Next]_grant
=============================================================================
