----------------------------- MODULE CommandOnce -----------------------------
(***************************************************************************)
(* What commands are to do, sent any number of times and by any number of  *)
(* senders: under a key one request is worked on, once, to its end or      *)
(* until it is given up, and while it is at work it leaves the signature   *)
(* of its sender on controls it reaches, and nothing else.  No signature   *)
(* is ever withdrawn.                                                      *)
(***************************************************************************)
CONSTANTS
  Key,       \* idempotency keys
  Request,   \* what may be asked for, under one key or another
  Control,   \* what requests work on
  Reach(_),  \* the controls a request reaches
  Mark(_)    \* the signature it leaves

VARIABLES
  begun,       \* commands that were taken up, as <<key, request>>
  working,     \* those at work
  settled,     \* those worked on to their end
  signatures   \* [Control -> signatures]

state == <<begun, working, settled>>

Init ==
  /\ begun = {} /\ working = {} /\ settled = {}
  /\ signatures = [c \in Control |-> {}]

\* One more is taken up, under a key that none before it had.
Begin(command) ==
  /\ command \in Key \X Request
  /\ \A other \in begun : other[1] # command[1]
  /\ begun' = begun \cup {command}
  /\ working' = working \cup {command}
  /\ UNCHANGED <<settled, signatures>>

Sign(command, c) ==
  /\ signatures' = [signatures EXCEPT ![c] = @ \cup {Mark(command[2])}]
  /\ UNCHANGED state

Settle(command) ==
  /\ working' = working \ {command}
  /\ settled' = settled \cup {command}
  /\ UNCHANGED <<begun, signatures>>

Abandon(command) ==
  /\ working' = working \ {command}
  /\ UNCHANGED <<begun, settled, signatures>>

Next ==
  \/ \E command \in begun' \ begun : Begin(command)
  \/ \E command \in working :
       \/ \E c \in Reach(command[2]) : Sign(command, c)
       \/ Settle(command)
       \/ Abandon(command)

Spec == Init /\ [][Next]_<<state, signatures>>
=============================================================================
