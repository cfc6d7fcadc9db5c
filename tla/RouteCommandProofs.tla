-------------------------- MODULE RouteCommandProofs --------------------------
(***************************************************************************)
(* Proof that RouteApproval implements CommandOnce: under a key a command  *)
(* is worked on at most once, and signs in its sender's name.              *)
(***************************************************************************)
EXTENDS RouteApprovalProofs

-----------------------------------------------------------------------------
(***************************************************************************)
(* What a step does to the command of the handler that takes it.           *)
(***************************************************************************)
Same(q) == pc'[q] = pc[q] /\ key'[q] = key[q] /\ msg'[q] = msg[q]
Rest == UNCHANGED <<commands, settled, signatures>>

Nothing == Rest /\ \A q \in Process : Same(q)

\* p has no command before nor after.
Outside(p) ==
  /\ Rest
  /\ ~Working(p) /\ ~Working(p)'

Onward(p) ==
  /\ Rest
  /\ Working(p) /\ Working(p)'
  /\ key'[p] = key[p] /\ msg'[p] = msg[p]

GiveUp(p) == Rest /\ Working(p) /\ pc'[p] = "idle"

\* A handler that leaves, or goes elsewhere, does so alone.
LEMMA LeavesAlone ==
  ASSUME TypeOK, NEW p \in Process, Leave(p)
  PROVE  pc'[p] = "idle" /\ \A q \in Process \ {p} : Same(q)
  BY DEF Leave, Goto, Same, TypeOK

LEMMA GoesAlone ==
  ASSUME TypeOK, NEW p \in Process, NEW point, Goto(p, point),
         UNCHANGED <<key, msg>>
  PROVE  pc'[p] = point /\ \A q \in Process \ {p} : Same(q)
  BY DEF Goto, Same, TypeOK

LEMMA Kinds ==
  ASSUME TypeOK, [Next]_vars
  PROVE  \/ Nothing
         \/ \E p \in Process :
              /\ \A q \in Process \ {p} : Same(q)
              /\ \/ Outside(p) \/ Onward(p) \/ GiveUp(p)
                 \/ InsertCommand(p) \/ RecordSignature(p)
                 \/ FinalizeCommand(p) /\ ~Working(p)'
<1> DEFINE Kind(p) ==
             /\ \A q \in Process \ {p} : Same(q)
             /\ \/ Outside(p) \/ Onward(p) \/ GiveUp(p)
                \/ InsertCommand(p) \/ RecordSignature(p)
                \/ FinalizeCommand(p) /\ ~Working(p)'
<1> USE DEF Working, Rest, rows, decisions
<1>1. ASSUME NEW p \in Process, ReceiveCallback(p) PROVE Kind(p)
  <2>1. PICK m \in Message : Arrive(p, m, "guard") /\ UNCHANGED key
    BY <1>1 DEF ReceiveCallback
  <2>2. QED
    BY <2>1 DEF Arrive, Goto, Same, Outside, TypeOK
<1>2. ASSUME NEW p \in Process, ReceiveCommand(p) PROVE Kind(p)
  <2>1. PICK m \in Message :
          /\ m.entry = "command" /\ Arrive(p, m, "lookup")
          /\ key' = [key EXCEPT ![p] = KeyOf(m, deliveries + 1)]
    BY <1>2 DEF ReceiveCommand
  <2>2. QED
    BY <2>1 DEF Arrive, Goto, Same, Outside, TypeOK
<1>3. ASSUME NEW p \in Process, StateGuard(p) PROVE Kind(p)
  BY <1>3, LeavesAlone, GoesAlone DEF StateGuard, Outside
<1>4. ASSUME NEW p \in Process, Govern(p) PROVE Kind(p)
  <2>1. CASE Leave(p)
    BY <1>4, <2>1, LeavesAlone, GoesAlone DEF Govern, Outside
  <2>2. CASE Goto(p, "record") /\ UNCHANGED <<key, msg>>
    BY <1>4, <2>2, LeavesAlone, GoesAlone DEF Govern, Outside
  <2>3. CASE /\ \E c \in Covers[msg[p].selector] :
                  key' = [key EXCEPT ![p] = KeyOf(msg[p], c)]
             /\ Goto(p, "lookup") /\ UNCHANGED msg
    <3>1. PICK c \in Covers[msg[p].selector] :
            key' = [key EXCEPT ![p] = KeyOf(msg[p], c)]
      BY <2>3
    <3>2. pc'[p] = "lookup"
      BY <2>3 DEF Goto, TypeOK
    <3>3. \A q \in Process \ {p} : Same(q)
      BY <2>3, <3>1 DEF Goto, Same, TypeOK
    <3>4. QED
      BY <1>4, <3>2, <3>3 DEF Govern, Outside
  <2>4. QED
    BY <1>4, <2>1, <2>2, <2>3 DEF Govern
<1>5. ASSUME NEW p \in Process, RecordCallback(p) PROVE Kind(p)
  BY <1>5, LeavesAlone, GoesAlone DEF RecordCallback, Outside
<1>6. ASSUME NEW p \in Process, LookUpKey(p) PROVE Kind(p)
  <2>1. CASE Leave(p)
    BY <1>6, <2>1, LeavesAlone, GoesAlone DEF LookUpKey, Outside
  <2>2. CASE Goto(p, "record") /\ UNCHANGED <<key, msg>>
    BY <1>6, <2>2, LeavesAlone, GoesAlone DEF LookUpKey, Outside
  <2>3. CASE Goto(p, "insert") /\ UNCHANGED <<key, msg>>
    BY <1>6, <2>3, LeavesAlone, GoesAlone DEF LookUpKey, Outside
  <2>4. QED
    BY <1>6, <2>1, <2>2, <2>3 DEF LookUpKey, EndCommand
<1>7. ASSUME NEW p \in Process, InsertCommand(p) PROVE Kind(p)
  BY <1>7, LeavesAlone, GoesAlone DEF InsertCommand
<1>8. ASSUME NEW p \in Process, KeyConflict(p) PROVE Kind(p)
  BY <1>8, LeavesAlone, GoesAlone DEF KeyConflict, Outside
<1>9. ASSUME NEW p \in Process, TakeItem(p) PROVE Kind(p)
  <2>1. PICK point \in {"count", "sign"} : Goto(p, point)
    BY <1>9 DEF TakeItem
  <2>2. QED
    BY <1>9, <2>1, LeavesAlone, GoesAlone DEF TakeItem, Onward
<1>10. ASSUME NEW p \in Process, RecordSignature(p) PROVE Kind(p)
  BY <1>10, LeavesAlone, GoesAlone DEF RecordSignature
<1>11. ASSUME NEW p \in Process, SignatureConflict(p) PROVE Kind(p)
  BY <1>11, LeavesAlone, GoesAlone DEF SignatureConflict, GiveUp
<1>12. ASSUME NEW p \in Process, CountSignatures(p) PROVE Kind(p)
  <2>1. PICK point \in {"decide", "items"} : Goto(p, point)
    BY <1>12 DEF CountSignatures, NextItem
  <2>2. QED
    BY <1>12, <2>1, LeavesAlone, GoesAlone DEF CountSignatures, Onward
<1>13. ASSUME NEW p \in Process, DecideApproval(p) PROVE Kind(p)
  BY <1>13, LeavesAlone, GoesAlone DEF DecideApproval, Onward
<1>14. ASSUME NEW p \in Process, MirrorDecision(p) PROVE Kind(p)
  BY <1>14, LeavesAlone, GoesAlone DEF MirrorDecision, NextItem, Onward
<1>15. ASSUME NEW p \in Process, FailItem(p) PROVE Kind(p)
  BY <1>15, LeavesAlone, GoesAlone DEF FailItem, NextItem, Onward
<1>16. ASSUME NEW p \in Process, FinalizeCommand(p) PROVE Kind(p)
  BY <1>16, LeavesAlone, GoesAlone DEF FinalizeCommand, EndCommand
<1>17. ASSUME NEW p \in Process, Crash(p) PROVE Kind(p)
  BY <1>17, LeavesAlone, GoesAlone DEF Crash, GiveUp, Outside
<1>18. ASSUME NEW c \in Control,
              \/ CancelApproval(c) \/ ReopenApproval(c) \/ RequestAgain(c)
              \/ AutoApprove(c) \/ UpsertControl(c) \/ DecideByHand(c)
       PROVE  Nothing
  BY <1>18 DEF CancelApproval, ReopenApproval, RequestAgain, AutoApprove,
               UpsertControl, DecideByHand, Nothing, Same, locals
<1>19. ASSUME NEW b \in Batch,
              \/ ReadQueue(b) \/ DecideQueued(b)
              \/ UpdateQueued(b) \/ FailQueued(b)
       PROVE  Nothing
  BY <1>19 DEF ReadQueue, DecideQueued, UpdateQueued, FailQueued, Nothing,
               Same, locals
<1>20. CASE UNCHANGED vars
  BY <1>20 DEF vars, Nothing, Same, locals
<1>21. QED
  <2>1. CASE \E p \in Process :
               \/ ReceiveCallback(p) \/ ReceiveCommand(p) \/ StateGuard(p)
               \/ Govern(p) \/ RecordCallback(p) \/ LookUpKey(p)
               \/ InsertCommand(p) \/ KeyConflict(p) \/ TakeItem(p)
               \/ RecordSignature(p) \/ SignatureConflict(p)
               \/ CountSignatures(p) \/ DecideApproval(p) \/ MirrorDecision(p)
               \/ FailItem(p) \/ FinalizeCommand(p) \/ Crash(p)
    <3>1. \E p \in Process : Kind(p)
      <4> HIDE DEF Kind
      <4>1. QED
        BY <1>1, <1>2, <1>3, <1>4, <1>5, <1>6, <1>7, <1>8, <1>9, <1>10, <1>11,
           <1>12, <1>13, <1>14, <1>15, <1>16, <1>17, <2>1
    <3>2. QED
      BY <3>1
  <2>2. QED
    BY <1>18, <1>19, <1>20, <2>1 DEF Next

-----------------------------------------------------------------------------
\* The commands at work, when one handler at most changes its own.
LEMMA AtWorkStep ==
  ASSUME OneWorkerPerCommand, NEW p \in Process,
         \A q \in Process \ {p} : Same(q)
  PROVE  /\ Working(p) /\ Working(p)' /\ RowOf(p)' = RowOf(p) =>
              AtWork' = AtWork
         /\ ~Working(p) /\ ~Working(p)' => AtWork' = AtWork
         /\ ~Working(p) /\ Working(p)' => AtWork' = AtWork \cup {RowOf(p)'}
         /\ Working(p) /\ ~Working(p)' => AtWork' = AtWork \ {RowOf(p)}
<1>1. \A q \in Process \ {p} : Working(q)' = Working(q) /\ RowOf(q)' = RowOf(q)
  BY DEF Same, Working, RowOf
<1>2. AtWork' = {RowOf(q)' : q \in {r \in Process : Working(r)'}}
  BY DEF AtWork
<1>3. ASSUME Working(p), NEW q \in Process \ {p}, Working(q)
      PROVE  RowOf(q) # RowOf(p)
  BY <1>3 DEF OneWorkerPerCommand, RowOf
<1>4. QED
  BY <1>1, <1>2, <1>3 DEF AtWork

\* Under a key one command is worked on once, and signs for its sender while
\* it is.
THEOREM CommandRefinement == Spec => CommandsRunOnce
<1>1. ASSUME Init PROVE Commands!Init
  BY <1>1 DEF Init, Commands!Init, AtWork, Working
<1>2. ASSUME Inv, [Next]_vars
      PROVE  [Commands!Next]_<<Commands!state, signatures>>
  <2> USE <1>2 DEF Inv
  <2>1. CASE Nothing
    <3>1. AtWork' = AtWork
      BY <2>1 DEF Nothing, Same, AtWork, Working, RowOf
    <3>2. QED
      BY <2>1, <3>1 DEF Nothing, Rest, Commands!state
  <2>2. ASSUME NEW p \in Process, \A q \in Process \ {p} : Same(q),
               \/ Outside(p) \/ Onward(p) \/ GiveUp(p)
               \/ InsertCommand(p) \/ RecordSignature(p)
               \/ FinalizeCommand(p) /\ ~Working(p)'
        PROVE  [Commands!Next]_<<Commands!state, signatures>>
    <3>1. CASE Outside(p) \/ Onward(p)
      <4>1. AtWork' = AtWork
        BY <2>2, <3>1, AtWorkStep DEF Outside, Onward, RowOf
      <4>2. QED
        BY <3>1, <4>1 DEF Outside, Onward, Rest, Commands!state
    <3>2. CASE GiveUp(p)
      <4>1. RowOf(p) \in AtWork /\ AtWork' = AtWork \ {RowOf(p)}
        BY <2>2, <3>2, AtWorkStep DEF GiveUp, AtWork, Working
      <4>2. Commands!Abandon(RowOf(p))
        BY <3>2, <4>1 DEF GiveUp, Rest, Commands!Abandon
      <4>3. QED
        BY <4>1, <4>2 DEF Commands!Next
    <3>3. CASE InsertCommand(p)
      <4>1. ~Working(p) /\ Working(p)' /\ RowOf(p)' = RowOf(p)
        BY <3>3 DEF InsertCommand, Goto, Working, RowOf, TypeOK
      <4>2. AtWork' = AtWork \cup {RowOf(p)}
        BY <2>2, <4>1, AtWorkStep
      <4>3. /\ RowOf(p) \in Key \X Message
            /\ \A other \in commands : other[1] # RowOf(p)[1]
        BY <3>3 DEF InsertCommand, Rows, RowOf, TypeOK
      <4>4. RowOf(p) \in commands' \ commands
        BY <3>3, <4>3 DEF InsertCommand
      <4>5. Commands!Begin(RowOf(p))
        BY <3>3, <4>2, <4>3 DEF InsertCommand, Commands!Begin
      <4>6. QED
        BY <4>4, <4>5 DEF Commands!Next
    <3>4. CASE RecordSignature(p)
      <4>1. Working(p) /\ Working(p)' /\ RowOf(p)' = RowOf(p)
        BY <3>4 DEF RecordSignature, Goto, Working, RowOf, TypeOK
      <4>2. AtWork' = AtWork /\ RowOf(p) \in AtWork
        BY <2>2, <4>1, AtWorkStep DEF AtWork
      <4>3. at[p] \in ReachOf(RowOf(p)[2])
        BY <3>4, <4>1 DEF RecordSignature, ItemsFound, RowOf, ReachOf
      <4>4. MarkOf(RowOf(p)[2]) = <<msg[p].decision, msg[p].signer>>
        BY DEF RowOf, MarkOf
      <4>5. Commands!Sign(RowOf(p), at[p])
        BY <3>4, <4>2, <4>4 DEF RecordSignature, Commands!Sign, Commands!state
      <4>6. QED
        BY <4>2, <4>3, <4>5 DEF Commands!Next
    <3>5. CASE FinalizeCommand(p) /\ ~Working(p)'
      <4>1. Working(p)
        BY <3>5 DEF FinalizeCommand, Working
      <4>2. RowOf(p) \in AtWork /\ AtWork' = AtWork \ {RowOf(p)}
        BY <2>2, <3>5, <4>1, AtWorkStep DEF AtWork
      <4>3. Commands!Settle(RowOf(p))
        BY <3>5, <4>2 DEF FinalizeCommand, Commands!Settle
      <4>4. QED
        BY <4>2, <4>3 DEF Commands!Next
    <3>6. QED
      BY <2>2, <3>1, <3>2, <3>3, <3>4, <3>5
  <2>3. QED
    BY <2>1, <2>2, Kinds
<1>3. QED
  BY <1>1, <1>2, Invariant, PTL DEF Spec, CommandsRunOnce, Commands!Spec
=============================================================================
