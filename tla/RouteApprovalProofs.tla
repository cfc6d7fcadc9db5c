------------------------- MODULE RouteApprovalProofs --------------------------
(***************************************************************************)
(* Proofs about RouteApproval, for any controls, signers, selectors,       *)
(* messages, keys, handlers and beta6 runs, and whatever the bounds on     *)
(* deliveries and disturbances are.                                        *)
(***************************************************************************)
EXTENDS RouteApproval, FiniteSetTheorems, TLAPS

\* A callback past its lock holds it.
LockHeld ==
  \A p \in Process :
    pc[p] # "idle" /\ msg[p].entry = "callback" => holder[msg[p].selector] = p

\* A command at work has its row.
RowInserted == \A p \in Process : Working(p) => RowOf(p) \in commands

\* What a command works on was found by its selector.
ItemsFound ==
  \A p \in Process :
    /\ Working(p) => todo[p] \subseteq Covers[msg[p].selector]
    /\ pc[p] \in {"sign", "count", "decide", "mirror"} => at[p] \in todo[p]

\* About to decide, a command has counted enough signers.
DeciderHasQuorum ==
  \A p \in Process :
    /\ pc[p] \in {"decide", "mirror"} => msg[p].decision \in Verdict
    /\ pc[p] = "decide" =>
         Cardinality(SignersOf(at[p], msg[p].decision)) >= Required(msg[p])

\* What a command has yet to do on a control behind one lock, none has done.
GuardedUndecided ==
  \A p \in Process : \A c \in Guarded :
    Working(p) /\ c \in todo[p] => c \notin mirrored

\* What a command wrote to a control is a decision.
MirroredDecided == \A c \in mirrored : control[c] \in Verdict

Inv ==
  /\ TypeOK
  /\ LockHeld
  /\ RowInserted
  /\ ItemsFound
  /\ DeciderHasQuorum
  /\ GuardedUndecided
  /\ MirroredDecided
  /\ OneWorkerPerCommand
  /\ DecidedByQuorum

\* The fields of a message, whatever record it is.
LEMMA MessageFacts ==
  \A m \in Message :
    /\ m.entry \in {"callback", "command"}
    /\ m.selector \in Selector
    /\ m.decision \in Decision
    /\ m.signer \in Signer
    /\ Required(m) \in Nat
  BY ApprovalAssumption DEF MessageType, Required

\* What an idle handler has in hand is of its type.
LEMMA Nothings == NoMsg \in Message /\ NoKey \in Key /\ NoControl \in Control
<1>1. \E m : m \in Message
  BY ApprovalAssumption
<1>2. \E c : c \in Control
  BY ApprovalAssumption
<1>3. \E k : k \in Key
  <2>1. PICK m : m \in Message
    BY <1>1
  <2>2. PICK c : c \in Control
    BY <1>2
  <2>3. <<m, c>> \in Key
    BY <2>1, <2>2 DEF Key
  <2>4. QED
    BY <2>3
<1>4. QED
  BY <1>1, <1>2, <1>3 DEF NoMsg, NoKey, NoControl

\* A key that a message brings, or that is made of it and a control or a
\* time, is one.
LEMMA KeyOfType ==
  ASSUME NEW m \in Message, NEW rest \in Control \cup 1 .. MaxRequests
  PROVE  KeyOf(m, rest) \in Key
<1>1. m.given \in GivenKey \cup {Nobody}
  BY ApprovalAssumption DEF MessageType
<1>2. QED
  BY <1>1 DEF KeyOf, Key

\* An item is what it says of its control and its decision.
LEMMA ItemFacts ==
  \A i \in Item : /\ i.control \in Control /\ i.decision \in Verdict
                  /\ i = [control |-> i.control, decision |-> i.decision]
  BY DEF Item

\* TypeOK in two halves: what a handler has in hand, and the rows.
LocalTypes ==
  /\ holder \in [Selector -> Process \cup {Nobody}]
  /\ pc \in [Process -> Point]
  /\ msg \in [Process -> Message]
  /\ key \in [Process -> Key]
  /\ todo \in [Process -> SUBSET Control]
  /\ at \in [Process -> Control]

RowTypes ==
  /\ approval \in [Control -> Status]
  /\ counted \subseteq Control
  /\ control \in [Control -> Status]
  /\ mirrored \subseteq Control
  /\ signatures \in [Control -> SUBSET (Decision \X Signer)]
  /\ commands \subseteq Row
  /\ settled \subseteq commands
  /\ callbacks \subseteq Message
  /\ rerun \in [Control -> {"none", "pending", "approved"}]
  /\ queue \in [Batch -> SUBSET Item]
  /\ applied \in [Batch -> SUBSET Item]
  /\ deliveries \in Nat /\ disturbances \in Nat

LEMMA TypeHalves == TypeOK <=> LocalTypes /\ RowTypes
  BY DEF TypeOK, LocalTypes, RowTypes

\* A handler that leaves, and one that goes to its next control, keep to the
\* types.
LEMMA LeaveTypes ==
  ASSUME LocalTypes, NEW p \in Process, Leave(p)
  PROVE  LocalTypes'
<1> USE Nothings DEF LocalTypes, Leave, Goto, Point
<1>1. pc' \in [Process -> Point] /\ msg' \in [Process -> Message]
  OBVIOUS
<1>2. key' \in [Process -> Key] /\ at' \in [Process -> Control]
  OBVIOUS
<1>3. todo' \in [Process -> SUBSET Control]
  OBVIOUS
<1>4. holder' \in [Selector -> Process \cup {Nobody}]
  OBVIOUS
<1>5. QED
  BY <1>1, <1>2, <1>3, <1>4

LEMMA NextItemTypes ==
  ASSUME LocalTypes, NEW p \in Process, NextItem(p),
         UNCHANGED <<holder, msg, key>>
  PROVE  LocalTypes'
  BY Nothings DEF LocalTypes, NextItem, Goto, Point

LEMMA GotoTypes ==
  ASSUME LocalTypes, NEW p \in Process, NEW point \in Point, Goto(p, point),
         UNCHANGED <<holder, msg, key, todo, at>>
  PROVE  LocalTypes'
  BY DEF LocalTypes, Goto

LEMMA EndCommandTypes ==
  ASSUME LocalTypes, NEW p \in Process, EndCommand(p)
  PROVE  LocalTypes'
<1>1. "record" \in Point
  BY DEF Point
<1>2. QED
  BY <1>1, LeaveTypes, GotoTypes DEF EndCommand

\* A step keeps every variable within its type.
LEMMA TypeStep == ASSUME Inv, [Next]_vars PROVE TypeOK'
<1> USE MessageFacts, Nothings, ApprovalAssumption, TypeHalves
       DEF Inv, Point, rows, decisions, locals, others, SetApproval, SetControl
<1>1. ASSUME NEW p \in Process, ReceiveCallback(p) PROVE TypeOK'
  BY <1>1 DEF ReceiveCallback, Arrive, Goto, TypeOK
<1>2. ASSUME NEW p \in Process, ReceiveCommand(p) PROVE TypeOK'
  <2>1. PICK m \in Message :
          /\ Arrive(p, m, "lookup")
          /\ key' = [key EXCEPT ![p] = KeyOf(m, deliveries + 1)]
          /\ UNCHANGED holder
    BY <1>2 DEF ReceiveCommand
  <2>2. deliveries + 1 \in 1 .. MaxRequests
    BY <2>1 DEF Arrive, TypeOK
  <2>3. KeyOf(m, deliveries + 1) \in Key
    BY <2>2, KeyOfType
  <2>4. QED
    BY <2>1, <2>3 DEF Arrive, Goto, TypeOK
<1>3. ASSUME NEW p \in Process, StateGuard(p) PROVE TypeOK'
  <2>7. LocalTypes'
    BY <1>3, LeaveTypes, GotoTypes DEF StateGuard
  <2>8. RowTypes'
    BY <1>3 DEF RowTypes, StateGuard
  <2>9. QED
    BY <2>7, <2>8 DEF TypeOK, LocalTypes, RowTypes
<1>4. ASSUME NEW p \in Process, Govern(p) PROVE TypeOK'
  <2>1. ASSUME Leave(p) PROVE LocalTypes'
    BY <2>1, LeaveTypes
  <2>2. ASSUME Goto(p, "record"), UNCHANGED <<holder, msg, key, todo, at>>
       PROVE  LocalTypes'
    BY <2>2, GotoTypes
  <2>3. ASSUME Goto(p, "lookup"), UNCHANGED <<holder, msg, todo, at>>,
               \E c \in Covers[msg[p].selector] :
                 key' = [key EXCEPT ![p] = KeyOf(msg[p], c)]
        PROVE  LocalTypes'
    BY <2>3, KeyOfType DEF LocalTypes, Goto
  <2>7. LocalTypes'
    BY <1>4, <2>1, <2>2, <2>3 DEF Govern
  <2>8. RowTypes'
    BY <1>4 DEF RowTypes, Govern
  <2>9. QED
    BY <2>7, <2>8 DEF TypeOK, LocalTypes, RowTypes
<1>5. ASSUME NEW p \in Process, RecordCallback(p) PROVE TypeOK'
  <2>7. LocalTypes'
    BY <1>5, LeaveTypes DEF RecordCallback
  <2>8. RowTypes'
    BY <1>5 DEF RowTypes, RecordCallback, LocalTypes
  <2>9. QED
    BY <2>7, <2>8 DEF TypeOK, LocalTypes, RowTypes
<1>6. ASSUME NEW p \in Process, LookUpKey(p) PROVE TypeOK'
  <2>7. LocalTypes'
    BY <1>6, EndCommandTypes, GotoTypes DEF LookUpKey
  <2>8. RowTypes'
    BY <1>6 DEF RowTypes, LookUpKey
  <2>9. QED
    BY <2>7, <2>8 DEF TypeOK, LocalTypes, RowTypes
<1>7. ASSUME NEW p \in Process, InsertCommand(p) PROVE TypeOK'
  <2>1. RowOf(p) \in Row
    BY DEF RowOf, Row, TypeOK
  <2>2. QED
    BY <1>7, <2>1 DEF InsertCommand, Goto, TypeOK
<1>8. ASSUME NEW p \in Process, KeyConflict(p) PROVE TypeOK'
  <2>7. LocalTypes'
    BY <1>8, LeaveTypes DEF KeyConflict
  <2>8. RowTypes'
    BY <1>8 DEF RowTypes, KeyConflict
  <2>9. QED
    BY <2>7, <2>8 DEF TypeOK, LocalTypes, RowTypes
<1>9. ASSUME NEW p \in Process, TakeItem(p) PROVE TypeOK'
  BY <1>9 DEF TakeItem, Goto, TypeOK
<1>10. ASSUME NEW p \in Process, RecordSignature(p) PROVE TypeOK'
  BY <1>10 DEF RecordSignature, Goto, TypeOK
<1>11. ASSUME NEW p \in Process, SignatureConflict(p) PROVE TypeOK'
  <2>7. LocalTypes'
    BY <1>11, LeaveTypes DEF SignatureConflict
  <2>8. RowTypes'
    BY <1>11 DEF RowTypes, SignatureConflict
  <2>9. QED
    BY <2>7, <2>8 DEF TypeOK, LocalTypes, RowTypes
<1>12. ASSUME NEW p \in Process, CountSignatures(p) PROVE TypeOK'
  <2>7. LocalTypes'
    BY <1>12, NextItemTypes, GotoTypes DEF CountSignatures
  <2>8. RowTypes'
    BY <1>12 DEF RowTypes, CountSignatures
  <2>9. QED
    BY <2>7, <2>8 DEF TypeOK, LocalTypes, RowTypes
<1>13. ASSUME NEW p \in Process, DecideApproval(p) PROVE TypeOK'
  BY <1>13 DEF DecideApproval, Goto, TypeOK, DeciderHasQuorum, Status, Verdict
<1>14. ASSUME NEW p \in Process, MirrorDecision(p) PROVE TypeOK'
  <2>7. LocalTypes'
    BY <1>14, NextItemTypes DEF MirrorDecision
  <2>8. RowTypes'
    <3>1. msg[p].decision \in Status /\ at[p] \in Control
      BY <1>14 DEF MirrorDecision, DeciderHasQuorum, Status, TypeOK
    <3>2. QED
      BY <1>14, <3>1 DEF RowTypes, MirrorDecision
  <2>9. QED
    BY <2>7, <2>8 DEF TypeOK, LocalTypes, RowTypes
<1>15. ASSUME NEW p \in Process, FailItem(p) PROVE TypeOK'
  <2>7. LocalTypes'
    BY <1>15, NextItemTypes DEF FailItem
  <2>8. RowTypes'
    BY <1>15 DEF RowTypes, FailItem
  <2>9. QED
    BY <2>7, <2>8 DEF TypeOK, LocalTypes, RowTypes
<1>16. ASSUME NEW p \in Process, FinalizeCommand(p) PROVE TypeOK'
  <2>7. LocalTypes'
    BY <1>16, EndCommandTypes DEF FinalizeCommand
  <2>8. RowTypes'
    BY <1>16 DEF RowTypes, FinalizeCommand, RowInserted, Working
  <2>9. QED
    BY <2>7, <2>8 DEF TypeOK, LocalTypes, RowTypes
<1>17. ASSUME NEW p \in Process, Crash(p) PROVE TypeOK'
  <2>7. LocalTypes'
    BY <1>17, LeaveTypes DEF Crash
  <2>8. RowTypes'
    BY <1>17 DEF RowTypes, Crash, Disturb
  <2>9. QED
    BY <2>7, <2>8 DEF TypeOK, LocalTypes, RowTypes
<1>18. ASSUME NEW c \in Control, CancelApproval(c) PROVE TypeOK'
  <2>7. LocalTypes'
    BY <1>18 DEF LocalTypes, CancelApproval
  <2>8. RowTypes'
    BY <1>18 DEF RowTypes, CancelApproval, Disturb, Status, Verdict
  <2>9. QED
    BY <2>7, <2>8 DEF TypeOK, LocalTypes, RowTypes
<1>19. ASSUME NEW c \in Control, ReopenApproval(c) PROVE TypeOK'
  <2>7. LocalTypes'
    BY <1>19 DEF LocalTypes, ReopenApproval
  <2>8. RowTypes'
    BY <1>19 DEF RowTypes, ReopenApproval, Status, Verdict
  <2>9. QED
    BY <2>7, <2>8 DEF TypeOK, LocalTypes, RowTypes
<1>20. ASSUME NEW c \in Control, RequestAgain(c) PROVE TypeOK'
  <2>7. LocalTypes'
    BY <1>20 DEF LocalTypes, RequestAgain
  <2>8. RowTypes'
    BY <1>20 DEF RowTypes, RequestAgain, Disturb, Status
  <2>9. QED
    BY <2>7, <2>8 DEF TypeOK, LocalTypes, RowTypes
<1>21. ASSUME NEW c \in Control, AutoApprove(c) PROVE TypeOK'
  <2>7. LocalTypes'
    BY <1>21 DEF LocalTypes, AutoApprove
  <2>8. RowTypes'
    BY <1>21 DEF RowTypes, AutoApprove, Status, Verdict
  <2>9. QED
    BY <2>7, <2>8 DEF TypeOK, LocalTypes, RowTypes
<1>22. ASSUME NEW c \in Control, UpsertControl(c) PROVE TypeOK'
  <2>7. LocalTypes'
    BY <1>22 DEF LocalTypes, UpsertControl
  <2>8. RowTypes'
    BY <1>22 DEF RowTypes, UpsertControl, Status, Verdict
  <2>9. QED
    BY <2>7, <2>8 DEF TypeOK, LocalTypes, RowTypes
<1>23. ASSUME NEW c \in Control, DecideByHand(c) PROVE TypeOK'
  <2>7. LocalTypes'
    BY <1>23 DEF LocalTypes, DecideByHand
  <2>8. RowTypes'
    BY <1>23 DEF RowTypes, DecideByHand, Disturb, Status, Verdict
  <2>9. QED
    BY <2>7, <2>8 DEF TypeOK, LocalTypes, RowTypes
<1>24. ASSUME NEW b \in Batch, ReadQueue(b) PROVE TypeOK'
  <2>1. PICK decision \in Verdict, found \in SUBSET Control :
          queue' = [queue EXCEPT ![b] =
                      {[control |-> c, decision |-> decision] : c \in found}]
    BY <1>24 DEF ReadQueue
  <2>2. {[control |-> c, decision |-> decision] : c \in found} \subseteq Item
    BY DEF Item
  <2>7. LocalTypes'
    BY <1>24 DEF LocalTypes, ReadQueue
  <2>8. RowTypes'
    BY <1>24, <2>1, <2>2 DEF RowTypes, ReadQueue, Disturb
  <2>9. QED
    BY <2>7, <2>8 DEF TypeOK, LocalTypes, RowTypes
<1>25. ASSUME NEW b \in Batch, DecideQueued(b) \/ UpdateQueued(b)
       PROVE  TypeOK'
  <2>7. LocalTypes'
    BY <1>25 DEF LocalTypes, DecideQueued, UpdateQueued
  <2>8. RowTypes'
    <3>1. queue[b] \subseteq Item /\ applied[b] \subseteq Item
      BY DEF RowTypes
    <3>2. Verdict \subseteq Status
      BY DEF Status
    <3>3. CASE DecideQueued(b)
      BY <3>1, <3>2, <3>3, ItemFacts DEF RowTypes, DecideQueued
    <3>4. CASE UpdateQueued(b)
      BY <3>1, <3>2, <3>4, ItemFacts DEF RowTypes, UpdateQueued
    <3>5. QED
      BY <1>25, <3>3, <3>4
  <2>9. QED
    BY <2>7, <2>8 DEF TypeOK, LocalTypes, RowTypes
<1>26. ASSUME NEW b \in Batch, FailQueued(b) PROVE TypeOK'
  <2>7. LocalTypes'
    BY <1>26 DEF LocalTypes, FailQueued
  <2>8. RowTypes'
    BY <1>26 DEF RowTypes, FailQueued
  <2>9. QED
    BY <2>7, <2>8 DEF TypeOK, LocalTypes, RowTypes
<1>27. CASE UNCHANGED vars
  BY <1>27 DEF vars, TypeOK
<1>28. QED
  BY <1>1, <1>2, <1>3, <1>4, <1>5, <1>6, <1>7, <1>8, <1>9, <1>10,
     <1>11, <1>12, <1>13, <1>14, <1>15, <1>16, <1>17, <1>18, <1>19,
     <1>20, <1>21, <1>22, <1>23, <1>24, <1>25,
     <1>26, <1>27 DEF Next

\* A step keeps the lock with the callback that took it.
LEMMA LockStep == ASSUME Inv, [Next]_vars PROVE LockHeld'
<1> USE MessageFacts, Nothings, ApprovalAssumption
       DEF Inv, TypeOK, Point, Goto, rows, decisions, locals, others,
           SetApproval, SetControl, LockHeld
<1>1. ASSUME NEW p \in Process, ReceiveCallback(p) PROVE LockHeld'
  BY <1>1 DEF ReceiveCallback, Arrive
<1>2. ASSUME NEW p \in Process, ReceiveCommand(p) PROVE LockHeld'
  BY <1>2 DEF ReceiveCommand, Arrive
<1>3. ASSUME NEW p \in Process, StateGuard(p) PROVE LockHeld'
  BY <1>3 DEF StateGuard, Leave
<1>4. ASSUME NEW p \in Process, Govern(p) PROVE LockHeld'
  BY <1>4 DEF Govern, Leave
<1>5. ASSUME NEW p \in Process, RecordCallback(p) PROVE LockHeld'
  BY <1>5 DEF RecordCallback, Leave
<1>6. ASSUME NEW p \in Process, LookUpKey(p) PROVE LockHeld'
  BY <1>6 DEF LookUpKey, EndCommand, Leave
<1>7. ASSUME NEW p \in Process, InsertCommand(p) PROVE LockHeld'
  BY <1>7 DEF InsertCommand
<1>8. ASSUME NEW p \in Process, KeyConflict(p) PROVE LockHeld'
  BY <1>8 DEF KeyConflict, Leave
<1>9. ASSUME NEW p \in Process, TakeItem(p) PROVE LockHeld'
  BY <1>9 DEF TakeItem
<1>10. ASSUME NEW p \in Process, RecordSignature(p) PROVE LockHeld'
  BY <1>10 DEF RecordSignature
<1>11. ASSUME NEW p \in Process, SignatureConflict(p) PROVE LockHeld'
  BY <1>11 DEF SignatureConflict, Leave
<1>12. ASSUME NEW p \in Process, CountSignatures(p) PROVE LockHeld'
  BY <1>12 DEF CountSignatures, NextItem
<1>13. ASSUME NEW p \in Process, DecideApproval(p) PROVE LockHeld'
  BY <1>13 DEF DecideApproval
<1>14. ASSUME NEW p \in Process, MirrorDecision(p) PROVE LockHeld'
  BY <1>14 DEF MirrorDecision, NextItem
<1>15. ASSUME NEW p \in Process, FailItem(p) PROVE LockHeld'
  BY <1>15 DEF FailItem, NextItem
<1>16. ASSUME NEW p \in Process, FinalizeCommand(p) PROVE LockHeld'
  BY <1>16 DEF FinalizeCommand, EndCommand, Leave
<1>17. ASSUME NEW p \in Process, Crash(p) PROVE LockHeld'
  BY <1>17 DEF Crash, Leave, Disturb
<1>18. ASSUME NEW c \in Control, CancelApproval(c) PROVE LockHeld'
  BY <1>18 DEF CancelApproval, Disturb
<1>19. ASSUME NEW c \in Control, ReopenApproval(c) PROVE LockHeld'
  BY <1>19 DEF ReopenApproval
<1>20. ASSUME NEW c \in Control, RequestAgain(c) PROVE LockHeld'
  BY <1>20 DEF RequestAgain, Disturb
<1>21. ASSUME NEW c \in Control, AutoApprove(c) PROVE LockHeld'
  BY <1>21 DEF AutoApprove
<1>22. ASSUME NEW c \in Control, UpsertControl(c) PROVE LockHeld'
  BY <1>22 DEF UpsertControl
<1>23. ASSUME NEW c \in Control, DecideByHand(c) PROVE LockHeld'
  BY <1>23 DEF DecideByHand, Disturb
<1>24. ASSUME NEW b \in Batch, \/ ReadQueue(b) \/ DecideQueued(b)
                               \/ UpdateQueued(b) \/ FailQueued(b)
       PROVE  LockHeld'
  BY <1>24 DEF ReadQueue, DecideQueued, UpdateQueued, FailQueued, Disturb
<1>25. CASE UNCHANGED vars
  BY <1>25 DEF vars
<1>26. QED
  BY <1>1, <1>2, <1>3, <1>4, <1>5, <1>6, <1>7, <1>8, <1>9, <1>10,
     <1>11, <1>12, <1>13, <1>14, <1>15, <1>16, <1>17, <1>18, <1>19,
     <1>20, <1>21, <1>22, <1>23, <1>24, <1>25 DEF Next

\* A step keeps the row of a command at work.
LEMMA RowStep == ASSUME Inv, [Next]_vars PROVE RowInserted'
<1> USE MessageFacts, Nothings, ApprovalAssumption
       DEF Inv, TypeOK, Point, Goto, rows, decisions, locals, others,
           SetApproval, SetControl, RowInserted, RowOf, Working
<1>1. ASSUME NEW p \in Process, ReceiveCallback(p) PROVE RowInserted'
  BY <1>1 DEF ReceiveCallback, Arrive
<1>2. ASSUME NEW p \in Process, ReceiveCommand(p) PROVE RowInserted'
  BY <1>2 DEF ReceiveCommand, Arrive
<1>3. ASSUME NEW p \in Process, StateGuard(p) PROVE RowInserted'
  BY <1>3 DEF StateGuard, Leave
<1>4. ASSUME NEW p \in Process, Govern(p) PROVE RowInserted'
  BY <1>4 DEF Govern, Leave
<1>5. ASSUME NEW p \in Process, RecordCallback(p) PROVE RowInserted'
  BY <1>5 DEF RecordCallback, Leave
<1>6. ASSUME NEW p \in Process, LookUpKey(p) PROVE RowInserted'
  BY <1>6 DEF LookUpKey, EndCommand, Leave
<1>7. ASSUME NEW p \in Process, InsertCommand(p) PROVE RowInserted'
  BY <1>7 DEF InsertCommand
<1>8. ASSUME NEW p \in Process, KeyConflict(p) PROVE RowInserted'
  BY <1>8 DEF KeyConflict, Leave
<1>9. ASSUME NEW p \in Process, TakeItem(p) PROVE RowInserted'
  BY <1>9 DEF TakeItem
<1>10. ASSUME NEW p \in Process, RecordSignature(p) PROVE RowInserted'
  BY <1>10 DEF RecordSignature
<1>11. ASSUME NEW p \in Process, SignatureConflict(p) PROVE RowInserted'
  BY <1>11 DEF SignatureConflict, Leave
<1>12. ASSUME NEW p \in Process, CountSignatures(p) PROVE RowInserted'
  BY <1>12 DEF CountSignatures, NextItem
<1>13. ASSUME NEW p \in Process, DecideApproval(p) PROVE RowInserted'
  BY <1>13 DEF DecideApproval
<1>14. ASSUME NEW p \in Process, MirrorDecision(p) PROVE RowInserted'
  BY <1>14 DEF MirrorDecision, NextItem
<1>15. ASSUME NEW p \in Process, FailItem(p) PROVE RowInserted'
  BY <1>15 DEF FailItem, NextItem
<1>16. ASSUME NEW p \in Process, FinalizeCommand(p) PROVE RowInserted'
  BY <1>16 DEF FinalizeCommand, EndCommand, Leave
<1>17. ASSUME NEW p \in Process, Crash(p) PROVE RowInserted'
  BY <1>17 DEF Crash, Leave, Disturb
<1>18. ASSUME NEW c \in Control, CancelApproval(c) PROVE RowInserted'
  BY <1>18 DEF CancelApproval, Disturb
<1>19. ASSUME NEW c \in Control, ReopenApproval(c) PROVE RowInserted'
  BY <1>19 DEF ReopenApproval
<1>20. ASSUME NEW c \in Control, RequestAgain(c) PROVE RowInserted'
  BY <1>20 DEF RequestAgain, Disturb
<1>21. ASSUME NEW c \in Control, AutoApprove(c) PROVE RowInserted'
  BY <1>21 DEF AutoApprove
<1>22. ASSUME NEW c \in Control, UpsertControl(c) PROVE RowInserted'
  BY <1>22 DEF UpsertControl
<1>23. ASSUME NEW c \in Control, DecideByHand(c) PROVE RowInserted'
  BY <1>23 DEF DecideByHand, Disturb
<1>24. ASSUME NEW b \in Batch, \/ ReadQueue(b) \/ DecideQueued(b)
                               \/ UpdateQueued(b) \/ FailQueued(b)
       PROVE  RowInserted'
  BY <1>24 DEF ReadQueue, DecideQueued, UpdateQueued, FailQueued, Disturb
<1>25. CASE UNCHANGED vars
  BY <1>25 DEF vars
<1>26. QED
  BY <1>1, <1>2, <1>3, <1>4, <1>5, <1>6, <1>7, <1>8, <1>9, <1>10,
     <1>11, <1>12, <1>13, <1>14, <1>15, <1>16, <1>17, <1>18, <1>19,
     <1>20, <1>21, <1>22, <1>23, <1>24, <1>25 DEF Next

\* A step keeps a command to what its selector found.
LEMMA ItemsStep == ASSUME Inv, [Next]_vars PROVE ItemsFound'
<1> USE MessageFacts, Nothings, ApprovalAssumption
       DEF Inv, TypeOK, Point, Goto, rows, decisions, locals, others,
           SetApproval, SetControl, ItemsFound, Working
<1>1. ASSUME NEW p \in Process, ReceiveCallback(p) PROVE ItemsFound'
  BY <1>1 DEF ReceiveCallback, Arrive
<1>2. ASSUME NEW p \in Process, ReceiveCommand(p) PROVE ItemsFound'
  BY <1>2 DEF ReceiveCommand, Arrive
<1>3. ASSUME NEW p \in Process, StateGuard(p) PROVE ItemsFound'
  BY <1>3 DEF StateGuard, Leave
<1>4. ASSUME NEW p \in Process, Govern(p) PROVE ItemsFound'
  BY <1>4 DEF Govern, Leave
<1>5. ASSUME NEW p \in Process, RecordCallback(p) PROVE ItemsFound'
  BY <1>5 DEF RecordCallback, Leave
<1>6. ASSUME NEW p \in Process, LookUpKey(p) PROVE ItemsFound'
  BY <1>6 DEF LookUpKey, EndCommand, Leave
<1>7. ASSUME NEW p \in Process, InsertCommand(p) PROVE ItemsFound'
  BY <1>7 DEF InsertCommand
<1>8. ASSUME NEW p \in Process, KeyConflict(p) PROVE ItemsFound'
  BY <1>8 DEF KeyConflict, Leave
<1>9. ASSUME NEW p \in Process, TakeItem(p) PROVE ItemsFound'
  BY <1>9 DEF TakeItem
<1>10. ASSUME NEW p \in Process, RecordSignature(p) PROVE ItemsFound'
  BY <1>10 DEF RecordSignature
<1>11. ASSUME NEW p \in Process, SignatureConflict(p) PROVE ItemsFound'
  BY <1>11 DEF SignatureConflict, Leave
<1>12. ASSUME NEW p \in Process, CountSignatures(p) PROVE ItemsFound'
  BY <1>12 DEF CountSignatures, NextItem
<1>13. ASSUME NEW p \in Process, DecideApproval(p) PROVE ItemsFound'
  BY <1>13 DEF DecideApproval
<1>14. ASSUME NEW p \in Process, MirrorDecision(p) PROVE ItemsFound'
  BY <1>14 DEF MirrorDecision, NextItem
<1>15. ASSUME NEW p \in Process, FailItem(p) PROVE ItemsFound'
  BY <1>15 DEF FailItem, NextItem
<1>16. ASSUME NEW p \in Process, FinalizeCommand(p) PROVE ItemsFound'
  BY <1>16 DEF FinalizeCommand, EndCommand, Leave
<1>17. ASSUME NEW p \in Process, Crash(p) PROVE ItemsFound'
  BY <1>17 DEF Crash, Leave, Disturb
<1>18. ASSUME NEW c \in Control, CancelApproval(c) PROVE ItemsFound'
  BY <1>18 DEF CancelApproval, Disturb
<1>19. ASSUME NEW c \in Control, ReopenApproval(c) PROVE ItemsFound'
  BY <1>19 DEF ReopenApproval
<1>20. ASSUME NEW c \in Control, RequestAgain(c) PROVE ItemsFound'
  BY <1>20 DEF RequestAgain, Disturb
<1>21. ASSUME NEW c \in Control, AutoApprove(c) PROVE ItemsFound'
  BY <1>21 DEF AutoApprove
<1>22. ASSUME NEW c \in Control, UpsertControl(c) PROVE ItemsFound'
  BY <1>22 DEF UpsertControl
<1>23. ASSUME NEW c \in Control, DecideByHand(c) PROVE ItemsFound'
  BY <1>23 DEF DecideByHand, Disturb
<1>24. ASSUME NEW b \in Batch, \/ ReadQueue(b) \/ DecideQueued(b)
                               \/ UpdateQueued(b) \/ FailQueued(b)
       PROVE  ItemsFound'
  BY <1>24 DEF ReadQueue, DecideQueued, UpdateQueued, FailQueued, Disturb
<1>25. CASE UNCHANGED vars
  BY <1>25 DEF vars
<1>26. QED
  BY <1>1, <1>2, <1>3, <1>4, <1>5, <1>6, <1>7, <1>8, <1>9, <1>10,
     <1>11, <1>12, <1>13, <1>14, <1>15, <1>16, <1>17, <1>18, <1>19,
     <1>20, <1>21, <1>22, <1>23, <1>24, <1>25 DEF Next

\* OneWorkerPerCommand, said without the rows that are not settled.
Alone ==
  /\ \A p, q \in Process :
       Working(p) /\ Working(q) /\ key[p] = key[q] => p = q
  /\ \A p \in Process : Working(p) => \A r \in settled : r[1] # key[p]

LEMMA AloneMeans == ASSUME settled \subseteq commands
                    PROVE  OneWorkerPerCommand <=> Alone
  BY DEF OneWorkerPerCommand, Alone, Rows

\* A handler that stops working disturbs no other.
LEMMA StopsWorking ==
  ASSUME Alone, NEW p \in Process, ~Working(p)',
         \A q \in Process \ {p} : Working(q)' => Working(q) /\ key'[q] = key[q],
         settled' = settled
  PROVE  Alone'
  BY DEF Alone

\* Nor does one that goes on with its own key.
LEMMA KeepsWorking ==
  ASSUME Alone, \A q \in Process : Working(q)' => Working(q),
         UNCHANGED <<key, settled>>
  PROVE  Alone'
  BY DEF Alone

\* A step keeps every key with at most one handler.
LEMMA AloneStep == ASSUME Inv, Alone, [Next]_vars PROVE Alone'
<1> USE MessageFacts, Nothings, ApprovalAssumption
       DEF Inv, TypeOK, Point, Goto, rows, decisions, locals, others,
           SetApproval, SetControl, Working
<1>1. ASSUME NEW p \in Process, ReceiveCallback(p) PROVE Alone'
  BY <1>1 DEF ReceiveCallback, Alone, Arrive
<1>2. ASSUME NEW p \in Process, ReceiveCommand(p) PROVE Alone'
  BY <1>2 DEF ReceiveCommand, Alone, Arrive
<1>3. ASSUME NEW p \in Process, StateGuard(p) PROVE Alone'
  <2>1. ~Working(p)'
    BY <1>3 DEF StateGuard, Leave
  <2>2. \A q \in Process \ {p} : Working(q)' => Working(q) /\ key'[q] = key[q]
    BY <1>3 DEF StateGuard, Leave
  <2>3. QED
    BY <1>3, <2>1, <2>2, StopsWorking DEF StateGuard
<1>4. ASSUME NEW p \in Process, Govern(p) PROVE Alone'
  <2>1. ~Working(p)'
    BY <1>4 DEF Govern, Leave
  <2>2. \A q \in Process \ {p} : Working(q)' => Working(q) /\ key'[q] = key[q]
    BY <1>4 DEF Govern, Leave
  <2>3. QED
    BY <1>4, <2>1, <2>2, StopsWorking DEF Govern
<1>5. ASSUME NEW p \in Process, RecordCallback(p) PROVE Alone'
  <2>1. ~Working(p)'
    BY <1>5 DEF RecordCallback, Leave
  <2>2. \A q \in Process \ {p} : Working(q)' => Working(q) /\ key'[q] = key[q]
    BY <1>5 DEF RecordCallback, Leave
  <2>3. QED
    BY <1>5, <2>1, <2>2, StopsWorking DEF RecordCallback
<1>6. ASSUME NEW p \in Process, LookUpKey(p) PROVE Alone'
  <2>1. ~Working(p)'
    BY <1>6 DEF LookUpKey, EndCommand, Leave
  <2>2. \A q \in Process \ {p} : Working(q)' => Working(q) /\ key'[q] = key[q]
    BY <1>6 DEF LookUpKey, EndCommand, Leave
  <2>3. QED
    BY <1>6, <2>1, <2>2, StopsWorking DEF LookUpKey
<1>7. ASSUME NEW p \in Process, InsertCommand(p) PROVE Alone'
  <2>1. \A r \in commands : r[1] # key[p]
    BY <1>7 DEF InsertCommand, Rows
  <2>2. \A q \in Process : Working(q) => key[q] # key[p]
    BY <2>1 DEF RowInserted, RowOf
  <2>3. QED
    BY <1>7, <2>1, <2>2 DEF InsertCommand, Alone
<1>8. ASSUME NEW p \in Process, KeyConflict(p) PROVE Alone'
  <2>1. ~Working(p)'
    BY <1>8 DEF KeyConflict, Leave
  <2>2. \A q \in Process \ {p} : Working(q)' => Working(q) /\ key'[q] = key[q]
    BY <1>8 DEF KeyConflict, Leave
  <2>3. QED
    BY <1>8, <2>1, <2>2, StopsWorking DEF KeyConflict
<1>9. ASSUME NEW p \in Process, TakeItem(p) PROVE Alone'
  BY <1>9 DEF TakeItem, Alone
<1>10. ASSUME NEW p \in Process, RecordSignature(p) PROVE Alone'
  BY <1>10 DEF RecordSignature, Alone
<1>11. ASSUME NEW p \in Process, SignatureConflict(p) PROVE Alone'
  <2>1. ~Working(p)'
    BY <1>11 DEF SignatureConflict, Leave
  <2>2. \A q \in Process \ {p} : Working(q)' => Working(q) /\ key'[q] = key[q]
    BY <1>11 DEF SignatureConflict, Leave
  <2>3. QED
    BY <1>11, <2>1, <2>2, StopsWorking DEF SignatureConflict
<1>12. ASSUME NEW p \in Process, CountSignatures(p) PROVE Alone'
  <2>1. \A q \in Process : Working(q)' => Working(q)
    BY <1>12 DEF CountSignatures, NextItem
  <2>2. QED
    BY <1>12, <2>1, KeepsWorking DEF CountSignatures
<1>13. ASSUME NEW p \in Process, DecideApproval(p) PROVE Alone'
  BY <1>13 DEF DecideApproval, Alone
<1>14. ASSUME NEW p \in Process, MirrorDecision(p) PROVE Alone'
  BY <1>14 DEF MirrorDecision, Alone, NextItem
<1>15. ASSUME NEW p \in Process, FailItem(p) PROVE Alone'
  BY <1>15 DEF FailItem, Alone, NextItem
<1>16. ASSUME NEW p \in Process, FinalizeCommand(p) PROVE Alone'
  <2>1. ~Working(p)'
    BY <1>16 DEF FinalizeCommand, EndCommand, Leave
  <2>2. \A q \in Process \ {p} :
          Working(q)' => Working(q) /\ key'[q] = key[q] /\ key[q] # key[p]
    BY <1>16 DEF FinalizeCommand, EndCommand, Leave, Alone
  <2>3. settled' = settled \cup {RowOf(p)} /\ RowOf(p)[1] = key[p]
    BY <1>16 DEF FinalizeCommand, RowOf
  <2>4. ASSUME NEW q \in Process, NEW r \in Process, Working(q)', Working(r)',
               key'[q] = key'[r]
        PROVE  q = r
    BY <2>1, <2>2, <2>4 DEF Alone
  <2>5. ASSUME NEW q \in Process, Working(q)', NEW r \in settled'
        PROVE  r[1] # key'[q]
    BY <2>1, <2>2, <2>3, <2>5 DEF Alone
  <2>6. QED
    BY <2>4, <2>5 DEF Alone
<1>17. ASSUME NEW p \in Process, Crash(p) PROVE Alone'
  <2>1. ~Working(p)'
    BY <1>17 DEF Crash, Leave, Disturb
  <2>2. \A q \in Process \ {p} : Working(q)' => Working(q) /\ key'[q] = key[q]
    BY <1>17 DEF Crash, Leave, Disturb
  <2>3. QED
    BY <1>17, <2>1, <2>2, StopsWorking DEF Crash
<1>18. ASSUME NEW c \in Control, CancelApproval(c) PROVE Alone'
  BY <1>18 DEF CancelApproval, Alone, Disturb
<1>19. ASSUME NEW c \in Control, ReopenApproval(c) PROVE Alone'
  BY <1>19 DEF ReopenApproval, Alone
<1>20. ASSUME NEW c \in Control, RequestAgain(c) PROVE Alone'
  BY <1>20 DEF RequestAgain, Alone, Disturb
<1>21. ASSUME NEW c \in Control, AutoApprove(c) PROVE Alone'
  BY <1>21 DEF AutoApprove, Alone
<1>22. ASSUME NEW c \in Control, UpsertControl(c) PROVE Alone'
  BY <1>22 DEF UpsertControl, Alone
<1>23. ASSUME NEW c \in Control, DecideByHand(c) PROVE Alone'
  BY <1>23 DEF DecideByHand, Disturb, Alone
<1>24. ASSUME NEW b \in Batch, \/ ReadQueue(b) \/ DecideQueued(b)
                               \/ UpdateQueued(b) \/ FailQueued(b)
       PROVE  Alone'
  BY <1>24 DEF ReadQueue, DecideQueued, UpdateQueued, FailQueued, Disturb, Alone
<1>25. CASE UNCHANGED vars
  BY <1>25 DEF vars, Alone
<1>26. QED
  BY <1>1, <1>2, <1>3, <1>4, <1>5, <1>6, <1>7, <1>8, <1>9, <1>10,
     <1>11, <1>12, <1>13, <1>14, <1>15, <1>16, <1>17, <1>18, <1>19,
     <1>20, <1>21, <1>22, <1>23, <1>24, <1>25 DEF Next

LEMMA WorkerStep == ASSUME Inv, [Next]_vars PROVE OneWorkerPerCommand'
<1>1. Alone
  BY AloneMeans DEF Inv, TypeOK
<1>2. Alone'
  BY <1>1, AloneStep
<1>3. (settled \subseteq commands)'
  BY TypeStep DEF TypeOK
<1>4. QED
  BY <1>2, <1>3 DEF OneWorkerPerCommand, Alone, Rows

\* A step adds a signature to a control only where a command signs it.
LEMMA SignatureFrame ==
  ASSUME Inv, [Next]_vars, NEW c \in Control
  PROVE  \/ signatures'[c] = signatures[c]
         \/ /\ signatures[c] \subseteq signatures'[c]
            /\ \E q \in Process : pc[q] = "sign" /\ at[q] = c
<1> DEFINE Goal == \/ signatures'[c] = signatures[c]
                   \/ /\ signatures[c] \subseteq signatures'[c]
                      /\ \E q \in Process : pc[q] = "sign" /\ at[q] = c
<1> USE MessageFacts, Nothings, ApprovalAssumption
       DEF Inv, TypeOK, Point, Goto, rows, decisions, locals, others,
           SetApproval, SetControl
<1>1. ASSUME NEW p \in Process, ReceiveCallback(p) PROVE Goal
  BY <1>1 DEF ReceiveCallback, Arrive
<1>2. ASSUME NEW p \in Process, ReceiveCommand(p) PROVE Goal
  BY <1>2 DEF ReceiveCommand, Arrive
<1>3. ASSUME NEW p \in Process, StateGuard(p) PROVE Goal
  BY <1>3 DEF StateGuard, Leave
<1>4. ASSUME NEW p \in Process, Govern(p) PROVE Goal
  BY <1>4 DEF Govern, Leave
<1>5. ASSUME NEW p \in Process, RecordCallback(p) PROVE Goal
  BY <1>5 DEF RecordCallback, Leave
<1>6. ASSUME NEW p \in Process, LookUpKey(p) PROVE Goal
  BY <1>6 DEF LookUpKey, EndCommand, Leave
<1>7. ASSUME NEW p \in Process, InsertCommand(p) PROVE Goal
  BY <1>7 DEF InsertCommand
<1>8. ASSUME NEW p \in Process, KeyConflict(p) PROVE Goal
  BY <1>8 DEF KeyConflict, Leave
<1>9. ASSUME NEW p \in Process, TakeItem(p) PROVE Goal
  BY <1>9 DEF TakeItem
<1>10. ASSUME NEW p \in Process, RecordSignature(p) PROVE Goal
  BY <1>10 DEF RecordSignature
<1>11. ASSUME NEW p \in Process, SignatureConflict(p) PROVE Goal
  BY <1>11 DEF SignatureConflict, Leave
<1>12. ASSUME NEW p \in Process, CountSignatures(p) PROVE Goal
  BY <1>12 DEF CountSignatures, NextItem
<1>13. ASSUME NEW p \in Process, DecideApproval(p) PROVE Goal
  BY <1>13 DEF DecideApproval
<1>14. ASSUME NEW p \in Process, MirrorDecision(p) PROVE Goal
  BY <1>14 DEF MirrorDecision, NextItem
<1>15. ASSUME NEW p \in Process, FailItem(p) PROVE Goal
  BY <1>15 DEF FailItem, NextItem
<1>16. ASSUME NEW p \in Process, FinalizeCommand(p) PROVE Goal
  BY <1>16 DEF FinalizeCommand, EndCommand, Leave
<1>17. ASSUME NEW p \in Process, Crash(p) PROVE Goal
  BY <1>17 DEF Crash, Leave, Disturb
<1>18. ASSUME NEW d \in Control, CancelApproval(d) PROVE Goal
  BY <1>18 DEF CancelApproval, Disturb
<1>19. ASSUME NEW d \in Control, ReopenApproval(d) PROVE Goal
  BY <1>19 DEF ReopenApproval
<1>20. ASSUME NEW d \in Control, RequestAgain(d) PROVE Goal
  BY <1>20 DEF RequestAgain, Disturb
<1>21. ASSUME NEW d \in Control, AutoApprove(d) PROVE Goal
  BY <1>21 DEF AutoApprove
<1>22. ASSUME NEW d \in Control, UpsertControl(d) PROVE Goal
  BY <1>22 DEF UpsertControl
<1>23. ASSUME NEW d \in Control, DecideByHand(d) PROVE Goal
  BY <1>23 DEF DecideByHand, Disturb
<1>24. ASSUME NEW b \in Batch, \/ ReadQueue(b) \/ DecideQueued(b)
                               \/ UpdateQueued(b) \/ FailQueued(b)
       PROVE  Goal
  BY <1>24 DEF ReadQueue, DecideQueued, UpdateQueued, FailQueued, Disturb
<1>25. CASE UNCHANGED vars
  BY <1>25 DEF vars
<1>26. QED
  BY <1>1, <1>2, <1>3, <1>4, <1>5, <1>6, <1>7, <1>8, <1>9, <1>10,
     <1>11, <1>12, <1>13, <1>14, <1>15, <1>16, <1>17, <1>18, <1>19,
     <1>20, <1>21, <1>22, <1>23, <1>24, <1>25 DEF Next

\* What a step may write to a control row.
LEMMA ControlFrame ==
  ASSUME Inv, [Next]_vars, NEW c \in Control
  PROVE  \/ control'[c] = control[c] /\ (c \in mirrored' => c \in mirrored)
         \/ control[c] = "pending" /\ mirrored' = mirrored
         \/ /\ c \notin mirrored'
            /\ \/ rerun[c] # "none" /\ control'[c] = rerun[c]
               \/ \E b \in Batch :
                    [control |-> c, decision |-> control'[c]] \in applied[b]
         \/ \E q \in Process : at[q] = c /\ MirrorDecision(q)
<1> DEFINE Goal == \/ /\ control'[c] = control[c]
                      /\ c \in mirrored' => c \in mirrored
                   \/ control[c] = "pending" /\ mirrored' = mirrored
                   \/ /\ c \notin mirrored'
                      /\ \/ rerun[c] # "none" /\ control'[c] = rerun[c]
                         \/ \E b \in Batch :
                              [control |-> c, decision |-> control'[c]]
                                \in applied[b]
                   \/ \E q \in Process : at[q] = c /\ MirrorDecision(q)
<1> USE MessageFacts, Nothings, ApprovalAssumption
       DEF Inv, TypeOK, Point, Goto, rows, decisions, locals, others,
           SetApproval, SetControl
<1>1. ASSUME NEW p \in Process, ReceiveCallback(p) PROVE Goal
  BY <1>1 DEF ReceiveCallback, Arrive
<1>2. ASSUME NEW p \in Process, ReceiveCommand(p) PROVE Goal
  BY <1>2 DEF ReceiveCommand, Arrive
<1>3. ASSUME NEW p \in Process, StateGuard(p) PROVE Goal
  BY <1>3 DEF StateGuard, Leave
<1>4. ASSUME NEW p \in Process, Govern(p) PROVE Goal
  BY <1>4 DEF Govern, Leave
<1>5. ASSUME NEW p \in Process, RecordCallback(p) PROVE Goal
  BY <1>5 DEF RecordCallback, Leave
<1>6. ASSUME NEW p \in Process, LookUpKey(p) PROVE Goal
  BY <1>6 DEF LookUpKey, EndCommand, Leave
<1>7. ASSUME NEW p \in Process, InsertCommand(p) PROVE Goal
  BY <1>7 DEF InsertCommand
<1>8. ASSUME NEW p \in Process, KeyConflict(p) PROVE Goal
  BY <1>8 DEF KeyConflict, Leave
<1>9. ASSUME NEW p \in Process, TakeItem(p) PROVE Goal
  BY <1>9 DEF TakeItem
<1>10. ASSUME NEW p \in Process, RecordSignature(p) PROVE Goal
  BY <1>10 DEF RecordSignature
<1>11. ASSUME NEW p \in Process, SignatureConflict(p) PROVE Goal
  BY <1>11 DEF SignatureConflict, Leave
<1>12. ASSUME NEW p \in Process, CountSignatures(p) PROVE Goal
  BY <1>12 DEF CountSignatures, NextItem
<1>13. ASSUME NEW p \in Process, DecideApproval(p) PROVE Goal
  BY <1>13 DEF DecideApproval
<1>14. ASSUME NEW p \in Process, MirrorDecision(p) PROVE Goal
  BY <1>14 DEF MirrorDecision, NextItem
<1>15. ASSUME NEW p \in Process, FailItem(p) PROVE Goal
  BY <1>15 DEF FailItem, NextItem
<1>16. ASSUME NEW p \in Process, FinalizeCommand(p) PROVE Goal
  BY <1>16 DEF FinalizeCommand, EndCommand, Leave
<1>17. ASSUME NEW p \in Process, Crash(p) PROVE Goal
  BY <1>17 DEF Crash, Leave, Disturb
<1>18. ASSUME NEW d \in Control, CancelApproval(d) PROVE Goal
  BY <1>18 DEF CancelApproval, Disturb
<1>19. ASSUME NEW d \in Control, ReopenApproval(d) PROVE Goal
  BY <1>19 DEF ReopenApproval
<1>20. ASSUME NEW d \in Control, RequestAgain(d) PROVE Goal
  BY <1>20 DEF RequestAgain, Disturb
<1>21. ASSUME NEW d \in Control, AutoApprove(d) PROVE Goal
  BY <1>21 DEF AutoApprove
<1>22. ASSUME NEW d \in Control, UpsertControl(d) PROVE Goal
  BY <1>22 DEF UpsertControl
<1>23. ASSUME NEW d \in Control, DecideByHand(d) PROVE Goal
  BY <1>23 DEF DecideByHand, Disturb
<1>24. ASSUME NEW b \in Batch, \/ ReadQueue(b) \/ DecideQueued(b)
                               \/ UpdateQueued(b) \/ FailQueued(b)
       PROVE  Goal
  <2>1. CASE UpdateQueued(b)
    <3>1. PICK i \in applied[b] : SetControl(i.control, i.decision)
      BY <2>1 DEF UpdateQueued
    <3>2. /\ i.control \in Control
          /\ i = [control |-> i.control, decision |-> i.decision]
      BY ItemFacts
    <3>3. CASE i.control = c
      BY <3>1, <3>2, <3>3
    <3>4. CASE i.control # c
      BY <3>1, <3>2, <3>4
    <3>5. QED
      BY <3>3, <3>4
  <2>2. QED
    BY <1>24, <2>1 DEF ReadQueue, DecideQueued, FailQueued
<1>25. CASE UNCHANGED vars
  BY <1>25 DEF vars
<1>26. QED
  BY <1>1, <1>2, <1>3, <1>4, <1>5, <1>6, <1>7, <1>8, <1>9, <1>10,
     <1>11, <1>12, <1>13, <1>14, <1>15, <1>16, <1>17, <1>18, <1>19,
     <1>20, <1>21, <1>22, <1>23, <1>24, <1>25 DEF Next

\* What a step may write to an approval row.
LEMMA ApprovalFrame ==
  ASSUME Inv, [Next]_vars, NEW c \in Control
  PROVE  \/ approval'[c] = approval[c] /\ (c \in counted' => c \in counted)
         \/ approval'[c] \notin Verdict
         \/ c \notin counted'
         \/ \E q \in Process : at[q] = c /\ DecideApproval(q)
<1> DEFINE Goal == \/ /\ approval'[c] = approval[c]
                      /\ c \in counted' => c \in counted
                   \/ approval'[c] \notin Verdict
                   \/ c \notin counted'
                   \/ \E q \in Process : at[q] = c /\ DecideApproval(q)
<1> USE MessageFacts, Nothings, ApprovalAssumption
       DEF Inv, TypeOK, Point, Goto, rows, decisions, locals, others,
           SetApproval, SetControl, Verdict
<1>1. ASSUME NEW p \in Process, ReceiveCallback(p) PROVE Goal
  BY <1>1 DEF ReceiveCallback, Arrive
<1>2. ASSUME NEW p \in Process, ReceiveCommand(p) PROVE Goal
  BY <1>2 DEF ReceiveCommand, Arrive
<1>3. ASSUME NEW p \in Process, StateGuard(p) PROVE Goal
  BY <1>3 DEF StateGuard, Leave
<1>4. ASSUME NEW p \in Process, Govern(p) PROVE Goal
  BY <1>4 DEF Govern, Leave
<1>5. ASSUME NEW p \in Process, RecordCallback(p) PROVE Goal
  BY <1>5 DEF RecordCallback, Leave
<1>6. ASSUME NEW p \in Process, LookUpKey(p) PROVE Goal
  BY <1>6 DEF LookUpKey, EndCommand, Leave
<1>7. ASSUME NEW p \in Process, InsertCommand(p) PROVE Goal
  BY <1>7 DEF InsertCommand
<1>8. ASSUME NEW p \in Process, KeyConflict(p) PROVE Goal
  BY <1>8 DEF KeyConflict, Leave
<1>9. ASSUME NEW p \in Process, TakeItem(p) PROVE Goal
  BY <1>9 DEF TakeItem
<1>10. ASSUME NEW p \in Process, RecordSignature(p) PROVE Goal
  BY <1>10 DEF RecordSignature
<1>11. ASSUME NEW p \in Process, SignatureConflict(p) PROVE Goal
  BY <1>11 DEF SignatureConflict, Leave
<1>12. ASSUME NEW p \in Process, CountSignatures(p) PROVE Goal
  BY <1>12 DEF CountSignatures, NextItem
<1>13. ASSUME NEW p \in Process, DecideApproval(p) PROVE Goal
  BY <1>13 DEF DecideApproval
<1>14. ASSUME NEW p \in Process, MirrorDecision(p) PROVE Goal
  BY <1>14 DEF MirrorDecision, NextItem
<1>15. ASSUME NEW p \in Process, FailItem(p) PROVE Goal
  BY <1>15 DEF FailItem, NextItem
<1>16. ASSUME NEW p \in Process, FinalizeCommand(p) PROVE Goal
  BY <1>16 DEF FinalizeCommand, EndCommand, Leave
<1>17. ASSUME NEW p \in Process, Crash(p) PROVE Goal
  BY <1>17 DEF Crash, Leave, Disturb
<1>18. ASSUME NEW d \in Control, CancelApproval(d) PROVE Goal
  BY <1>18 DEF CancelApproval, Disturb
<1>19. ASSUME NEW d \in Control, ReopenApproval(d) PROVE Goal
  BY <1>19 DEF ReopenApproval
<1>20. ASSUME NEW d \in Control, RequestAgain(d) PROVE Goal
  BY <1>20 DEF RequestAgain, Disturb
<1>21. ASSUME NEW d \in Control, AutoApprove(d) PROVE Goal
  BY <1>21 DEF AutoApprove
<1>22. ASSUME NEW d \in Control, UpsertControl(d) PROVE Goal
  BY <1>22 DEF UpsertControl
<1>23. ASSUME NEW d \in Control, DecideByHand(d) PROVE Goal
  BY <1>23 DEF DecideByHand, Disturb
<1>24. ASSUME NEW b \in Batch, \/ ReadQueue(b) \/ DecideQueued(b)
                               \/ UpdateQueued(b) \/ FailQueued(b)
       PROVE  Goal
  <2>1. CASE DecideQueued(b)
    <3>1. PICK i \in queue[b] : SetApproval(i.control, i.decision)
      BY <2>1 DEF DecideQueued
    <3>2. i.control \in Control
      BY ItemFacts
    <3>3. QED
      BY <3>1, <3>2
  <2>2. QED
    BY <1>24, <2>1 DEF ReadQueue, UpdateQueued, FailQueued
<1>25. CASE UNCHANGED vars
  BY <1>25 DEF vars
<1>26. QED
  BY <1>1, <1>2, <1>3, <1>4, <1>5, <1>6, <1>7, <1>8, <1>9, <1>10,
     <1>11, <1>12, <1>13, <1>14, <1>15, <1>16, <1>17, <1>18, <1>19,
     <1>20, <1>21, <1>22, <1>23, <1>24, <1>25 DEF Next

\* How a command gets to its decision.
LEMMA DeciderFrame ==
  ASSUME Inv, [Next]_vars, NEW q \in Process
  PROVE  /\ pc'[q] = "decide" =>
              /\ at'[q] = at[q] /\ msg'[q] = msg[q]
              /\ \/ pc[q] = "decide"
                 \/ /\ pc[q] = "count" /\ msg[q].decision # "hold"
                    /\ Cardinality(SignersOf(at[q], msg[q].decision))
                         >= Required(msg[q])
         /\ pc'[q] = "mirror" =>
              msg'[q] = msg[q] /\ pc[q] \in {"decide", "mirror"}
<1> DEFINE Goal == /\ pc'[q] = "decide" =>
                        /\ at'[q] = at[q] /\ msg'[q] = msg[q]
                        /\ \/ pc[q] = "decide"
                           \/ /\ pc[q] = "count" /\ msg[q].decision # "hold"
                              /\ Cardinality(SignersOf(at[q], msg[q].decision))
                                   >= Required(msg[q])
                   /\ pc'[q] = "mirror" =>
                        msg'[q] = msg[q] /\ pc[q] \in {"decide", "mirror"}
<1> USE MessageFacts, Nothings, ApprovalAssumption
       DEF Inv, TypeOK, Point, Goto, rows, decisions, locals, others,
           SetApproval, SetControl
<1>1. ASSUME NEW p \in Process, ReceiveCallback(p) PROVE Goal
  BY <1>1 DEF ReceiveCallback, Arrive
<1>2. ASSUME NEW p \in Process, ReceiveCommand(p) PROVE Goal
  BY <1>2 DEF ReceiveCommand, Arrive
<1>3. ASSUME NEW p \in Process, StateGuard(p) PROVE Goal
  BY <1>3 DEF StateGuard, Leave
<1>4. ASSUME NEW p \in Process, Govern(p) PROVE Goal
  BY <1>4 DEF Govern, Leave
<1>5. ASSUME NEW p \in Process, RecordCallback(p) PROVE Goal
  BY <1>5 DEF RecordCallback, Leave
<1>6. ASSUME NEW p \in Process, LookUpKey(p) PROVE Goal
  BY <1>6 DEF LookUpKey, EndCommand, Leave
<1>7. ASSUME NEW p \in Process, InsertCommand(p) PROVE Goal
  BY <1>7 DEF InsertCommand
<1>8. ASSUME NEW p \in Process, KeyConflict(p) PROVE Goal
  BY <1>8 DEF KeyConflict, Leave
<1>9. ASSUME NEW p \in Process, TakeItem(p) PROVE Goal
  BY <1>9 DEF TakeItem
<1>10. ASSUME NEW p \in Process, RecordSignature(p) PROVE Goal
  BY <1>10 DEF RecordSignature
<1>11. ASSUME NEW p \in Process, SignatureConflict(p) PROVE Goal
  BY <1>11 DEF SignatureConflict, Leave
<1>12. ASSUME NEW p \in Process, CountSignatures(p) PROVE Goal
  BY <1>12 DEF CountSignatures, NextItem
<1>13. ASSUME NEW p \in Process, DecideApproval(p) PROVE Goal
  BY <1>13 DEF DecideApproval
<1>14. ASSUME NEW p \in Process, MirrorDecision(p) PROVE Goal
  BY <1>14 DEF MirrorDecision, NextItem
<1>15. ASSUME NEW p \in Process, FailItem(p) PROVE Goal
  BY <1>15 DEF FailItem, NextItem
<1>16. ASSUME NEW p \in Process, FinalizeCommand(p) PROVE Goal
  BY <1>16 DEF FinalizeCommand, EndCommand, Leave
<1>17. ASSUME NEW p \in Process, Crash(p) PROVE Goal
  BY <1>17 DEF Crash, Leave, Disturb
<1>18. ASSUME NEW d \in Control, CancelApproval(d) PROVE Goal
  BY <1>18 DEF CancelApproval, Disturb
<1>19. ASSUME NEW d \in Control, ReopenApproval(d) PROVE Goal
  BY <1>19 DEF ReopenApproval
<1>20. ASSUME NEW d \in Control, RequestAgain(d) PROVE Goal
  BY <1>20 DEF RequestAgain, Disturb
<1>21. ASSUME NEW d \in Control, AutoApprove(d) PROVE Goal
  BY <1>21 DEF AutoApprove
<1>22. ASSUME NEW d \in Control, UpsertControl(d) PROVE Goal
  BY <1>22 DEF UpsertControl
<1>23. ASSUME NEW d \in Control, DecideByHand(d) PROVE Goal
  BY <1>23 DEF DecideByHand, Disturb
<1>24. ASSUME NEW b \in Batch, \/ ReadQueue(b) \/ DecideQueued(b)
                               \/ UpdateQueued(b) \/ FailQueued(b)
       PROVE  Goal
  BY <1>24 DEF ReadQueue, DecideQueued, UpdateQueued, FailQueued, Disturb
<1>25. CASE UNCHANGED vars
  BY <1>25 DEF vars
<1>26. QED
  BY <1>1, <1>2, <1>3, <1>4, <1>5, <1>6, <1>7, <1>8, <1>9, <1>10,
     <1>11, <1>12, <1>13, <1>14, <1>15, <1>16, <1>17, <1>18, <1>19,
     <1>20, <1>21, <1>22, <1>23, <1>24, <1>25 DEF Next

\* How a control gets on a command's list.
LEMMA TodoFrame ==
  ASSUME Inv, [Next]_vars, NEW q \in Process, NEW c \in todo'[q], Working(q)'
  PROVE  \/ Working(q) /\ c \in todo[q] /\ msg'[q] = msg[q]
         \/ control[c] = "pending" /\ mirrored' = mirrored
<1> DEFINE Goal == \/ Working(q) /\ c \in todo[q] /\ msg'[q] = msg[q]
                   \/ control[c] = "pending" /\ mirrored' = mirrored
<1> USE MessageFacts, Nothings, ApprovalAssumption
       DEF Inv, TypeOK, Point, Goto, rows, decisions, locals, others,
           SetApproval, SetControl, Working
<1>1. ASSUME NEW p \in Process, ReceiveCallback(p) PROVE Goal
  BY <1>1 DEF ReceiveCallback, Arrive
<1>2. ASSUME NEW p \in Process, ReceiveCommand(p) PROVE Goal
  BY <1>2 DEF ReceiveCommand, Arrive
<1>3. ASSUME NEW p \in Process, StateGuard(p) PROVE Goal
  BY <1>3 DEF StateGuard, Leave
<1>4. ASSUME NEW p \in Process, Govern(p) PROVE Goal
  BY <1>4 DEF Govern, Leave
<1>5. ASSUME NEW p \in Process, RecordCallback(p) PROVE Goal
  BY <1>5 DEF RecordCallback, Leave
<1>6. ASSUME NEW p \in Process, LookUpKey(p) PROVE Goal
  BY <1>6 DEF LookUpKey, EndCommand, Leave
<1>7. ASSUME NEW p \in Process, InsertCommand(p) PROVE Goal
  BY <1>7 DEF InsertCommand
<1>8. ASSUME NEW p \in Process, KeyConflict(p) PROVE Goal
  BY <1>8 DEF KeyConflict, Leave
<1>9. ASSUME NEW p \in Process, TakeItem(p) PROVE Goal
  BY <1>9 DEF TakeItem
<1>10. ASSUME NEW p \in Process, RecordSignature(p) PROVE Goal
  BY <1>10 DEF RecordSignature
<1>11. ASSUME NEW p \in Process, SignatureConflict(p) PROVE Goal
  BY <1>11 DEF SignatureConflict, Leave
<1>12. ASSUME NEW p \in Process, CountSignatures(p) PROVE Goal
  BY <1>12 DEF CountSignatures, NextItem
<1>13. ASSUME NEW p \in Process, DecideApproval(p) PROVE Goal
  BY <1>13 DEF DecideApproval
<1>14. ASSUME NEW p \in Process, MirrorDecision(p) PROVE Goal
  BY <1>14 DEF MirrorDecision, NextItem
<1>15. ASSUME NEW p \in Process, FailItem(p) PROVE Goal
  BY <1>15 DEF FailItem, NextItem
<1>16. ASSUME NEW p \in Process, FinalizeCommand(p) PROVE Goal
  BY <1>16 DEF FinalizeCommand, EndCommand, Leave
<1>17. ASSUME NEW p \in Process, Crash(p) PROVE Goal
  BY <1>17 DEF Crash, Leave, Disturb
<1>18. ASSUME NEW d \in Control, CancelApproval(d) PROVE Goal
  BY <1>18 DEF CancelApproval, Disturb
<1>19. ASSUME NEW d \in Control, ReopenApproval(d) PROVE Goal
  BY <1>19 DEF ReopenApproval
<1>20. ASSUME NEW d \in Control, RequestAgain(d) PROVE Goal
  BY <1>20 DEF RequestAgain, Disturb
<1>21. ASSUME NEW d \in Control, AutoApprove(d) PROVE Goal
  BY <1>21 DEF AutoApprove
<1>22. ASSUME NEW d \in Control, UpsertControl(d) PROVE Goal
  BY <1>22 DEF UpsertControl
<1>23. ASSUME NEW d \in Control, DecideByHand(d) PROVE Goal
  BY <1>23 DEF DecideByHand, Disturb
<1>24. ASSUME NEW b \in Batch, \/ ReadQueue(b) \/ DecideQueued(b)
                               \/ UpdateQueued(b) \/ FailQueued(b)
       PROVE  Goal
  BY <1>24 DEF ReadQueue, DecideQueued, UpdateQueued, FailQueued, Disturb
<1>25. CASE UNCHANGED vars
  BY <1>25 DEF vars
<1>26. QED
  BY <1>1, <1>2, <1>3, <1>4, <1>5, <1>6, <1>7, <1>8, <1>9, <1>10,
     <1>11, <1>12, <1>13, <1>14, <1>15, <1>16, <1>17, <1>18, <1>19,
     <1>20, <1>21, <1>22, <1>23, <1>24, <1>25 DEF Next

\* SignersOf over a given value of signatures.
SignersIn(sigs, c, d) == {s \in Signer : <<d, s>> \in sigs[c]}

\* Signatures are never taken back, so a count once reached stays reached.
LEMMA SignersGrow ==
  ASSUME Inv, [Next]_vars, NEW c \in Control, NEW d,
         NEW n \in Nat, Cardinality(SignersOf(c, d)) >= n
  PROVE  Cardinality(SignersIn(signatures', c, d)) >= n
<1>1. signatures[c] \subseteq signatures'[c]
  BY SignatureFrame
<1> DEFINE Old == SignersOf(c, d)
           New == SignersIn(signatures', c, d)
<1>2. Old \subseteq New /\ New \subseteq Signer
  BY <1>1 DEF SignersOf, SignersIn
<1>3. IsFiniteSet(New) /\ IsFiniteSet(Old)
  BY <1>2, ApprovalAssumption, FS_Subset
<1>4. Cardinality(Old) <= Cardinality(New)
  BY <1>2, <1>3, FS_Subset
<1>5. Cardinality(Old) \in Nat /\ Cardinality(New) \in Nat
  BY <1>3, FS_CardinalityType
<1>6. Cardinality(Old) >= n
  OBVIOUS
<1> HIDE DEF Old, New
<1>7. Cardinality(New) >= n
  BY <1>4, <1>5, <1>6
<1>8. QED
  BY <1>7 DEF New

\* A step keeps the quorum behind every decision about to be written.
LEMMA QuorumStep == ASSUME Inv, [Next]_vars PROVE DeciderHasQuorum'
<1>1. SUFFICES ASSUME NEW q \in Process, pc'[q] \in {"decide", "mirror"}
               PROVE  /\ msg'[q].decision \in Verdict
                      /\ pc'[q] = "decide" =>
                           Cardinality(SignersIn(signatures', at'[q],
                                                 msg'[q].decision))
                             >= Required(msg'[q])
  BY DEF DeciderHasQuorum, SignersOf, SignersIn, Required
<1>2. msg[q] \in Message /\ at[q] \in Control /\ Required(msg[q]) \in Nat
  BY MessageFacts DEF Inv, TypeOK
<1>3. msg'[q] = msg[q] /\ msg[q].decision \in Verdict
  BY <1>1, <1>2, DeciderFrame, MessageFacts
     DEF Inv, DeciderHasQuorum, Decision, Verdict
<1>4. CASE pc'[q] = "decide"
  <2>1. at'[q] = at[q]
    BY <1>4, DeciderFrame
  <2>2. Cardinality(SignersOf(at[q], msg[q].decision)) >= Required(msg[q])
    BY <1>4, DeciderFrame DEF Inv, DeciderHasQuorum
  <2>3. Cardinality(SignersIn(signatures', at[q], msg[q].decision))
          >= Required(msg[q])
    BY <1>2, <2>2, SignersGrow
  <2>4. QED
    BY <1>3, <2>1, <2>3
<1>5. QED
  BY <1>1, <1>3, <1>4

\* A step keeps a quorum behind every approval that a quorum decided.
LEMMA DecidedStep == ASSUME Inv, [Next]_vars PROVE DecidedByQuorum'
<1> DEFINE Backed(c, d) == \E m \in Message :
                             /\ c \in Covers[m.selector]
                             /\ m.decision = d
                             /\ Cardinality(SignersIn(signatures', c, d))
                                  >= Required(m)
<1>1. SUFFICES ASSUME NEW c \in counted', approval'[c] \in Verdict
               PROVE  Backed(c, approval'[c])
  BY DEF DecidedByQuorum, SignersOf, SignersIn, Required
<1>2. c \in Control
  BY <1>1, TypeStep DEF TypeOK
<1>3. CASE approval'[c] = approval[c] /\ c \in counted
  <2>1. PICK m \in Message :
          /\ c \in Covers[m.selector]
          /\ m.decision = approval[c]
          /\ Cardinality(SignersOf(c, approval[c])) >= Required(m)
    BY <1>1, <1>2, <1>3 DEF Inv, DecidedByQuorum
  <2>2. Cardinality(SignersIn(signatures', c, approval[c])) >= Required(m)
    BY <1>2, <2>1, SignersGrow, MessageFacts
  <2>3. QED
    BY <1>3, <2>1, <2>2
<1>4. ASSUME NEW q \in Process, at[q] = c, DecideApproval(q)
      PROVE  Backed(c, approval'[c])
  <2>1. msg[q] \in Message /\ Required(msg[q]) \in Nat
    BY MessageFacts DEF Inv, TypeOK
  <2>2. approval'[c] = msg[q].decision
    BY <1>4 DEF DecideApproval, Inv, TypeOK
  <2>3. c \in Covers[msg[q].selector]
    BY <1>4 DEF DecideApproval, Inv, ItemsFound, Working
  <2>4. Cardinality(SignersOf(c, msg[q].decision)) >= Required(msg[q])
    BY <1>4 DEF DecideApproval, Inv, DeciderHasQuorum
  <2>5. Cardinality(SignersIn(signatures', c, msg[q].decision))
          >= Required(msg[q])
    BY <1>2, <2>1, <2>4, SignersGrow
  <2>6. QED
    BY <2>1, <2>2, <2>3, <2>5
<1>5. QED
  BY <1>1, <1>2, <1>3, <1>4, ApprovalFrame

\* Two commands with work on a control behind one lock are the same.
LEMMA OneLock ==
  ASSUME Inv, NEW p \in Process, NEW q \in Process, Working(p), Working(q),
         NEW c \in Guarded, c \in todo[p], c \in todo[q]
  PROVE  p = q
<1>1. c \in Covers[msg[p].selector] /\ c \in Covers[msg[q].selector]
  BY DEF Inv, ItemsFound
<1>2. msg[p] \in Message /\ msg[q] \in Message
  BY DEF Inv, TypeOK
<1>3. msg[p].entry = "callback" /\ msg[q].entry = "callback"
  BY <1>1, <1>2 DEF Guarded
<1>4. msg[p].selector = msg[q].selector
  BY <1>1, <1>2 DEF Guarded
<1>5. QED
  BY <1>3, <1>4 DEF Inv, LockHeld, Working

\* A step keeps to decisions what commands have written.
LEMMA MirroredStep == ASSUME Inv, [Next]_vars PROVE MirroredDecided'
<1>1. SUFFICES ASSUME NEW c \in mirrored' PROVE control'[c] \in Verdict
  BY DEF MirroredDecided
<1>2. c \in Control
  BY TypeStep DEF TypeOK
<1>3. CASE control'[c] = control[c] /\ c \in mirrored
  BY <1>3 DEF Inv, MirroredDecided
<1>4. CASE control[c] = "pending" /\ mirrored' = mirrored
  BY <1>4 DEF Inv, MirroredDecided, Verdict
<1>5. ASSUME NEW q \in Process, at[q] = c, MirrorDecision(q)
      PROVE  control'[c] \in Verdict
  BY <1>2, <1>5 DEF MirrorDecision, Inv, TypeOK, DeciderHasQuorum
<1>6. QED
  BY <1>1, <1>2, <1>3, <1>4, <1>5, ControlFrame

\* A step keeps every control behind one lock to the command that has work
\* on it left.
LEMMA UndecidedStep == ASSUME Inv, [Next]_vars PROVE GuardedUndecided'
<1>1. SUFFICES ASSUME NEW q \in Process, NEW c \in Guarded,
                      Working(q)', c \in todo'[q]
               PROVE  c \notin mirrored'
  BY DEF GuardedUndecided, Guarded
<1>2. c \in Control
  BY <1>1 DEF Guarded
<1>3. CASE control[c] = "pending" /\ mirrored' = mirrored
  BY <1>3 DEF Inv, MirroredDecided, Verdict
<1>4. CASE Working(q) /\ c \in todo[q]
  <2>1. c \notin mirrored
    BY <1>4 DEF Inv, GuardedUndecided
  <2>2. ASSUME NEW p \in Process, at[p] = c, MirrorDecision(p)
        PROVE  FALSE
    <3>1. Working(p) /\ c \in todo[p]
      BY <2>2 DEF MirrorDecision, Inv, ItemsFound, Working
    <3>2. p = q
      BY <1>1, <1>4, <3>1, OneLock
    <3>3. c \notin todo'[q]
      BY <2>2, <3>2 DEF MirrorDecision, NextItem, Inv, TypeOK
    <3>4. QED
      BY <1>1, <3>3
  <2>3. QED
    BY <1>2, <1>3, <2>1, <2>2, ControlFrame
<1>5. QED
  BY <1>1, <1>3, <1>4, TodoFrame

\* The invariant holds at first and is kept by every step.
THEOREM Invariant == Spec => []Inv
<1>1. Init => Inv
  BY Nothings
     DEF Init, Inv, TypeOK, Status, Verdict, Point, LockHeld, RowInserted,
         ItemsFound, DeciderHasQuorum, GuardedUndecided, MirroredDecided,
         OneWorkerPerCommand, DecidedByQuorum, Working
<1>2. Inv /\ [Next]_vars => Inv'
  BY TypeStep, LockStep, RowStep, ItemsStep, QuorumStep, UndecidedStep,
     MirroredStep, WorkerStep, DecidedStep DEF Inv
<1>3. QED
  BY <1>1, <1>2, PTL DEF Spec

\* Rows, locks and what a handler has in hand stay within their types.
THEOREM TypeCorrect == Spec => []TypeOK
<1>1. Inv => TypeOK
  BY DEF Inv
<1>2. QED
  BY <1>1, Invariant, PTL

\* Whatever arrives, is repeated, dies, and whoever else decides or reopens: a
\* decision that is said to rest on a quorum has its different signers.
THEOREM QuorumSafety == Spec => []DecidedByQuorum
<1>1. Inv => DecidedByQuorum
  BY DEF Inv
<1>2. QED
  BY <1>1, Invariant, PTL

\* The unique key keeps every command row to one handler.
THEOREM CommandSafety == Spec => []OneWorkerPerCommand
<1>1. Inv => OneWorkerPerCommand
  BY DEF Inv
<1>2. QED
  BY <1>1, Invariant, PTL

\* What a callback decided on a control behind one lock no other callback
\* touches: it stands until an omega5 or a beta6 run writes the control.
THEOREM DecisionSafety == Spec => DecisionStands
<1> DEFINE Stands(c) ==
             /\ control[c] \in Verdict
             /\ signatures'[c] = signatures[c]
             /\ \/ control'[c] = control[c]
                \/ rerun[c] # "none" /\ control'[c] = rerun[c]
                \/ \E b \in Batch :
                     [control |-> c, decision |-> control'[c]] \in applied[b]
<1>1. ASSUME Inv, [Next]_vars, NEW c \in Guarded \cap mirrored
      PROVE  Stands(c)
  <2>1. c \in Control
    BY DEF Guarded
  <2>2. ASSUME NEW q \in Process, at[q] = c, pc[q] \in {"sign", "mirror"}
        PROVE  FALSE
    BY <1>1, <2>1, <2>2 DEF Inv, ItemsFound, GuardedUndecided, Working
  <2>3. signatures'[c] = signatures[c]
    BY <1>1, <2>1, <2>2, SignatureFrame
  <2>4. control[c] \in Verdict
    BY <1>1 DEF Inv, MirroredDecided
  <2>5. ASSUME NEW q \in Process, at[q] = c, MirrorDecision(q) PROVE FALSE
    BY <2>2, <2>5 DEF MirrorDecision
  <2>6. QED
    BY <1>1, <2>1, <2>3, <2>4, <2>5, ControlFrame DEF Verdict
<1>2. Inv /\ [Next]_vars => [\A c \in Guarded \cap mirrored : Stands(c)]_vars
  BY <1>1
<1>3. QED
  BY <1>2, Invariant, PTL DEF Spec, DecisionStands
=============================================================================
