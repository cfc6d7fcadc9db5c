------------------------- MODULE OmegaExecutionProofs -------------------------
(***************************************************************************)
(* Proofs about OmegaExecution, for any actions and executor runs, however *)
(* many of them, and however many decisions, requests and rollbacks.       *)
(***************************************************************************)
EXTENDS OmegaExecution, FiniteSetTheorems, TLAPS

FailuresIn(A) == {t \in A : t.row \in Failure}

\* The numbers of the attempts in A are those from 1 to their count.
Numbered(A) ==
  /\ IsFiniteSet(A)
  /\ \A s, t \in A : s.no = t.no => s = t
  /\ \A t \in A : t.no <= Cardinality(A)
  /\ \A n \in 1 .. Cardinality(A) : \E t \in A : t.no = n

AllNumbered == \A a \in Action : Numbered(attempts[a])

\* An uncommitted attempt has the next number, and counts at most itself
\* beside the failures on record.
OpenNumbered ==
  \A a \in Action : open[a].by # Nobody =>
    open[a].no = Cardinality(attempts[a]) + 1

OpenOnRecord ==
  \A a \in Action : open[a].by # Nobody =>
    /\ open[a].row \in Failure =>
         open[a].retry <= Cardinality(FailuresIn(attempts[a])) + 1
    /\ open[a].row \notin Failure =>
         open[a].retry <= Cardinality(FailuresIn(attempts[a]))

\* A run waits with a number that was given or is the next.
WaitNumbered ==
  \A p \in Executor : pc[p] = "wait" =>
    1 <= number[p] /\ number[p] <= Cardinality(attempts[at[p]]) + 1

\* A count, once read, stays below the failures on record.
SnapshotOnRecord ==
  \A p \in Executor : \A a \in Action :
    snapshot[p][a] <= Cardinality(FailuresIn(attempts[a]))

\* Who is about to run an effect has seen the approval.
ApprovedSeen ==
  /\ \A a \in Action : approval[a] = "approved" => a \in granted
  /\ \A p \in Executor : pc[p] = "execute" /\ at[p] \in NeedsApproval =>
       saw[p] = "approved" /\ at[p] \in granted

Inv ==
  /\ TypeOK
  /\ AllNumbered
  /\ OpenNumbered
  /\ OpenOnRecord
  /\ WaitNumbered
  /\ SnapshotOnRecord
  /\ RetriesOnRecord
  /\ ApprovedSeen
  /\ NoEffectUnapproved

-----------------------------------------------------------------------------
\* Statuses are apart.
LEMMA RowFacts ==
  /\ \A r \in Row : StatusOf(r) \in Status /\ ControlOf(r) \in Control
  /\ \A r \in Failure : r \in Executed
  /\ \A r \in Row : ~(r \in Failure /\ r = "success")
  BY DEF Row, Executed, Failure, Status, StatusOf, Control, ControlOf

\* The set of the failures in a finite set of attempts is finite.
LEMMA FailuresFinite ==
  ASSUME NEW A, IsFiniteSet(A)
  PROVE  /\ IsFiniteSet(FailuresIn(A))
         /\ Cardinality(FailuresIn(A)) \in Nat
<1>1. FailuresIn(A) \subseteq A
  BY DEF FailuresIn
<1>2. IsFiniteSet(FailuresIn(A))
  BY <1>1, FS_Subset
<1>3. QED
  BY <1>2, FS_CardinalityType

\* One attempt more, with the next number: the numbers stay without a gap,
\* and the failures are as many as before or one more.
LEMMA AddAttempt ==
  ASSUME NEW A \in SUBSET Attempt, Numbered(A), NEW r \in Row
  PROVE  LET t == [no |-> Cardinality(A) + 1, row |-> r]
         IN  /\ Cardinality(A \cup {t}) = Cardinality(A) + 1
             /\ Numbered(A \cup {t})
             /\ Cardinality(FailuresIn(A)) <= Cardinality(FailuresIn(A \cup {t}))
             /\ r \in Failure => Cardinality(FailuresIn(A \cup {t}))
                                   = Cardinality(FailuresIn(A)) + 1
<1> DEFINE n == Cardinality(A)
           t == [no |-> n + 1, row |-> r]
           B == A \cup {t}
<1>1. IsFiniteSet(A) /\ n \in Nat
  BY FS_CardinalityType DEF Numbered
<1>2. \A s \in A : s.no \in Nat /\ s.no <= n
  BY DEF Numbered, Attempt
<1>3. t.no = n + 1 /\ t.row = r
  OBVIOUS
<1>4. t \notin A
  BY <1>1, <1>2, <1>3
<1>5. IsFiniteSet(B) /\ Cardinality(B) = n + 1
  BY <1>1, <1>4, FS_AddElement
<1>6. Numbered(B)
  <2>1. ASSUME NEW s \in B, NEW u \in B, s.no = u.no PROVE s = u
    BY <1>1, <1>2, <1>3, <2>1 DEF Numbered
  <2>2. ASSUME NEW s \in B PROVE s.no <= Cardinality(B)
    BY <1>1, <1>2, <1>3, <1>5
  <2>3. ASSUME NEW m \in 1 .. Cardinality(B) PROVE \E s \in B : s.no = m
    <3>1. CASE m = n + 1
      BY <1>3, <3>1
    <3>2. CASE m \in 1 .. n
      BY <3>2 DEF Numbered
    <3>3. QED
      BY <1>1, <1>5, <3>1, <3>2
  <2>4. QED
    BY <1>5, <2>1, <2>2, <2>3 DEF Numbered
<1>7. CASE r \in Failure
  <2>1. FailuresIn(B) = FailuresIn(A) \cup {t} /\ t \notin FailuresIn(A)
    BY <1>3, <1>4, <1>7 DEF FailuresIn
  <2>2. Cardinality(FailuresIn(B)) = Cardinality(FailuresIn(A)) + 1
    BY <1>1, <2>1, FailuresFinite, FS_AddElement
  <2>3. QED
    BY <1>1, <1>5, <1>6, <2>2, FailuresFinite
<1>8. CASE r \notin Failure
  <2>1. FailuresIn(B) = FailuresIn(A)
    BY <1>3, <1>8 DEF FailuresIn
  <2>2. QED
    BY <1>1, <1>5, <1>6, <1>8, <2>1, FailuresFinite
<1>9. QED
  BY <1>7, <1>8

-----------------------------------------------------------------------------
\* What decisions, requests, cancellations and rollbacks, and a step that
\* changes nothing, leave alone.
Others ==
  /\ UNCHANGED <<retry, attempts, effects, open, pc, todo, snapshot, hand>>
  /\ granted \subseteq granted'
  /\ \A a \in Action :
       approval'[a] = "approved" => approval[a] = "approved" \/ a \in granted'

LEMMA Cases ==
  ASSUME TypeOK, [Next]_vars
  PROVE  \/ \E p \in Executor :
              \/ StartRun(p) \/ TakeAction(p) \/ AskForApproval(p)
              \/ RunExecutor(p) \/ InsertAttempt(p) \/ WaitForAttempt(p)
              \/ InsertAfterWait(p) \/ Commit(p) \/ Rollback(p)
         \/ Others
<1> USE DEF Others, Request, hand, world
<1>1. ASSUME NEW p \in Executor, StartRun(p) \/ Proceed(p) \/ Abort(p)
      PROVE  \/ StartRun(p) \/ TakeAction(p) \/ AskForApproval(p)
             \/ RunExecutor(p) \/ InsertAttempt(p) \/ WaitForAttempt(p)
             \/ InsertAfterWait(p) \/ Commit(p) \/ Rollback(p)
  BY <1>1 DEF Proceed, NumberConflict, BreakDeadlock, Abort
<1>2. ASSUME NEW a \in Action, RequestApproval(a) PROVE Others
  BY <1>2 DEF RequestApproval, TypeOK
<1>3. ASSUME NEW a \in Action, Approve(a) PROVE Others
  BY <1>3 DEF Approve, TypeOK
<1>4. ASSUME NEW a \in Action, Reject(a) PROVE Others
  BY <1>4 DEF Reject, TypeOK
<1>5. ASSUME NEW a \in Action, CancelApproval(a) PROVE Others
  BY <1>5 DEF CancelApproval, TypeOK
<1>6. ASSUME NEW a \in Action, RequestRollback(a) PROVE Others
  BY <1>6 DEF RequestRollback
<1>7. ASSUME NEW a \in Action, RunRollback(a) PROVE Others
  BY <1>7 DEF RunRollback
<1>8. CASE PsiRerun
  BY <1>8 DEF PsiRerun
<1>9. CASE UNCHANGED vars
  BY <1>9 DEF vars, actionRow
<1>10. QED
  BY <1>1, <1>2, <1>3, <1>4, <1>5, <1>6, <1>7, <1>8, <1>9 DEF Next

-----------------------------------------------------------------------------
\* What a run has in hand starts, and ends, within its type.
LEMMA Nothings ==
  /\ NoAction \in Action /\ NoCounts \in [Action -> Nat] /\ NoWrite \in Write
  /\ NoWrite.by = Nobody
<1>1. \E a : a \in Action
  BY OmegaAssumption
<1>2. QED
  BY <1>1 DEF NoAction, NoCounts, NoWrite, Write, Row, Approval

\* The next number is one.
LEMMA NextNoType ==
  ASSUME AllNumbered, NEW a \in Action
  PROVE  NextNo(a) \in Nat \ {0}
<1>1. Cardinality(attempts[a]) \in Nat
  BY FS_CardinalityType DEF AllNumbered, Numbered
<1>2. QED
  BY <1>1 DEF NextNo

LEMMA LeaveTypes ==
  ASSUME TypeOK, NEW p \in Executor, Leave(p)
  PROVE  /\ pc' \in [Executor -> Point] /\ todo' \in [Executor -> SUBSET Action]
         /\ snapshot' \in [Executor -> [Action -> Nat]]
         /\ at' \in [Executor -> Action] /\ saw' \in [Executor -> Approval]
         /\ row' \in [Executor -> Row] /\ number' \in [Executor -> Nat]
         /\ open' \in [Action -> Write]
<1> USE Nothings DEF TypeOK, Leave, Goto
<1>1. pc' \in [Executor -> Point] /\ todo' \in [Executor -> SUBSET Action]
  BY DEF Point
<1>2. snapshot' \in [Executor -> [Action -> Nat]]
  OBVIOUS
<1>3. at' \in [Executor -> Action] /\ saw' \in [Executor -> Approval]
  BY DEF Approval
<1>4. row' \in [Executor -> Row] /\ number' \in [Executor -> Nat]
  BY DEF Row
<1>5. open' \in [Action -> Write]
  OBVIOUS
<1>6. QED
  BY <1>1, <1>2, <1>3, <1>4, <1>5

LEMMA InsertedTypes ==
  ASSUME TypeOK, NEW p \in Executor, NEW no \in Nat, Inserted(p, no)
  PROVE  TypeOK'
<1> USE Nothings DEF TypeOK, Inserted, Goto, actionRow, world, bounds
<1>1. RetryCount(p) \in Nat
  BY DEF RetryCount
<1>2. [by |-> p, no |-> no, row |-> row[p], retry |-> RetryCount(p),
       saw |-> saw[p]] \in Write
  BY <1>1 DEF Write
<1>3. open' \in [Action -> Write]
  BY <1>2
<1>4. pc' \in [Executor -> Point] /\ todo' \in [Executor -> SUBSET Action]
  BY DEF Point
<1>5. at' \in [Executor -> Action] /\ saw' \in [Executor -> Approval]
  BY DEF Approval
<1>6. row' \in [Executor -> Row] /\ number' \in [Executor -> Nat]
  BY DEF Row
<1>7. QED
  BY <1>3, <1>4, <1>5, <1>6

\* What a commit adds to the attempts.
LEMMA CommitAttempts ==
  ASSUME Inv, NEW p \in Executor, Commit(p), NEW a \in Action
  PROVE  /\ Numbered(attempts'[a])
         /\ attempts'[a] \in SUBSET Attempt
         /\ open[a].by # p => attempts'[a] = attempts[a]
         /\ open[a].by = p =>
              /\ Cardinality(attempts'[a]) = Cardinality(attempts[a]) + 1
              /\ open[a].row \in Failure =>
                   Cardinality(FailuresIn(attempts'[a]))
                     = Cardinality(FailuresIn(attempts[a])) + 1
         /\ Cardinality(attempts[a]) \in Nat
         /\ Cardinality(FailuresIn(attempts[a])) \in Nat
         /\ Cardinality(FailuresIn(attempts[a]))
              <= Cardinality(FailuresIn(attempts'[a]))
<1>1. Numbered(attempts[a]) /\ attempts[a] \in SUBSET Attempt
  BY DEF Inv, AllNumbered, TypeOK
<1>2. /\ Cardinality(attempts[a]) \in Nat
      /\ Cardinality(FailuresIn(attempts[a])) \in Nat
  BY <1>1, FailuresFinite, FS_CardinalityType DEF Numbered
<1>3. CASE open[a].by # p
  <2>1. attempts'[a] = attempts[a]
    BY <1>3 DEF Commit, Mine
  <2>2. QED
    BY <1>1, <1>2, <1>3, <2>1
<1>4. CASE open[a].by = p
  <2>1. open[a].row \in Row
    BY DEF Inv, TypeOK, Write
  <2>2. open[a].no = Cardinality(attempts[a]) + 1
    BY <1>4, OmegaAssumption DEF Inv, OpenNumbered
  <2>3. attempts'[a] = attempts[a] \cup
          {[no |-> Cardinality(attempts[a]) + 1, row |-> open[a].row]}
    BY <1>4, <2>2 DEF Commit, Mine
  <2>4. [no |-> Cardinality(attempts[a]) + 1, row |-> open[a].row] \in Attempt
    BY <1>2, <2>1 DEF Attempt
  <2>5. QED
    BY <1>1, <1>2, <1>4, <2>1, <2>3, <2>4, AddAttempt
<1>5. QED
  BY <1>3, <1>4

LEMMA CommitTypes ==
  ASSUME Inv, NEW p \in Executor, Commit(p)
  PROVE  TypeOK'
<1>1. approval' \in [Action -> Approval] /\ control' \in [Action -> Control]
  BY RowFacts DEF Inv, TypeOK, Commit, Approval, Write
<1>2. status' \in [Action -> Status] /\ retry' \in [Action -> Nat]
  BY RowFacts DEF Inv, TypeOK, Commit, Write
<1>3. retryAt' \in [Action -> BOOLEAN]
  BY DEF Inv, TypeOK, Commit
<1>4. attempts' \in [Action -> SUBSET Attempt]
  <2>1. \A a \in Action : attempts'[a] \in SUBSET Attempt
    BY CommitAttempts
  <2>2. attempts' = [a \in Action |-> attempts'[a]]
    BY DEF Commit
  <2>3. QED
    BY <2>1, <2>2
<1>5. QED
  BY <1>1, <1>2, <1>3, <1>4, LeaveTypes DEF Inv, TypeOK, Commit, world, bounds

LEMMA TypeStep == ASSUME Inv, [Next]_vars PROVE TypeOK'
<1> USE DEF Inv, actionRow, hand, world, bounds, Goto
<1>1. ASSUME NEW p \in Executor, StartRun(p) PROVE TypeOK'
  <2>1. PICK S \in SUBSET Action :
          /\ todo' = [todo EXCEPT ![p] = S]
          /\ snapshot' = [snapshot EXCEPT ![p] =
                            [a \in Action |-> IF a \in S THEN retry[a] ELSE 0]]
    BY <1>1 DEF StartRun
  <2>2. [a \in Action |-> IF a \in S THEN retry[a] ELSE 0] \in [Action -> Nat]
    BY DEF TypeOK
  <2>3. QED
    BY <1>1, <2>1, <2>2 DEF StartRun, TypeOK, Point
<1>2. ASSUME NEW p \in Executor, TakeAction(p) PROVE TypeOK'
  <2>1. PICK a \in Action, point \in {"execute", "insert", "ask"},
             o \in {"success", "skipped", "approval_required"} :
          Take(p, a, point, o)
    BY <1>2 DEF TakeAction, TypeOK
  <2>2. approval[a] \in Approval /\ point \in Point /\ o \in Row
    BY DEF TypeOK, Point, Row, Executed
  <2>3. /\ at' \in [Executor -> Action] /\ saw' \in [Executor -> Approval]
        /\ row' \in [Executor -> Row] /\ pc' \in [Executor -> Point]
    BY <2>1, <2>2 DEF Take, TypeOK
  <2>4. QED
    BY <1>2, <2>3 DEF TakeAction, TypeOK
<1>3. ASSUME NEW p \in Executor, AskForApproval(p) PROVE TypeOK'
  BY <1>3 DEF AskForApproval, TypeOK, Point
<1>4. ASSUME NEW p \in Executor, RunExecutor(p) PROVE TypeOK'
  BY <1>4 DEF RunExecutor, TypeOK, Point, Row, Executed, Failure
<1>5. ASSUME NEW p \in Executor, InsertAttempt(p) PROVE TypeOK'
  <2>1. NextNo(at[p]) \in Nat
    BY NextNoType DEF TypeOK
  <2>2. QED
    BY <1>5, <2>1, InsertedTypes DEF InsertAttempt
<1>6. ASSUME NEW p \in Executor, WaitForAttempt(p) PROVE TypeOK'
  <2>1. NextNo(at[p]) \in Nat
    BY NextNoType DEF TypeOK
  <2>2. QED
    BY <1>6, <2>1 DEF WaitForAttempt, TypeOK, Point
<1>7. ASSUME NEW p \in Executor, InsertAfterWait(p) PROVE TypeOK'
  <2>1. number[p] \in Nat
    BY DEF TypeOK
  <2>2. QED
    BY <1>7, <2>1, InsertedTypes DEF InsertAfterWait
<1>8. ASSUME NEW p \in Executor, Commit(p) PROVE TypeOK'
  BY <1>8, CommitTypes
<1>9. ASSUME NEW p \in Executor, Rollback(p) PROVE TypeOK'
  BY <1>9, LeaveTypes DEF Rollback, TypeOK
<1>10. ASSUME NEW a \in Action, RequestApproval(a) PROVE TypeOK'
  BY <1>10 DEF RequestApproval, Request, TypeOK, Approval, Control, Status
<1>11. ASSUME NEW a \in Action, Approve(a) PROVE TypeOK'
  BY <1>11 DEF Approve, Request, TypeOK, Approval, Control
<1>12. ASSUME NEW a \in Action, Reject(a) PROVE TypeOK'
  BY <1>12 DEF Reject, Request, TypeOK, Approval, Control, Status
<1>13. ASSUME NEW a \in Action, CancelApproval(a) PROVE TypeOK'
  BY <1>13 DEF CancelApproval, Request, TypeOK, Approval
<1>14. ASSUME NEW a \in Action, RequestRollback(a) PROVE TypeOK'
  BY <1>14 DEF RequestRollback, Request, TypeOK, Control
<1>15. ASSUME NEW a \in Action, RunRollback(a) PROVE TypeOK'
  <2>1. /\ rollback' \in [Action -> {"none", "planned", "success", "failed"}]
        /\ control' \in [Action -> Control]
    <3>1. CASE /\ rollback' = [rollback EXCEPT ![a] = "success"]
               /\ control' = [control EXCEPT ![a] = "rolled_back"]
      <4>1. "rolled_back" \in Control
        BY DEF Control
      <4>2. QED
        BY <3>1, <4>1 DEF TypeOK
    <3>2. CASE /\ rollback' = [rollback EXCEPT ![a] = "failed"]
               /\ UNCHANGED control
      BY <3>2 DEF TypeOK
    <3>3. QED
      BY <1>15, <3>1, <3>2 DEF RunRollback
  <2>2. QED
    BY <1>15, <2>1 DEF RunRollback, Request, TypeOK
<1>16. CASE PsiRerun
  BY <1>16 DEF PsiRerun, Request, TypeOK
<1>17. CASE UNCHANGED vars
  BY <1>17 DEF vars, TypeOK
<1>18. QED
  BY <1>1, <1>2, <1>3, <1>4, <1>5, <1>6, <1>7, <1>8, <1>9, <1>10, <1>11,
     <1>12, <1>13, <1>14, <1>15, <1>16, <1>17
     DEF Next, Proceed, NumberConflict, BreakDeadlock, Abort

-----------------------------------------------------------------------------
\* A step keeps attempts numbered without a gap.
LEMMA NumberedStep == ASSUME Inv, [Next]_vars PROVE AllNumbered'
<1> USE Nothings, OmegaAssumption DEF Inv, TypeOK, Goto, actionRow, hand, world, bounds,
       AllNumbered
<1>1. ASSUME NEW p \in Executor, StartRun(p) PROVE AllNumbered'
  BY <1>1 DEF StartRun
<1>2. ASSUME NEW p \in Executor, TakeAction(p) PROVE AllNumbered'
  BY <1>2 DEF TakeAction, Take
<1>3. ASSUME NEW p \in Executor, AskForApproval(p) PROVE AllNumbered'
  BY <1>3 DEF AskForApproval
<1>4. ASSUME NEW p \in Executor, RunExecutor(p) PROVE AllNumbered'
  BY <1>4 DEF RunExecutor
<1>5. ASSUME NEW p \in Executor, InsertAttempt(p) PROVE AllNumbered'
  BY <1>5 DEF InsertAttempt, Inserted
<1>6. ASSUME NEW p \in Executor, WaitForAttempt(p) PROVE AllNumbered'
  BY <1>6 DEF WaitForAttempt
<1>7. ASSUME NEW p \in Executor, InsertAfterWait(p) PROVE AllNumbered'
  BY <1>7 DEF InsertAfterWait, Inserted
<1>8. ASSUME NEW p \in Executor, Commit(p) PROVE AllNumbered'
  BY <1>8, CommitAttempts
<1>9. ASSUME NEW p \in Executor, Rollback(p) PROVE AllNumbered'
  BY <1>9 DEF Rollback, Leave
<1>10. CASE Others
  BY <1>10 DEF Others
<1>11. QED
  BY <1>1, <1>2, <1>3, <1>4, <1>5, <1>6, <1>7, <1>8, <1>9, <1>10,
     Cases DEF Inv

\* The next number, taken after a wait, is the one waited with.
LEMMA WaitedNumber ==
  ASSUME Inv, NEW p \in Executor, InsertAfterWait(p)
  PROVE  number[p] = Cardinality(attempts[at[p]]) + 1
<1> DEFINE A == attempts[at[p]]
<1>1. Numbered(A) /\ Cardinality(A) \in Nat
  BY FS_CardinalityType DEF Inv, TypeOK, AllNumbered, Numbered
<1>2. number[p] \in Nat /\ 1 <= number[p] /\ number[p] <= Cardinality(A) + 1
  BY DEF Inv, TypeOK, WaitNumbered, InsertAfterWait
<1>3. number[p] \notin 1 .. Cardinality(A)
  BY <1>1 DEF InsertAfterWait, Numbered
<1>4. QED
  BY <1>1, <1>2, <1>3

\* A step keeps the next number with the uncommitted attempt.
LEMMA OpenStep == ASSUME Inv, [Next]_vars PROVE OpenNumbered'
<1> USE Nothings, OmegaAssumption DEF Inv, TypeOK, Goto, actionRow, hand, world, bounds,
       OpenNumbered
<1>1. ASSUME NEW p \in Executor, StartRun(p) PROVE OpenNumbered'
  BY <1>1 DEF StartRun
<1>2. ASSUME NEW p \in Executor, TakeAction(p) PROVE OpenNumbered'
  BY <1>2 DEF TakeAction, Take
<1>3. ASSUME NEW p \in Executor, AskForApproval(p) PROVE OpenNumbered'
  BY <1>3 DEF AskForApproval
<1>4. ASSUME NEW p \in Executor, RunExecutor(p) PROVE OpenNumbered'
  BY <1>4 DEF RunExecutor
<1>5. ASSUME NEW p \in Executor, InsertAttempt(p) PROVE OpenNumbered'
  BY <1>5 DEF InsertAttempt, Inserted, NextNo, Write
<1>6. ASSUME NEW p \in Executor, WaitForAttempt(p) PROVE OpenNumbered'
  BY <1>6 DEF WaitForAttempt
<1>7. ASSUME NEW p \in Executor, InsertAfterWait(p) PROVE OpenNumbered'
  BY <1>7, WaitedNumber DEF InsertAfterWait, Inserted, Write
<1>8. ASSUME NEW p \in Executor, Commit(p) PROVE OpenNumbered'
  BY <1>8, CommitAttempts DEF Commit, Leave
<1>9. ASSUME NEW p \in Executor, Rollback(p) PROVE OpenNumbered'
  BY <1>9 DEF Rollback, Leave
<1>10. CASE Others
  BY <1>10 DEF Others
<1>11. QED
  BY <1>1, <1>2, <1>3, <1>4, <1>5, <1>6, <1>7, <1>8, <1>9, <1>10,
     Cases DEF Inv

\* A step keeps the numbers of the waiting runs.
LEMMA WaitStep == ASSUME Inv, [Next]_vars PROVE WaitNumbered'
<1> USE Nothings, OmegaAssumption DEF Inv, TypeOK, Goto, actionRow, hand, world, bounds,
       WaitNumbered
<1>1. ASSUME NEW p \in Executor, StartRun(p) PROVE WaitNumbered'
  BY <1>1 DEF StartRun
<1>2. ASSUME NEW p \in Executor, TakeAction(p) PROVE WaitNumbered'
  BY <1>2 DEF TakeAction, Take
<1>3. ASSUME NEW p \in Executor, AskForApproval(p) PROVE WaitNumbered'
  BY <1>3 DEF AskForApproval
<1>4. ASSUME NEW p \in Executor, RunExecutor(p) PROVE WaitNumbered'
  BY <1>4 DEF RunExecutor
<1>5. ASSUME NEW p \in Executor, InsertAttempt(p) PROVE WaitNumbered'
  BY <1>5 DEF InsertAttempt, Inserted
<1>6. ASSUME NEW p \in Executor, WaitForAttempt(p) PROVE WaitNumbered'
  <2>1. Cardinality(attempts[at[p]]) \in Nat
    BY FS_CardinalityType DEF AllNumbered, Numbered
  <2>2. QED
    BY <1>6, <2>1 DEF WaitForAttempt, NextNo
<1>7. ASSUME NEW p \in Executor, InsertAfterWait(p) PROVE WaitNumbered'
  BY <1>7 DEF InsertAfterWait, Inserted
<1>8. ASSUME NEW p \in Executor, Commit(p) PROVE WaitNumbered'
  <2>1. ASSUME NEW q \in Executor, pc'[q] = "wait"
        PROVE  q # p /\ pc[q] = "wait" /\ at'[q] = at[q] /\ number'[q] = number[q]
    BY <1>8, <2>1 DEF Commit, Leave
  <2>2. ASSUME NEW a \in Action
        PROVE  /\ Cardinality(attempts[a]) \in Nat
               /\ \/ Cardinality(attempts'[a]) = Cardinality(attempts[a])
                  \/ Cardinality(attempts'[a]) = Cardinality(attempts[a]) + 1
    BY <1>8, CommitAttempts
  <2>3. ASSUME NEW q \in Executor, pc'[q] = "wait"
        PROVE  1 <= number'[q] /\ number'[q] <= Cardinality(attempts'[at'[q]]) + 1
    <3>1. at[q] \in Action /\ number[q] \in Nat
      OBVIOUS
    <3>2. 1 <= number[q] /\ number[q] <= Cardinality(attempts[at[q]]) + 1
      BY <2>1, <2>3
    <3>3. at'[q] = at[q] /\ number'[q] = number[q]
      BY <2>1, <2>3
    <3> HIDE DEF Inv, TypeOK, WaitNumbered
    <3>4. QED
      BY <2>2, <3>1, <3>2, <3>3
  <2>4. QED
    BY <2>3
<1>9. ASSUME NEW p \in Executor, Rollback(p) PROVE WaitNumbered'
  BY <1>9 DEF Rollback, Leave
<1>10. CASE Others
  BY <1>10 DEF Others
<1>11. QED
  BY <1>1, <1>2, <1>3, <1>4, <1>5, <1>6, <1>7, <1>8, <1>9, <1>10,
     Cases DEF Inv

\* The count that goes with an attempt is backed by failures on record.
LEMMA InsertedOnRecord ==
  ASSUME Inv, NEW p \in Executor, NEW no \in Nat, Inserted(p, no)
  PROVE  OpenOnRecord'
<1> DEFINE a == at[p]
           F == Cardinality(FailuresIn(attempts[a]))
<1>1. a \in Action /\ snapshot[p][a] \in Nat /\ retry[a] \in Nat
  BY DEF Inv, TypeOK
<1>2. F \in Nat
  BY <1>1, FailuresFinite DEF Inv, AllNumbered, Numbered
<1>3. snapshot[p][a] <= F /\ retry[a] <= F
  BY <1>1 DEF Inv, SnapshotOnRecord, RetriesOnRecord, FailuresIn
<1>4. /\ row[p] \in Failure => RetryCount(p) <= F + 1
      /\ row[p] \notin Failure => RetryCount(p) <= F
  BY <1>1, <1>2, <1>3 DEF RetryCount
<1>5. /\ open'[a].row = row[p] /\ open'[a].retry = RetryCount(p)
      /\ \A c \in Action : c # a => open'[c] = open[c]
      /\ attempts' = attempts
  BY <1>1 DEF Inserted, Inv, TypeOK
<1> HIDE DEF F
<1>6. ASSUME NEW c \in Action, open'[c].by # Nobody
      PROVE  /\ open'[c].row \in Failure =>
                  open'[c].retry <= Cardinality(FailuresIn(attempts'[c])) + 1
             /\ open'[c].row \notin Failure =>
                  open'[c].retry <= Cardinality(FailuresIn(attempts'[c]))
  <2>1. CASE c = a
    BY <1>4, <1>5, <2>1 DEF F
  <2>2. CASE c # a
    BY <1>5, <1>6, <2>2 DEF Inv, OpenOnRecord
  <2>3. QED
    BY <2>1, <2>2
<1>7. QED
  BY <1>6 DEF OpenOnRecord

\* A step keeps uncommitted counts backed by failures on record.
LEMMA OpenRecordStep == ASSUME Inv, [Next]_vars PROVE OpenOnRecord'
<1> USE Nothings, OmegaAssumption DEF Inv, TypeOK, Goto, actionRow, hand, world, bounds,
       OpenOnRecord
<1>1. ASSUME NEW p \in Executor, StartRun(p) PROVE OpenOnRecord'
  BY <1>1 DEF StartRun
<1>2. ASSUME NEW p \in Executor, TakeAction(p) PROVE OpenOnRecord'
  BY <1>2 DEF TakeAction, Take
<1>3. ASSUME NEW p \in Executor, AskForApproval(p) PROVE OpenOnRecord'
  BY <1>3 DEF AskForApproval
<1>4. ASSUME NEW p \in Executor, RunExecutor(p) PROVE OpenOnRecord'
  BY <1>4 DEF RunExecutor
<1>5. ASSUME NEW p \in Executor, InsertAttempt(p) PROVE OpenOnRecord'
  BY <1>5, NextNoType, InsertedOnRecord DEF InsertAttempt
<1>6. ASSUME NEW p \in Executor, WaitForAttempt(p) PROVE OpenOnRecord'
  BY <1>6 DEF WaitForAttempt
<1>7. ASSUME NEW p \in Executor, InsertAfterWait(p) PROVE OpenOnRecord'
  BY <1>7, InsertedOnRecord DEF InsertAfterWait
<1>8. ASSUME NEW p \in Executor, Commit(p) PROVE OpenOnRecord'
  <2>1. ASSUME NEW a \in Action, open'[a].by # Nobody
        PROVE  open'[a] = open[a] /\ attempts'[a] = attempts[a]
    BY <1>8, <2>1, CommitAttempts DEF Commit, Leave
  <2>2. QED
    BY <2>1
<1>9. ASSUME NEW p \in Executor, Rollback(p) PROVE OpenOnRecord'
  BY <1>9 DEF Rollback, Leave
<1>10. CASE Others
  BY <1>10 DEF Others
<1>11. QED
  BY <1>1, <1>2, <1>3, <1>4, <1>5, <1>6, <1>7, <1>8, <1>9, <1>10,
     Cases DEF Inv

\* A step keeps the counts that were read backed by failures on record.
LEMMA SnapshotStep == ASSUME Inv, [Next]_vars PROVE SnapshotOnRecord'
<1> USE Nothings, OmegaAssumption DEF Inv, TypeOK, Goto, actionRow, hand, world, bounds,
       SnapshotOnRecord
<1>1. ASSUME NEW p \in Executor, StartRun(p) PROVE SnapshotOnRecord'
  <2>1. ASSUME NEW q \in Executor, NEW a \in Action
        PROVE  snapshot'[q][a] \in {snapshot[q][a], retry[a], 0}
    BY <1>1 DEF StartRun
  <2>2. ASSUME NEW a \in Action
        PROVE  /\ retry[a] <= Cardinality(FailuresIn(attempts[a]))
               /\ 0 <= Cardinality(FailuresIn(attempts[a]))
    <3>1. Cardinality(FailuresIn(attempts[a])) \in Nat
      BY FailuresFinite DEF AllNumbered, Numbered
    <3>2. retry[a] <= Cardinality(FailuresIn(attempts[a]))
      BY DEF RetriesOnRecord, FailuresIn
    <3>3. QED
      BY <3>1, <3>2
  <2>3. QED
    BY <1>1, <2>1, <2>2 DEF StartRun
<1>2. ASSUME NEW p \in Executor, TakeAction(p) PROVE SnapshotOnRecord'
  BY <1>2 DEF TakeAction, Take
<1>3. ASSUME NEW p \in Executor, AskForApproval(p) PROVE SnapshotOnRecord'
  BY <1>3 DEF AskForApproval
<1>4. ASSUME NEW p \in Executor, RunExecutor(p) PROVE SnapshotOnRecord'
  BY <1>4 DEF RunExecutor
<1>5. ASSUME NEW p \in Executor, InsertAttempt(p) PROVE SnapshotOnRecord'
  BY <1>5 DEF InsertAttempt, Inserted
<1>6. ASSUME NEW p \in Executor, WaitForAttempt(p) PROVE SnapshotOnRecord'
  BY <1>6 DEF WaitForAttempt
<1>7. ASSUME NEW p \in Executor, InsertAfterWait(p) PROVE SnapshotOnRecord'
  BY <1>7 DEF InsertAfterWait, Inserted
<1>8. ASSUME NEW p \in Executor, Commit(p) PROVE SnapshotOnRecord'
  <2>1. ASSUME NEW q \in Executor, NEW a \in Action
        PROVE  snapshot'[q][a] \in {snapshot[q][a], 0}
    BY <1>8 DEF Commit, Leave, NoCounts
  <2>2. ASSUME NEW a \in Action
        PROVE  /\ Cardinality(FailuresIn(attempts[a])) \in Nat
               /\ Cardinality(FailuresIn(attempts'[a])) \in Nat
               /\ Cardinality(FailuresIn(attempts[a]))
                    <= Cardinality(FailuresIn(attempts'[a]))
    BY <1>8, CommitAttempts, FailuresFinite DEF Numbered
  <2>3. ASSUME NEW q \in Executor, NEW a \in Action
        PROVE  snapshot'[q][a] <= Cardinality(FailuresIn(attempts'[a]))
    <3>1. snapshot[q][a] \in Nat
      OBVIOUS
    <3>2. snapshot[q][a] <= Cardinality(FailuresIn(attempts[a]))
      OBVIOUS
    <3> HIDE DEF Inv, TypeOK, SnapshotOnRecord
    <3>3. QED
      BY <2>1, <2>2, <3>1, <3>2
  <2>4. QED
    BY <2>3
<1>9. ASSUME NEW p \in Executor, Rollback(p) PROVE SnapshotOnRecord'
  <2>1. ASSUME NEW q \in Executor, NEW a \in Action
        PROVE  snapshot'[q][a] \in {snapshot[q][a], 0}
    BY <1>9 DEF Rollback, Leave, NoCounts
  <2>2. ASSUME NEW a \in Action
        PROVE  0 <= Cardinality(FailuresIn(attempts[a]))
    BY FailuresFinite DEF AllNumbered, Numbered
  <2>3. QED
    BY <1>9, <2>1, <2>2 DEF Rollback
<1>10. CASE Others
  BY <1>10 DEF Others
<1>11. QED
  BY <1>1, <1>2, <1>3, <1>4, <1>5, <1>6, <1>7, <1>8, <1>9, <1>10,
     Cases DEF Inv

\* A step keeps retry_count backed by failures on record.
LEMMA RetriesStep == ASSUME Inv, [Next]_vars PROVE RetriesOnRecord'
<1> USE Nothings, OmegaAssumption DEF Inv, TypeOK, Goto, actionRow, hand, world, bounds,
       RetriesOnRecord
<1>1. ASSUME NEW p \in Executor, StartRun(p) PROVE RetriesOnRecord'
  BY <1>1 DEF StartRun
<1>2. ASSUME NEW p \in Executor, TakeAction(p) PROVE RetriesOnRecord'
  BY <1>2 DEF TakeAction, Take
<1>3. ASSUME NEW p \in Executor, AskForApproval(p) PROVE RetriesOnRecord'
  BY <1>3 DEF AskForApproval
<1>4. ASSUME NEW p \in Executor, RunExecutor(p) PROVE RetriesOnRecord'
  BY <1>4 DEF RunExecutor
<1>5. ASSUME NEW p \in Executor, InsertAttempt(p) PROVE RetriesOnRecord'
  BY <1>5 DEF InsertAttempt, Inserted
<1>6. ASSUME NEW p \in Executor, WaitForAttempt(p) PROVE RetriesOnRecord'
  BY <1>6 DEF WaitForAttempt
<1>7. ASSUME NEW p \in Executor, InsertAfterWait(p) PROVE RetriesOnRecord'
  BY <1>7 DEF InsertAfterWait, Inserted
<1>8. ASSUME NEW p \in Executor, Commit(p) PROVE RetriesOnRecord'
  <2>1. ASSUME NEW a \in Action
        PROVE  retry'[a] <= Cardinality(FailuresIn(attempts'[a]))
    <3>1. CASE open[a].by = p
      <4>1. retry'[a] = open[a].retry /\ open[a].retry \in Nat
        BY <1>8, <3>1 DEF Commit, Mine, Write
      <4>2. CASE open[a].row \in Failure
        BY <1>8, <3>1, <4>1, <4>2, CommitAttempts DEF OpenOnRecord
      <4>3. CASE open[a].row \notin Failure
        <5>1. open[a].retry <= Cardinality(FailuresIn(attempts[a]))
          BY <3>1, <4>3 DEF OpenOnRecord
        <5>2. Cardinality(FailuresIn(attempts'[a])) \in Nat
          BY <1>8, CommitAttempts, FailuresFinite DEF Numbered
        <5>3. QED
          BY <1>8, <4>1, <5>1, <5>2, CommitAttempts
      <4>4. QED
        BY <4>2, <4>3
    <3>2. CASE open[a].by # p
      <4>1. retry'[a] = retry[a] /\ attempts'[a] = attempts[a]
        BY <1>8, <3>2, CommitAttempts DEF Commit, Mine
      <4>2. QED
        BY <4>1 DEF FailuresIn
    <3>3. QED
      BY <3>1, <3>2
  <2>2. QED
    BY <2>1 DEF FailuresIn
<1>9. ASSUME NEW p \in Executor, Rollback(p) PROVE RetriesOnRecord'
  BY <1>9 DEF Rollback, Leave
<1>10. CASE Others
  BY <1>10 DEF Others
<1>11. QED
  BY <1>1, <1>2, <1>3, <1>4, <1>5, <1>6, <1>7, <1>8, <1>9, <1>10,
     Cases DEF Inv

\* A step keeps who is about to run an effect with an approval seen.
LEMMA ApprovedStep == ASSUME Inv, [Next]_vars PROVE ApprovedSeen'
<1> USE Nothings, OmegaAssumption DEF Inv, TypeOK, Goto, actionRow, hand, world, bounds,
       ApprovedSeen
<1>1. ASSUME NEW p \in Executor, StartRun(p) PROVE ApprovedSeen'
  BY <1>1 DEF StartRun
<1>2. ASSUME NEW p \in Executor, TakeAction(p) PROVE ApprovedSeen'
  <2>1. UNCHANGED <<approval, granted>>
    BY <1>2 DEF TakeAction
  <2>2. PICK a \in Action, point \in {"execute", "insert", "ask"}, o \in Row :
          Take(p, a, point, o) /\ (point = "execute" => Allowed(a))
    BY <1>2 DEF TakeAction, Row, Executed
  <2>3. ASSUME NEW q \in Executor, pc'[q] = "execute", at'[q] \in NeedsApproval
        PROVE  saw'[q] = "approved" /\ at'[q] \in granted
    <3>1. CASE q = p
      BY <2>2, <2>3, <3>1 DEF Take, Allowed
    <3>2. CASE q # p
      <4>1. pc'[q] = pc[q] /\ at'[q] = at[q] /\ saw'[q] = saw[q]
        BY <2>2, <3>2 DEF Take
      <4>2. QED
        BY <2>3, <4>1
    <3>3. QED
      BY <3>1, <3>2
  <2>4. QED
    BY <2>1, <2>3
<1>3. ASSUME NEW p \in Executor, AskForApproval(p) PROVE ApprovedSeen'
  BY <1>3 DEF AskForApproval
<1>4. ASSUME NEW p \in Executor, RunExecutor(p) PROVE ApprovedSeen'
  BY <1>4 DEF RunExecutor
<1>5. ASSUME NEW p \in Executor, InsertAttempt(p) PROVE ApprovedSeen'
  BY <1>5 DEF InsertAttempt, Inserted
<1>6. ASSUME NEW p \in Executor, WaitForAttempt(p) PROVE ApprovedSeen'
  BY <1>6 DEF WaitForAttempt
<1>7. ASSUME NEW p \in Executor, InsertAfterWait(p) PROVE ApprovedSeen'
  BY <1>7 DEF InsertAfterWait, Inserted
<1>8. ASSUME NEW p \in Executor, Commit(p) PROVE ApprovedSeen'
  BY <1>8 DEF Commit, Leave, Mine
<1>9. ASSUME NEW p \in Executor, Rollback(p) PROVE ApprovedSeen'
  BY <1>9 DEF Rollback, Leave
<1>10. CASE Others
  BY <1>10 DEF Others
<1>11. QED
  BY <1>1, <1>2, <1>3, <1>4, <1>5, <1>6, <1>7, <1>8, <1>9, <1>10,
     Cases DEF Inv

\* A step runs no effect without an approval.
LEMMA EffectStep == ASSUME Inv, [Next]_vars PROVE NoEffectUnapproved'
<1> USE Nothings, OmegaAssumption DEF Inv, TypeOK, Goto, actionRow, hand, world, bounds,
       NoEffectUnapproved
<1>1. ASSUME NEW p \in Executor, StartRun(p) PROVE NoEffectUnapproved'
  BY <1>1 DEF StartRun
<1>2. ASSUME NEW p \in Executor, TakeAction(p) PROVE NoEffectUnapproved'
  BY <1>2 DEF TakeAction, Take
<1>3. ASSUME NEW p \in Executor, AskForApproval(p) PROVE NoEffectUnapproved'
  BY <1>3 DEF AskForApproval
<1>4. ASSUME NEW p \in Executor, RunExecutor(p) PROVE NoEffectUnapproved'
  BY <1>4 DEF RunExecutor, ApprovedSeen
<1>5. ASSUME NEW p \in Executor, InsertAttempt(p) PROVE NoEffectUnapproved'
  BY <1>5 DEF InsertAttempt, Inserted
<1>6. ASSUME NEW p \in Executor, WaitForAttempt(p) PROVE NoEffectUnapproved'
  BY <1>6 DEF WaitForAttempt
<1>7. ASSUME NEW p \in Executor, InsertAfterWait(p) PROVE NoEffectUnapproved'
  BY <1>7 DEF InsertAfterWait, Inserted
<1>8. ASSUME NEW p \in Executor, Commit(p) PROVE NoEffectUnapproved'
  BY <1>8 DEF Commit, Leave, Mine
<1>9. ASSUME NEW p \in Executor, Rollback(p) PROVE NoEffectUnapproved'
  BY <1>9 DEF Rollback, Leave
<1>10. CASE Others
  BY <1>10 DEF Others
<1>11. QED
  BY <1>1, <1>2, <1>3, <1>4, <1>5, <1>6, <1>7, <1>8, <1>9, <1>10,
     Cases DEF Inv

-----------------------------------------------------------------------------
\* The invariant holds at first and is kept by every step.
THEOREM Invariant == Spec => []Inv
<1>1. Init => Inv
  <2> SUFFICES ASSUME Init PROVE Inv
    OBVIOUS
  <2>1. IsFiniteSet({}) /\ Cardinality({}) = 0 /\ FailuresIn({}) = {}
    BY FS_EmptySet DEF FailuresIn
  <2>2. TypeOK
    BY Nothings, OmegaAssumption
       DEF Init, TypeOK, Approval, Control, Status, Point, Row
  <2>3. AllNumbered /\ OpenNumbered /\ OpenOnRecord
    BY <2>1, Nothings DEF Init, AllNumbered, Numbered, OpenNumbered, OpenOnRecord
  <2>4. WaitNumbered /\ SnapshotOnRecord /\ RetriesOnRecord
    BY <2>1 DEF Init, WaitNumbered, SnapshotOnRecord, RetriesOnRecord, NoCounts,
                FailuresIn
  <2>5. ApprovedSeen /\ NoEffectUnapproved
    BY OmegaAssumption DEF Init, ApprovedSeen, NoEffectUnapproved
  <2>6. QED
    BY <2>2, <2>3, <2>4, <2>5 DEF Inv
<1>2. Inv /\ [Next]_vars => Inv'
  BY TypeStep, NumberedStep, OpenStep, OpenRecordStep, WaitStep, SnapshotStep,
     RetriesStep, ApprovedStep, EffectStep DEF Inv
<1>3. QED
  BY <1>1, <1>2, PTL DEF Spec

\* Rows and what a run has in hand stay within their types.
THEOREM TypeCorrect == Spec => []TypeOK
<1>1. Inv => TypeOK
  BY DEF Inv
<1>2. QED
  BY <1>1, Invariant, PTL

\* However runs overlap and whichever are undone, the attempts of an action
\* are numbered one by one.
THEOREM NumberSafety == Spec => []AttemptsNumbered
<1>1. Inv => AttemptsNumbered
  BY DEF Inv, AllNumbered, Numbered, AttemptsNumbered
<1>2. QED
  BY <1>1, Invariant, PTL

\* retry_count never counts a failure without an attempt row.
THEOREM RetrySafety == Spec => []RetriesOnRecord
<1>1. Inv => RetriesOnRecord
  BY DEF Inv
<1>2. QED
  BY <1>1, Invariant, PTL

\* No effect is run before an approval that the action needs.
THEOREM ApprovalSafety == Spec => []NoEffectUnapproved
<1>1. Inv => NoEffectUnapproved
  BY DEF Inv
<1>2. QED
  BY <1>1, Invariant, PTL

\* Executor runs neither run nor reopen what is rejected.
THEOREM RejectionSafety == Spec => RejectionStands
<1>1. ASSUME Inv, [Next]_vars, NEW a \in NeedsApproval, approval[a] = "rejected"
      PROVE  /\ \/ effects'[a] = effects[a]
                \/ \E p \in Executor :
                     pc[p] = "execute" /\ at[p] = a /\ saw[p] = "approved"
             /\ \/ approval'[a] = "rejected"
                \/ open[a].saw \in Missing /\ open[a].by # Nobody
                \/ requests' # requests
  <2> USE <1>1 DEF actionRow, world, bounds
  <2>1. a \in Action
    BY OmegaAssumption
  <2>2. \/ effects'[a] = effects[a]
        \/ \E p \in Executor :
             pc[p] = "execute" /\ at[p] = a /\ saw[p] = "approved"
    <3>1. ASSUME NEW p \in Executor, RunExecutor(p), at[p] = a
          PROVE  pc[p] = "execute" /\ at[p] = a /\ saw[p] = "approved"
      BY <3>1 DEF RunExecutor, Inv, ApprovedSeen
    <3>2. ASSUME NEW p \in Executor, RunExecutor(p), at[p] # a
          PROVE  effects'[a] = effects[a]
      BY <2>1, <3>2 DEF RunExecutor, Inv, TypeOK
    <3>3. QED
      BY <3>1, <3>2, Cases
         DEF Inv, Others, StartRun, TakeAction, AskForApproval, InsertAttempt,
             WaitForAttempt, InsertAfterWait, Inserted, Commit, Rollback
  <2>3. \/ approval'[a] = "rejected"
        \/ open[a].saw \in Missing /\ open[a].by # Nobody
        \/ requests' # requests
    <3>1. ASSUME NEW p \in Executor, Commit(p)
          PROVE  \/ approval'[a] = "rejected"
                 \/ open[a].saw \in Missing /\ open[a].by # Nobody
      BY <2>1, <3>1, OmegaAssumption DEF Commit, Mine, Reset
    <3>2. ASSUME Request PROVE requests' # requests
      BY <3>2 DEF Request, Inv, TypeOK
    <3>3. QED
      BY <3>1, <3>2
         DEF Next, Proceed, StartRun, TakeAction, AskForApproval, RunExecutor,
             InsertAttempt, WaitForAttempt, InsertAfterWait, Inserted,
             NumberConflict, BreakDeadlock, Abort, Rollback, vars,
             RequestApproval, Approve, Reject, CancelApproval,
             RequestRollback, RunRollback, PsiRerun
  <2>4. QED
    BY <2>2, <2>3
<1>2. Inv /\ [Next]_vars =>
        [\A a \in NeedsApproval : approval[a] = "rejected" =>
           /\ \/ effects'[a] = effects[a]
              \/ \E p \in Executor :
                   pc[p] = "execute" /\ at[p] = a /\ saw[p] = "approved"
           /\ \/ approval'[a] = "rejected"
              \/ open[a].saw \in Missing /\ open[a].by # Nobody
              \/ requests' # requests]_vars
  BY <1>1
<1>3. QED
  BY <1>2, Invariant, PTL DEF Spec, RejectionStands

-----------------------------------------------------------------------------
(***************************************************************************)
(* What RunsEnd rests on beside the fairness of Proceed: while runs are    *)
(* open one of them can go on, and a run has a bounded number of steps.    *)
(***************************************************************************)
InHand(p) == pc[p] \in {"ask", "execute", "insert", "wait"} => at[p] \in todo[p]

Running ==
  /\ \A p \in Executor : InHand(p)
  /\ \A a \in Action : open[a].by # Nobody => pc[open[a].by] # "idle"

LEMMA RunningStep ==
  ASSUME Inv, Running, [Next]_vars
  PROVE  Running'
<1> USE Nothings, OmegaAssumption DEF Inv, TypeOK, Goto, Running, InHand
<1>1. ASSUME NEW p \in Executor, StartRun(p) PROVE Running'
  BY <1>1 DEF StartRun, hand
<1>2. ASSUME NEW p \in Executor, TakeAction(p) PROVE Running'
  <2>1. PICK a \in todo[p], point \in {"execute", "insert", "ask"},
             o \in {"success", "skipped", "approval_required"} :
          Take(p, a, point, o)
    BY <1>2 DEF TakeAction
  <2>2. QED
    BY <1>2, <2>1 DEF TakeAction, Take
<1>3. ASSUME NEW p \in Executor, AskForApproval(p) PROVE Running'
  BY <1>3 DEF AskForApproval, hand
<1>4. ASSUME NEW p \in Executor, RunExecutor(p) PROVE Running'
  BY <1>4 DEF RunExecutor
<1>5. ASSUME NEW p \in Executor, NEW no, Inserted(p, no) PROVE Running'
  <2>1. ASSUME NEW q \in Executor PROVE InHand(q)'
    BY <1>5 DEF Inserted
  <2>2. ASSUME NEW a \in Action, open'[a].by # Nobody
        PROVE  pc'[open'[a].by] # "idle"
    <3>1. CASE a = at[p]
      BY <1>5, <3>1 DEF Inserted
    <3>2. CASE a # at[p]
      <4>1. open'[a] = open[a] /\ open[a].by \in Executor
        BY <1>5, <2>2, <3>2 DEF Inserted, Write
      <4>2. QED
        BY <1>5, <2>2, <4>1 DEF Inserted
    <3>3. QED
      BY <3>1, <3>2
  <2>3. QED
    BY <2>1, <2>2
<1>6. ASSUME NEW p \in Executor, WaitForAttempt(p) PROVE Running'
  BY <1>6 DEF WaitForAttempt
<1>7. ASSUME NEW p \in Executor, Leave(p) PROVE Running'
  <2>1. ASSUME NEW q \in Executor PROVE InHand(q)'
    BY <1>7 DEF Leave
  <2>2. ASSUME NEW a \in Action, open'[a].by # Nobody
        PROVE  pc'[open'[a].by] # "idle"
    <3>1. open'[a] = open[a] /\ open[a].by # p
      BY <1>7, <2>2 DEF Leave
    <3>2. open[a].by \in Executor
      BY <2>2, <3>1 DEF Write
    <3>3. QED
      BY <1>7, <2>2, <3>1, <3>2 DEF Leave
  <2>3. QED
    BY <2>1, <2>2
<1>8. CASE Others
  BY <1>8 DEF Others, hand
<1>9. QED
  BY <1>1, <1>2, <1>3, <1>4, <1>5, <1>6, <1>7, <1>8, Cases
     DEF InsertAttempt, InsertAfterWait, Commit, Rollback

LEMMA RunningInvariance == Spec => [](Inv /\ Running)
<1>1. Init => Running
  BY Nothings DEF Init, Running, InHand
<1>2. Inv /\ Running /\ [Next]_vars => Running'
  BY RunningStep
<1>3. QED
  BY <1>1, <1>2, Invariant, PTL DEF Spec

\* p can take a step of its own: nothing it needs is in the hands of another
\* run, or it is in a circle of runs that wait for each other.
InCircle(p) ==
  \E S \in SUBSET Executor : p \in S /\ \A q \in S : \E r \in S : Waits(q, r)

Ready(p) ==
  \/ pc[p] \in {"next", "execute", "insert"}
  \/ pc[p] = "ask" /\ \A q \in Executor \ {p} : ~Asked(q, at[p])
  \/ pc[p] = "wait" /\ open[at[p]].by = Nobody
  \/ pc[p] \in {"ask", "wait"} /\ InCircle(p)

\* As long as a run is open, one of the open runs can go on: runs wait for open
\* runs only, and when all of them wait they wait in a circle, which the
\* database breaks.
THEOREM SomeRunGoesOn ==
  Spec => []((\E p \in Executor : pc[p] # "idle") =>
               \E p \in Executor : pc[p] # "idle" /\ Ready(p))
<1>1. ASSUME Inv, Running, NEW p \in Executor, pc[p] # "idle"
      PROVE  \E q \in Executor : pc[q] # "idle" /\ Ready(q)
  <2> USE <1>1
  <2> DEFINE S == {q \in Executor : pc[q] # "idle"}
  <2>1. SUFFICES ASSUME \A q \in S : ~Ready(q) PROVE FALSE
    OBVIOUS
  <2>2. ASSUME NEW q \in S PROVE \E r \in S : Waits(q, r)
    <3>1. pc[q] \in {"ask", "wait"}
      BY <2>1 DEF Ready, Inv, TypeOK, Point
    <3>2. at[q] \in Action /\ open[at[q]].by \in Executor \cup {Nobody}
      BY DEF Inv, TypeOK, Write
    <3>3. CASE pc[q] = "wait"
      <4>1. open[at[q]].by # Nobody
        BY <2>1, <3>3 DEF Ready
      <4>2. QED
        BY <3>2, <3>3, <4>1 DEF Running, Waits
    <3>4. CASE pc[q] = "ask"
      <4>1. PICK r \in Executor \ {q} : Asked(r, at[q])
        BY <2>1, <3>4 DEF Ready
      <4>2. pc[r] # "idle"
        BY <3>2, <4>1, OmegaAssumption DEF Asked, Running
      <4>3. QED
        BY <3>4, <4>1, <4>2 DEF Waits
    <3>5. QED
      BY <3>1, <3>3, <3>4
  <2>3. InCircle(p)
    BY <2>2 DEF InCircle
  <2>4. pc[p] \in {"ask", "wait"}
    BY <2>1 DEF Ready, Inv, TypeOK, Point
  <2>5. QED
    BY <2>1, <2>3, <2>4 DEF Ready
<1>2. Inv /\ Running =>
        ((\E p \in Executor : pc[p] # "idle") =>
           \E p \in Executor : pc[p] # "idle" /\ Ready(p))
  BY <1>1
<1>3. QED
  BY <1>2, RunningInvariance, PTL

\* Steps a run has before it at most.
StepsLeft(p) ==
  CASE pc[p] = "idle" -> 0
    [] pc[p] = "next" -> 4 * Cardinality(todo[p]) + 1
    [] pc[p] \in {"ask", "execute"} -> 4 * Cardinality(todo[p])
    [] pc[p] = "insert" -> 4 * Cardinality(todo[p]) - 1
    [] pc[p] = "wait" -> 4 * Cardinality(todo[p]) - 2

LEMMA StepsTypes ==
  ASSUME IsFiniteSet(Action), TypeOK, NEW p \in Executor, InHand(p)
  PROVE  /\ Cardinality(todo[p]) \in Nat
         /\ StepsLeft(p) \in Nat
         /\ pc[p] # "idle" => StepsLeft(p) > 0
         /\ pc[p] \in {"ask", "execute", "insert", "wait"} => Cardinality(todo[p]) >= 1
<1>1. IsFiniteSet(todo[p])
  BY FS_Subset DEF TypeOK
<1>2. Cardinality(todo[p]) \in Nat /\ (Cardinality(todo[p]) = 0 => todo[p] = {})
  BY <1>1, FS_CardinalityType, FS_EmptySet
<1>3. pc[p] \in {"idle", "next", "ask", "execute", "insert", "wait"}
  BY DEF TypeOK, Point
<1>4. pc[p] \in {"ask", "execute", "insert", "wait"} => Cardinality(todo[p]) >= 1
  BY <1>2 DEF InHand
<1>5. QED
  BY <1>2, <1>3, <1>4 DEF StepsLeft

LEMMA StepsPrimed ==
  ASSUME IsFiniteSet(Action), TypeOK', NEW p \in Executor, InHand(p)'
  PROVE  StepsLeft(p)' \in Nat
<1>1. IsFiniteSet(todo'[p])
  BY FS_Subset DEF TypeOK
<1>2. /\ Cardinality(todo'[p]) \in Nat
      /\ Cardinality(todo'[p]) = 0 => todo'[p] = {}
  BY <1>1, FS_CardinalityType, FS_EmptySet
<1>3. pc'[p] \in {"idle", "next", "ask", "execute", "insert", "wait"}
  BY DEF TypeOK, Point
<1>4. pc'[p] \in {"ask", "execute", "insert", "wait"} => Cardinality(todo'[p]) >= 1
  BY <1>2 DEF InHand
<1>5. QED
  BY <1>2, <1>3, <1>4 DEF StepsLeft

\* A step of a run, or its death, is one of those it had.
LEMMA OwnStep ==
  ASSUME IsFiniteSet(Action), Inv, Running, NEW p \in Executor,
         Proceed(p) \/ Abort(p)
  PROVE  StepsLeft(p)' < StepsLeft(p)
<1> USE DEF Inv, Goto
<1> DEFINE n == Cardinality(todo[p])
<1>1. /\ n \in Nat /\ StepsLeft(p) \in Nat
      /\ pc[p] # "idle" => StepsLeft(p) > 0
      /\ pc[p] \in {"ask", "execute", "insert", "wait"} => n >= 1
  BY StepsTypes DEF Running
<1>2. CASE TakeAction(p)
  <2>1. pc'[p] \in {"execute", "insert", "ask"} /\ todo'[p] = todo[p]
    BY <1>2 DEF TakeAction, Take, TypeOK
  <2>2. pc[p] = "next"
    BY <1>2 DEF TakeAction
  <2>3. QED
    BY <1>1, <2>1, <2>2 DEF StepsLeft
<1>3. CASE AskForApproval(p) \/ RunExecutor(p)
  <2>1. /\ pc[p] \in {"ask", "execute"} /\ pc'[p] = "insert"
        /\ todo'[p] = todo[p]
    BY <1>3 DEF AskForApproval, RunExecutor, TypeOK
  <2>2. QED
    BY <1>1, <2>1 DEF StepsLeft
<1>4. CASE WaitForAttempt(p)
  <2>1. pc[p] = "insert" /\ pc'[p] = "wait" /\ todo'[p] = todo[p]
    BY <1>4 DEF WaitForAttempt, TypeOK
  <2>2. QED
    BY <1>1, <2>1 DEF StepsLeft
<1>5. CASE InsertAttempt(p) \/ InsertAfterWait(p)
  <2>1. /\ pc[p] \in {"insert", "wait"} /\ pc'[p] = "next"
        /\ todo'[p] = todo[p] \ {at[p]}
    BY <1>5 DEF InsertAttempt, InsertAfterWait, Inserted, TypeOK
  <2>2. at[p] \in todo[p] /\ IsFiniteSet(todo[p])
    BY <2>1, FS_Subset DEF Running, InHand, TypeOK
  <2>3. Cardinality(todo'[p]) = n - 1
    BY <2>1, <2>2, FS_RemoveElement
  <2>4. QED
    BY <1>1, <2>1, <2>3 DEF StepsLeft
<1>6. CASE NumberConflict(p) \/ BreakDeadlock(p) \/ Commit(p) \/ Abort(p)
  <2>1. pc[p] # "idle" /\ pc'[p] = "idle"
    BY <1>6 DEF NumberConflict, BreakDeadlock, Commit, Abort, Rollback, Leave,
       TypeOK
  <2>2. StepsLeft(p)' = 0
    BY <2>1 DEF StepsLeft
  <2>3. QED
    BY <1>1, <2>1, <2>2
<1>7. QED
  BY <1>2, <1>3, <1>4, <1>5, <1>6 DEF Proceed

\* What others do costs an open run no steps and gives it none.
LEMMA OthersStep ==
  ASSUME Inv, [Next]_vars, NEW p \in Executor, pc[p] # "idle",
         ~(Proceed(p) \/ Abort(p))
  PROVE  StepsLeft(p)' = StepsLeft(p)
<1> USE DEF Inv, TypeOK, Goto
<1>1. ASSUME NEW q \in Executor, StartRun(q) \/ Proceed(q) \/ Abort(q), q # p
      PROVE  pc'[p] = pc[p] /\ todo'[p] = todo[p]
  BY <1>1 DEF StartRun, Proceed, TakeAction, Take, AskForApproval, RunExecutor,
     InsertAttempt, WaitForAttempt, InsertAfterWait, Inserted, NumberConflict,
     BreakDeadlock, Commit, Abort, Rollback, Leave
<1>2. ~StartRun(p)
  BY DEF StartRun
<1>3. ASSUME UNCHANGED <<pc, todo>>
      PROVE  pc'[p] = pc[p] /\ todo'[p] = todo[p]
  BY <1>3
<1>4. pc'[p] = pc[p] /\ todo'[p] = todo[p]
  BY <1>1, <1>2, <1>3
     DEF Next, vars, Request, RequestApproval, Approve, Reject, CancelApproval,
         RequestRollback, RunRollback, PsiRerun
<1>5. QED
  BY <1>4 DEF StepsLeft

\* A run over finitely many actions has a bounded number of steps, each step of
\* its own or its death is one of them, and nothing others do, decisions,
\* overlapping runs or reruns of Psi, gives it more.
THEOREM RunShortens ==
  ASSUME IsFiniteSet(Action)
  PROVE  Spec =>
    /\ [](\A p \in Executor : StepsLeft(p) \in 0 .. 4 * Cardinality(Action) + 1)
    /\ [][\A p \in Executor : pc[p] # "idle" =>
            /\ StepsLeft(p)' <= StepsLeft(p)
            /\ Proceed(p) \/ Abort(p) => StepsLeft(p)' < StepsLeft(p)]_vars
<1> DEFINE
      Bounded ==
        \A p \in Executor : StepsLeft(p) \in 0 .. 4 * Cardinality(Action) + 1
      Shortens ==
        \A p \in Executor : pc[p] # "idle" =>
          /\ StepsLeft(p)' <= StepsLeft(p)
          /\ Proceed(p) \/ Abort(p) => StepsLeft(p)' < StepsLeft(p)
<1>1. ASSUME Inv, Running PROVE Bounded
  <2>1. ASSUME NEW p \in Executor
        PROVE  StepsLeft(p) \in 0 .. 4 * Cardinality(Action) + 1
    <3>1. /\ Cardinality(todo[p]) \in Nat /\ StepsLeft(p) \in Nat
          /\ todo[p] \in SUBSET Action
      BY <1>1, StepsTypes DEF Inv, Running, TypeOK
    <3>2. /\ Cardinality(todo[p]) <= Cardinality(Action)
          /\ Cardinality(Action) \in Nat
      BY <3>1, FS_Subset, FS_CardinalityType
    <3>3. StepsLeft(p) <= 4 * Cardinality(todo[p]) + 1
      <4>1. pc[p] \in {"idle", "next", "ask", "execute", "insert", "wait"}
        BY <1>1 DEF Inv, TypeOK, Point
      <4>2. QED
        BY <3>1, <4>1 DEF StepsLeft
    <3>4. QED
      BY <3>1, <3>2, <3>3
  <2>2. QED
    BY <2>1
<1>2. ASSUME Inv, Running, [Next]_vars PROVE Shortens
  <2>1. ASSUME NEW p \in Executor, pc[p] # "idle"
        PROVE  /\ StepsLeft(p)' <= StepsLeft(p)
               /\ Proceed(p) \/ Abort(p) => StepsLeft(p)' < StepsLeft(p)
    <3>1. StepsLeft(p) \in Nat /\ StepsLeft(p)' \in Nat
      <4>1. TypeOK' /\ Running'
        BY <1>2, TypeStep, RunningStep
      <4>2. StepsLeft(p) \in Nat
        BY <1>2, StepsTypes DEF Inv, Running
      <4>3. InHand(p)'
        BY <4>1 DEF Running
      <4>4. QED
        BY <4>1, <4>2, <4>3, StepsPrimed
    <3>2. QED
      BY <1>2, <2>1, <3>1, OwnStep, OthersStep
  <2>2. QED
    BY <2>1
<1> HIDE DEF Bounded, Shortens
<1>3. Spec => []Bounded /\ [][Shortens]_vars
  BY <1>1, <1>2, RunningInvariance, PTL DEF Spec
<1>4. QED
  BY <1>3 DEF Bounded, Shortens
=============================================================================
