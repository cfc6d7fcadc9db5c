---------------------------- MODULE OmegaLogProofs ----------------------------
(***************************************************************************)
(* Proof that OmegaExecution implements AttemptLog: what the attempts of   *)
(* an action say, read in the order of their numbers, is a log that only   *)
(* grows at its end and reports no execution without an effect of its own. *)
(***************************************************************************)
EXTENDS OmegaExecutionProofs, SequenceTheorems

ClaimsIn(A) == {t \in A : t.row \in Executed}

\* The runs that have run the effect of a and not inserted the attempt yet.
Hands(a) ==
  {p \in Executor : /\ at[p] = a /\ pc[p] \in {"insert", "wait"}
                    /\ row[p] \in Executed}

OpenClaim(a) ==
  IF open[a].by # Nobody /\ open[a].row \in Executed THEN 1 ELSE 0

\* Every attempt that reports an execution, committed, inserted or still to
\* be inserted, has an effect of its own.
BackedAt(a) ==
  Cardinality(ClaimsIn(attempts[a])) + Cardinality(Hands(a)) + OpenClaim(a)
    <= effects[a]
Backed == \A a \in Action : BackedAt(a)

\* Who asks for an approval reports no execution.
AskBlocked == \A p \in Executor : pc[p] = "ask" => row[p] \notin Executed

LogInv == Inv /\ AskBlocked /\ Backed

-----------------------------------------------------------------------------
(***************************************************************************)
(* Attempts as a log.                                                      *)
(***************************************************************************)
EntriesOf(A) ==
  [n \in 1 .. Cardinality(A) |-> (CHOOSE t \in A : t.no = n).row]

\* The log of numbered attempts has each of them at its number.
LEMMA EntriesOfNumbered ==
  ASSUME NEW A \in SUBSET Attempt, Numbered(A)
  PROVE  /\ Cardinality(A) \in Nat
         /\ EntriesOf(A) \in Seq(Row)
         /\ Len(EntriesOf(A)) = Cardinality(A)
         /\ DOMAIN EntriesOf(A) = 1 .. Cardinality(A)
         /\ \A t \in A : t.no \in 1 .. Cardinality(A)
         /\ \A t \in A : EntriesOf(A)[t.no] = t.row
<1>1. Cardinality(A) \in Nat
  BY FS_CardinalityType DEF Numbered
<1>2. \A t \in A : t.no \in 1 .. Cardinality(A) /\ t.row \in Row
  BY <1>1 DEF Numbered, Attempt
<1>3. ASSUME NEW t \in A PROVE (CHOOSE u \in A : u.no = t.no) = t
  BY DEF Numbered
<1>4. \A n \in 1 .. Cardinality(A) : (CHOOSE u \in A : u.no = n).row \in Row
  <2>1. ASSUME NEW n \in 1 .. Cardinality(A)
        PROVE  (CHOOSE u \in A : u.no = n).row \in Row
    <3>1. PICK t \in A : t.no = n
      BY DEF Numbered
    <3>2. QED
      BY <1>2, <1>3, <3>1
  <2>2. QED
    BY <2>1
<1>5. EntriesOf(A) \in [1 .. Cardinality(A) -> Row]
  BY <1>4 DEF EntriesOf
<1>6. EntriesOf(A) \in Seq(Row) /\ Len(EntriesOf(A)) = Cardinality(A)
  BY <1>1, <1>5
<1>7. \A t \in A : EntriesOf(A)[t.no] = t.row
  BY <1>2, <1>3 DEF EntriesOf
<1>8. QED
  BY <1>1, <1>2, <1>5, <1>6, <1>7

\* The log says "executed" as often as the attempts do.
LEMMA ClaimsCounted ==
  ASSUME NEW A \in SUBSET Attempt, Numbered(A)
  PROVE  /\ Log!Claims(EntriesOf(A)) <= Cardinality(ClaimsIn(A))
         /\ Log!Claims(EntriesOf(A)) \in Nat
         /\ Cardinality(ClaimsIn(A)) \in Nat
<1> DEFINE N == {n \in DOMAIN EntriesOf(A) : EntriesOf(A)[n] \in Executed}
           f == [n \in N |-> CHOOSE t \in A : t.no = n]
<1>1. ASSUME NEW n \in N PROVE f[n] \in ClaimsIn(A) /\ f[n].no = n
  <2>1. PICK t \in A : t.no = n
    BY EntriesOfNumbered DEF Numbered
  <2>2. f[n] = t
    BY <2>1 DEF Numbered
  <2>3. t.row \in Executed
    BY <2>1, EntriesOfNumbered
  <2>4. QED
    BY <2>1, <2>2, <2>3 DEF ClaimsIn
<1>2. f \in Injection(N, ClaimsIn(A))
  <2>1. f \in [N -> ClaimsIn(A)]
    BY <1>1
  <2>2. \A m, n \in N : f[m] = f[n] => m = n
    <3> HIDE DEF f
    <3>1. QED
      BY <1>1
  <2>3. QED
    BY <2>1, <2>2 DEF Injection, IsInjective
<1>3. IsFiniteSet(ClaimsIn(A))
  BY FS_Subset DEF ClaimsIn, Numbered
<1>4. /\ Cardinality(N) <= Cardinality(ClaimsIn(A))
      /\ Cardinality(N) \in Nat /\ Cardinality(ClaimsIn(A)) \in Nat
  BY <1>2, <1>3, FS_Injection, FS_CardinalityType
<1>5. QED
  BY <1>4 DEF Log!Claims, Log!Cardinality, Cardinality

\* One attempt more, with the next number, is one entry more at the end.
LEMMA AppendAttempt ==
  ASSUME NEW A \in SUBSET Attempt, Numbered(A), NEW r \in Row
  PROVE  LET t == [no |-> Cardinality(A) + 1, row |-> r]
         IN  /\ EntriesOf(A \cup {t}) = Append(EntriesOf(A), r)
             /\ Cardinality(ClaimsIn(A \cup {t})) =
                  Cardinality(ClaimsIn(A)) + (IF r \in Executed THEN 1 ELSE 0)
<1> DEFINE n == Cardinality(A)
           t == [no |-> n + 1, row |-> r]
           B == A \cup {t}
<1>1. n \in Nat /\ Cardinality(B) = n + 1 /\ Numbered(B)
  BY AddAttempt, EntriesOfNumbered
<1>2. t \in Attempt /\ t.no = n + 1 /\ t.row = r
  BY <1>1 DEF Attempt
<1>3. B \in SUBSET Attempt
  BY <1>2
<1>4. /\ EntriesOf(A) \in Seq(Row) /\ Len(EntriesOf(A)) = n
      /\ EntriesOf(B) \in Seq(Row) /\ Len(EntriesOf(B)) = n + 1
  BY <1>1, <1>3, EntriesOfNumbered
<1>5. ASSUME NEW m \in 1 .. n + 1
      PROVE  EntriesOf(B)[m] = Append(EntriesOf(A), r)[m]
  <2>1. CASE m = n + 1
    <3>1. EntriesOf(B)[n + 1] = r
      BY <1>1, <1>2, <1>3, EntriesOfNumbered
    <3>2. QED
      BY <1>4, <2>1, <3>1, AppendProperties
  <2>2. CASE m # n + 1
    <3>1. m \in 1 .. n
      BY <1>1, <2>2
    <3>2. PICK u \in A : u.no = m
      BY <3>1 DEF Numbered
    <3>3. EntriesOf(A)[m] = u.row
      BY <3>2, EntriesOfNumbered
    <3>4. EntriesOf(B)[m] = u.row
      BY <1>1, <1>3, <3>2, EntriesOfNumbered
    <3>5. Append(EntriesOf(A), r)[m] = EntriesOf(A)[m]
      BY <1>4, <3>1, AppendProperties
    <3>6. QED
      BY <3>3, <3>4, <3>5
  <2>3. QED
    BY <2>1, <2>2
<1>6. EntriesOf(B) = Append(EntriesOf(A), r)
  <2>1. Append(EntriesOf(A), r) \in Seq(Row) /\ Len(Append(EntriesOf(A), r)) = n + 1
    BY <1>4, AppendProperties
  <2>2. QED
    BY <1>4, <1>5, <2>1, SeqEqual
<1>7. t \notin A
  BY <1>1, <1>2, EntriesOfNumbered
<1>8. IsFiniteSet(ClaimsIn(A))
  BY FS_Subset DEF ClaimsIn, Numbered
<1>9. CASE r \in Executed
  <2>1. ClaimsIn(B) = ClaimsIn(A) \cup {t} /\ t \notin ClaimsIn(A)
    BY <1>2, <1>7, <1>9 DEF ClaimsIn
  <2>2. QED
    BY <1>6, <1>8, <1>9, <2>1, FS_AddElement
<1>10. CASE r \notin Executed
  <2>1. ClaimsIn(B) = ClaimsIn(A)
    BY <1>2, <1>10 DEF ClaimsIn
  <2>2. Cardinality(ClaimsIn(A)) \in Nat
    BY <1>8, FS_CardinalityType
  <2>3. Cardinality(ClaimsIn(B))
          = Cardinality(ClaimsIn(A)) + (IF r \in Executed THEN 1 ELSE 0)
    BY <1>10, <2>1, <2>2
  <2>4. QED
    BY <1>6, <2>3
<1>11. QED
  BY <1>9, <1>10

-----------------------------------------------------------------------------
(***************************************************************************)
(* Every reported execution has an effect of its own.                      *)
(***************************************************************************)
LEMMA CountTypes ==
  ASSUME Inv, NEW a \in Action
  PROVE  /\ Cardinality(ClaimsIn(attempts[a])) \in Nat
         /\ IsFiniteSet(Hands(a)) /\ Cardinality(Hands(a)) \in Nat
         /\ OpenClaim(a) \in Nat /\ OpenClaim(a) <= 1
         /\ effects[a] \in Nat
<1>1. IsFiniteSet(attempts[a])
  BY DEF Inv, AllNumbered, Numbered
<1>2. IsFiniteSet(ClaimsIn(attempts[a]))
  BY <1>1, FS_Subset DEF ClaimsIn
<1>3. IsFiniteSet(Hands(a))
  BY OmegaAssumption, FS_Subset DEF Hands
<1>4. QED
  BY <1>2, <1>3, FS_CardinalityType DEF OpenClaim, Inv, TypeOK

\* An action stays backed when nothing is reported anew.
LEMMA NoNewClaim ==
  ASSUME Inv, NEW a \in Action, BackedAt(a),
         attempts'[a] = attempts[a], effects'[a] = effects[a],
         Hands(a)' \subseteq Hands(a), OpenClaim(a)' <= OpenClaim(a),
         OpenClaim(a)' \in Nat
  PROVE  BackedAt(a)'
<1>1. /\ Cardinality(Hands(a)') <= Cardinality(Hands(a))
      /\ Cardinality(Hands(a)') \in Nat
  BY CountTypes, FS_Subset, FS_CardinalityType
<1>2. QED
  BY <1>1, CountTypes DEF BackedAt

\* Inserting an attempt hands its claim over.
LEMMA InsertedBacked ==
  ASSUME LogInv, NEW p \in Executor, pc[p] \in {"insert", "wait"},
         open[at[p]].by = Nobody, NEW no, Inserted(p, no), NEW a \in Action
  PROVE  BackedAt(a)'
<1> USE DEF LogInv, Inserted, Goto, world, actionRow
<1>1. attempts'[a] = attempts[a] /\ effects'[a] = effects[a]
  OBVIOUS
<1>2. Hands(a)' \subseteq Hands(a) \ {p}
  <2>1. pc'[p] = "next"
    BY DEF Inv, TypeOK
  <2>2. ASSUME NEW q \in Executor, q # p
        PROVE  pc'[q] = pc[q] /\ at'[q] = at[q] /\ row'[q] = row[q]
    BY <2>2 DEF Inv, TypeOK
  <2>3. QED
    BY <2>1, <2>2 DEF Hands
<1>3. CASE at[p] # a \/ row[p] \notin Executed
  <2>1. OpenClaim(a)' <= OpenClaim(a) /\ OpenClaim(a)' \in Nat
    BY <1>3 DEF OpenClaim, Inv, TypeOK
  <2>2. QED
    BY <1>1, <1>2, <2>1, NoNewClaim DEF Backed
<1>4. CASE at[p] = a /\ row[p] \in Executed
  <2>1. p \in Hands(a)
    BY <1>4 DEF Hands
  <2>2. /\ Cardinality(Hands(a) \ {p}) = Cardinality(Hands(a)) - 1
        /\ IsFiniteSet(Hands(a) \ {p})
    BY <2>1, CountTypes, FS_RemoveElement
  <2>3. /\ Cardinality(Hands(a)') <= Cardinality(Hands(a)) - 1
        /\ Cardinality(Hands(a)') \in Nat
    BY <1>2, <2>2, FS_Subset, FS_CardinalityType
  <2>4. OpenClaim(a) = 0 /\ OpenClaim(a)' <= 1 /\ OpenClaim(a)' \in Nat
    BY <1>4 DEF OpenClaim
  <2>5. QED
    BY <1>1, <2>3, <2>4, CountTypes DEF Backed, BackedAt
<1>5. QED
  BY <1>3, <1>4

\* A run that leaves has nothing more to insert.
LEMMA LeaveClaims ==
  ASSUME TypeOK, NEW p \in Executor, Leave(p), NEW a \in Action
  PROVE  /\ Hands(a)' \subseteq Hands(a)
         /\ OpenClaim(a)' \in Nat
         /\ open[a].by # p => OpenClaim(a)' = OpenClaim(a)
         /\ open[a].by = p => OpenClaim(a)' = 0
<1>1. pc'[p] = "idle"
  BY DEF Leave, Goto, TypeOK
<1>2. ASSUME NEW q \in Executor, q # p
      PROVE  pc'[q] = pc[q] /\ at'[q] = at[q] /\ row'[q] = row[q]
  BY <1>2 DEF Leave, Goto, TypeOK
<1>3. Hands(a)' \subseteq Hands(a)
  BY <1>1, <1>2 DEF Hands
<1>4. open'[a] = IF open[a].by = p THEN NoWrite ELSE open[a]
  BY DEF Leave
<1>5. QED
  BY <1>3, <1>4, Nothings DEF OpenClaim

\* Committing an attempt keeps its claim.
LEMMA CommitBacked ==
  ASSUME LogInv, NEW p \in Executor, Commit(p), NEW a \in Action
  PROVE  BackedAt(a)'
<1> USE DEF LogInv
<1>1. effects'[a] = effects[a] /\ Leave(p)
  BY DEF Commit, world
<1>2. CASE open[a].by # p
  BY <1>1, <1>2, CommitAttempts, LeaveClaims, CountTypes, NoNewClaim
     DEF Backed, Inv
<1>3. CASE open[a].by = p
  <2>1. open[a].row \in Row /\ open[a].no = Cardinality(attempts[a]) + 1
    BY <1>3, OmegaAssumption DEF Inv, TypeOK, Write, OpenNumbered
  <2>2. Numbered(attempts[a]) /\ attempts[a] \in SUBSET Attempt
    BY DEF Inv, AllNumbered, TypeOK
  <2>3. attempts'[a] = attempts[a] \cup
          {[no |-> Cardinality(attempts[a]) + 1, row |-> open[a].row]}
    BY <1>3, <2>1 DEF Commit, Mine
  <2>4. Cardinality(ClaimsIn(attempts'[a])) =
          Cardinality(ClaimsIn(attempts[a])) + OpenClaim(a)
    BY <1>3, <2>1, <2>2, <2>3, AppendAttempt, OmegaAssumption DEF OpenClaim
  <2>5. /\ Cardinality(Hands(a)') <= Cardinality(Hands(a))
        /\ Cardinality(Hands(a)') \in Nat
    BY <1>1, LeaveClaims, CountTypes, FS_Subset, FS_CardinalityType DEF Inv
  <2>6. OpenClaim(a)' = 0
    BY <1>1, <1>3, LeaveClaims DEF Inv
  <2>7. QED
    BY <1>1, <2>4, <2>5, <2>6, CountTypes DEF Backed, BackedAt
<1>4. QED
  BY <1>2, <1>3

\* A step keeps every reported execution backed by an effect.
LEMMA BackedStep ==
  ASSUME LogInv, [Next]_vars, NEW a \in Action PROVE BackedAt(a)'
<1> USE DEF actionRow, hand, world, bounds, Goto
<1>1. Inv /\ TypeOK /\ BackedAt(a)
  BY DEF LogInv, Inv, Backed
<1>2. OpenClaim(a) \in Nat
  BY <1>1, CountTypes
<1>3. ASSUME NEW p \in Executor, StartRun(p) PROVE BackedAt(a)'
  <2>1. Hands(a)' \subseteq Hands(a)
    BY <1>1, <1>3 DEF StartRun, Hands, TypeOK
  <2>2. OpenClaim(a)' = OpenClaim(a)
    BY <1>3 DEF StartRun, OpenClaim
  <2>3. QED
    BY <1>1, <1>2, <1>3, <2>1, <2>2, NoNewClaim DEF StartRun
<1>4. ASSUME NEW p \in Executor, TakeAction(p) PROVE BackedAt(a)'
  <2>1. PICK c \in Action, point \in {"execute", "insert", "ask"}, o \in Row :
          Take(p, c, point, o) /\ (point = "insert" => o \notin Executed)
    BY <1>1, <1>4 DEF TakeAction, TypeOK, Row, Executed, Failure
  <2>2. pc'[p] = point /\ row'[p] = o
    BY <1>1, <2>1 DEF Take, TypeOK
  <2>3. ASSUME NEW q \in Executor, q # p
        PROVE  pc'[q] = pc[q] /\ at'[q] = at[q] /\ row'[q] = row[q]
    BY <1>1, <2>1, <2>3 DEF Take, TypeOK
  <2>4. Hands(a)' \subseteq Hands(a)
    BY <2>1, <2>2, <2>3 DEF Hands
  <2>5. OpenClaim(a)' = OpenClaim(a)
    BY <1>4 DEF TakeAction, OpenClaim
  <2>6. QED
    BY <1>1, <1>2, <1>4, <2>4, <2>5, NoNewClaim DEF TakeAction
<1>5. ASSUME NEW p \in Executor, AskForApproval(p) PROVE BackedAt(a)'
  <2>1. Hands(a)' \subseteq Hands(a)
    BY <1>1, <1>5 DEF AskForApproval, Hands, TypeOK, LogInv, AskBlocked
  <2>2. OpenClaim(a)' = OpenClaim(a)
    BY <1>5 DEF AskForApproval, OpenClaim
  <2>3. QED
    BY <1>1, <1>2, <1>5, <2>1, <2>2, NoNewClaim DEF AskForApproval
<1>6. ASSUME NEW p \in Executor, RunExecutor(p) PROVE BackedAt(a)'
  <2>1. OpenClaim(a)' = OpenClaim(a) /\ attempts'[a] = attempts[a]
    BY <1>6 DEF RunExecutor, OpenClaim
  <2>2. ASSUME NEW q \in Executor, q # p
        PROVE  pc'[q] = pc[q] /\ at'[q] = at[q] /\ row'[q] = row[q]
    BY <1>1, <1>6, <2>2 DEF RunExecutor, TypeOK
  <2>3. CASE at[p] = a
    <3>1. effects'[a] = effects[a] + 1
      BY <1>1, <1>6, <2>3 DEF RunExecutor, TypeOK
    <3>2. Hands(a)' \subseteq Hands(a) \cup {p}
      BY <2>2 DEF Hands
    <3>3. /\ IsFiniteSet(Hands(a) \cup {p})
          /\ Cardinality(Hands(a) \cup {p}) <= Cardinality(Hands(a)) + 1
      <4>1. IsFiniteSet(Hands(a)) /\ Cardinality(Hands(a)) \in Nat
        BY <1>1, CountTypes
      <4>2. Cardinality(Hands(a) \cup {p}) \in
              {Cardinality(Hands(a)), Cardinality(Hands(a)) + 1}
        BY <4>1, FS_AddElement, Zenon
      <4>3. IsFiniteSet(Hands(a) \cup {p})
        BY <4>1, FS_AddElement
      <4>4. QED
        BY <4>1, <4>2, <4>3
    <3>4. Cardinality(Hands(a) \cup {p}) \in Nat
      BY <3>3, FS_CardinalityType
    <3>5. /\ Cardinality(Hands(a)') <= Cardinality(Hands(a)) + 1
          /\ Cardinality(Hands(a)') \in Nat
      BY <1>1, <3>2, <3>3, <3>4, CountTypes, FS_Subset, FS_CardinalityType
    <3>6. QED
      BY <1>1, <2>1, <3>1, <3>5, CountTypes DEF BackedAt
  <2>4. CASE at[p] # a
    <3>1. effects'[a] = effects[a] /\ at'[p] = at[p]
      BY <1>1, <1>6, <2>4 DEF RunExecutor, TypeOK
    <3>2. Hands(a)' \subseteq Hands(a)
      BY <2>2, <2>4, <3>1 DEF Hands
    <3>3. QED
      BY <1>1, <1>2, <2>1, <3>1, <3>2, NoNewClaim
  <2>5. QED
    BY <2>3, <2>4
<1>7. ASSUME NEW p \in Executor, InsertAttempt(p) PROVE BackedAt(a)'
  BY <1>7, InsertedBacked DEF InsertAttempt
<1>8. ASSUME NEW p \in Executor, WaitForAttempt(p) PROVE BackedAt(a)'
  <2>1. Hands(a)' \subseteq Hands(a)
    BY <1>1, <1>8 DEF WaitForAttempt, Hands, TypeOK
  <2>2. OpenClaim(a)' = OpenClaim(a)
    BY <1>8 DEF WaitForAttempt, OpenClaim
  <2>3. QED
    BY <1>1, <1>2, <1>8, <2>1, <2>2, NoNewClaim DEF WaitForAttempt
<1>9. ASSUME NEW p \in Executor, InsertAfterWait(p) PROVE BackedAt(a)'
  BY <1>9, InsertedBacked DEF InsertAfterWait
<1>10. ASSUME NEW p \in Executor, Commit(p) PROVE BackedAt(a)'
  BY <1>10, CommitBacked
<1>11. ASSUME NEW p \in Executor, Rollback(p) PROVE BackedAt(a)'
  <2>1. Leave(p) /\ attempts'[a] = attempts[a] /\ effects'[a] = effects[a]
    BY <1>11 DEF Rollback
  <2>2. OpenClaim(a)' <= OpenClaim(a) /\ OpenClaim(a)' \in Nat
    BY <1>1, <1>2, <2>1, LeaveClaims
  <2>3. QED
    BY <1>1, <2>1, <2>2, LeaveClaims, NoNewClaim
<1>12. CASE Others
  <2>1. Hands(a)' = Hands(a) /\ OpenClaim(a)' = OpenClaim(a)
    BY <1>12 DEF Others, Hands, OpenClaim
  <2>2. QED
    BY <1>1, <1>2, <1>12, <2>1, NoNewClaim DEF Others
<1>13. QED
  BY <1>1, <1>3, <1>4, <1>5, <1>6, <1>7, <1>8, <1>9, <1>10, <1>11, <1>12, Cases

\* Who goes to ask for an approval has a blocked attempt in hand.
LEMMA AskStep == ASSUME LogInv, [Next]_vars PROVE AskBlocked'
<1> USE DEF AskBlocked, hand, Goto
<1>1. Inv /\ TypeOK /\ AskBlocked
  BY DEF LogInv, Inv
<1>2. ASSUME NEW p \in Executor, TakeAction(p) PROVE AskBlocked'
  <2>1. PICK c \in Action, point \in {"execute", "insert", "ask"}, o \in Row :
          Take(p, c, point, o) /\ (point = "ask" => o \notin Executed)
    BY <1>1, <1>2 DEF TakeAction, TypeOK, Row, Executed, Failure
  <2>2. QED
    BY <1>1, <2>1 DEF Take, TypeOK
<1>3. ASSUME NEW p \in Executor, Leave(p) PROVE AskBlocked'
  BY <1>1, <1>3 DEF Leave, TypeOK
<1>4. ASSUME NEW p \in Executor, NEW no, Inserted(p, no) PROVE AskBlocked'
  BY <1>1, <1>4 DEF Inserted, TypeOK
<1>5. ASSUME NEW p \in Executor,
             StartRun(p) \/ AskForApproval(p) \/ RunExecutor(p) \/ WaitForAttempt(p)
      PROVE  AskBlocked'
  BY <1>1, <1>5 DEF StartRun, AskForApproval, RunExecutor, WaitForAttempt, TypeOK
<1>6. CASE Others
  BY <1>1, <1>6 DEF Others
<1>7. QED
  BY <1>1, <1>2, <1>3, <1>4, <1>5, <1>6, Cases
     DEF InsertAttempt, InsertAfterWait, Commit, Rollback

\* Every execution an attempt reports, committed or still open, has an effect of
\* its own, also after overlapping runs were undone and their actions run again.
THEOREM LogInvariant == Spec => []LogInv
<1>1. Init => AskBlocked /\ Backed
  <2> SUFFICES ASSUME Init PROVE AskBlocked /\ Backed
    OBVIOUS
  <2>1. AskBlocked
    BY DEF Init, AskBlocked
  <2>2. ASSUME NEW a \in Action PROVE BackedAt(a)
    <3>1. ClaimsIn(attempts[a]) = {} /\ Hands(a) = {} /\ OpenClaim(a) = 0
      BY <2>2, Nothings DEF Init, ClaimsIn, Hands, OpenClaim
    <3>2. effects[a] = 0 /\ Cardinality({}) = 0
      BY FS_EmptySet DEF Init
    <3>3. QED
      BY <3>1, <3>2 DEF BackedAt
  <2>3. QED
    BY <2>1, <2>2 DEF Backed
<1>2. Inv /\ AskBlocked /\ Backed /\ [Next]_vars => AskBlocked' /\ Backed'
  BY BackedStep, AskStep DEF LogInv, Backed
<1>3. QED
  BY <1>1, <1>2, Invariant, PTL DEF Spec, LogInv

-----------------------------------------------------------------------------
\* The attempts of every action are a log: it grows at its end alone, by a
\* run's entries all at once, and reports no execution without an effect.
THEOREM LogRefinement == Spec => AttemptsLogged
<1> DEFINE log == [a \in Action |-> Entries(a)]
<1>1. ASSUME Init PROVE Log!Init
  <2>1. ASSUME NEW a \in Action PROVE Entries(a) = <<>>
    <3>1. attempts[a] = {} /\ Cardinality(attempts[a]) = 0
      BY <1>1, FS_EmptySet DEF Init
    <3>2. QED
      BY <3>1 DEF Entries
  <2>2. QED
    BY <1>1, <2>1 DEF Log!Init, Init
<1>2. ASSUME LogInv, LogInv', [Next]_vars
      PROVE  [Log!Next]_<<log, effects>>
  <2> USE <1>2 DEF world, actionRow, hand
  <2>1. Inv /\ TypeOK
    BY DEF LogInv, Inv
  <2>2. ASSUME UNCHANGED <<attempts, effects>> PROVE UNCHANGED <<log, effects>>
    BY <2>2 DEF Entries
  <2>3. ASSUME NEW p \in Executor, RunExecutor(p) PROVE Log!Next
    <3>1. at[p] \in Action /\ effects' = [effects EXCEPT ![at[p]] = @ + 1]
      BY <2>1, <2>3 DEF RunExecutor, TypeOK
    <3>2. UNCHANGED log
      BY <2>3 DEF RunExecutor, Entries
    <3>3. Log!RunEffect(at[p])
      BY <3>1, <3>2 DEF Log!RunEffect
    <3>4. QED
      BY <3>1, <3>3 DEF Log!Next
  <2>4. ASSUME NEW p \in Executor, Commit(p) PROVE Log!Next
    <3> DEFINE rows == [a \in Mine(p) |-> open[a].row]
    <3>1. Mine(p) \in SUBSET Action /\ rows \in [Mine(p) -> Row]
      BY <2>1 DEF Mine, TypeOK, Write
    <3>2. UNCHANGED effects
      BY <2>4 DEF Commit
    <3>3. ASSUME NEW a \in Action
          PROVE  Entries(a)' = IF a \in Mine(p) THEN Append(Entries(a), rows[a])
                                                ELSE Entries(a)
      <4>1. CASE a \in Mine(p)
        <5>1. open[a].row \in Row /\ open[a].no = Cardinality(attempts[a]) + 1
          BY <2>1, <4>1, OmegaAssumption DEF Mine, Inv, TypeOK, Write, OpenNumbered
        <5>2. Numbered(attempts[a]) /\ attempts[a] \in SUBSET Attempt
          BY <2>1 DEF Inv, AllNumbered, TypeOK
        <5>3. attempts'[a] = attempts[a] \cup
                {[no |-> Cardinality(attempts[a]) + 1, row |-> open[a].row]}
          BY <2>4, <4>1, <5>1 DEF Commit
        <5>4. EntriesOf(attempts'[a]) = Append(EntriesOf(attempts[a]), open[a].row)
          BY <5>1, <5>2, <5>3, AppendAttempt
        <5>5. QED
          BY <4>1, <5>4 DEF EntriesOf, Entries
      <4>2. CASE a \notin Mine(p)
        BY <2>4, <4>2 DEF Commit, Entries
      <4>3. QED
        BY <4>1, <4>2
    <3>4. ASSUME NEW a \in Action PROVE Log!Claims(Entries(a)') <= effects[a]
      <4>1. Numbered(attempts'[a]) /\ attempts'[a] \in SUBSET Attempt
        BY <2>1, <2>4, CommitAttempts
      <4>2. /\ Log!Claims(EntriesOf(attempts'[a])) <= Cardinality(ClaimsIn(attempts'[a]))
            /\ Log!Claims(EntriesOf(attempts'[a])) \in Nat
            /\ Cardinality(ClaimsIn(attempts'[a])) \in Nat
        BY <4>1, ClaimsCounted
      <4>3. EntriesOf(attempts'[a]) = Entries(a)'
        BY DEF EntriesOf, Entries
      <4>4. Cardinality(Hands(a)') \in Nat /\ OpenClaim(a)' \in Nat
        BY OmegaAssumption, FS_Subset, FS_CardinalityType DEF Hands, OpenClaim
      <4>5. effects'[a] = effects[a] /\ effects[a] \in Nat
        BY <2>1, <3>2 DEF TypeOK
      <4>6. Cardinality(ClaimsIn(attempts'[a])) + Cardinality(Hands(a)')
              + OpenClaim(a)' <= effects'[a]
        BY DEF LogInv, Backed, BackedAt
      <4>7. QED
        BY <4>2, <4>3, <4>4, <4>5, <4>6
    <3>5. Log!Record(Mine(p), rows)
      <4>1. log' = [a \in Action |-> IF a \in Mine(p) THEN Append(log[a], rows[a])
                                                      ELSE log[a]]
        BY <3>3
      <4>2. \A a \in Mine(p) : Log!Claims(log'[a]) <= effects[a]
        BY <3>1, <3>4
      <4>3. QED
        BY <3>2, <4>1, <4>2 DEF Log!Record
    <3>6. QED
      BY <3>1, <3>5 DEF Log!Next
  <2>5. QED
    BY <2>1, <2>2, <2>3, <2>4, Cases
       DEF StartRun, TakeAction, AskForApproval, InsertAttempt, WaitForAttempt,
           InsertAfterWait, Inserted, Rollback, Others
<1>3. QED
  BY <1>1, <1>2, LogInvariant, PTL DEF Spec, AttemptsLogged, Log!Spec
=============================================================================
