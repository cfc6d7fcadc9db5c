------------------------ MODULE BatchLifecycleProofs -------------------------
(***************************************************************************)
(* Proofs about BatchLifecycle, for any set of loads and without a bound   *)
(* on the clock: MaxTime is any natural number.                            *)
(***************************************************************************)
EXTENDS BatchLifecycle, TLAPS

\* What the control point of a load says of its rows in both stores.
Lifecycle ==
  \A v \in Load :
    /\ pc[v] = "new" => batch[v] = "none" /\ version[v] = "none"
    /\ pc[v] \in {"created", "writing", "inserting", "closing", "commit"} =>
         batch[v] = "running" /\ version[v] = "draft"
    /\ pc[v] \in {"closing", "commit"} => bars[v] = "all"
    /\ pc[v] = "failing" =>
         \/ batch[v] = "running" /\ version[v] = "draft"
         \/ batch[v] = "success" /\ version[v] = "active"
    /\ <<batch[v], version[v]>> \in
         {<<"none", "none">>, <<"running", "draft">>,
          <<"success", "active">>, <<"failed", "recalled">>}

Inv == TypeOK /\ Lifecycle /\ PublishedIsWhole

\* A step keeps every row within its type.
LEMMA TypeStep == ASSUME Inv, [Next]_vars PROVE TypeOK'
<1> USE BatchAssumption DEF Inv, TypeOK, Point, rows, Goto
<1>1. ASSUME NEW v \in Load, Create(v) PROVE TypeOK'
  BY <1>1 DEF Create
<1>2. ASSUME NEW v \in Load, TakeIngestTime(v) PROVE TypeOK'
  BY <1>2 DEF TakeIngestTime
<1>3. ASSUME NEW v \in Load, WriteMetadata(v) PROVE TypeOK'
  BY <1>3 DEF WriteMetadata
<1>4. ASSUME NEW v \in Load, InsertBars(v) PROVE TypeOK'
  BY <1>4 DEF InsertBars
<1>5. ASSUME NEW v \in Load, InsertRaises(v) PROVE TypeOK'
  BY <1>5 DEF InsertRaises
<1>6. ASSUME NEW v \in Load, MarkFinished(v) PROVE TypeOK'
  BY <1>6 DEF MarkFinished
<1>7. ASSUME NEW v \in Load, Commit(v) \/ CommitUnheard(v) PROVE TypeOK'
  <2>1. Committed(v) /\ UNCHANGED <<now, bars, ingestTime, opened>>
    BY <1>7 DEF Commit, CommitUnheard
  <2>2. pc' \in [Load -> Point]
    BY <1>7 DEF Commit, CommitUnheard
  <2>3. batch' \in [Load -> {"none", "running", "success", "failed"}]
    BY <2>1 DEF Committed
  <2>4. version' \in [Load -> {"none", "draft", "active", "recalled"}]
    BY <2>1 DEF Committed
  <2>5. finishedAt' \in [Load -> Nat] /\ seenAt' \in [Load -> Nat]
    BY <2>1 DEF Committed
  <2>6. metadata' \subseteq Load
    BY <2>1 DEF Committed
  <2>7. QED
    BY <2>1, <2>2, <2>3, <2>4, <2>5, <2>6
<1>8. ASSUME NEW v \in Load, Raise(v) PROVE TypeOK'
  BY <1>8 DEF Raise
<1>9. ASSUME NEW v \in Load, RecordFailure(v) PROVE TypeOK'
  BY <1>9 DEF RecordFailure
<1>10. ASSUME NEW v \in Load, Die(v) PROVE TypeOK'
  BY <1>10 DEF Die
<1>11. CASE Tick
  BY <1>11 DEF Tick
<1>12. CASE UNCHANGED vars
  BY <1>12 DEF vars
<1>13. QED
  BY <1>1, <1>2, <1>3, <1>4, <1>5, <1>6, <1>7, <1>8, <1>9, <1>10, <1>11,
     <1>12 DEF Next

\* A step keeps the rows of a load in step with its control point.
LEMMA LifecycleStep == ASSUME Inv, [Next]_vars PROVE Lifecycle'
<1> USE BatchAssumption DEF Inv, TypeOK, Lifecycle, rows, Goto
<1>1. ASSUME NEW v \in Load, Create(v) PROVE Lifecycle'
  BY <1>1 DEF Create
<1>2. ASSUME NEW v \in Load, TakeIngestTime(v) PROVE Lifecycle'
  BY <1>2 DEF TakeIngestTime
<1>3. ASSUME NEW v \in Load, WriteMetadata(v) PROVE Lifecycle'
  BY <1>3 DEF WriteMetadata
<1>4. ASSUME NEW v \in Load, InsertBars(v) PROVE Lifecycle'
  BY <1>4 DEF InsertBars
<1>5. ASSUME NEW v \in Load, InsertRaises(v) PROVE Lifecycle'
  BY <1>5 DEF InsertRaises
<1>6. ASSUME NEW v \in Load, MarkFinished(v) PROVE Lifecycle'
  BY <1>6 DEF MarkFinished
<1>7. ASSUME NEW v \in Load, Commit(v) \/ CommitUnheard(v) PROVE Lifecycle'
  BY <1>7 DEF Commit, CommitUnheard, Committed
<1>8. ASSUME NEW v \in Load, Raise(v) PROVE Lifecycle'
  BY <1>8 DEF Raise
<1>9. ASSUME NEW v \in Load, RecordFailure(v) PROVE Lifecycle'
  BY <1>9 DEF RecordFailure
<1>10. ASSUME NEW v \in Load, Die(v) PROVE Lifecycle'
  BY <1>10 DEF Die
<1>11. CASE Tick
  BY <1>11 DEF Tick
<1>12. CASE UNCHANGED vars
  BY <1>12 DEF vars
<1>13. QED
  BY <1>1, <1>2, <1>3, <1>4, <1>5, <1>6, <1>7, <1>8, <1>9, <1>10, <1>11,
     <1>12 DEF Next

\* What a step does to the set of versions readers may use: a load joins it
\* when its success is committed, no load ever leaves it, and the loads in
\* it keep all that readers look at.
LEMMA AllowedStep ==
  ASSUME Inv, [Next]_vars
  PROVE  \/ /\ Allowed' = Allowed
            /\ metadata' = metadata
         \/ \E v \in Load :
              /\ Committed(v) /\ pc[v] = "commit" /\ v \notin Allowed
              /\ Allowed' = Allowed \cup {v}
              /\ UNCHANGED <<now, bars, ingestTime>>
<1> USE DEF Inv, TypeOK, Lifecycle, Allowed, rows
<1>1. ASSUME NEW v \in Load, Create(v)
      PROVE  Allowed' = Allowed /\ metadata' = metadata
  BY <1>1 DEF Create
<1>2. ASSUME NEW v \in Load, RecordFailure(v)
      PROVE  Allowed' = Allowed /\ metadata' = metadata
  BY <1>2 DEF RecordFailure
<1>3. ASSUME NEW v \in Load, Commit(v) \/ CommitUnheard(v)
      PROVE  /\ Committed(v) /\ pc[v] = "commit" /\ v \notin Allowed
             /\ Allowed' = Allowed \cup {v}
             /\ UNCHANGED <<now, bars, ingestTime>>
  BY <1>3 DEF Commit, CommitUnheard, Committed
<1>4. CASE UNCHANGED rows
  BY <1>4
<1>5. QED
  BY <1>1, <1>2, <1>3, <1>4 DEF Next, vars, TakeIngestTime, WriteMetadata,
     InsertBars, InsertRaises, MarkFinished, Raise, Die, Tick

\* The bars and the ingest time of a version readers may use are fixed, and so
\* is its finished_at.
LEMMA AllowedFixed ==
  ASSUME Inv, [Next]_vars, NEW v \in Allowed
  PROVE  /\ v \in Allowed'
         /\ bars'[v] = bars[v]
         /\ ingestTime'[v] = ingestTime[v]
         /\ finishedAt'[v] = finishedAt[v]
<1> USE DEF Inv, TypeOK, Lifecycle, Allowed, rows, Goto
<1>1. pc[v] \notin {"new", "created", "writing", "inserting", "closing", "commit"}
  OBVIOUS
<1>2. ASSUME NEW w \in Load, Create(w) \/ TakeIngestTime(w) \/ WriteMetadata(w)
      PROVE  UNCHANGED <<bars[v], ingestTime[v], batch[v], version[v], finishedAt[v]>>
  BY <1>1, <1>2 DEF Create, TakeIngestTime, WriteMetadata
<1>3. ASSUME NEW w \in Load, InsertBars(w) \/ InsertRaises(w) \/ MarkFinished(w)
      PROVE  UNCHANGED <<bars[v], ingestTime[v], batch[v], version[v], finishedAt[v]>>
  BY <1>1, <1>3 DEF InsertBars, InsertRaises, MarkFinished
<1>4. ASSUME NEW w \in Load, Commit(w) \/ CommitUnheard(w)
      PROVE  UNCHANGED <<bars[v], ingestTime[v], batch[v], version[v], finishedAt[v]>>
  BY <1>1, <1>4 DEF Commit, CommitUnheard, Committed
<1>5. ASSUME NEW w \in Load, Raise(w) \/ RecordFailure(w) \/ Die(w)
      PROVE  UNCHANGED <<bars[v], ingestTime[v], batch[v], version[v], finishedAt[v]>>
  BY <1>5 DEF Raise, RecordFailure, Die
<1>6. CASE Tick \/ UNCHANGED vars
  BY <1>6 DEF Tick, vars
<1>7. QED
  BY <1>2, <1>3, <1>4, <1>5, <1>6 DEF Next

LEMMA WholeStep == ASSUME Inv, [Next]_vars PROVE PublishedIsWhole'
<1> USE DEF Inv, PublishedIsWhole
<1>1. CASE Allowed' = Allowed /\ metadata' = metadata
  BY <1>1, AllowedFixed
<1>2. ASSUME NEW v \in Load, Committed(v), pc[v] = "commit", v \notin Allowed,
             Allowed' = Allowed \cup {v}, UNCHANGED <<now, bars, ingestTime>>
      PROVE  PublishedIsWhole'
  <2>1. bars[v] = "all"
    BY <1>2 DEF Lifecycle
  <2>2. metadata' = metadata \cup {w \in {v} : Daily}
    BY <1>2 DEF Committed
  <2>3. QED
    BY <1>2, <2>1, <2>2
<1>3. QED
  BY <1>1, <1>2, AllowedStep

\* The inductive invariant.
THEOREM BatchInvariance == Spec => []Inv
<1>1. Init => Inv
  BY BatchAssumption DEF Init, Inv, TypeOK, Lifecycle, PublishedIsWhole, Allowed, Point
<1>2. Inv /\ [Next]_vars => Inv'
  BY TypeStep, LifecycleStep, WholeStep DEF Inv
<1>3. QED
  BY <1>1, <1>2, PTL DEF Spec

\* Every status, time and control point stays in its type.
THEOREM BatchTypes == Spec => []TypeOK
<1>1. Inv => TypeOK
  BY DEF Inv
<1>2. QED
  BY <1>1, BatchInvariance, PTL

\* Readers see only loads that are whole in both stores.
THEOREM WholeVersions == Spec => []PublishedIsWhole
<1>1. Inv => PublishedIsWhole
  BY DEF Inv
<1>2. QED
  BY <1>1, BatchInvariance, PTL

\* In whatever order loads finish, latest never returns to older bars.
THEOREM LatestIsMonotone == Spec => LatestNeverGoesBack
<1>1. ASSUME Inv, [Next]_vars PROVE NeverOlder
  <2> SUFFICES ASSUME NEW v \in Served(Allowed)
               PROVE  \E w \in Served(Allowed') : w = v \/ Newer(w, v)
    BY DEF NeverOlder
  <2>1. CASE Allowed' = Allowed
    BY <2>1 DEF Served
  <2>2. ASSUME NEW u \in Load, u \notin Allowed, Allowed' = Allowed \cup {u}
        PROVE  \E w \in Served(Allowed') : w = v \/ Newer(w, v)
    <3>1. v \in Allowed /\ Allowed \subseteq Nat /\ u \in Nat /\ u # v
      BY <2>2, BatchAssumption DEF Served, Allowed
    <3>2. \A w \in Load : ingestTime[w] \in Nat
      BY <1>1 DEF Inv, TypeOK
    <3>3. CASE Newer(v, u)
      BY <2>2, <3>1, <3>3 DEF Served
    <3>4. CASE ~Newer(v, u)
      <4>1. Newer(u, v)
        BY <3>1, <3>2, <3>4 DEF Newer, Allowed
      <4>2. ASSUME NEW w \in Allowed PROVE Newer(u, w)
        <5>1. w = v \/ Newer(v, w)
          BY DEF Served
        <5>2. QED
          BY <3>1, <3>2, <4>1, <5>1 DEF Newer, Allowed
      <4>3. u \in Served(Allowed')
        BY <2>2, <4>2 DEF Served
      <4>4. QED
        BY <4>1, <4>3
    <3>5. QED
      BY <3>3, <3>4
  <2>3. QED
    BY <1>1, <2>1, <2>2, AllowedStep
<1>2. QED
  BY <1>1, BatchInvariance, PTL DEF Spec, LatestNeverGoesBack

\* The answer of asof t is final once every transaction open at t has ended.
THEOREM AsOfIsFinal == Spec => AsOfSettles
<1>1. ASSUME Inv, [Next]_vars PROVE AsOfSettled
  <2> SUFFICES ASSUME NEW t \in 0 .. now, Settled(t) PROVE AsOf(t)' = AsOf(t)
    BY DEF AsOfSettled
  <2>1. ASSUME NEW v \in Allowed PROVE v \in AsOf(t)' <=> v \in AsOf(t)
    BY <1>1, <2>1, AllowedFixed DEF AsOf, Allowed
  <2>2. CASE Allowed' = Allowed
    BY <2>1, <2>2 DEF AsOf
  <2>3. ASSUME NEW v \in Load, Committed(v), pc[v] = "commit",
               Allowed' = Allowed \cup {v}
        PROVE  AsOf(t)' = AsOf(t)
    <3>1. opened[v] > t
      BY <2>3 DEF Settled, Open
    <3>2. finishedAt'[v] = opened[v] /\ opened[v] \in Nat
      BY <1>1, <2>3 DEF Committed, Inv, TypeOK
    <3>3. v \notin AsOf(t)'
      BY <3>1, <3>2 DEF AsOf
    <3>4. v \in AsOf(t) => v \in Allowed
      BY DEF AsOf
    <3>5. QED
      BY <2>1, <2>3, <3>3, <3>4 DEF AsOf
  <2>4. QED
    BY <1>1, <2>2, <2>3, AllowedStep
<1>2. QED
  BY <1>1, BatchInvariance, PTL DEF Spec, AsOfSettles

\* A load that is published or withdrawn keeps that outcome.
LEMMA OutcomeTypes ==
  ASSUME Inv, NEW v \in Load
  PROVE  /\ Outcome(v) = "published" <=> v \in Allowed
         /\ Outcome(v) = "withdrawn" <=> batch[v] = "failed"
         /\ Outcome(v) \in {"pending", "published", "withdrawn"}
<1>1. v \in Allowed => bars[v] = "all" /\ (Daily => v \in metadata)
  BY DEF Inv, PublishedIsWhole
<1>2. batch[v] = "failed" => version[v] = "recalled" /\ v \notin Allowed
  BY DEF Inv, Lifecycle, Allowed
<1>3. QED
  BY <1>1, <1>2 DEF Outcome

\* The same in the next state.
LEMMA OutcomeTypesNext ==
  ASSUME Inv', NEW v \in Load
  PROVE  /\ Outcome(v)' = "published" <=> (v \in Allowed)'
         /\ Outcome(v)' = "withdrawn" <=> (batch[v] = "failed")'
         /\ Outcome(v)' \in {"pending", "published", "withdrawn"}
<1>1. (v \in Allowed)' => (bars[v] = "all")' /\ (Daily => (v \in metadata)')
  BY DEF Inv, PublishedIsWhole
<1>2. (batch[v] = "failed")' => (version[v] = "recalled")' /\ ~(v \in Allowed)'
  BY DEF Inv, Lifecycle, Allowed
<1>3. QED
  BY <1>1, <1>2 DEF Outcome

\* A load keeps its outcome when neither its membership of the allowed
\* versions nor its failure changes.
LEMMA OutcomeKept ==
  ASSUME Inv, Inv', NEW w \in Load,
         (w \in Allowed)' <=> w \in Allowed,
         (batch[w] = "failed")' <=> batch[w] = "failed"
  PROVE  Outcome(w)' = Outcome(w)
BY OutcomeTypes, OutcomeTypesNext

\* What a load's outcome becomes in one step.
Ends(v) ==
  /\ Outcome(v) = "pending"
  /\ Outcome(v)' \in {"published", "withdrawn"}
  /\ \A w \in Load \ {v} : Outcome(w)' = Outcome(w)

\* Every step changes the outcome of at most one load, and only from pending.
LEMMA OutcomeStep ==
  ASSUME Inv, [Next]_vars, Inv'
  PROVE  (\A w \in Load : Outcome(w)' = Outcome(w)) \/ (\E v \in Load : Ends(v))
<1> USE DEF Inv, TypeOK, rows
<1>1. ASSUME NEW v \in Load, RecordFailure(v)
      PROVE  (\A w \in Load : Outcome(w)' = Outcome(w)) \/ Ends(v)
  <2>1. Allowed' = Allowed
    BY <1>1 DEF RecordFailure, Allowed
  <2>2. CASE batch[v] = "running"
    <3>1. \A w \in Load \ {v} : batch'[w] = batch[w]
      BY <1>1, <2>2 DEF RecordFailure
    <3>2. batch'[v] = "failed" /\ v \notin Allowed
      BY <1>1, <2>2 DEF RecordFailure, Allowed
    <3>3. QED
      BY <2>1, <2>2, <3>1, <3>2, OutcomeKept, OutcomeTypes, OutcomeTypesNext DEF Ends
  <2>3. CASE batch[v] # "running"
    BY <1>1, <2>1, <2>3, OutcomeKept DEF RecordFailure
  <2>4. QED
    BY <2>2, <2>3
<1>2. ASSUME NEW v \in Load, Commit(v) \/ CommitUnheard(v) PROVE Ends(v)
  <2>1. Committed(v) /\ pc[v] = "commit"
    BY <1>2 DEF Commit, CommitUnheard
  <2>2. batch[v] = "running" /\ v \notin Allowed
    BY <2>1 DEF Lifecycle, Allowed
  <2>3. batch'[v] = "success" /\ Allowed' = Allowed \cup {v}
    BY <2>1 DEF Committed, Allowed
  <2>4. \A w \in Load \ {v} : batch'[w] = batch[w]
    BY <2>1 DEF Committed
  <2>5. Outcome(v) = "pending" /\ Outcome(v)' = "published"
    BY <2>2, <2>3, OutcomeTypes, OutcomeTypesNext
  <2>6. QED
    BY <2>3, <2>4, <2>5, OutcomeKept DEF Ends
<1>3. ASSUME NEW v \in Load, Create(v) PROVE \A w \in Load : Outcome(w)' = Outcome(w)
  <2>1. batch[v] = "none" /\ Allowed' = Allowed
    BY <1>3 DEF Create, Lifecycle, Allowed
  <2>2. \A w \in Load : (batch[w] = "failed")' <=> batch[w] = "failed"
    BY <1>3, <2>1 DEF Create
  <2>3. QED
    BY <2>1, <2>2, OutcomeKept
<1>4. CASE UNCHANGED rows
  BY <1>4, OutcomeKept DEF Allowed
<1>5. QED
  BY <1>1, <1>2, <1>3, <1>4 DEF Next, vars, TakeIngestTime, WriteMetadata,
     InsertBars, InsertRaises, MarkFinished, Raise, Die, Tick

\* The detailed loads implement the contract of their readers.
THEOREM LoadsPublishOnce == Spec => PublishesOnce
<1> DEFINE outcome == [v \in Load |-> Outcome(v)]
<1>1. Init => Contract!Init
  BY DEF Init, Contract!Init, Outcome, Allowed
<1>2. ASSUME Inv, [Next]_vars, Inv' PROVE [Contract!Next]_outcome
  <2>1. CASE \A w \in Load : Outcome(w)' = Outcome(w)
    BY <2>1
  <2>2. ASSUME NEW v \in Load, Ends(v) PROVE Contract!Publish(v) \/ Contract!Withdraw(v)
    BY <2>2 DEF Ends, Contract!Publish, Contract!Withdraw
  <2>3. QED
    BY <1>2, <2>1, <2>2, OutcomeStep DEF Contract!Next
<1>3. QED
  BY <1>1, <1>2, BatchInvariance, PTL DEF Spec, PublishesOnce, Contract!Spec
=============================================================================
