--------------------------- MODULE BatchLifecycle ----------------------------
(***************************************************************************)
(* Loading bars into two stores (qdata/loaders/sql_loader.py) and choosing *)
(* the versions a price query may read (qdata/sql_backend.py).             *)
(*                                                                         *)
(* Every load makes a data_batch and a dataset_version in PostgreSQL,      *)
(* inserts its bars under that version in ClickHouse, and then marks batch *)
(* and version finished in one PostgreSQL transaction.  The two stores     *)
(* share no transaction, the insert may stop half-way, a COMMIT may be     *)
(* applied without the client hearing of it, and a loader may die anywhere.*)
(* A loader of daily bars also writes adjustment factors and price limits  *)
(* in the transaction that later marks the batch; minute bars have none.   *)
(* The loads of the model carry bars of the same security and day, where   *)
(* a query has to choose between them.                                     *)
(*                                                                         *)
(* PostgreSQL's now() is the time the open transaction started.  Times are *)
(* naturals on one clock.                                                  *)
(***************************************************************************)
EXTENDS Naturals

CONSTANTS
  Load,       \* loads of one dataset, named by the data_version they get
  Daily,      \* the dataset is daily_bar; otherwise it is minute_bar
  MaxTime     \* bound on the clock

ASSUME BatchAssumption ==
  /\ Load \subseteq Nat
  /\ Daily \in BOOLEAN
  /\ MaxTime \in Nat

VARIABLES
  now,        \* the clock
  batch,      \* [Load -> status of its data_batch row]
  version,    \* [Load -> status of its dataset_version row]
  finishedAt, \* [Load -> finished_at of its data_batch row]
  metadata,   \* loads whose factors and limits are committed
  bars,       \* [Load -> how much of its bars ClickHouse holds]
  ingestTime, \* [Load -> ingest_time its bars carry]
  pc,         \* [Load -> control point of the process that runs it]
  opened,     \* [Load -> start of its open PostgreSQL transaction]
  seenAt      \* [Load -> when its success was committed], a history variable

rows == <<batch, version, finishedAt, metadata>>
vars == <<now, rows, bars, ingestTime, pc, opened, seenAt>>

Point == {"new", "created", "writing", "inserting", "closing", "commit",
          "failing", "done"}

TypeOK ==
  /\ now \in Nat
  /\ batch \in [Load -> {"none", "running", "success", "failed"}]
  /\ version \in [Load -> {"none", "draft", "active", "recalled"}]
  /\ finishedAt \in [Load -> Nat]
  /\ metadata \subseteq Load
  /\ bars \in [Load -> {"none", "part", "all"}]
  /\ ingestTime \in [Load -> Nat]
  /\ pc \in [Load -> Point]
  /\ opened \in [Load -> Nat]
  /\ seenAt \in [Load -> Nat]

Init ==
  /\ now = 0
  /\ batch = [v \in Load |-> "none"]
  /\ version = [v \in Load |-> "none"]
  /\ finishedAt = [v \in Load |-> 0]
  /\ metadata = {}
  /\ bars = [v \in Load |-> "none"]
  /\ ingestTime = [v \in Load |-> 0]
  /\ pc = [v \in Load |-> "new"]
  /\ opened = [v \in Load |-> 0]
  /\ seenAt = [v \in Load |-> 0]

-----------------------------------------------------------------------------
(***************************************************************************)
(* One load, step by step.                                                 *)
(***************************************************************************)
Goto(v, point) == pc' = [pc EXCEPT ![v] = point]

\* _create_versioned_batch: both rows in one transaction; data_version is a
\* sequence.
Create(v) ==
  /\ pc[v] = "new"
  /\ \A w \in Load : w < v => pc[w] # "new"
  /\ batch' = [batch EXCEPT ![v] = "running"]
  /\ version' = [version EXCEPT ![v] = "draft"]
  /\ Goto(v, "created")
  /\ UNCHANGED <<now, finishedAt, metadata, bars, ingestTime, opened, seenAt>>

\* ingest_time is the loader's clock before anything is written.
TakeIngestTime(v) ==
  /\ pc[v] = "created"
  /\ ingestTime' = [ingestTime EXCEPT ![v] = now]
  /\ Goto(v, IF Daily THEN "writing" ELSE "inserting")
  /\ UNCHANGED <<now, rows, bars, opened, seenAt>>

\* _write_daily_bar_metadata opens the transaction and leaves it open.
WriteMetadata(v) ==
  /\ pc[v] = "writing"
  /\ opened' = [opened EXCEPT ![v] = now]
  /\ Goto(v, "inserting")
  /\ UNCHANGED <<now, rows, bars, ingestTime, seenAt>>

InsertBars(v) ==
  /\ pc[v] = "inserting"
  /\ bars' = [bars EXCEPT ![v] = "all"]
  /\ Goto(v, "closing")
  /\ UNCHANGED <<now, rows, ingestTime, opened, seenAt>>

\* Mutant: the exception of the insert is swallowed.
MutantInsertRaises(v) ==
  /\ pc[v] = "inserting"
  /\ \E arrived \in {"none", "part", "all"} : bars' = [bars EXCEPT ![v] = arrived]
  /\ Goto(v, "closing")
  /\ UNCHANGED <<now, rows, ingestTime, opened, seenAt>>

\* The insert raises; what of it arrived stays in ClickHouse.
InsertRaises(v) ==
  /\ pc[v] = "inserting"
  /\ \E arrived \in {"none", "part", "all"} : bars' = [bars EXCEPT ![v] = arrived]
  /\ Goto(v, "failing")
  /\ UNCHANGED <<now, rows, ingestTime, opened, seenAt>>

\* The two UPDATEs of _finish_versioned_batch, in the transaction that is
\* open, or in one that starts now.
MarkFinished(v) ==
  /\ pc[v] = "closing"
  /\ opened' = [opened EXCEPT ![v] = IF Daily THEN @ ELSE now]
  /\ Goto(v, "commit")
  /\ UNCHANGED <<now, rows, bars, ingestTime, seenAt>>

\* Mutant: finished_at is the time the loader took as ingest_time.
MutantCommitted(v) ==
  /\ batch' = [batch EXCEPT ![v] = "success"]
  /\ version' = [version EXCEPT ![v] = "active"]
  /\ finishedAt' = [finishedAt EXCEPT ![v] = ingestTime[v]]
  /\ metadata' = metadata \cup {w \in {v} : Daily}
  /\ seenAt' = [seenAt EXCEPT ![v] = now]

\* What the COMMIT of a finished load makes visible.
Committed(v) ==
  /\ batch' = [batch EXCEPT ![v] = "success"]
  /\ version' = [version EXCEPT ![v] = "active"]
  /\ finishedAt' = [finishedAt EXCEPT ![v] = opened[v]]
  /\ metadata' = metadata \cup {w \in {v} : Daily}
  /\ seenAt' = [seenAt EXCEPT ![v] = now]

Commit(v) ==
  /\ pc[v] = "commit"
  /\ Committed(v)
  /\ Goto(v, "done")
  /\ UNCHANGED <<now, bars, ingestTime, opened>>

\* The COMMIT was applied and the client got an error.
CommitUnheard(v) ==
  /\ pc[v] = "commit"
  /\ Committed(v)
  /\ Goto(v, "failing")
  /\ UNCHANGED <<now, bars, ingestTime, opened>>

\* Any other error inside the try block.
Raise(v) ==
  /\ pc[v] \in {"writing", "closing", "commit"}
  /\ Goto(v, "failing")
  /\ UNCHANGED <<now, rows, bars, ingestTime, opened, seenAt>>

\* Mutant: an UPDATE without `AND status = 'running'`.
MutantRecordFailure(v) ==
  /\ pc[v] = "failing"
  /\ batch' = [batch EXCEPT ![v] = "failed"]
  /\ version' = [version EXCEPT ![v] = "recalled"]
  /\ finishedAt' = [finishedAt EXCEPT ![v] = now]
  /\ Goto(v, "done")
  /\ UNCHANGED <<now, metadata, bars, ingestTime, opened, seenAt>>

\* Mutant: the batch's status written to the version as well.
MutantFailedVersion(v) ==
  /\ pc[v] = "failing"
  /\ IF batch[v] = "running"
     THEN /\ batch' = [batch EXCEPT ![v] = "failed"]
          /\ version' = [version EXCEPT ![v] = "failed"]
          /\ finishedAt' = [finishedAt EXCEPT ![v] = now]
     ELSE UNCHANGED <<batch, version, finishedAt>>
  /\ Goto(v, "done")
  /\ UNCHANGED <<now, metadata, bars, ingestTime, opened, seenAt>>

\* _record_lifecycle_failure: roll back, then mark the batch failed and the
\* version recalled.  _transition_batch moves only a running batch, and
\* refuses to touch one that turns out to have succeeded.
RecordFailure(v) ==
  /\ pc[v] = "failing"
  /\ IF batch[v] = "running"
     THEN /\ batch' = [batch EXCEPT ![v] = "failed"]
          /\ version' = [version EXCEPT ![v] = "recalled"]
          /\ finishedAt' = [finishedAt EXCEPT ![v] = now]
     ELSE UNCHANGED <<batch, version, finishedAt>>
  /\ Goto(v, "done")
  /\ UNCHANGED <<now, metadata, bars, ingestTime, opened, seenAt>>

\* The process dies, or recording the failure fails too: the open
\* transaction is gone, the rows stay as they are, running for good.
Die(v) ==
  /\ pc[v] \notin {"new", "done"}
  /\ Goto(v, "done")
  /\ UNCHANGED <<now, rows, bars, ingestTime, opened, seenAt>>

Tick ==
  /\ now < MaxTime
  /\ now' = now + 1
  /\ UNCHANGED <<rows, bars, ingestTime, pc, opened, seenAt>>

Next ==
  \/ \E v \in Load :
       \/ Create(v)
       \/ TakeIngestTime(v)
       \/ WriteMetadata(v)
       \/ InsertBars(v)
       \/ InsertRaises(v)
       \/ MarkFinished(v)
       \/ Commit(v)
       \/ CommitUnheard(v)
       \/ Raise(v)
       \/ RecordFailure(v)
       \/ Die(v)
  \/ Tick

Spec == Init /\ [][Next]_vars

-----------------------------------------------------------------------------
(***************************************************************************)
(* What a price query reads.                                               *)
(***************************************************************************)
\* _resolve_allowed_dataset_versions for latest (valid_from is never later
\* than finished_at, so asof needs the second bound only).
Allowed == {v \in Load : batch[v] = "success" /\ version[v] = "active"}

\* The same for asof t, with the row filter on ingest_time of get_price.
AsOf(t) == {v \in Allowed : finishedAt[v] <= t /\ ingestTime[v] <= t}

\* ORDER BY ingest_time DESC, data_version DESC.
Newer(v, w) ==
  \/ ingestTime[v] > ingestTime[w]
  \/ ingestTime[v] = ingestTime[w] /\ v > w

\* The versions that supply the bars of one security and day (at most one).
Served(versions) ==
  {v \in versions : \A w \in versions \ {v} : Newer(v, w)}

-----------------------------------------------------------------------------
(***************************************************************************)
(* Properties.                                                             *)
(***************************************************************************)
\* A version readers may use is whole in both stores (README.md:51: orphan,
\* running, failed and recalled versions are invisible), and the factors and
\* limits of a load are committed only together with its success.
PublishedIsWhole ==
  /\ \A v \in Allowed : bars[v] = "all"
  /\ metadata = {v \in Allowed : Daily}

\* Refinement: as readers see it, a load is published whole in one step or
\* withdrawn, and never both, even when the failure handler runs after a
\* COMMIT that was applied unheard.
Outcome(v) ==
  CASE v \in Allowed /\ bars[v] = "all" /\ (Daily => v \in metadata)
         -> "published"
    [] batch[v] = "failed" /\ version[v] = "recalled" -> "withdrawn"
    [] OTHER -> "pending"

Contract == INSTANCE PublishOnce WITH state <- [v \in Load |-> Outcome(v)]
PublishesOnce == Contract!Spec

\* The bars that latest serves for a day are never replaced by older ones,
\* nor withdrawn, in whatever order overlapping loads finish.
NeverOlder ==
  \A v \in Served(Allowed) :
    \E w \in Served(Allowed') : w = v \/ Newer(w, v)
LatestNeverGoesBack == [][NeverOlder]_vars

\* v has a PostgreSQL transaction open.
Open(v) ==
  \/ pc[v] = "commit"
  \/ Daily /\ pc[v] \in {"inserting", "closing"}

\* What asof t answers is final as soon as t is past and no transaction that
\* was open at t is still open: finished_at is the start of the transaction,
\* never earlier (_finish_versioned_batch).
Settled(t) == t < now /\ \A v \in Load : Open(v) => opened[v] > t
AsOfSettled == \A t \in 0 .. now : Settled(t) => AsOf(t)' = AsOf(t)
AsOfSettles == [][AsOfSettled]_vars

\* api-contract.md:16 - asof reads the versions visible at that point of
\* history.  A load becomes visible after its finished_at: see README.
AsOfWasVisible == \A t \in 0 .. now : \A v \in AsOf(t) : seenAt[v] <= t
=============================================================================
