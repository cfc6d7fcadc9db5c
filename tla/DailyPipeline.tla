---------------------------- MODULE DailyPipeline ----------------------------
(***************************************************************************)
(* The daily pipeline (qdata/pipeline/runner.py, store.py, production.py)  *)
(* and the three scripts that start it: run_daily_production,              *)
(* run_daily_pipeline and run_repair_queue.                                *)
(*                                                                         *)
(* A runner works through a list of dates.  For each date it looks for an  *)
(* earlier success, takes an attempt number, inserts a run row, syncs the  *)
(* market data and then, in three or four commits of their own, finishes   *)
(* the row, moves the watermark and opens or resolves repair items.        *)
(* Several runners, and a crash between any two commits, meet in those     *)
(* tables.                                                                 *)
(*                                                                         *)
(* The model is of one job.  Run rows are kept as what later decisions     *)
(* read from them: the dates with a success, the last finished result of   *)
(* each date, and whether the attempt number a runner has read is still    *)
(* free.  A sync is one step; the module BatchLifecycle opens it.          *)
(***************************************************************************)
EXTENDS Naturals, FiniteSets

CONSTANTS
  Runner,       \* processes that may run the pipeline at the same time
  LastDate,     \* trade dates are 1 .. LastDate
  Closed,       \* dates the provider's calendar calls closed
  RetryLimit,   \* retry_limit of the job
  Modes,        \* how the pipeline is started, a subset of Mode
  MaxCrashes    \* bound on runners that die in one behaviour

Date == 1 .. LastDate
Mode == {"incremental", "backfill", "rerun", "dry_run", "repair"}

ASSUME PipelineAssumption ==
  /\ LastDate \in Nat
  /\ Closed \subseteq Date
  /\ RetryLimit \in Nat
  /\ Modes \subseteq Mode
  /\ MaxCrashes \in Nat

VARIABLES
  data,         \* [Date -> "absent", or what the last sync to load bars brought]
  succeeded,    \* dates with a pipeline_run row of status 'success'
  result,       \* [Date -> result of the last finished run, other than of a
                \*  dry run that returned, which says nothing of the tables]
  lastSuccess,  \* last_success_trade_date of the watermark, 0 when none
  items,        \* open rows of pipeline_repair_queue, as <<date, reason>>
  pc,           \* [Runner -> control point]
  mode,         \* [Runner -> how it was started]
  todo,         \* [Runner -> what is left of its list, as <<date, why>>]
  day,          \* [Runner -> trade date being run, 0 when none]
  numbered,     \* [Runner -> the attempt number it has read is still free]
  retries,      \* [Runner -> retries left for the date]
  verdict,      \* [Runner -> result of the attempt just made]
  crashes       \* runners that died so far

tables == <<data, succeeded, result, lastSuccess, items>>
vars == <<tables, pc, mode, todo, day, numbered, retries, verdict, crashes>>

Result == {"success", "partial", "failed"}
Reason == {"partial", "failed"}
Point == {"idle", "pick", "number", "number_skip", "start", "skip", "sync",
          "finish", "watermark", "resolve", "enqueue"}

TypeOK ==
  /\ data \in [Date -> {"absent", "partial", "complete"}]
  /\ succeeded \subseteq Date
  /\ result \in [Date -> Result \cup {"none"}]
  /\ lastSuccess \in Date \cup {0}
  /\ items \subseteq Date \X Reason
  /\ pc \in [Runner -> Point]
  /\ mode \in [Runner -> Mode]
  /\ todo \in [Runner -> SUBSET (Date \X (Reason \cup {"window"}))]
  /\ day \in [Runner -> Date \cup {0}]
  /\ numbered \in [Runner -> BOOLEAN]
  /\ retries \in [Runner -> 0 .. RetryLimit]
  /\ verdict \in [Runner -> Result]
  /\ crashes \in Nat

Init ==
  /\ data = [d \in Date |-> "absent"]
  /\ succeeded = {}
  /\ result = [d \in Date |-> "none"]
  /\ lastSuccess = 0
  /\ items = {}
  /\ pc = [r \in Runner |-> "idle"]
  /\ mode = [r \in Runner |-> "incremental"]
  /\ todo = [r \in Runner |-> {}]
  /\ day = [r \in Runner |-> 0]
  /\ numbered = [r \in Runner |-> FALSE]
  /\ retries = [r \in Runner |-> 0]
  /\ verdict = [r \in Runner |-> "failed"]
  /\ crashes = 0

-----------------------------------------------------------------------------
(***************************************************************************)
(* Helpers.                                                                *)
(***************************************************************************)
Goto(r, point) == pc' = [pc EXCEPT ![r] = point]
Forced(r) == mode[r] \in {"rerun", "repair"}
Dry(r) == mode[r] = "dry_run"

\* The dates of items, or of a runner's list.
DatesOf(jobs) == {job[1] : job \in jobs}

\* r is between taking up date d and the last write for it.
Busy(r, d) == pc[r] \notin {"idle", "pick"} /\ day[r] = d

\* Inserting a run row for d takes the number every other reader of d holds.
NumberTaken(d) == numbered' = [q \in Runner |-> numbered[q] /\ day[q] # d]

\* r is through with its date and forgets what it knew of it.
EndDate(r) ==
  /\ Goto(r, "pick")
  /\ day' = [day EXCEPT ![r] = 0]
  /\ retries' = [retries EXCEPT ![r] = 0]
  /\ verdict' = [verdict EXCEPT ![r] = "failed"]

\* r goes back to being available; none of its rows are touched.
Leave(r) ==
  /\ Goto(r, "idle")
  /\ mode' = [mode EXCEPT ![r] = "incremental"]
  /\ todo' = [todo EXCEPT ![r] = {}]
  /\ day' = [day EXCEPT ![r] = 0]
  /\ numbered' = [numbered EXCEPT ![r] = FALSE]
  /\ retries' = [retries EXCEPT ![r] = 0]
  /\ verdict' = [verdict EXCEPT ![r] = "failed"]
  /\ UNCHANGED tables

-----------------------------------------------------------------------------
(***************************************************************************)
(* Starting a runner.                                                      *)
(***************************************************************************)
Launch(r, m, jobs) ==
  /\ pc[r] = "idle"
  /\ m \in Modes
  /\ jobs # {}
  /\ mode' = [mode EXCEPT ![r] = m]
  /\ todo' = [todo EXCEPT ![r] = jobs]
  /\ Goto(r, "pick")
  /\ UNCHANGED <<tables, day, numbered, retries, verdict, crashes>>

\* Mutant: a window that starts one day too late.
MutantLaunchIncremental(r) ==
  \E end \in Date :
    Launch(r, "incremental", (lastSuccess + 2 .. end) \X {"window"})

\* resolve_production_window: from the day after the watermark; without a
\* watermark from the bootstrap start date, which is the first date here.
LaunchIncremental(r) ==
  \E end \in Date :
    Launch(r, "incremental", (lastSuccess + 1 .. end) \X {"window"})

\* An explicit window: backfill, rerun (forced) or a dry run.
LaunchWindow(r) ==
  \E m \in {"backfill", "rerun", "dry_run"} : \E first, end \in Date :
    Launch(r, m, (first .. end) \X {"window"})

\* The repair script reads the open items once and reruns one date for each,
\* so a date with two open items is run twice.
LaunchRepair(r) == Launch(r, "repair", items)

-----------------------------------------------------------------------------
(***************************************************************************)
(* One date: the body of the loop in DailyPipelineRunner.run.              *)
(***************************************************************************)
\* The next date, in order; closed days and, unless forced, dates that have
\* a success are only recorded as skipped.
PickDate(r) ==
  /\ pc[r] = "pick"
  /\ \E job \in todo[r] :
       /\ \A other \in todo[r] : job[1] <= other[1]
       /\ todo' = [todo EXCEPT ![r] = @ \ {job}]
       /\ day' = [day EXCEPT ![r] = job[1]]
       /\ Goto(r, IF job[1] \in Closed \/ (~Forced(r) /\ job[1] \in succeeded)
                  THEN "number_skip" ELSE "number")
  /\ retries' = [retries EXCEPT ![r] = RetryLimit]
  /\ UNCHANGED <<tables, mode, numbered, verdict, crashes>>

Done(r) ==
  /\ pc[r] = "pick"
  /\ todo[r] = {}
  /\ Leave(r)
  /\ UNCHANGED crashes

\* next_attempt: MAX(attempt) + 1.
ReadAttempt(r) ==
  /\ pc[r] \in {"number", "number_skip"}
  /\ numbered' = [numbered EXCEPT ![r] = TRUE]
  /\ Goto(r, IF pc[r] = "number" THEN "start" ELSE "skip")
  /\ UNCHANGED <<tables, mode, todo, day, retries, verdict, crashes>>

RecordSkipped(r) ==
  /\ pc[r] = "skip"
  /\ numbered[r]
  /\ NumberTaken(day[r])
  /\ EndDate(r)
  /\ UNCHANGED <<tables, mode, todo, crashes>>

StartRun(r) ==
  /\ pc[r] = "start"
  /\ numbered[r]
  /\ NumberTaken(day[r])
  /\ Goto(r, "sync")
  /\ UNCHANGED <<tables, mode, todo, day, retries, verdict, crashes>>

\* UNIQUE (job_id, trade_date, attempt): the INSERT raises outside the try
\* block and the whole runner ends.
AttemptConflict(r) ==
  /\ pc[r] \in {"skip", "start"}
  /\ ~numbered[r]
  /\ Leave(r)
  /\ UNCHANGED crashes

\* The sync returns: complete, or short of min_completeness or quality.
SyncReturns(r) ==
  /\ pc[r] = "sync"
  /\ \E found \in {"partial", "complete"} :
       /\ data' = IF Dry(r) THEN data ELSE [data EXCEPT ![day[r]] = found]
       /\ verdict' = [verdict EXCEPT
                        ![r] = IF found = "complete" THEN "success" ELSE "partial"]
  /\ Goto(r, "finish")
  /\ UNCHANGED <<succeeded, result, lastSuccess, items, mode, todo, day,
                 numbered, retries, crashes>>

\* The sync raises, before or after it published what it had.
SyncRaises(r) ==
  /\ pc[r] = "sync"
  /\ \E found \in {data[day[r]]} \cup IF Dry(r) THEN {} ELSE {"partial", "complete"} :
       data' = [data EXCEPT ![day[r]] = found]
  /\ verdict' = [verdict EXCEPT ![r] = "failed"]
  /\ Goto(r, "finish")
  /\ UNCHANGED <<succeeded, result, lastSuccess, items, mode, todo, day,
                 numbered, retries, crashes>>

\* Mutant: a partial result goes on like a success.
MutantFinishRun(r) ==
  /\ pc[r] = "finish"
  /\ ~Dry(r) \/ verdict[r] = "failed"
  /\ succeeded' = succeeded \cup {d \in {day[r]} : verdict[r] = "success"}
  /\ result' = [result EXCEPT ![day[r]] = verdict[r]]
  /\ Goto(r, IF verdict[r] = "failed" THEN "enqueue" ELSE "watermark")
  /\ UNCHANGED <<data, lastSuccess, items, mode, todo, day, numbered,
                 retries, verdict, crashes>>

\* finish_run, with what comes next for a run that is not dry, or raised.
FinishRun(r) ==
  /\ pc[r] = "finish"
  /\ ~Dry(r) \/ verdict[r] = "failed"
  /\ succeeded' = succeeded \cup {d \in {day[r]} : verdict[r] = "success"}
  /\ result' = [result EXCEPT ![day[r]] = verdict[r]]
  /\ Goto(r, IF verdict[r] = "success" THEN "watermark" ELSE "enqueue")
  /\ UNCHANGED <<data, lastSuccess, items, mode, todo, day, numbered,
                 retries, verdict, crashes>>

\* A dry run that returned has a run row, and touches neither the watermark
\* nor the repair queue.
FinishDryRun(r) ==
  /\ pc[r] = "finish"
  /\ Dry(r) /\ verdict[r] # "failed"
  /\ succeeded' = succeeded \cup {d \in {day[r]} : verdict[r] = "success"}
  /\ EndDate(r)
  /\ UNCHANGED <<data, result, lastSuccess, items, mode, todo, numbered, crashes>>

UpdateWatermarkSuccess(r) ==
  /\ pc[r] = "watermark"
  /\ lastSuccess' = day[r]
  /\ Goto(r, "resolve")
  /\ UNCHANGED <<data, succeeded, result, items, mode, todo, day, numbered,
                 retries, verdict, crashes>>

\* Mutants: the UPDATE without its trade_date, and for one reason only.
MutantResolveAll(r) ==
  /\ pc[r] = "resolve"
  /\ items' = {}
  /\ EndDate(r)
  /\ UNCHANGED <<data, succeeded, result, lastSuccess, mode, todo, numbered,
                 crashes>>
MutantResolveFailed(r) ==
  /\ pc[r] = "resolve"
  /\ items' = items \ {<<day[r], "failed">>}
  /\ EndDate(r)
  /\ UNCHANGED <<data, succeeded, result, lastSuccess, mode, todo, numbered,
                 crashes>>

ResolveRepairItems(r) ==
  /\ pc[r] = "resolve"
  /\ items' = {item \in items : item[1] # day[r]}
  /\ EndDate(r)
  /\ UNCHANGED <<data, succeeded, result, lastSuccess, mode, todo, numbered,
                 crashes>>

\* Mutant: a raise is retried without end.
MutantUpsertRepairItem(r) ==
  /\ pc[r] = "enqueue"
  /\ items' = items \cup {<<day[r], verdict[r]>>}
  /\ \/ /\ verdict[r] = "failed"
        /\ retries' = [retries EXCEPT ![r] = @ - 1]
        /\ Goto(r, "number")
        /\ UNCHANGED <<day, verdict>>
     \/ /\ verdict[r] # "failed"
        /\ EndDate(r)
  /\ UNCHANGED <<data, succeeded, result, lastSuccess, mode, todo, numbered,
                 crashes>>

\* update_watermark_failure and upsert_repair_item; only a raise is retried.
UpsertRepairItem(r) ==
  /\ pc[r] = "enqueue"
  /\ items' = items \cup {<<day[r], verdict[r]>>}
  /\ \/ /\ verdict[r] = "failed" /\ retries[r] > 0
        /\ retries' = [retries EXCEPT ![r] = @ - 1]
        /\ Goto(r, "number")
        /\ UNCHANGED <<day, verdict>>
     \/ /\ verdict[r] # "failed" \/ retries[r] = 0
        /\ EndDate(r)
  /\ UNCHANGED <<data, succeeded, result, lastSuccess, mode, todo, numbered,
                 crashes>>

\* The runner is killed, or loses its database connection, or an error
\* outside the try block (calendar, symbol list) ends it.
Crash(r) ==
  /\ pc[r] # "idle"
  /\ crashes < MaxCrashes
  /\ crashes' = crashes + 1
  /\ Leave(r)

Next ==
  \E r \in Runner :
    \/ LaunchIncremental(r)
    \/ LaunchWindow(r)
    \/ LaunchRepair(r)
    \/ PickDate(r)
    \/ Done(r)
    \/ ReadAttempt(r)
    \/ RecordSkipped(r)
    \/ StartRun(r)
    \/ AttemptConflict(r)
    \/ SyncReturns(r)
    \/ SyncRaises(r)
    \/ FinishRun(r)
    \/ FinishDryRun(r)
    \/ UpdateWatermarkSuccess(r)
    \/ ResolveRepairItems(r)
    \/ UpsertRepairItem(r)
    \/ Crash(r)

Spec == Init /\ [][Next]_vars

-----------------------------------------------------------------------------
(***************************************************************************)
(* Properties.                                                             *)
(***************************************************************************)
\* An incremental run never looks behind the watermark, so every open day up
\* to it has complete data, or an open repair item, or a runner on it
\* (acceptance-criteria.md:36, resolve_production_window).
NoSilentGap ==
  \A d \in Date \ Closed :
    d <= lastSuccess =>
      \/ data[d] = "complete"
      \/ d \in DatesOf(items)
      \/ \E r \in Runner : Busy(r, d)

\* A date whose last run failed or was partial has an open repair item, once
\* no runner is at it any more (acceptance-criteria.md:41).
FailedRunIsQueued ==
  \A d \in Date :
    result[d] \in {"partial", "failed"} =>
      d \in DatesOf(items) \/ \E r \in Runner : Busy(r, d)

\* A date whose last run succeeded has no open repair item, once no runner
\* is at it any more (acceptance-criteria.md:42).
SuccessClosesItems ==
  \A d \in Date :
    result[d] = "success" =>
      d \notin DatesOf(items) \/ \E r \in Runner : Busy(r, d)

\* A runner that dies between finish_run and the last write for a date leaves
\* result and repair queue at odds on that date: with one runner at a time no
\* date is at odds without a death of its own, whatever was run, retried,
\* skipped or repaired since (runner.py, one commit for each write).
AtOdds ==
  {d \in Date :
     \/ result[d] \in {"partial", "failed"} /\ d \notin DatesOf(items)
     \/ result[d] = "success" /\ d \in DatesOf(items)}

OneDatePerCrash ==
  Cardinality({d \in AtOdds : \A r \in Runner : ~Busy(r, d)}) <= crashes

\* The watermark stands at a date that has a successful run row, whatever
\* crashed or overtook (update_watermark_success after finish_run).
WatermarkIsBacked == lastSuccess = 0 \/ lastSuccess \in succeeded

\* Every open day up to the watermark has had a run that finished, whichever
\* of several runners finished it and whichever died: the incremental window
\* starts behind the watermark and never comes back to a day before it.
NoDayUnseen ==
  \A d \in Date \ Closed : d <= lastSuccess => result[d] # "none"

\* A date skipped as "existing successful run; use --force to rerun"
\* (runner.py:165) has been ingested.  A dry run breaks this: see README.
SkipsOnlyIngested ==
  \A r \in Runner :
    pc[r] = "skip" /\ day[r] \notin Closed => data[day[r]] # "absent"
=============================================================================
