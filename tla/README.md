# TLA+ models of the quant research data platform

This directory holds the specifications kept beside the platform's code: TLA+
modules of the parts whose correctness depends on the order in which several
processes, two databases and crashes meet, TLC configurations that check them on
small instances, and proofs, checked by TLAPS, that the main properties hold for
every instance. Paths below are relative to the repository (`qdata/...`,
`scripts/...`, `db/migrations/...`).

## 1. Inventory of the system

The platform collects market data into PostgreSQL (catalogue, metadata, operations)
and ClickHouse (bars), serves it through a library and an HTTP API, and surrounds
that with scheduled operations. Processes share no memory: they meet in tables.

| Component | State it keeps | Operations | Interacts through | Hard behaviour |
|---|---|---|---|---|
| Mu scheduler `qdata/mu_scheduler.py` | `worker_schedule`, `worker_lock`, `worker_schedule_tick`, `worker_heartbeat` | scan, tick, acquire/release, finish, force due | calls the Lambda worker; several schedulers share the tables | lease expiry during a run, takeover, crash at any commit, errors in the error path |
| Lambda worker `qdata/lambda_worker.py` | `worker_run`, `worker_task_run` | run tasks, record results | called by the scheduler or a CLI | handler failures, crash leaves a run open |
| Daily pipeline `qdata/pipeline/*`, `scripts/run_daily_*.py`, `scripts/run_repair_queue.py` | `pipeline_run`, `pipeline_watermark`, `pipeline_repair_queue` | incremental, backfill, rerun, dry run, repair | calls the sync; runners meet in the tables | several commits per date, crash between them, attempt-number races, a watermark that hides gaps |
| Daily sync and fallback `qdata/sources/sync.py`, `qdata/phi5_route_policy.py` | `source_route_decision` | resolve route, try providers, export, ingest | called by the pipeline; uses providers and the loader; reads the breakers | fallback after failures, audit outside the load's transaction, a sync that dies unaudited |
| SQL loader `qdata/loaders/sql_loader.py` | `data_batch`, `dataset_version`, factors and limits; ClickHouse bars | load daily/minute bars, constraints, universe, quality | writes what the backend reads | two stores without a common transaction, partial insert, unheard commit, overlapping loads |
| SQL backend `qdata/sql_backend.py` | none | get_price and other queries; latest / asof / vintage | reads the loader's tables | a reader must see whole loads only; answers about the past must not change |
| Route incident approvals `qdata/{gamma6,delta6,epsilon6}_*.py`, `qdata/omega_control.py` | commands, signatures, callbacks, controls, approvals, lock events, audit hash chain | callback, quorum command, cancel, SLA automation | advisory locks, unguarded updates on shared rows | check-then-act across transactions, replay, differing lock keys, crash mid-command |
| Route incident control, health, operations `qdata/{omega5,alpha6,beta6,zeta6}_*.py` | controls, health runs, operation batches, releases | create controls, decide the approval queue in batches (beta6), report | feeds the approvals, and writes the same approval and control rows | decisions applied to rows read earlier, without lock or recheck; reruns |
| Omega automation control `qdata/omega_control.py` | `automation_approval`, `automation_execution_attempt`, `automation_rollback`, Omega columns of `automation_action` | request, decide, cancel, execute with retries, roll back | takes Psi's actions; shares approvals with the route incidents | effects outside the transaction, overlapping runs, retry counts from an old read, decisions that meet an open run |
| Psi automation `qdata/psi_automation.py` | `automation_run`, `automation_action` | plan, execute once per key | reads strategy and governance tables; its actions are Omega's | two runs at once execute one action twice; a rerun overwrites what Omega made of an action |
| Route feedback breaker `qdata/chi5_route_feedback.py` | `source_route_circuit_breaker`, snapshots, probes | compute health, open/close | reads the decisions that syncs and API reads leave, and is read by the next resolutions: a closed loop | read-modify-write across transactions, an open breaker without traffic, old failures that open an expired circuit again |
| Vendor promotion and monitoring `qdata/{omicron5,pi5,rho5,sigma5,tau5,upsilon5,eta6}_*.py` | promotion, rollback, weight-execution rows, routing | promote, monitor, roll back, stage weights | routing tables | rollback after partial application |
| Free source chain `qdata/{iota3,kappa5,lambda5,mu5,nu5,xi5}_*.py` | reliability scores, recovery actions | score, plan, execute | providers, alerts | retry and approval of recovery actions |
| Research snapshots `qdata/research_snapshot.py` | snapshot directory and manifest | build, verify | file system | publish whole or not at all |
| Billing `qdata/{xi_billing,omicron_billing,tau_payments,rho_revenue}.py` | invoices, payments | issue, adjust, reconcile | PostgreSQL only | rounding, repeated issue |
| External dispatch `qdata/{beta2_external,gamma2_external,delta2_wecom}.py` | attempts | send once, record | HTTP | answer lost after delivery |
| API, auth, audit `qdata/api/*` | audit rows, `source_route_decision` | handle request | backend; leaves a route decision for every read it routes | decisions of a source nothing was fetched from, among those of the syncs |
| Governance, readiness, reports, client, mocks | report rows | report | read-mostly | none of their own |

What makes the first group correct: a lease excludes while it lasts and is never
lost to another process; a tick tells the truth; a due schedule is executed even
after crashes; no day behind the watermark is silently incomplete; the repair queue
agrees with the runs; a load becomes visible whole, once, or never; answers about a
past moment settle. For the approval chain: what commands decide rests on a quorum of
distinct signers, no callback undoes what another decided behind the same lock, and a command is
worked on once however often it is delivered. For Omega: attempts are numbered without gaps, no
unapproved effect, a rejection stands, runs end. For the routing loop: a sick source is tried
last, failures are noted against the source they belong to and nobody is blamed or credited for
another's sync, a circuit stays open as long as it was opened for, and is closed in the end.

`PROJECT.json` lists the components with what is modelled, and every place of this
code that is hard to test (`hazards`), with the properties that watch it.

## 2. Plan

Written so far, in this order:

1. `MuScheduler` - scheduler and worker run; refines `LeaseService`; proofs in
   `MuSchedulerProofs`.
2. `DailyPipeline` - runner, watermark, repair queue, with `DailyPipelineProofs`.
3. `BatchLifecycle` - the loader and version selection; refines the abstract
   specification `PublishOnce`; proofs in `BatchLifecycleProofs`.
4. `RouteApproval` - callback handler and command beside direct commands, cancellation,
   Omega, omega5, beta6 and operators' writes on the same rows; refines `CommandOnce`; proofs in
   `RouteApprovalProofs` and `RouteCommandProofs`.
5. `OmegaExecution` - approvals, overlapping executor runs, retries, rollbacks; refines
   `AttemptLog`; proofs in `OmegaExecutionProofs` and `OmegaLogProofs`.
6. `SourceRouting` - syncs with fallback, reads of the API, the decision audit and the circuit
   breaker as one closed loop, with liveness; proofs in `SourceRoutingProofs`.

What is left, most important first:

7. `BatchLifecycle` extended by `load_market_constraints` (several batches finished in
   one transaction) and by vintage queries.
8. Two Psi runs at once and the idempotency key; promotion and rollback of vendors; the
   recovery actions of the free source chain; publication of research snapshots; billing.
9. Proofs still worth having: that a request handler of `RouteApproval` comes to its end, and that
   the lock of one that dies is free for the next.

An `AuditChain` module (`append_approval_audit_hash`) was in the plan and was dropped: the
append is one transaction that begins with `pg_advisory_xact_lock` on the scope
(`epsilon6_route_incident_approval_resilience.py:338-427`), so a model of it would restate the
lock.

## 3. Modules

### MuScheduler

State: `wait` and `active` are `worker_schedule.next_run_at` and `status`; `lock` is
`worker_lock`; `heartbeat` is `worker_heartbeat.status`; `tick`, `worker` and `counted`
describe the latest tick row of each scheduler, its worker run and how often that tick
has added to `run_count`; the rest is the process. Every database helper of the code opens
its own connection and commits, so each is one action and a fault can strike between
any two. `Step` is what the code does next; `RaiseInTry`, `RaiseInHandler` and `Abort` are
database errors inside the try block, inside the except clause and outside both, that leave the
row unwritten; `CommitUnheard` are COMMITs that were applied while the client got an error:
`UnheardTick` for the tick's result (`mu_scheduler.py:421`, the except clause runs all the same),
`UnheardFailure` for that of the except clause (line 435), `UnheardLock` for the lock (line 388,
outside the try block, so nobody gives it back). An
unheard commit anywhere else is the commit followed by an error at the next statement. `Crash` kills the process. `FinishWorker` chooses the worker's result: handler
exceptions become `failed` inside `run_lambda_worker`.

Time is modelled by countdowns instead of timestamps, so that the state space is finite
without a bound on time: `wait[k]` is `next_run_at - now()`, `lock[k].ttl` is
`expires_at - now()`, `untilNext` and `untilRetry` are the values the code will write,
counted from `started_at`; `Elapse` lowers all of them by one and stops at 0. `lease[s]` is a
history variable, the rest of the lease granted to `s`.

Left out: the LIMIT of `_fetch_due_schedules` and its filters by schedule and task, which only
make a scan shorter.

An error after `_finish_schedule` has committed makes the except clause count the tick a second
time (`mu_scheduler.py:420-434`), and when the commit of `_finish_tick` was applied unheard and the
except clause fails too, the tick keeps its result although it is counted twice. `TickTruth`
allows exactly that: a tick counted twice took an error, and one that ends other than `failed`
two. Facts of the code seen in the model that no property states: the list of due schedules
is not read again under the lock, so a schedule another scheduler has just executed can be
executed again (`mu_scheduler.py:234-246`); a heartbeat of `failed` is overwritten by
`stopped` (`mu_scheduler.py:251-256`); one schedule with one-sided dates in `task_args`
ends the scheduler (`mu_scheduler.py:315`) and, being the oldest, does so in every later
scan.

`LeaseService` is what clients of a lock with a lease may rely on, stated without the lock table:
each client has what it was told itself, and a resource is granted to no other before the
term of its last grant is over. `GrantOf` maps a scheduler to its grant.

### DailyPipeline

One job. `succeeded`, `result` and `data` are what later decisions read of
`pipeline_run` and of the bars; `lastSuccess` is the watermark; `items` the open rows of the
repair queue. A runner is at a control point between two commits of the loop body of
`DailyPipelineRunner.run`. `numbered[r]` is TRUE while the attempt number `r` has read is
still free: a concurrent insert for the date takes it, and the next insert of `r` violates the
UNIQUE constraint and ends the runner (`AttemptConflict`). `Crash` stands for a killed process, a
lost connection (the store's connection is never reopened) and errors outside the try block.
Launching is up to operators and cron, so any window may be started at any time and no
liveness is claimed.

Abstractions: the two reasons for a partial result are one; `data` keeps what the last sync
that loaded bars brought, complete or not; the columns `consecutive_failures`
and `last_attempt_*`, the `--limit` of the repair script, the optional start
date and the lookback are left out.

What the code does not promise, and the properties therefore do not say:
a backfill or rerun moves the watermark to the date it ran, also forwards over days never
run (`store.py:365`), so the two properties about days behind the watermark are for
incremental (and, for `NoDayUnseen`, repair) runs; with two runners the late
`resolve_repair_items` of one closes the item the other has just opened
(`store.py:347`), and a crash between `finish_run` and `upsert_repair_item` leaves a failed
date without an item (`runner.py:225-241`), so `FailedRunIsQueued` and `SuccessClosesItems` are for one runner at a time
that does not die. `OneDatePerCrash` says what is left of them when it does: each death leaves at
most one date (`AtOdds`) on which results and queue disagree, and `NoSilentGap` that the watermark has
not moved past it.

### BatchLifecycle and PublishOnce

One dataset, several loads. `batch`, `version` and `finishedAt` are the PostgreSQL rows,
`metadata` the adjustment factors and price limits, `bars` what ClickHouse holds of the load,
`opened` the start of the open PostgreSQL transaction (`now()` in PostgreSQL), `seenAt` a history
variable. `Allowed`, `AsOf` and `Served` translate the query side: which versions
`_resolve_allowed_dataset_versions` admits and which of them supply a bar.
`CommitUnheard` is a COMMIT that was applied while the client got an error; `Die` a loader
that dies with its rows left running. `Daily = FALSE` gives minute bars, which have no
metadata and open the transaction only at the end.

`PublishOnce` is the contract: a load is published whole in one step, or withdrawn, or
invisible for ever. `Outcome` is the refinement mapping.

Not modelled: vintage queries, versions with status `superseded` (no code sets
it), market constraints, tradable universe, quality reports, security master.

### RouteApproval

`approval` and `control` are the statuses of the Omega approval row and of the control row
that mirrors it; `signatures`, `commands` (with `settled`), `callbacks` and `holder` are the rows
of signatures, commands, callbacks and the advisory locks; the rest is what each request handler
has in hand. A handler goes through the points of the code: `guard`
(`evaluate_approval_state_transition`), `delta` (`Govern`: signature, replay, role, policy), the
command (`lookup`, `insert`), then per control `sign`, `count`, `decide`, `mirror`, then
`record`. Each of these is a transaction of its own in the code, and an action here;
`KeyConflict` and `SignatureConflict` are the UNIQUE violations two handlers can run into,
`FailItem` an error inside `_process_target`, `Crash` a handler that dies anywhere. The lock is held
by the session for the whole callback and goes with it.

Beside the handlers, `CancelApproval` is `cancel_route_incident_approval`, `RequestAgain`,
`AutoApprove` and `UpsertControl` are the steps of an omega5 run, `DecideByHand` is an operator's
`report_omega_control.py decide-approval`, and `ReopenApproval` is the
Omega executor that finds a cancelled approval: its read and its upsert are one step here,
two steps in `OmegaExecution`. A beta6 run with decisions to apply reads the queue (`ReadQueue`),
then for each control that was pending decides the approval (`DecideQueued`) and updates the
control by its id (`UpdateQueued`) in a transaction each, with no signature, lock or second look;
`FailQueued` is an error in between. Which controls it finds (lookback, ranking, limit) is a choice.

Because of these writers a decision does not by itself tell who made it. `counted` are the
approvals whose `decision_reason` says that a quorum did, and `mirrored` is a history variable:
the controls whose status a command wrote last. `DecidedByQuorum` and `DecisionStands`
are about these; for any decision, or against any writer, they would be false of the code (section 6).

A message stands for its nonce. Its key is the one it brings (`delta6:474`, `gamma6:47`), which
other messages may bring too, or else one made of the nonce and the first control found (callbacks)
or of the time it arrived (commands, `gamma6:1066-1078`): a command retried without a key is
another command. A command row is the pair of key and message. `Guarded` are the controls all
requests reach through one selector and only by callback, for which the lock is what the code
means it to be among callbacks.

`CommandOnce` is what commands are to do, key by key: under a key one request is taken up, once,
leaves its sender's signature on controls it reaches while it is at work, and is settled or given
up; signatures stay. `AtWork` are the rows in some handler's hands, `ReachOf` and
`MarkOf` read the message off the row. A handler that loses the race for a key, that
dies, or that answers with the row of another must be a stutter or a step of this kind.

### OmegaExecution

An executor run is one PostgreSQL transaction (`run_omega_execution`). `StartRun` reads the
candidates with their retry counts (`snapshot`), and `Proceed` is the next step of `_process_action`:
read the approval, ask for one, execute, insert the attempt, and commit when the list is
done. What a run has written and not committed is `open`, at most one attempt per action, as
UNIQUE (action, attempt_no) makes the second writer wait and, once the first has committed,
fail (`NumberConflict`): `Rollback` then undoes all of the losing run, while `effects`, the
webhooks and scripts it has run, stay. `Abort` is every other way a run is lost; runs that wait for
each other are ended by the database's deadlock detection. `Approve`, `Reject`, `CancelApproval`,
`RequestApproval`, `RequestRollback` and `RunRollback` are transactions of others.

`granted` and `effects` are history variables. Initial states are the actions as a Psi run in
execute mode leaves them: those that need an approval wait for it, unless the run was started
with `approve`, and the others have one of `PsiStatus`; a failure of Psi's own is a failed
statement and undoes its run. `PsiRerun` is the same run started again: its run code is
that of the day, so `_upsert_action` meets its own rows and overwrites their `status`, while
`omega_control_status`, `retry_count` and the approval stay. An action Omega has executed or
rejected is a candidate again. Psi's transaction is one step, and waits for the rows of open
executor runs; a rerun in dry-run mode under an explicit run code is left out.

`AttemptLog` is what the attempt rows are to be, whoever writes them: a log of each action that
grows at its end, by a run's entries in one step, and reports no more executions than effects
were run. `Entries` orders the rows by their numbers (that they can be so ordered is
`AttemptsNumbered`); all that runs do before they commit must be a stutter or the run of an
effect.

### SourceRouting

`Resolve` starts a sync: candidates of the active policy without those whose circuit is open
(all of them when none is left, or when the circuit states cannot be loaded), the selected source
first, its fallbacks, and last the source asked for by name. `Candidates` is
`build_route_candidates`: a backup nobody is stands for the requested code, which need not be one of
a source. `Proceed` fetches from the source in hand, goes on to the next after an error
or an empty result, loads what a source delivered (in a dry run, ends with the quality gate), and
writes the decision to the audit. `LoseSync` is a sync that dies unaudited. `Serve` is the other
writer of the audit: for every read it routes, the API resolves a source, answers from the
backend, and writes a success of that source (`api/server.py:378-410`), although nothing was
fetched from it; the monitor does not look at the context of a decision. A monitor reads the
metrics of all sources (`ReadMetrics`), then the breakers (`ReadStates`), then writes each breaker in
a transaction of its own (`Upsert`): two monitors, and monitors and syncs, interleave between
these.

Decisions carry ids. `known` are the codes whose id the resolution knows: under a policy the ids of
its row, without that of the requested source, as the dict of ids has
`requested_source_code` last with a column the policies do not have
(`phi5_route_policy.py:91-96`). So a decision that selects the requested source has no
`selected_source_id`, and the monitor drops it (`chi5_route_feedback.py:112`; `Write` does not
keep such rows), and a final source of unknown id is recorded under that of the selected one
(`IdOr`, `FinalDecision`). `FailureNoted`, `BlameDue` and `CreditDue` say what is left of
accountability: failures are noted against the selected source but for this case, and no lost id
puts blame or credit for a sync on a source that did not earn it.

Times are relative, so that the state space is finite without a bound on time: a decision has
the age its sync's start has (`started_at` is what the window selects by), an open circuit the
ticks left. `Tick` waits for a monitor that has read the metrics and not yet the states, the two
reads being one short transaction after another. At most one sync or read starts per tick: a
bound, by which a window of a few ticks holds few decisions, and the set kept for an age has at
most one, so that no two equal decisions fall together. A breaker without a row counts as closed
everywhere and is modelled as one. Policies have at most two candidates, so that fallbacks need no
order; the latency check is off.

Facts of the code seen in the model that no property states: the branch for `half_open` in
`evaluate_route_health` is never taken, as every open breaker has an `open_until` and nothing
writes `half_open` (`TypeOK` and its theorem show it); failures still in
the lookback open an expired circuit again without new traffic, so `Readmitted` says
"again and again", not "for good".

## 4. Runs

| Run | Instance | Shows |
|---|---|---|
| `mu_safety` | 2 schedulers, 2 schedules (one malformed), 2 faults or unheard commits; 1.3 M states | the five safety invariants, `LiveLockKeepsOwner` and the refinement `LeasesGranted` |
| `mu_liveness` | 2 schedulers (one looping), 1 schedule, 1 fault; 143 k states | `DueScheduleIsTaken` |
| `mu_one_executor` | 2 looping schedulers, no fault | violates "one executor per schedule" (finding) |
| `pipeline_gap` | 1 runner, 4 days, 1 closed, 2 crashes; 625 k states | `NoSilentGap`, `OneDatePerCrash` |
| `pipeline_queue` | 1 runner, 3 days, all five modes; 97 k states | `FailedRunIsQueued`, `SuccessClosesItems` |
| `pipeline_two` | 2 runners, 2 days, incremental and repair; 3.7 M states | `WatermarkIsBacked`, `NoDayUnseen` |
| `pipeline_dry_run` | 1 runner, 2 days | violates "skipped dates are ingested" (finding) |
| `batch_daily` | 2 loads of daily bars, times 0..3; 60 k states | `PublishedIsWhole`, the refinement, `LatestNeverGoesBack`, `AsOfSettles` |
| `batch_asof` | 2 loads, times 0..2 | violates "asof reads what was visible" (finding) |
| `route_approval` | 2 handlers, 2 controls (one guarded), 2 signers, 5 requests (two under one key), 2 deliveries, 1 disturbance (a beta6 run is one); 478 k states | `DecidedByQuorum`, `OneWorkerPerCommand`, `DecisionStands`, the refinement `CommandsRunOnce` |
| `omega_actions` | 2 executors, 3 runs, 2 actions (one needs approval), 1 retry, 2 requests or Psi reruns; 198 k states | `AttemptsNumbered`, `RetriesOnRecord`, `NoEffectUnapproved`, `RejectionStands`, `RunsEnd`, the refinement `AttemptsLogged` |
| `source_routing` | 2 sources, 2 requested codes (one of no source), 2 policies, 1 sync, API reads, 1 monitor, window and open time of 2 ticks; 536 k states | `FallbackOrder`, `FailureNoted`, `BlameDue`, `CreditDue`, `OpenUntilHonoured`, `Readmitted`, `Recovers` |

Why the bounds are enough. Frequency 2, backoff 1, lock timeout 2 let a lease run out before,
during and after every step of a run, and a retry fall due before or after that. Two
schedulers are needed for a takeover and suffice for every pairwise property; faults are bounded
by `MaxFaults` because each adds one interruption, and two reach an error in the error path
followed by a crash. Four days with a closed one give a gap in the middle of a window and a
second window behind it; `RetryLimit` 1 gives a retry and an exhausted one. Two loads
overlap in every order; four instants separate creation, ingest time, transaction start and
commit. Two deliveries are two signatures that meet a quorum, a decision and a rejection
that meet, one request delivered twice, or two requests under one key, and one disturbance puts a beta6 or
omega5 run, a crash, a cancellation or an operator between any two of their steps; the batch
selector reaches a control that a second selector reaches too, so both kinds of control occur. Two runs over two actions meet on
one attempt, wait for each other crosswise, and retry; three requests ask, decide and cancel or
decide again. A window of two ticks lets evidence age while a circuit of two ticks is open, and
both orders of expiry occur. The theorems remove these bounds for the properties they cover;
what one monitor cannot show, two that overtake each other, is in `OpenUntilHonoured` and is
covered by its theorem for any number.

Deadlock is checked for the scheduler, for `pipeline_queue` and for `source_routing`. `pipeline_gap`, `pipeline_two`
and the batch runs set `CHECK_DEADLOCK FALSE`: once every date has been loaded there is no
window left to launch, and a finite set of loads ends while the clock is bounded by `MaxTime`;
`route_approval` and `omega_actions` set it because requests and runs are bounded.
Schedulers, runners and request handlers are symmetric in the safety runs; no symmetry is used with liveness.

Fairness (`FairSpec`): a process that is up takes its next step (the loop blocks only in
database calls and in `time.sleep`), time passes, and the container of a looping scheduler
restarts it (`restart: unless-stopped`, `docker-compose.yml:202-290`). Schedulers run with
`--once` or `--max-ticks` are not restarted, errors and crashes are never forced, and nothing is
assumed about who wins a lock. An executor run goes on while it can (`RunsEnd`): webhooks and scripts
have timeouts and the database ends deadlocks. Of the routing loop, a monitor's second read
follows its first (weak fairness), and time passes again and again (strong fairness of `Tick`,
because the short pause between the two reads disables it). Nothing is asked of a sync: the
AkShare provider passes no timeout (`sources/providers/akshare_provider.py:271-285`), so a fetch may
never end, and a sync with it. Nothing forces a sync, a read or a
monitor to start either: `Readmitted` and `Recovers` hold without any of that.

Each property of a passing run has a mutant in `PROJECT.json`: an operator named `Mutant...`
beside the definition it replaces, a plausible bug that TLC must find to break the
property. They are used by no specification.

## 5. What is proved

All safety invariants, action properties and refinements the passing runs check, for every value
of the constants that satisfies the modules' assumptions
(`MuAssumption`, `PipelineAssumption`, `BatchAssumption`, `ApprovalAssumption`, `OmegaAssumption`,
`RoutingAssumption`), unless said otherwise:

- `MuSchedulerProofs`: `TypeCorrect`, `LeasesHonoured`, `LeaseExclusion`, `TicksAreTrue`,
  `LiveLocks`, `StoppedIsClean`. `LeaseHonoured` alone is not inductive: that a step finds the
  lock row in the state the control point promises needs `TickProgress`, which
  relates a scheduler's control point to its tick, worker run and counter.
  `LeaseExclusion` follows from `LeaseHonoured`: two live leases on one schedule would give its
  lock row two owners. `TicksAreTrue` covers the unheard commits too: the except clause may find
the tick with its result already written. `LiveLocks` is proved step by step from the same invariant:
  only a takeover of an expired lock, the owner's own re-acquisition or its release writes
  the row. `StoppedIsClean` needs an invariant of its own: without faults every lock
  belongs to a scheduler at a point that holds it. `LeaseRefinement`: the scheduler implements
  `LeaseService` with any crashes and errors. `GrantFrame` says that a step of a scheduler leaves the
  grants of others alone and either keeps its own, gives it up or is `AcquireLock`; that
  an acquisition finds no other term running is `LeaseHonoured` again, since the
  row it overwrites would be that scheduler's. `ScanShortens`: over finitely many schedules a
  scan ends, since each move of the scheduler lowers a number made of its list and its place in
  the tick, in the error paths too, and nobody else raises it.
- `DailyPipelineProofs`: `PipelineTypes`; `WatermarkHasRun` in all modes (a runner about to
  move the watermark is at a date in `succeeded`, which only grows); `NoDayIsSkipped` for incremental
  and repair runs, any number of runners and crashes (every date of a runner's list, and
  the date it is at, has all earlier open days behind it finished or in the same list);
  `NoGapIsSilent` for one incremental runner and any number of crashes (the list of the runner is
  exactly an interval after the day it is at, and dates behind that are complete or queued).
  `DeathsAreCounted` for one runner at a time, in all modes and with any number of deaths
  (`OneDatePerCrash`): the dates astray (`Stray`: result and queue disagree, and the runner is not
  between `finish_run` and its last write for them) are never more than the deaths, because only a death adds
  one, the date the runner was at, and every later result of a date puts it right
  (`StrayStep`). `FailuresAreQueued` and `SuccessesAreClosed` are that with no deaths.
  The last five name their restrictions as assumptions of the theorem. `RunnerShortens`: each
  move of a runner lowers a natural number made of its list, its retries and its place in
  the attempt, and no other runner raises it, so a runner ends.
- `BatchLifecycleProofs`: `BatchTypes`, `WholeVersions`, `LatestIsMonotone`, `AsOfIsFinal` and `LoadsPublishOnce`,
  the refinement of `PublishOnce`: initial states map to the initial state, and every
  step publishes one load, withdraws one, or stutters. The invariant ties the control point of a
  load to the status of its two rows and to what ClickHouse holds; `CommitUnheard` is the
  case that needs it, as the failure handler then runs for a published load.
- `RouteApprovalProofs`: `TypeCorrect`, `QuorumSafety`, `CommandSafety`, `DecisionSafety`.
  `QuorumSafety` rests on signatures never being withdrawn: a handler past its count knows that
  the quorum is met, and every other writer of the approval, beta6 included, takes it out of
  `counted`. `CommandSafety` ties every handler past `insert` to a row under its key that no
  other handler works on. `DecisionSafety` is the theorem about the lock: a handler on a guarded control
  holds the lock of its selector from the guard to the end, and no command wrote the status of what
  it still has to do (`GuardedUndecided`), so what a command wrote is written again only by an omega5
  run or a beta6 run with an item for it; the theorem names these and excludes callbacks and
  cancellations.
- `RouteCommandProofs`: `CommandRefinement`, that deliveries, handlers
  and crashes together implement `CommandOnce`. It needs from the invariant above that a
  handler at work has its own row inserted (`RowInserted`), that what is on its list are controls its
  message reaches (`ItemsFound`) and `OneWorkerPerCommand` (a command that ends for one handler is
  not at work in another).
- `OmegaExecutionProofs`: `TypeCorrect`, `NumberSafety`, `RetrySafety`, `ApprovalSafety`,
  `RejectionSafety`. The invariant says that an uncommitted attempt has the number after the
  last committed one, and that a run that waits has that number in hand: it inserts it when
  the other run is undone, and fails when it has committed. `RetrySafety`
  needs that committed attempts are never withdrawn, so a count read earlier is still a lower
  bound. `SomeRunGoesOn` and `RunShortens` are the two halves of `RunsEnd` without fairness:
  while a run is open some open run is `Ready` (an open attempt belongs to an open run, so
  runs that all wait do so in a circle, which deadlock detection breaks), and a run over
  finitely many actions has at most 4 * |Action| + 1 steps, which nobody adds to.
- `OmegaLogProofs`: `LogInvariant` and `LogRefinement`, the refinement of `AttemptLog`. That an entry
  is appended and no other one changes rests on `AttemptsNumbered`; that it reports no execution too many on
  `Backed`: the executions an action's attempts report, the uncommitted one and those that
  runs still have in hand all have an effect of their own. This is inductive where the
  contract's count of committed rows is not, as two runs may both have run the effect and only one commits.
- `SourceRoutingProofs`: `TypeCorrect`, `FallbackSafety`, `FailureNotedSafety`, `BlameSafety`,
  `CreditSafety`, `OpenSafety`, `SyncShortens`. `FallbackSafety` follows a sync along its list (which
  source it is at, what it has tried before). The three about blame and credit follow a decision
  from the ids its resolution knew to the counts of the monitor; they need `OnePerTick`, that
  of each tick in the window there is one sync under way or one decision, so that an added decision adds one
  to the counts, which is what the bound on starts gives. `OpenSafety` says that a monitor that nobody
  overtook writes back an open circuit as it is. `SyncShortens`: a sync has at most 2 + |Code|
  steps, each of its own is one less, and nobody adds to them, as a source in hand was not
  tried before; that a sync ends is more than the code can promise without timeouts.

Only model-checked: the liveness properties `DueScheduleIsTaken`, `RunsEnd`, `Readmitted` and
`Recovers` (liveness under fairness is out of the prover's reach; for `DueScheduleIsTaken` and `RunsEnd`
it is proved that scans and runs have boundedly many steps and, for
`RunsEnd`, that open runs are never all stuck). The three findings
are counterexamples of TLC.

## 6. Where code and documents disagree

- `mu_one_executor`: `acceptance-criteria.md:218` promises one scheduler per schedule at a time; a
  lease that nothing renews does not give that (`mu_scheduler.py:595`).
- `pipeline_dry_run`: a dry run counts as an "existing successful run"
  (`store.py:103`, `runner.py:165`).
- `batch_asof`: `finished_at` is the start of the loader's transaction
  (`sql_loader.py:1791`), so `asof` can return bars that were not visible then
  (`api-contract.md:16`).

Seen while modelling, and left without a run of their own:

- `api-contract.md:1591` wants a decided control never rewritten by a callback. That holds for
  controls one lock leads to (`DecisionStands`). Beyond them it does not: two selectors have two
  locks, the command API has none (`gamma6_route_incident_approval_api.py:34`), a cancellation may come
  between the read and the decision (`omega_control.py:84` updates whatever status it finds), and
  a crash between decision and mirror leaves the two rows apart. And everywhere a beta6
  run that has read a control as pending overwrites what callbacks decided since
  (`beta6_route_incident_ops.py:527-544`), as its UPDATE has no condition but the id.
- A beta6 run, or an operator, decides an approval without signatures, also one for which a quorum
  of two is asked; beta6's own acceptance (`api-contract.md:1485-1491`) asks for no more than the
  Omega approval. `DecidedByQuorum` is therefore about decisions that claim a quorum.
- `api-contract.md:1523` wants the first of two signatures to leave the approval undecided. After
  an omega5 run has asked again, the signatures of the earlier request still count.
- A crash leaves a command row without its final status, and every later delivery returns it as
  a replay (`gamma6_route_incident_approval_api.py:55`).
- Omega takes a `failed` action whose retries are used up as a candidate again
  (`omega_control.py:681`), though the contract (4.20) rules out retries without end; a
  decision made after the expiry of an approval counts; a blocked attempt of a run that read
  earlier can overwrite the control status of an action approved since.
- An action with an idempotency key that has succeeded is to be skipped afterwards
  (`acceptance-criteria.md:457`). `_find_previous_success` leaves out the run's own rows
  (`psi_automation.py:1110`), and a rerun of Psi sets an approved action that Omega has executed
  back to `approval_required` (`PsiRerun`) with its approval still approved, so Omega executes it
  again.
- An asked-for source with an open circuit is still tried last, and all candidates when all are
  open (against the plain reading of `api-contract.md:1342`); a probe `failed` / `keep_open` is
  written for a breaker that is being closed, when the success rate lies between 0.95 and 1
  (`api-contract.md:1343`).
- A source that is asked for by name, and is one of the policy's, is never held to account when it is
  selected: its id is lost (`phi5_route_policy.py:95`) and the monitor drops the decision
  (`chi5_route_feedback.py:112`). `FailureNoted` names this exception.
- Every routed read of the API counts as a success of a source that was not asked for anything
  (`api/server.py:398-409`), so reads dilute the failures of syncs; an empty answer counts as an
  empty result of it. `CreditDue` names this exception.
- Two monitors at once can end an open circuit early: the second writes the plan it made from
  states read before the first wrote (`OpenUntilHonoured` names exactly this exception).

## 7. Not modelled

Everything listed as `not_modelled` in `PROJECT.json`, with its reason, and of the parts listed
as `partly` what their note names:

- the rest of the plan: market constraints, overlapping Psi runs, promotion and rollback, recovery
  actions, snapshots, billing;
- rows that are written and read by no step: lock events, transitions, escalations and drills of
  the approvals, health snapshots and recovery probes of the breaker;
- pure computation and reports (scores, cost, readiness, dashboards), by far the largest part of
  the code: they keep no state that a later step depends on;
- input and output (providers, HTTP dispatch, file formats), which the models reduce to the
  outcomes their callers tell apart.
