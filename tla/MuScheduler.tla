----------------------------- MODULE MuScheduler -----------------------------
(***************************************************************************)
(* The Mu scheduler (qdata/mu_scheduler.py) and the Lambda worker run it   *)
(* triggers (qdata/lambda_worker.py).                                      *)
(*                                                                         *)
(* Several scheduler processes poll one table of schedules.  Each due      *)
(* schedule gets a tick row, then its lease in qmeta.worker_lock is taken, *)
(* the worker runs, the schedule and the tick are written back and the     *)
(* lease is released.  Every database helper opens its own connection and  *)
(* commits on its own, so each is a step of its own here and a process may *)
(* fail between any two of them.                                           *)
(*                                                                         *)
(* Time is kept as countdowns: wait[k] is next_run_at - now(), the ttl of  *)
(* a lock is expires_at - now(), and both stop at 0 (due, expired).  The   *)
(* tables only grow by rows nobody writes again, so the model keeps the    *)
(* latest tick of each scheduler, with the worker run that tick started.   *)
(*                                                                         *)
(* A COMMIT may be applied although the process gets an error.  That is a  *)
(* step of its own (Unheard...) where it differs from the step itself      *)
(* followed by an error before the next one.                               *)
(***************************************************************************)
EXTENDS Naturals, FiniteSets

CONSTANTS
  Scheduler,      \* scheduler_id values; a process restarted with --scheduler-id
                  \*  keeps its own, without it is another member
  Schedule,       \* rows of qmeta.worker_schedule
  Frequency,      \* frequency_seconds of each schedule
  RetryBackoff,   \* retry_backoff_seconds of each schedule
  LockTimeout,    \* lock_timeout_seconds of each schedule
  Looping,        \* schedulers run without --once or --max-ticks
  Malformed,      \* schedules whose task_args build_worker_kwargs refuses
  MaxFaults,      \* bound on crashes and database errors in one behaviour
  None            \* no owner, no schedule

ASSUME MuAssumption ==
  /\ Looping \subseteq Scheduler
  /\ Malformed \subseteq Schedule
  /\ Frequency \in [Schedule -> Nat \ {0}]
  /\ RetryBackoff \in [Schedule -> Nat]
  /\ LockTimeout \in [Schedule -> Nat \ {0}]
  /\ MaxFaults \in Nat
  /\ None \notin Scheduler \cup Schedule

VARIABLES
  wait,        \* [Schedule -> Nat], time left until next_run_at
  active,      \* [Schedule -> BOOLEAN], status = 'active'
  lock,        \* [Schedule -> owner and ttl], qmeta.worker_lock
  heartbeat,   \* [Scheduler -> status of its qmeta.worker_heartbeat row]
  tick,        \* [Scheduler -> status of its latest tick row]
  worker,      \* [Scheduler -> status of the worker_run of that tick]
  counted,     \* [Scheduler -> Nat], times that tick added 1 to run_count
  pc,          \* [Scheduler -> control point of the process]
  due,         \* [Scheduler -> SUBSET Schedule], rest of the fetched list
  cur,         \* [Scheduler -> schedule of the tick being run, or None]
  untilNext,   \* [Scheduler -> Nat], time left of started_at + frequency
  untilRetry,  \* [Scheduler -> Nat], time left of started_at + backoff
  lease,       \* [Scheduler -> Nat], time left of the lease it was granted
  faults       \* crashes and errors so far

procVars == <<pc, due, cur, untilNext, untilRetry, lease>>
tickVars == <<tick, worker, counted>>
vars == <<wait, active, lock, heartbeat, tickVars, procVars, faults>>

WorkerStatus == {"success", "warning", "failed", "skipped"}
TickStatus == WorkerStatus \cup {"none", "running", "skipped_locked"}

\* Control points between acquiring the lock and releasing it.
TryPoint == {"work", "run", "finish_schedule", "finish_tick"}
HandlerPoint == {"finish_schedule_failure", "finish_tick_failure"}
ReleasePoint == {"release", "release_raise"}
HoldingPoint == TryPoint \cup HandlerPoint \cup ReleasePoint
Point == HoldingPoint
  \cup {"down", "scan", "pick", "lock", "failed", "stopping"}

Free == [owner |-> None, ttl |-> 0]

Less(n) == IF n = 0 THEN 0 ELSE n - 1

\* s is between a successful _acquire_lock and its _release_lock.
Holding(s) == pc[s] \in HoldingPoint

TypeOK ==
  /\ wait \in [Schedule -> Nat]
  /\ active \in [Schedule -> BOOLEAN]
  /\ lock \in [Schedule -> [owner: Scheduler \cup {None}, ttl: Nat]]
  /\ heartbeat \in [Scheduler -> {"absent", "running", "failed", "stopped"}]
  /\ tick \in [Scheduler -> TickStatus]
  /\ worker \in [Scheduler -> WorkerStatus \cup {"none", "running"}]
  /\ counted \in [Scheduler -> Nat]
  /\ pc \in [Scheduler -> Point]
  /\ due \in [Scheduler -> SUBSET Schedule]
  /\ cur \in [Scheduler -> Schedule \cup {None}]
  /\ untilNext \in [Scheduler -> Nat]
  /\ untilRetry \in [Scheduler -> Nat]
  /\ lease \in [Scheduler -> Nat]
  /\ faults \in Nat

Init ==
  /\ wait = [k \in Schedule |-> 0]
  /\ active \in [Schedule -> BOOLEAN]
  /\ lock = [k \in Schedule |-> Free]
  /\ heartbeat = [s \in Scheduler |-> "absent"]
  /\ tick = [s \in Scheduler |-> "none"]
  /\ worker = [s \in Scheduler |-> "none"]
  /\ counted = [s \in Scheduler |-> 0]
  /\ pc = [s \in Scheduler |-> "down"]
  /\ due = [s \in Scheduler |-> {}]
  /\ cur = [s \in Scheduler |-> None]
  /\ untilNext = [s \in Scheduler |-> 0]
  /\ untilRetry = [s \in Scheduler |-> 0]
  /\ lease = [s \in Scheduler |-> 0]
  /\ faults = 0

-----------------------------------------------------------------------------
(***************************************************************************)
(* Helpers: the statements several steps share.                            *)
(***************************************************************************)
Goto(s, point) == pc' = [pc EXCEPT ![s] = point]
Beat(s, status) == heartbeat' = [heartbeat EXCEPT ![s] = status]

\* Mutants: the upsert without its WHERE clause, and without `expires_at <= now()`.
MutantLockAlwaysAvailable(s, k) == TRUE
MutantLockNeverExpires(s, k) == lock[k].owner \in {None, s}

\* The WHERE clause of the upsert in _acquire_lock (no row, own row, expired).
LockAvailable(s, k) == lock[k].owner \in {None, s} \/ lock[k].ttl = 0

\* Mutant: a DELETE that does not name the owner.
MutantReleasedByAnyone(s, k) == Free

\* The DELETE of _release_lock, which names the owner.
Released(s, k) == IF lock[k].owner = s THEN Free ELSE lock[k]

\* Mutant: a tick whose finally clause does not release.
MutantGiveNothingBack(s) ==
  /\ cur' = [cur EXCEPT ![s] = None]
  /\ lease' = [lease EXCEPT ![s] = 0]
  /\ untilNext' = [untilNext EXCEPT ![s] = 0]
  /\ untilRetry' = [untilRetry EXCEPT ![s] = 0]
  /\ UNCHANGED lock

\* _release_lock, and the end of the tick's local state.
GiveBack(s) ==
  /\ lock' = [lock EXCEPT ![cur[s]] = Released(s, cur[s])]
  /\ cur' = [cur EXCEPT ![s] = None]
  /\ lease' = [lease EXCEPT ![s] = 0]
  /\ untilNext' = [untilNext EXCEPT ![s] = 0]
  /\ untilRetry' = [untilRetry EXCEPT ![s] = 0]

\* Where _finish_schedule_failure puts next_run_at, relative to started_at.
RetryDelay(k) ==
  IF RetryBackoff[k] > 0 THEN RetryBackoff[k] ELSE Frequency[k]

\* What a process loses when it leaves the loop: its list and its timers.
Forget(s) ==
  /\ due' = [due EXCEPT ![s] = {}]
  /\ cur' = [cur EXCEPT ![s] = None]
  /\ untilNext' = [untilNext EXCEPT ![s] = 0]
  /\ untilRetry' = [untilRetry EXCEPT ![s] = 0]
  /\ lease' = [lease EXCEPT ![s] = 0]

Fault == faults < MaxFaults /\ faults' = faults + 1

-----------------------------------------------------------------------------
(***************************************************************************)
(* The scan loop of run_mu_scheduler.                                      *)
(***************************************************************************)
Start(s) ==
  /\ pc[s] = "down"
  /\ Beat(s, "running")
  /\ Goto(s, "scan")
  /\ UNCHANGED <<wait, active, lock, tickVars, due, cur, untilNext,
                 untilRetry, lease, faults>>

\* One SELECT, of all that is due (the optional filters by schedule and task
\* and the LIMIT are left out); the list is not read again.
FetchDue(s) ==
  /\ pc[s] = "scan"
  /\ due' = [due EXCEPT ![s] = {k \in Schedule : active[k] /\ wait[k] = 0}]
  /\ Goto(s, "pick")
  /\ UNCHANGED <<wait, active, lock, heartbeat, tickVars, cur, untilNext,
                 untilRetry, lease, faults>>

\* started_at is taken, the tick row inserted and the heartbeat refreshed.
InsertTick(s, k) ==
  /\ pc[s] = "pick"
  /\ k \in due[s] \ Malformed
  /\ due' = [due EXCEPT ![s] = @ \ {k}]
  /\ cur' = [cur EXCEPT ![s] = k]
  /\ untilNext' = [untilNext EXCEPT ![s] = Frequency[k]]
  /\ untilRetry' = [untilRetry EXCEPT ![s] = RetryDelay(k)]
  /\ tick' = [tick EXCEPT ![s] = "running"]
  /\ worker' = [worker EXCEPT ![s] = "none"]
  /\ counted' = [counted EXCEPT ![s] = 0]
  /\ Beat(s, "running")
  /\ Goto(s, "lock")
  /\ UNCHANGED <<wait, active, lock, lease, faults>>

\* build_worker_kwargs raises before the tick row exists; nothing catches it
\* in the loop, so the whole scheduler ends.
RejectArgs(s, k) ==
  /\ pc[s] = "pick"
  /\ k \in due[s] \cap Malformed
  /\ Forget(s)
  /\ Beat(s, "failed")
  /\ Goto(s, "failed")
  /\ UNCHANGED <<wait, active, lock, tickVars, faults>>

\* The list is exhausted: poll again, or leave after the last scan.
EndScan(s) ==
  /\ pc[s] = "pick"
  /\ due[s] = {}
  /\ Beat(s, "running")
  /\ Goto(s, IF s \in Looping THEN "scan" ELSE "stopping")
  /\ UNCHANGED <<wait, active, lock, tickVars, due, cur, untilNext,
                 untilRetry, lease, faults>>

-----------------------------------------------------------------------------
(***************************************************************************)
(* One tick: _run_schedule_tick with run_lambda_worker inside it.          *)
(***************************************************************************)
\* Mutant: the upsert leaves expires_at as it was.
MutantAcquireLock(s) ==
  LET k == cur[s] IN
  /\ pc[s] = "lock"
  /\ LockAvailable(s, k)
  /\ lock' = [lock EXCEPT ![k] =
               [owner |-> s,
                ttl |-> IF lock[k].owner = None THEN LockTimeout[k] ELSE @.ttl]]
  /\ lease' = [lease EXCEPT ![s] = LockTimeout[k]]
  /\ Goto(s, "work")
  /\ UNCHANGED <<wait, active, heartbeat, tickVars, due, cur, untilNext,
                 untilRetry, faults>>

AcquireLock(s) ==
  LET k == cur[s] IN
  /\ pc[s] = "lock"
  /\ LockAvailable(s, k)
  /\ lock' = [lock EXCEPT ![k] = [owner |-> s, ttl |-> LockTimeout[k]]]
  /\ lease' = [lease EXCEPT ![s] = LockTimeout[k]]
  /\ Goto(s, "work")
  /\ UNCHANGED <<wait, active, heartbeat, tickVars, due, cur, untilNext,
                 untilRetry, faults>>

\* Mutant: the skip is recorded as a worker run, whose CHECK has no such status.
MutantSkipLocked(s) ==
  /\ pc[s] = "lock"
  /\ ~LockAvailable(s, cur[s])
  /\ tick' = [tick EXCEPT ![s] = "skipped_locked"]
  /\ worker' = [worker EXCEPT ![s] = "skipped_locked"]
  /\ cur' = [cur EXCEPT ![s] = None]
  /\ Goto(s, "pick")
  /\ UNCHANGED <<wait, active, lock, heartbeat, counted, due,
                 untilNext, untilRetry, lease, faults>>

SkipLocked(s) ==
  /\ pc[s] = "lock"
  /\ ~LockAvailable(s, cur[s])
  /\ tick' = [tick EXCEPT ![s] = "skipped_locked"]
  /\ cur' = [cur EXCEPT ![s] = None]
  /\ Goto(s, "pick")
  /\ UNCHANGED <<wait, active, lock, heartbeat, worker, counted, due,
                 untilNext, untilRetry, lease, faults>>

StartWorker(s) ==
  /\ pc[s] = "work"
  /\ worker' = [worker EXCEPT ![s] = "running"]
  /\ Goto(s, "run")
  /\ UNCHANGED <<wait, active, lock, heartbeat, tick, counted, due, cur,
                 untilNext, untilRetry, lease, faults>>

\* An exception of the task's handler is caught and becomes "failed".
FinishWorker(s) ==
  /\ pc[s] = "run"
  /\ \E result \in WorkerStatus : worker' = [worker EXCEPT ![s] = result]
  /\ Goto(s, "finish_schedule")
  /\ UNCHANGED <<wait, active, lock, heartbeat, tick, counted, due, cur,
                 untilNext, untilRetry, lease, faults>>

FinishSchedule(s) ==
  /\ pc[s] = "finish_schedule"
  /\ wait' = [wait EXCEPT ![cur[s]] = untilNext[s]]
  /\ counted' = [counted EXCEPT ![s] = @ + 1]
  /\ Goto(s, "finish_tick")
  /\ UNCHANGED <<active, lock, heartbeat, tick, worker, due, cur,
                 untilNext, untilRetry, lease, faults>>

\* Mutant: a tick that reports success whatever the worker run came to.
MutantFinishTickSuccess(s) ==
  /\ pc[s] = "finish_tick"
  /\ tick' = [tick EXCEPT ![s] = "success"]
  /\ Goto(s, "release")
  /\ UNCHANGED <<wait, active, lock, heartbeat, worker, counted, due, cur,
                 untilNext, untilRetry, lease, faults>>

FinishTick(s) ==
  /\ pc[s] = "finish_tick"
  /\ tick' = [tick EXCEPT ![s] = worker[s]]
  /\ Goto(s, "release")
  /\ UNCHANGED <<wait, active, lock, heartbeat, worker, counted, due, cur,
                 untilNext, untilRetry, lease, faults>>

\* A database error anywhere in the try block enters its except clause,
\* even when the schedule was already written back.
RaiseInTry(s) ==
  /\ pc[s] \in TryPoint
  /\ Fault
  /\ Goto(s, "finish_schedule_failure")
  /\ UNCHANGED <<wait, active, lock, heartbeat, tickVars, due, cur,
                 untilNext, untilRetry, lease>>

FinishScheduleFailure(s) ==
  /\ pc[s] = "finish_schedule_failure"
  /\ wait' = [wait EXCEPT ![cur[s]] = untilRetry[s]]
  /\ counted' = [counted EXCEPT ![s] = @ + 1]
  /\ Goto(s, "finish_tick_failure")
  /\ UNCHANGED <<active, lock, heartbeat, tick, worker, due, cur,
                 untilNext, untilRetry, lease, faults>>

FinishTickFailure(s) ==
  /\ pc[s] = "finish_tick_failure"
  /\ tick' = [tick EXCEPT ![s] = "failed"]
  /\ Goto(s, "release")
  /\ UNCHANGED <<wait, active, lock, heartbeat, worker, counted, due, cur,
                 untilNext, untilRetry, lease, faults>>

\* A second error, in the except clause, still runs the finally clause.
RaiseInHandler(s) ==
  /\ pc[s] \in HandlerPoint
  /\ Fault
  /\ Goto(s, "release_raise")
  /\ UNCHANGED <<wait, active, lock, heartbeat, tickVars, due, cur,
                 untilNext, untilRetry, lease>>

\* The COMMIT of _finish_tick is applied, but its answer is lost: the row has
\* its result, and the except clause runs all the same.
UnheardTick(s) ==
  /\ pc[s] = "finish_tick"
  /\ Fault
  /\ tick' = [tick EXCEPT ![s] = worker[s]]
  /\ Goto(s, "finish_schedule_failure")
  /\ UNCHANGED <<wait, active, lock, heartbeat, worker, counted, due, cur,
                 untilNext, untilRetry, lease>>

\* The same in the except clause.
UnheardFailure(s) ==
  /\ pc[s] = "finish_tick_failure"
  /\ Fault
  /\ tick' = [tick EXCEPT ![s] = "failed"]
  /\ Goto(s, "release_raise")
  /\ UNCHANGED <<wait, active, lock, heartbeat, worker, counted, due, cur,
                 untilNext, untilRetry, lease>>

ReleaseLock(s) ==
  /\ pc[s] = "release"
  /\ GiveBack(s)
  /\ Goto(s, "pick")
  /\ UNCHANGED <<wait, active, heartbeat, tickVars, due, faults>>

\* The finally clause with an exception on its way out of the loop.
ReleaseAndRaise(s) ==
  /\ pc[s] = "release_raise"
  /\ GiveBack(s)
  /\ Goto(s, "failed")
  /\ Beat(s, "failed")
  /\ due' = [due EXCEPT ![s] = {}]
  /\ UNCHANGED <<wait, active, tickVars, faults>>

-----------------------------------------------------------------------------
(***************************************************************************)
(* Ends of a process, the operator, and time.                              *)
(***************************************************************************)
\* A database error outside the try block ends run_mu_scheduler.
Abort(s) ==
  /\ pc[s] \in {"scan", "pick", "lock"} \cup ReleasePoint
  /\ Fault
  /\ Forget(s)
  /\ Beat(s, "failed")
  /\ Goto(s, "failed")
  /\ UNCHANGED <<wait, active, lock, tickVars>>

\* The lock is taken, but the answer to the COMMIT is lost: outside the try
\* block, so nobody gives the lock back.
UnheardLock(s) ==
  LET k == cur[s] IN
  /\ pc[s] = "lock"
  /\ LockAvailable(s, k)
  /\ Fault
  /\ lock' = [lock EXCEPT ![k] = [owner |-> s, ttl |-> LockTimeout[k]]]
  /\ Forget(s)
  /\ Beat(s, "failed")
  /\ Goto(s, "failed")
  /\ UNCHANGED <<wait, active, tickVars>>

\* The finally clause overwrites "failed" too.
MarkStopped(s) ==
  /\ pc[s] \in {"failed", "stopping"}
  /\ Beat(s, "stopped")
  /\ Goto(s, "down")
  /\ UNCHANGED <<wait, active, lock, tickVars, due, cur, untilNext,
                 untilRetry, lease, faults>>

\* The process is killed: its rows and its lock stay as they are.
Crash(s) ==
  /\ pc[s] # "down"
  /\ Fault
  /\ Forget(s)
  /\ Goto(s, "down")
  /\ UNCHANGED <<wait, active, lock, heartbeat, tickVars>>

ForceDue(k) ==
  /\ wait' = [wait EXCEPT ![k] = 0]
  /\ active' = [active EXCEPT ![k] = TRUE]
  /\ UNCHANGED <<lock, heartbeat, tickVars, procVars, faults>>

\* One unit of time.
Elapse ==
  /\ wait' = [k \in Schedule |-> Less(wait[k])]
  /\ lock' = [k \in Schedule |->
               [owner |-> lock[k].owner, ttl |-> Less(lock[k].ttl)]]
  /\ untilNext' = [s \in Scheduler |-> Less(untilNext[s])]
  /\ untilRetry' = [s \in Scheduler |-> Less(untilRetry[s])]
  /\ lease' = [s \in Scheduler |-> Less(lease[s])]
  /\ UNCHANGED <<active, heartbeat, tickVars, pc, due, cur, faults>>

\* What the code of s does next when nothing fails.
Step(s) ==
  \/ FetchDue(s)
  \/ \E k \in Schedule : InsertTick(s, k) \/ RejectArgs(s, k)
  \/ EndScan(s)
  \/ AcquireLock(s)
  \/ SkipLocked(s)
  \/ StartWorker(s)
  \/ FinishWorker(s)
  \/ FinishSchedule(s)
  \/ FinishTick(s)
  \/ FinishScheduleFailure(s)
  \/ FinishTickFailure(s)
  \/ ReleaseLock(s)
  \/ ReleaseAndRaise(s)
  \/ MarkStopped(s)

CommitUnheard(s) ==
  \/ UnheardTick(s)
  \/ UnheardFailure(s)
  \/ UnheardLock(s)

Next ==
  \/ \E s \in Scheduler :
       \/ Start(s)
       \/ Step(s)
       \/ RaiseInTry(s)
       \/ RaiseInHandler(s)
       \/ CommitUnheard(s)
       \/ Abort(s)
       \/ Crash(s)
  \/ \E k \in Schedule : ForceDue(k)
  \/ Elapse

Spec == Init /\ [][Next]_vars

\* A process that runs takes its next step, the container restarts a looping
\* scheduler (restart: unless-stopped), and time passes.
Fairness ==
  /\ \A s \in Scheduler : WF_vars(Step(s))
  /\ \A s \in Looping : WF_vars(Start(s))
  /\ WF_vars(Elapse)

FairSpec == Spec /\ Fairness

-----------------------------------------------------------------------------
(***************************************************************************)
(* Properties.                                                             *)
(***************************************************************************)
\* While the lease a scheduler was granted lasts, the lock row is its own, with the
\* expiry it was granted: no takeover, release or restart of another
\* scheduler touches it (_acquire_lock, _release_lock).
LeaseHonoured ==
  \A s \in Scheduler :
    Holding(s) /\ lease[s] > 0 => lock[cur[s]] = [owner |-> s, ttl |-> lease[s]]

\* What the control point of a scheduler says of its tick: LeaseHonoured and
\* TickTruth are inductive only together with it.
TickProgress ==
  \A s \in Scheduler :
    /\ Holding(s) \/ pc[s] = "lock" => cur[s] \in Schedule
    /\ pc[s] \in TryPoint \cup {"lock"} => tick[s] = "running"
    /\ pc[s] \in {"lock", "work"} => worker[s] = "none"
    /\ pc[s] \in {"lock", "work", "run", "finish_schedule"} => counted[s] = 0
    /\ pc[s] \in {"finish_schedule", "finish_tick"} => worker[s] \in WorkerStatus
    /\ pc[s] = "finish_tick" => counted[s] = 1
    /\ pc[s] \in HandlerPoint => tick[s] # "skipped_locked" /\ faults > 0
    /\ pc[s] = "finish_schedule_failure" => counted[s] \in {0, 1}
    /\ pc[s] = "finish_tick_failure" => counted[s] \in {1, 2}

\* Two schedulers are inside the locked region of one schedule only after
\* the lease of one of them ran out: the lock excludes for as long as it is
\* granted, and no longer, because it is never renewed.
ExclusiveWhileLeased ==
  \A s, t \in Scheduler :
    s # t /\ Holding(s) /\ Holding(t) /\ cur[s] = cur[t]
      => lease[s] = 0 \/ lease[t] = 0

\* Refinement: by what each scheduler was told when it took a lock, the lock
\* table is a lease service: a schedule is granted for its lock_timeout, and
\* to no other scheduler before that is over, whoever crashes, fails or
\* releases late (_acquire_lock, _release_lock).
GrantOf(s) ==
  IF Holding(s) THEN [on |-> cur[s], left |-> lease[s]]
                ELSE [on |-> None, left |-> 0]

Leases == INSTANCE LeaseService
  WITH Client <- Scheduler, Resource <- Schedule, Term <- LockTimeout,
       grant <- [s \in Scheduler |-> GrantOf(s)]
LeasesGranted == Leases!Spec

\* A lock that has not expired changes hands only by its owner's own release: a
\* scheduler that outlived its lease must not delete its successor's lock.
LiveLockKept ==
  \A k \in Schedule :
    /\ lock[k].ttl > 0
    /\ lock[k].owner # None
    /\ lock'[k].owner # lock[k].owner
    =>
      /\ lock'[k].owner = None
      /\ pc[lock[k].owner] \in ReleasePoint
      /\ pc'[lock[k].owner] \notin HoldingPoint

LiveLockKeepsOwner == [][LiveLockKept]_vars

\* A tick row with a result tells the truth about its worker run and about
\* run_count: skipped_locked started none and is not counted
\* (acceptance-criteria.md:219), any other result but "failed" is the status
\* of the worker run.  No tick is counted twice without an error, and then it
\* ends up "failed", unless the except clause met an error or a crash itself:
\* the commit of its result was not heard and the result stands.
TickTruth ==
  \A s \in Scheduler :
    /\ tick[s] = "skipped_locked" => worker[s] = "none" /\ counted[s] = 0
    /\ tick[s] \in {"success", "warning", "skipped"} =>
         /\ worker[s] = tick[s] /\ counted[s] \in {1, 2}
         /\ counted[s] = 2 /\ pc[s] # "finish_tick_failure" => faults > 1
    /\ tick[s] = "failed" => counted[s] \in {1, 2}
    /\ counted[s] = 2 => faults > 0

\* A scheduler that reports itself stopped, after its last scan or because a
\* schedule's task_args were refused, has left no lock behind: every lock it
\* took was given back by the finally clause of its tick.  Only a crash or an
\* error while releasing can leave one, for its lease to run out.
StoppedLeavesNoLock ==
  \A s \in Scheduler :
    faults = 0 /\ heartbeat[s] = "stopped" => \A k \in Schedule : lock[k].owner # s

\* A due, active schedule is taken up by some scheduler (or is no longer
\* due), even when the process that held its lock died: an expired lock can be taken
\* over (data-definition.md:885, lock_timeout_seconds).
DueScheduleIsTaken ==
  \A k \in Schedule :
    active[k] /\ wait[k] = 0
      ~> wait[k] > 0 \/ \E s \in Scheduler : Holding(s) /\ cur[s] = k

\* acceptance-criteria.md:218 - at any time only one scheduler executes a
\* given schedule.  The code does not promise this: see README.
OneExecutor ==
  \A s, t \in Scheduler :
    s # t /\ Holding(s) /\ Holding(t) => cur[s] # cur[t]
=============================================================================
