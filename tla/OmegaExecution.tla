---------------------------- MODULE OmegaExecution ----------------------------
(***************************************************************************)
(* Executing automation actions (qdata/omega_control.py): approvals,       *)
(* concurrent executor runs, attempts, retries and rollbacks.              *)
(*                                                                         *)
(* An executor run is one transaction.  It reads its candidates with their *)
(* retry counts, and then takes each action in turn: it reads the          *)
(* approval, asks for one that is missing or cancelled, runs the external  *)
(* effect of an approved one (which no rollback takes back), and inserts   *)
(* an attempt numbered MAX + 1 and updates the action.  UNIQUE (action,    *)
(* attempt_no) makes a second run wait for the first and then fail, and    *)
(* the failure undoes all that the second run wrote.  Decisions, requests, *)
(* cancellations, rollbacks and further runs of Psi over the same actions  *)
(* (qdata/psi_automation.py) are transactions of their own.                *)
(*                                                                         *)
(* An approval found past its expiry is asked for again in the same        *)
(* transaction and so stays pending.  Payloads, allowlists and secrets     *)
(* only choose between success and failure.                                *)
(***************************************************************************)
EXTENDS Naturals, FiniteSets

CONSTANTS
  Action,        \* automation actions of one Psi run in execute mode
  NeedsApproval, \* those with approval_required
  PsiStatus,     \* what Psi makes of the others, and of those it may approve
  Executor,      \* run_omega_execution calls that may run at the same time
  Nobody,        \* no executor
  MaxRetry,      \* max_retry_count of the executors
  MaxRuns,       \* bound on executor runs in one behaviour
  MaxRequests    \* bound on decisions, requests, cancellations, rollbacks,
                 \* Psi reruns

ASSUME OmegaAssumption ==
  /\ Action # {}
  /\ NeedsApproval \subseteq Action
  /\ PsiStatus \subseteq {"success", "skipped"}
  /\ Nobody \notin Executor /\ IsFiniteSet(Executor)
  /\ MaxRetry \in Nat /\ MaxRuns \in Nat /\ MaxRequests \in Nat

Approval == {"none", "pending", "approved", "rejected", "cancelled"}
Missing == {"none", "cancelled"}

\* Statuses of an attempt: executed, or blocked by the approval.
Failure == {"failed", "retry_scheduled"}
Executed == Failure \cup {"success"}
Row == Executed \cup {"skipped", "approval_required"}

\* Mutant: the attempt's status as it is, which the CHECK does not allow.
MutantControlOf(row) == row

\* What an attempt of each status writes to the action.
ControlOf(row) == CASE row = "skipped" -> "rejected"
                    [] row = "approval_required" -> "pending_approval"
                    [] OTHER -> row
StatusOf(row) == IF row \in Failure THEN "failed" ELSE row

Status == {"approval_required", "success", "failed", "skipped"}
Control == Executed \cup {"none", "pending_approval", "approved", "rejected",
                          "rollback_required", "rolled_back"}

Attempt == [no : Nat \ {0}, row : Row]

\* An attempt inserted and not committed, with the retry count and the
\* approval status that go with it.
Write == [by : Executor \cup {Nobody}, no : Nat, row : Row,
          retry : Nat, saw : Approval]
NoWrite == [by |-> Nobody, no |-> 0, row |-> "skipped", retry |-> 0,
            saw |-> "none"]

VARIABLES
  approval,  \* [Action -> status of its approval row, "none" without one]
  control,   \* [Action -> omega_control_status]
  status,    \* [Action -> status]
  retry,     \* [Action -> retry_count]
  retryAt,   \* [Action -> has it a next_retry_at?]
  attempts,  \* [Action -> committed attempt rows]
  rollback,  \* [Action -> status of its rollback row]
  effects,   \* [Action -> how often its external effect was run]
  granted,   \* actions that were ever approved
  open,      \* [Action -> uncommitted attempt, by one executor at most]
  pc,        \* [Executor -> control point]
  todo,      \* [Executor -> candidates left]
  snapshot,  \* [Executor -> retry counts as read with the candidates]
  at,        \* [Executor -> action in hand]
  saw,       \* [Executor -> approval status it read]
  row,       \* [Executor -> status of the attempt it will insert]
  number,    \* [Executor -> attempt number it waits with]
  runs, requests   \* how often so far

actionRow == <<control, status, retry, retryAt>>
hand == <<at, saw, row, number>>
world == <<effects, granted>>
bounds == <<runs, requests>>
vars == <<approval, actionRow, attempts, rollback, world, open,
          pc, todo, snapshot, hand, bounds>>

Point == {"idle", "next", "ask", "execute", "insert", "wait"}

TypeOK ==
  /\ approval \in [Action -> Approval]
  /\ control \in [Action -> Control]
  /\ status \in [Action -> Status]
  /\ retry \in [Action -> Nat]
  /\ retryAt \in [Action -> BOOLEAN]
  /\ attempts \in [Action -> SUBSET Attempt]
  /\ rollback \in [Action -> {"none", "planned", "success", "failed"}]
  /\ effects \in [Action -> Nat]
  /\ granted \subseteq Action
  /\ open \in [Action -> Write]
  /\ pc \in [Executor -> Point]
  /\ todo \in [Executor -> SUBSET Action]
  /\ snapshot \in [Executor -> [Action -> Nat]]
  /\ at \in [Executor -> Action]
  /\ saw \in [Executor -> Approval]
  /\ row \in [Executor -> Row]
  /\ number \in [Executor -> Nat]
  /\ runs \in Nat /\ requests \in Nat

NoAction == CHOOSE a \in Action : TRUE
NoCounts == [a \in Action |-> 0]

\* What a Psi run in execute mode makes of an action.  Its own failures are
\* those of a database statement, and undo the whole run.
PsiResult(a, approve) ==
  IF a \in NeedsApproval /\ ~approve THEN {"approval_required"} ELSE PsiStatus

\* As a Psi run leaves its actions.
Init ==
  /\ approval = [a \in Action |-> "none"]
  /\ control = [a \in Action |-> "none"]
  /\ status \in [Action -> Status]
  /\ \E approve \in BOOLEAN : \A a \in Action : status[a] \in PsiResult(a, approve)
  /\ retry = [a \in Action |-> 0]
  /\ retryAt = [a \in Action |-> FALSE]
  /\ attempts = [a \in Action |-> {}]
  /\ rollback = [a \in Action |-> "none"]
  /\ effects = [a \in Action |-> 0]
  /\ granted = {}
  /\ open = [a \in Action |-> NoWrite]
  /\ pc = [p \in Executor |-> "idle"]
  /\ todo = [p \in Executor |-> {}]
  /\ snapshot = [p \in Executor |-> NoCounts]
  /\ at = [p \in Executor |-> NoAction]
  /\ saw = [p \in Executor |-> "none"]
  /\ row = [p \in Executor |-> "skipped"]
  /\ number = [p \in Executor |-> 0]
  /\ runs = 0 /\ requests = 0

-----------------------------------------------------------------------------
(***************************************************************************)
(* Helpers.                                                                *)
(***************************************************************************)
Goto(p, point) == pc' = [pc EXCEPT ![p] = point]

\* _fetch_execution_candidates without an action code, once a next_retry_at
\* is due: a failed action whose retries are used up is among them again.
Candidate(a) ==
  \/ status[a] = "approval_required"
  \/ control[a] \in {"approved", "retry_scheduled", "failed"}
  \/ status[a] = "failed" /\ ~retryAt[a]

\* _next_attempt_no: numbers are counted from one without a gap (see
\* AttemptsNumbered), so that MAX + 1 is one more than there are.
NextNo(a) == Cardinality(attempts[a]) + 1

\* Mutant: a rejected approval is asked for again.
MutantReset(a) == open[a].row \in {"skipped", "approval_required"}

\* The attempt on a goes with a new request for its approval.
Reset(a) == open[a].row = "approval_required" /\ open[a].saw \in Missing

\* p has reset the approval row of a and not ended its transaction.
Asked(p, a) ==
  \/ /\ at[p] = a /\ pc[p] \in {"insert", "wait"}
     /\ row[p] = "approval_required" /\ saw[p] \in Missing
  \/ open[a].by = p /\ Reset(a)

ApprovalFree(a) == \A p \in Executor : ~Asked(p, a)
Free(a) == open[a].by = Nobody /\ ApprovalFree(a)

\* p cannot go on before q ends its transaction.
Waits(p, q) ==
  \/ pc[p] = "wait" /\ open[at[p]].by = q
  \/ pc[p] = "ask" /\ q # p /\ Asked(q, at[p])

\* p ends: its transaction is gone and it has nothing in hand.
Leave(p) ==
  /\ Goto(p, "idle")
  /\ todo' = [todo EXCEPT ![p] = {}]
  /\ snapshot' = [snapshot EXCEPT ![p] = NoCounts]
  /\ at' = [at EXCEPT ![p] = NoAction]
  /\ saw' = [saw EXCEPT ![p] = "none"]
  /\ row' = [row EXCEPT ![p] = "skipped"]
  /\ number' = [number EXCEPT ![p] = 0]
  /\ open' = [a \in Action |-> IF open[a].by = p THEN NoWrite ELSE open[a]]

Rollback(p) ==
  /\ Leave(p)
  /\ UNCHANGED <<approval, actionRow, attempts, rollback, world, bounds>>

Request ==
  /\ requests < MaxRequests
  /\ requests' = requests + 1
  /\ UNCHANGED <<retry, retryAt, attempts, effects, open, pc, todo, snapshot,
                 hand, runs>>

-----------------------------------------------------------------------------
(***************************************************************************)
(* An executor run.                                                        *)
(***************************************************************************)
\* One action by its code, whatever its state, or as many candidates as the
\* filters, the limit and their next_retry_at leave; a run that finds none
\* ends at once.
StartRun(p) ==
  /\ pc[p] = "idle"
  /\ runs < MaxRuns
  /\ runs' = runs + 1
  /\ \E S \in SUBSET Action \ {{}} :
       /\ (\A a \in S : Candidate(a)) \/ \E a \in Action : S = {a}
       /\ todo' = [todo EXCEPT ![p] = S]
       /\ snapshot' = [snapshot EXCEPT ![p] =
                         [a \in Action |-> IF a \in S THEN retry[a] ELSE 0]]
  /\ Goto(p, "next")
  /\ UNCHANGED <<approval, actionRow, attempts, rollback, world, open, hand,
                 requests>>

Take(p, a, point, r) ==
  /\ at' = [at EXCEPT ![p] = a]
  /\ saw' = [saw EXCEPT ![p] = approval[a]]
  /\ row' = [row EXCEPT ![p] = r]
  /\ Goto(p, point)

\* Mutant: an approval that was asked for is as good as one given.
MutantAllowed(a) == a \notin NeedsApproval \/ approval[a] \in {"pending", "approved"}

Allowed(a) == a \notin NeedsApproval \/ approval[a] = "approved"

\* _latest_approval and _approval_allows_execution.
TakeAction(p) ==
  /\ pc[p] = "next"
  /\ \E a \in todo[p] :
       \/ Allowed(a) /\ Take(p, a, "execute", "success")
       \/ /\ ~Allowed(a)
          /\ \/ approval[a] = "rejected" /\ Take(p, a, "insert", "skipped")
             \/ /\ approval[a] = "pending"
                /\ Take(p, a, "insert", "approval_required")
             \/ /\ approval[a] \in Missing
                /\ Take(p, a, "ask", "approval_required")
  /\ UNCHANGED <<approval, actionRow, attempts, rollback, world, open, todo,
                 snapshot, number, bounds>>

\* _upsert_approval; another run that has done so is waited for.
AskForApproval(p) ==
  /\ pc[p] = "ask"
  /\ \A q \in Executor \ {p} : ~Asked(q, at[p])
  /\ Goto(p, "insert")
  /\ UNCHANGED <<approval, actionRow, attempts, rollback, world, open, todo,
                 snapshot, hand, bounds>>

\* Mutant: an effect that was run before is reported without running it.
MutantRunExecutor(p) ==
  /\ pc[p] = "execute"
  /\ effects' = [effects EXCEPT ![at[p]] = 1]
  /\ row' = [row EXCEPT ![p] = "success"]
  /\ Goto(p, "insert")
  /\ UNCHANGED <<approval, actionRow, attempts, rollback, granted, open, todo,
                 snapshot, at, saw, number, bounds>>

\* simulate_executor: the effect is out, whatever becomes of the transaction.
RunExecutor(p) ==
  /\ pc[p] = "execute"
  /\ effects' = [effects EXCEPT ![at[p]] = @ + 1]
  /\ \/ row' = [row EXCEPT ![p] = "success"]
     \/ row' = [row EXCEPT ![p] =
                  IF snapshot[p][at[p]] + 1 <= MaxRetry
                  THEN "retry_scheduled" ELSE "failed"]
  /\ Goto(p, "insert")
  /\ UNCHANGED <<approval, actionRow, attempts, rollback, granted, open, todo,
                 snapshot, at, saw, number, bounds>>

\* Mutant: a failure is counted on from the attempts there are.
MutantRetryCount(p) == NextNo(at[p])

\* A failure is one more than the run has read, a blocked attempt leaves the
\* count as it is.
RetryCount(p) ==
  CASE row[p] \in Failure -> snapshot[p][at[p]] + 1
    [] row[p] = "success" -> snapshot[p][at[p]]
    [] OTHER -> retry[at[p]]

\* The attempt and what it writes to the action, until p commits.
Inserted(p, no) ==
  /\ open' = [open EXCEPT ![at[p]] =
                [by |-> p, no |-> no, row |-> row[p], retry |-> RetryCount(p),
                 saw |-> saw[p]]]
  /\ todo' = [todo EXCEPT ![p] = @ \ {at[p]}]
  /\ at' = [at EXCEPT ![p] = NoAction]
  /\ saw' = [saw EXCEPT ![p] = "none"]
  /\ row' = [row EXCEPT ![p] = "skipped"]
  /\ number' = [number EXCEPT ![p] = 0]
  /\ Goto(p, "next")
  /\ UNCHANGED <<approval, actionRow, attempts, rollback, world, snapshot,
                 bounds>>

InsertAttempt(p) ==
  /\ pc[p] = "insert"
  /\ open[at[p]].by = Nobody
  /\ Inserted(p, NextNo(at[p]))

\* The number is the one another run has inserted and not committed.
WaitForAttempt(p) ==
  /\ pc[p] = "insert"
  /\ open[at[p]].by # Nobody
  /\ number' = [number EXCEPT ![p] = NextNo(at[p])]
  /\ Goto(p, "wait")
  /\ UNCHANGED <<approval, actionRow, attempts, rollback, world, open, todo,
                 snapshot, at, saw, row, bounds>>

\* Mutant: the number is not unique.
MutantInsertAfterWait(p) ==
  /\ pc[p] = "wait"
  /\ open[at[p]].by = Nobody
  /\ Inserted(p, number[p])

\* The other run was undone: the number is free.
InsertAfterWait(p) ==
  /\ pc[p] = "wait"
  /\ open[at[p]].by = Nobody
  /\ \A t \in attempts[at[p]] : t.no # number[p]
  /\ Inserted(p, number[p])

\* Mutant: the run waits on instead of failing.
MutantNumberConflict(p) ==
  /\ pc[p] = "wait"
  /\ open[at[p]].by = Nobody
  /\ \E t \in attempts[at[p]] : t.no = number[p]
  /\ UNCHANGED vars

\* The other run committed: the insert raises and the run is undone.
NumberConflict(p) ==
  /\ pc[p] = "wait"
  /\ open[at[p]].by = Nobody
  /\ \E t \in attempts[at[p]] : t.no = number[p]
  /\ Rollback(p)

\* The database ends one of several runs that wait for each other.
BreakDeadlock(p) ==
  /\ pc[p] \in {"ask", "wait"}
  /\ \E S \in SUBSET Executor :
       p \in S /\ \A q \in S : \E r \in S : Waits(q, r)
  /\ Rollback(p)

Mine(p) == {a \in Action : open[a].by = p}

\* All candidates are done.
Commit(p) ==
  /\ pc[p] = "next" /\ todo[p] = {}
  /\ approval' = [a \in Action |->
       IF a \in Mine(p) /\ Reset(a) THEN "pending" ELSE approval[a]]
  /\ control' = [a \in Action |->
       IF a \in Mine(p) THEN ControlOf(open[a].row) ELSE control[a]]
  /\ status' = [a \in Action |->
       IF a \in Mine(p) THEN StatusOf(open[a].row) ELSE status[a]]
  /\ retry' = [a \in Action |->
       IF a \in Mine(p) THEN open[a].retry ELSE retry[a]]
  /\ retryAt' = [a \in Action |->
       IF a \in Mine(p) /\ open[a].row \in Executed
       THEN open[a].row = "retry_scheduled" ELSE retryAt[a]]
  /\ attempts' = [a \in Action |->
       IF a \in Mine(p)
       THEN attempts[a] \cup {[no |-> open[a].no, row |-> open[a].row]}
       ELSE attempts[a]]
  /\ Leave(p)
  /\ UNCHANGED <<rollback, world, bounds>>

\* No executor is registered for an action, or the run dies.
Abort(p) ==
  /\ pc[p] # "idle"
  /\ Rollback(p)

-----------------------------------------------------------------------------
(***************************************************************************)
(* Others that write the same rows.                                        *)
(***************************************************************************)
\* request_automation_approval: any earlier decision is reset.
RequestApproval(a) ==
  /\ a \in NeedsApproval
  /\ Free(a)
  /\ Request
  /\ approval' = [approval EXCEPT ![a] = "pending"]
  /\ control' = [control EXCEPT ![a] = "pending_approval"]
  /\ status' = [status EXCEPT ![a] = "approval_required"]
  /\ UNCHANGED <<rollback, granted>>

\* decide_automation_approval, whatever status the approval has.
Approve(a) ==
  /\ approval[a] # "none"
  /\ Free(a)
  /\ Request
  /\ approval' = [approval EXCEPT ![a] = "approved"]
  /\ control' = [control EXCEPT ![a] = "approved"]
  /\ granted' = granted \cup {a}
  /\ UNCHANGED <<status, rollback>>

Reject(a) ==
  /\ approval[a] # "none"
  /\ Free(a)
  /\ Request
  /\ approval' = [approval EXCEPT ![a] = "rejected"]
  /\ control' = [control EXCEPT ![a] = "rejected"]
  /\ status' = [status EXCEPT ![a] = "skipped"]
  /\ UNCHANGED <<rollback, granted>>

\* cancel_route_incident_approval (delta6): a pending approval alone.
CancelApproval(a) ==
  /\ approval[a] = "pending"
  /\ ApprovalFree(a)
  /\ Request
  /\ approval' = [approval EXCEPT ![a] = "cancelled"]
  /\ UNCHANGED <<control, status, rollback, granted>>

\* request_automation_rollback, executed or not.
RequestRollback(a) ==
  /\ open[a].by = Nobody
  /\ Request
  /\ rollback' = [rollback EXCEPT ![a] = "planned"]
  /\ control' = [control EXCEPT ![a] = "rollback_required"]
  /\ UNCHANGED <<approval, status, granted>>

\* run_automation_rollback, whatever status the rollback has.
RunRollback(a) ==
  /\ rollback[a] # "none"
  /\ open[a].by = Nobody
  /\ Request
  /\ \/ /\ rollback' = [rollback EXCEPT ![a] = "success"]
        /\ control' = [control EXCEPT ![a] = "rolled_back"]
     \/ /\ rollback' = [rollback EXCEPT ![a] = "failed"]
        /\ UNCHANGED control
  /\ UNCHANGED <<approval, status, granted>>

\* run_psi_automation once more on the day, with the run code and so the
\* action codes it had: it writes status alone, whatever Omega made of it.
PsiRerun ==
  /\ Request
  /\ \E approve \in BOOLEAN, S \in SUBSET Action \ {{}} :
       /\ \A a \in S : open[a].by = Nobody
       /\ status' \in [Action -> Status]
       /\ \A a \in Action : status'[a] \in
            IF a \in S THEN PsiResult(a, approve) ELSE {status[a]}
  /\ UNCHANGED <<approval, control, rollback, granted>>

-----------------------------------------------------------------------------
\* What a run does by itself.
Proceed(p) ==
  \/ TakeAction(p)
  \/ AskForApproval(p)
  \/ RunExecutor(p)
  \/ InsertAttempt(p)
  \/ WaitForAttempt(p)
  \/ InsertAfterWait(p)
  \/ NumberConflict(p)
  \/ BreakDeadlock(p)
  \/ Commit(p)

Next ==
  \/ \E p \in Executor : StartRun(p) \/ Proceed(p) \/ Abort(p)
  \/ \E a \in Action :
       \/ RequestApproval(a)
       \/ Approve(a)
       \/ Reject(a)
       \/ CancelApproval(a)
       \/ RequestRollback(a)
       \/ RunRollback(a)
  \/ PsiRerun

Spec == Init /\ [][Next]_vars

\* A run goes on while it can: the webhook and the script it calls have
\* timeouts, and the database ends deadlocks.
FairSpec == Spec /\ \A p \in Executor : WF_vars(Proceed(p))

-----------------------------------------------------------------------------
(***************************************************************************)
(* Properties.                                                             *)
(***************************************************************************)
\* Attempts of an action are numbered one by one, no number given twice and
\* none left out, however runs overlap and whichever are undone.
AttemptsNumbered ==
  \A a \in Action :
    /\ \A s, t \in attempts[a] : s.no = t.no => s = t
    /\ \A t \in attempts[a] : t.no <= Cardinality(attempts[a])

\* retry_count is written from a count read before other runs committed: it
\* may miss failures, but never counts one that has no attempt row.
RetriesOnRecord ==
  \A a \in Action :
    retry[a] <= Cardinality({t \in attempts[a] : t.row \in Failure})

\* The effect of an action that needs an approval is run only once it was
\* approved (acceptance-criteria.md:485).
NoEffectUnapproved ==
  \A a \in NeedsApproval : effects[a] > 0 => a \in granted

\* Executor runs leave a rejected action alone: they neither run it, unless
\* one had read the approval before, nor ask for another approval, unless one
\* had found none or a cancelled one (acceptance-criteria.md:486).
RejectionStands ==
  [][\A a \in NeedsApproval : approval[a] = "rejected" =>
       /\ \/ effects'[a] = effects[a]
          \/ \E p \in Executor :
               pc[p] = "execute" /\ at[p] = a /\ saw[p] = "approved"
       /\ \/ approval'[a] = "rejected"
          \/ open[a].saw \in Missing /\ open[a].by # Nobody
          \/ requests' # requests]_vars

\* Refinement: the attempts of an action are a log that only grows at its
\* end, a run's entries all at once, and none that reports an execution is
\* without an effect of its own, whatever overlapped, failed or was undone
\* (_insert_attempt, simulate_executor).
Entries(a) ==
  [n \in 1 .. Cardinality(attempts[a]) |->
     (CHOOSE t \in attempts[a] : t.no = n).row]

Log == INSTANCE AttemptLog WITH log <- [a \in Action |-> Entries(a)]
AttemptsLogged == Log!Spec

\* Every run ends, also when runs wait for each other's attempts.
RunsEnd ==
  \A p \in Executor : pc[p] # "idle" ~> pc[p] = "idle"
=============================================================================
