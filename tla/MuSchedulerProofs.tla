-------------------------- MODULE MuSchedulerProofs --------------------------
(***************************************************************************)
(* Proofs about MuScheduler, for any number of schedulers and schedules    *)
(* and any positive timeouts.                                              *)
(***************************************************************************)
EXTENDS MuScheduler, FiniteSetTheorems, TLAPS

\* Counting a timer down keeps it a natural number.
LEMMA LessIsNat == \A n \in Nat : Less(n) \in Nat
  BY DEF Less

\* A step keeps every table and process state within its type.
LEMMA TypeStep ==
  ASSUME TypeOK, TickProgress, TickTruth, LeaseHonoured, [Next]_vars
  PROVE  TypeOK'
<1> USE MuAssumption DEF TypeOK, TickStatus, WorkerStatus, Point, HoldingPoint, TryPoint, HandlerPoint, ReleasePoint,
      TickProgress, Holding, Goto, Beat, Forget, Fault, tickVars, procVars
<1>1. ASSUME NEW s \in Scheduler, Start(s) PROVE TypeOK'
  BY <1>1 DEF Start
<1>2. ASSUME NEW s \in Scheduler, FetchDue(s) PROVE TypeOK'
  BY <1>2 DEF FetchDue
<1>3. ASSUME NEW s \in Scheduler, EndScan(s) PROVE TypeOK'
  BY <1>3 DEF EndScan
<1>4. ASSUME NEW s \in Scheduler, AcquireLock(s) PROVE TypeOK'
  BY <1>4 DEF AcquireLock
<1>5. ASSUME NEW s \in Scheduler, SkipLocked(s) PROVE TypeOK'
  BY <1>5 DEF SkipLocked
<1>6. ASSUME NEW s \in Scheduler, StartWorker(s) PROVE TypeOK'
  BY <1>6 DEF StartWorker
<1>7. ASSUME NEW s \in Scheduler, FinishWorker(s) PROVE TypeOK'
  BY <1>7 DEF FinishWorker
<1>8. ASSUME NEW s \in Scheduler, FinishSchedule(s) PROVE TypeOK'
  BY <1>8 DEF FinishSchedule
<1>9. ASSUME NEW s \in Scheduler, FinishTick(s) PROVE TypeOK'
  BY <1>9 DEF FinishTick
<1>10. ASSUME NEW s \in Scheduler, FinishScheduleFailure(s) PROVE TypeOK'
  BY <1>10 DEF FinishScheduleFailure
<1>11. ASSUME NEW s \in Scheduler, FinishTickFailure(s) PROVE TypeOK'
  BY <1>11 DEF FinishTickFailure
<1>12. ASSUME NEW s \in Scheduler, ReleaseLock(s) PROVE TypeOK'
  BY <1>12 DEF ReleaseLock, GiveBack, Released, Free
<1>13. ASSUME NEW s \in Scheduler, ReleaseAndRaise(s) PROVE TypeOK'
  BY <1>13 DEF ReleaseAndRaise, GiveBack, Released, Free
<1>14. ASSUME NEW s \in Scheduler, MarkStopped(s) PROVE TypeOK'
  BY <1>14 DEF MarkStopped
<1>15. ASSUME NEW s \in Scheduler, RaiseInTry(s) PROVE TypeOK'
  BY <1>15 DEF RaiseInTry
<1>16. ASSUME NEW s \in Scheduler, RaiseInHandler(s) PROVE TypeOK'
  BY <1>16 DEF RaiseInHandler
<1>17. ASSUME NEW s \in Scheduler, Abort(s) PROVE TypeOK'
  BY <1>17 DEF Abort
<1>18. ASSUME NEW s \in Scheduler, Crash(s) PROVE TypeOK'
  BY <1>18 DEF Crash
<1>19. ASSUME NEW s \in Scheduler, NEW k \in Schedule, InsertTick(s, k)
      PROVE TypeOK'
  BY <1>19 DEF InsertTick, RetryDelay
<1>20. ASSUME NEW s \in Scheduler, NEW k \in Schedule, RejectArgs(s, k)
      PROVE TypeOK'
  BY <1>20 DEF RejectArgs
<1>21. ASSUME NEW k \in Schedule, ForceDue(k) PROVE TypeOK'
  BY <1>21 DEF ForceDue
<1>22. CASE Elapse
  BY <1>22, LessIsNat DEF Elapse
<1>23. CASE UNCHANGED vars
  BY <1>23 DEF vars
<1>24. ASSUME NEW s \in Scheduler, UnheardTick(s) PROVE TypeOK'
  BY <1>24 DEF UnheardTick
<1>25. ASSUME NEW s \in Scheduler, UnheardFailure(s) PROVE TypeOK'
  BY <1>25 DEF UnheardFailure
<1>26. ASSUME NEW s \in Scheduler, UnheardLock(s) PROVE TypeOK'
  BY <1>26 DEF UnheardLock
<1>27. QED
  BY <1>1, <1>2, <1>3, <1>4, <1>5, <1>6, <1>7, <1>8, <1>9, <1>10, <1>11,
     <1>12, <1>13, <1>14, <1>15, <1>16, <1>17, <1>18, <1>19, <1>20, <1>21,
     <1>22, <1>23, <1>24, <1>25, <1>26 DEF Next, Step, CommitUnheard

\* A step keeps the tick in step with the control point.
LEMMA ProgressStep ==
  ASSUME TypeOK, TickProgress, TickTruth, LeaseHonoured, [Next]_vars
  PROVE  TickProgress'
<1> USE MuAssumption DEF TypeOK, WorkerStatus, HoldingPoint, TryPoint, HandlerPoint, ReleasePoint,
      TickProgress, Holding, Goto, Forget, Fault, tickVars, procVars
<1>1. ASSUME NEW s \in Scheduler, Start(s) PROVE TickProgress'
  BY <1>1 DEF Start
<1>2. ASSUME NEW s \in Scheduler, FetchDue(s) PROVE TickProgress'
  BY <1>2 DEF FetchDue
<1>3. ASSUME NEW s \in Scheduler, EndScan(s) PROVE TickProgress'
  BY <1>3 DEF EndScan
<1>4. ASSUME NEW s \in Scheduler, AcquireLock(s) PROVE TickProgress'
  BY <1>4 DEF AcquireLock
<1>5. ASSUME NEW s \in Scheduler, SkipLocked(s) PROVE TickProgress'
  BY <1>5 DEF SkipLocked
<1>6. ASSUME NEW s \in Scheduler, StartWorker(s) PROVE TickProgress'
  BY <1>6 DEF StartWorker
<1>7. ASSUME NEW s \in Scheduler, FinishWorker(s) PROVE TickProgress'
  BY <1>7 DEF FinishWorker
<1>8. ASSUME NEW s \in Scheduler, FinishSchedule(s) PROVE TickProgress'
  BY <1>8 DEF FinishSchedule
<1>9. ASSUME NEW s \in Scheduler, FinishTick(s) PROVE TickProgress'
  BY <1>9 DEF FinishTick
<1>10. ASSUME NEW s \in Scheduler, FinishScheduleFailure(s) PROVE TickProgress'
  BY <1>10 DEF FinishScheduleFailure
<1>11. ASSUME NEW s \in Scheduler, FinishTickFailure(s) PROVE TickProgress'
  BY <1>11 DEF FinishTickFailure
<1>12. ASSUME NEW s \in Scheduler, ReleaseLock(s) PROVE TickProgress'
  BY <1>12 DEF ReleaseLock, GiveBack
<1>13. ASSUME NEW s \in Scheduler, ReleaseAndRaise(s) PROVE TickProgress'
  BY <1>13 DEF ReleaseAndRaise, GiveBack
<1>14. ASSUME NEW s \in Scheduler, MarkStopped(s) PROVE TickProgress'
  BY <1>14 DEF MarkStopped
<1>15. ASSUME NEW s \in Scheduler, RaiseInTry(s) PROVE TickProgress'
  BY <1>15 DEF RaiseInTry
<1>16. ASSUME NEW s \in Scheduler, RaiseInHandler(s) PROVE TickProgress'
  BY <1>16 DEF RaiseInHandler
<1>17. ASSUME NEW s \in Scheduler, Abort(s) PROVE TickProgress'
  BY <1>17 DEF Abort
<1>18. ASSUME NEW s \in Scheduler, Crash(s) PROVE TickProgress'
  BY <1>18 DEF Crash
<1>19. ASSUME NEW s \in Scheduler, NEW k \in Schedule, InsertTick(s, k)
      PROVE TickProgress'
  BY <1>19 DEF InsertTick
<1>20. ASSUME NEW s \in Scheduler, NEW k \in Schedule, RejectArgs(s, k)
      PROVE TickProgress'
  BY <1>20 DEF RejectArgs
<1>21. ASSUME NEW k \in Schedule, ForceDue(k) PROVE TickProgress'
  BY <1>21 DEF ForceDue
<1>22. CASE Elapse
  BY <1>22 DEF Elapse
<1>23. CASE UNCHANGED vars
  BY <1>23 DEF vars
<1>24. ASSUME NEW s \in Scheduler, UnheardTick(s) PROVE TickProgress'
  BY <1>24 DEF UnheardTick
<1>25. ASSUME NEW s \in Scheduler, UnheardFailure(s) PROVE TickProgress'
  BY <1>25 DEF UnheardFailure
<1>26. ASSUME NEW s \in Scheduler, UnheardLock(s) PROVE TickProgress'
  BY <1>26 DEF UnheardLock
<1>27. QED
  BY <1>1, <1>2, <1>3, <1>4, <1>5, <1>6, <1>7, <1>8, <1>9, <1>10, <1>11,
     <1>12, <1>13, <1>14, <1>15, <1>16, <1>17, <1>18, <1>19, <1>20, <1>21,
     <1>22, <1>23, <1>24, <1>25, <1>26 DEF Next, Step, CommitUnheard

\* A step writes no result into a tick that its worker run does not have.
LEMMA TruthStep ==
  ASSUME TypeOK, TickProgress, TickTruth, LeaseHonoured, [Next]_vars
  PROVE  TickTruth'
<1> USE MuAssumption DEF TypeOK, WorkerStatus, HoldingPoint, TryPoint, HandlerPoint, ReleasePoint,
      TickProgress, TickTruth, Goto, Forget, Fault, tickVars, procVars
<1>1. ASSUME NEW s \in Scheduler, Start(s) PROVE TickTruth'
  BY <1>1 DEF Start
<1>2. ASSUME NEW s \in Scheduler, FetchDue(s) PROVE TickTruth'
  BY <1>2 DEF FetchDue
<1>3. ASSUME NEW s \in Scheduler, EndScan(s) PROVE TickTruth'
  BY <1>3 DEF EndScan
<1>4. ASSUME NEW s \in Scheduler, AcquireLock(s) PROVE TickTruth'
  BY <1>4 DEF AcquireLock
<1>5. ASSUME NEW s \in Scheduler, SkipLocked(s) PROVE TickTruth'
  BY <1>5 DEF SkipLocked
<1>6. ASSUME NEW s \in Scheduler, StartWorker(s) PROVE TickTruth'
  BY <1>6 DEF StartWorker
<1>7. ASSUME NEW s \in Scheduler, FinishWorker(s) PROVE TickTruth'
  BY <1>7 DEF FinishWorker
<1>8. ASSUME NEW s \in Scheduler, FinishSchedule(s) PROVE TickTruth'
  BY <1>8 DEF FinishSchedule
<1>9. ASSUME NEW s \in Scheduler, FinishTick(s) PROVE TickTruth'
  BY <1>9 DEF FinishTick
<1>10. ASSUME NEW s \in Scheduler, FinishScheduleFailure(s) PROVE TickTruth'
  BY <1>10 DEF FinishScheduleFailure
<1>11. ASSUME NEW s \in Scheduler, FinishTickFailure(s) PROVE TickTruth'
  BY <1>11 DEF FinishTickFailure
<1>12. ASSUME NEW s \in Scheduler, ReleaseLock(s) PROVE TickTruth'
  BY <1>12 DEF ReleaseLock, GiveBack
<1>13. ASSUME NEW s \in Scheduler, ReleaseAndRaise(s) PROVE TickTruth'
  BY <1>13 DEF ReleaseAndRaise, GiveBack
<1>14. ASSUME NEW s \in Scheduler, MarkStopped(s) PROVE TickTruth'
  BY <1>14 DEF MarkStopped
<1>15. ASSUME NEW s \in Scheduler, RaiseInTry(s) PROVE TickTruth'
  BY <1>15 DEF RaiseInTry
<1>16. ASSUME NEW s \in Scheduler, RaiseInHandler(s) PROVE TickTruth'
  BY <1>16 DEF RaiseInHandler
<1>17. ASSUME NEW s \in Scheduler, Abort(s) PROVE TickTruth'
  BY <1>17 DEF Abort
<1>18. ASSUME NEW s \in Scheduler, Crash(s) PROVE TickTruth'
  BY <1>18 DEF Crash
<1>19. ASSUME NEW s \in Scheduler, NEW k \in Schedule, InsertTick(s, k)
      PROVE TickTruth'
  BY <1>19 DEF InsertTick
<1>20. ASSUME NEW s \in Scheduler, NEW k \in Schedule, RejectArgs(s, k)
      PROVE TickTruth'
  BY <1>20 DEF RejectArgs
<1>21. ASSUME NEW k \in Schedule, ForceDue(k) PROVE TickTruth'
  BY <1>21 DEF ForceDue
<1>22. CASE Elapse
  BY <1>22 DEF Elapse
<1>23. CASE UNCHANGED vars
  BY <1>23 DEF vars
<1>24. ASSUME NEW s \in Scheduler, UnheardTick(s) PROVE TickTruth'
  BY <1>24 DEF UnheardTick
<1>25. ASSUME NEW s \in Scheduler, UnheardFailure(s) PROVE TickTruth'
  BY <1>25 DEF UnheardFailure
<1>26. ASSUME NEW s \in Scheduler, UnheardLock(s) PROVE TickTruth'
  BY <1>26 DEF UnheardLock
<1>27. QED
  BY <1>1, <1>2, <1>3, <1>4, <1>5, <1>6, <1>7, <1>8, <1>9, <1>10, <1>11,
     <1>12, <1>13, <1>14, <1>15, <1>16, <1>17, <1>18, <1>19, <1>20, <1>21,
     <1>22, <1>23, <1>24, <1>25, <1>26 DEF Next, Step, CommitUnheard

\* A step of any scheduler leaves the live leases of the others alone.
LEMMA LeaseStep ==
  ASSUME TypeOK, TickProgress, TickTruth, LeaseHonoured, [Next]_vars
  PROVE  LeaseHonoured'
<1> USE MuAssumption DEF TypeOK, HoldingPoint, TryPoint, HandlerPoint, ReleasePoint,
      TickProgress, LeaseHonoured, Holding, Goto, Forget, Fault, tickVars, procVars
<1>1. ASSUME NEW s \in Scheduler, Start(s) PROVE LeaseHonoured'
  BY <1>1 DEF Start
<1>2. ASSUME NEW s \in Scheduler, FetchDue(s) PROVE LeaseHonoured'
  BY <1>2 DEF FetchDue
<1>3. ASSUME NEW s \in Scheduler, EndScan(s) PROVE LeaseHonoured'
  BY <1>3 DEF EndScan
<1>4. ASSUME NEW s \in Scheduler, AcquireLock(s) PROVE LeaseHonoured'
  BY <1>4 DEF AcquireLock, LockAvailable
<1>5. ASSUME NEW s \in Scheduler, SkipLocked(s) PROVE LeaseHonoured'
  BY <1>5 DEF SkipLocked
<1>6. ASSUME NEW s \in Scheduler, StartWorker(s) PROVE LeaseHonoured'
  BY <1>6 DEF StartWorker
<1>7. ASSUME NEW s \in Scheduler, FinishWorker(s) PROVE LeaseHonoured'
  BY <1>7 DEF FinishWorker
<1>8. ASSUME NEW s \in Scheduler, FinishSchedule(s) PROVE LeaseHonoured'
  BY <1>8 DEF FinishSchedule
<1>9. ASSUME NEW s \in Scheduler, FinishTick(s) PROVE LeaseHonoured'
  BY <1>9 DEF FinishTick
<1>10. ASSUME NEW s \in Scheduler, FinishScheduleFailure(s) PROVE LeaseHonoured'
  BY <1>10 DEF FinishScheduleFailure
<1>11. ASSUME NEW s \in Scheduler, FinishTickFailure(s) PROVE LeaseHonoured'
  BY <1>11 DEF FinishTickFailure
<1>12. ASSUME NEW s \in Scheduler, ReleaseLock(s) PROVE LeaseHonoured'
  BY <1>12 DEF ReleaseLock, GiveBack, Released, Free
<1>13. ASSUME NEW s \in Scheduler, ReleaseAndRaise(s) PROVE LeaseHonoured'
  BY <1>13 DEF ReleaseAndRaise, GiveBack, Released, Free
<1>14. ASSUME NEW s \in Scheduler, MarkStopped(s) PROVE LeaseHonoured'
  BY <1>14 DEF MarkStopped
<1>15. ASSUME NEW s \in Scheduler, RaiseInTry(s) PROVE LeaseHonoured'
  BY <1>15 DEF RaiseInTry
<1>16. ASSUME NEW s \in Scheduler, RaiseInHandler(s) PROVE LeaseHonoured'
  BY <1>16 DEF RaiseInHandler
<1>17. ASSUME NEW s \in Scheduler, Abort(s) PROVE LeaseHonoured'
  BY <1>17 DEF Abort
<1>18. ASSUME NEW s \in Scheduler, Crash(s) PROVE LeaseHonoured'
  BY <1>18 DEF Crash
<1>19. ASSUME NEW s \in Scheduler, NEW k \in Schedule, InsertTick(s, k)
      PROVE LeaseHonoured'
  BY <1>19 DEF InsertTick
<1>20. ASSUME NEW s \in Scheduler, NEW k \in Schedule, RejectArgs(s, k)
      PROVE LeaseHonoured'
  BY <1>20 DEF RejectArgs
<1>21. ASSUME NEW k \in Schedule, ForceDue(k) PROVE LeaseHonoured'
  BY <1>21 DEF ForceDue
<1>22. CASE Elapse
  <2> SUFFICES ASSUME NEW s \in Scheduler, Holding(s)', lease'[s] > 0
               PROVE  lock'[cur'[s]] = [owner |-> s, ttl |-> lease'[s]]
    BY DEF LeaseHonoured, Holding
  <2>1. lease[s] > 0 /\ lease'[s] = Less(lease[s])
    BY <1>22 DEF Elapse, Less
  <2>2. cur[s] \in Schedule /\ lock[cur[s]] = [owner |-> s, ttl |-> lease[s]]
    BY <1>22, <2>1 DEF Elapse
  <2>3. lock'[cur[s]] = [owner |-> s, ttl |-> Less(lease[s])]
    BY <1>22, <2>2 DEF Elapse
  <2>4. QED
    BY <1>22, <2>1, <2>3 DEF Elapse
<1>23. CASE UNCHANGED vars
  BY <1>23 DEF vars
<1>24. ASSUME NEW s \in Scheduler, UnheardTick(s) PROVE LeaseHonoured'
  BY <1>24 DEF UnheardTick
<1>25. ASSUME NEW s \in Scheduler, UnheardFailure(s) PROVE LeaseHonoured'
  BY <1>25 DEF UnheardFailure
<1>26. ASSUME NEW s \in Scheduler, UnheardLock(s) PROVE LeaseHonoured'
  BY <1>26 DEF UnheardLock, LockAvailable
<1>27. QED
  BY <1>1, <1>2, <1>3, <1>4, <1>5, <1>6, <1>7, <1>8, <1>9, <1>10, <1>11,
     <1>12, <1>13, <1>14, <1>15, <1>16, <1>17, <1>18, <1>19, <1>20, <1>21,
     <1>22, <1>23, <1>24, <1>25, <1>26 DEF Next, Step, CommitUnheard

\* As long as nothing failed, whoever owns a lock is inside its region, and
\* whoever is marked stopped has left the loop.
Owned ==
  faults = 0 =>
    \A s \in Scheduler :
      /\ \A k \in Schedule : lock[k].owner = s => Holding(s) /\ cur[s] = k
      /\ heartbeat[s] = "stopped" => pc[s] = "down"

\* Locks are taken on entering the region and given back on leaving it.
LEMMA OwnedStep ==
  ASSUME TypeOK, TickProgress, Owned, [Next]_vars
  PROVE  Owned'
<1> USE MuAssumption DEF TypeOK, HoldingPoint, TryPoint, HandlerPoint, ReleasePoint,
      Owned, Holding, Goto, Beat, Forget, tickVars, procVars
<1>1. ASSUME NEW s \in Scheduler, Start(s) PROVE Owned'
  BY <1>1 DEF Start
<1>2. ASSUME NEW s \in Scheduler, FetchDue(s) PROVE Owned'
  BY <1>2 DEF FetchDue
<1>3. ASSUME NEW s \in Scheduler, EndScan(s) PROVE Owned'
  BY <1>3 DEF EndScan
<1>4. ASSUME NEW s \in Scheduler, AcquireLock(s) PROVE Owned'
  BY <1>4 DEF AcquireLock, LockAvailable
<1>5. ASSUME NEW s \in Scheduler, SkipLocked(s) PROVE Owned'
  BY <1>5 DEF SkipLocked
<1>6. ASSUME NEW s \in Scheduler, StartWorker(s) PROVE Owned'
  BY <1>6 DEF StartWorker
<1>7. ASSUME NEW s \in Scheduler, FinishWorker(s) PROVE Owned'
  BY <1>7 DEF FinishWorker
<1>8. ASSUME NEW s \in Scheduler, FinishSchedule(s) PROVE Owned'
  BY <1>8 DEF FinishSchedule
<1>9. ASSUME NEW s \in Scheduler, FinishTick(s) PROVE Owned'
  BY <1>9 DEF FinishTick
<1>10. ASSUME NEW s \in Scheduler, FinishScheduleFailure(s) PROVE Owned'
  BY <1>10 DEF FinishScheduleFailure
<1>11. ASSUME NEW s \in Scheduler, FinishTickFailure(s) PROVE Owned'
  BY <1>11 DEF FinishTickFailure
<1>12. ASSUME NEW s \in Scheduler, ReleaseLock(s) PROVE Owned'
  BY <1>12 DEF ReleaseLock, GiveBack, Released, Free, TickProgress
<1>13. ASSUME NEW s \in Scheduler, ReleaseAndRaise(s) PROVE Owned'
  BY <1>13 DEF ReleaseAndRaise, GiveBack, Released, Free, TickProgress
<1>14. ASSUME NEW s \in Scheduler, MarkStopped(s) PROVE Owned'
  BY <1>14 DEF MarkStopped
<1>15. ASSUME NEW s \in Scheduler, RaiseInTry(s) \/ RaiseInHandler(s) \/ Abort(s) \/ Crash(s)
             \/ CommitUnheard(s)
      PROVE  Owned'
  BY <1>15 DEF RaiseInTry, RaiseInHandler, Abort, Crash, CommitUnheard, UnheardTick,
               UnheardFailure, UnheardLock, Fault
<1>16. ASSUME NEW s \in Scheduler, NEW k \in Schedule, InsertTick(s, k) \/ RejectArgs(s, k)
      PROVE  Owned'
  BY <1>16 DEF InsertTick, RejectArgs
<1>17. CASE Elapse \/ (\E k \in Schedule : ForceDue(k)) \/ UNCHANGED vars
  BY <1>17 DEF Elapse, ForceDue, vars
<1>18. QED
  BY <1>1, <1>2, <1>3, <1>4, <1>5, <1>6, <1>7, <1>8, <1>9, <1>10, <1>11, <1>12, <1>13, <1>14, <1>15, <1>16, <1>17 DEF Next, Step

-----------------------------------------------------------------------------
\* The inductive invariant: no conjunct is preserved without the others.
THEOREM Invariance ==
  Spec => [](TypeOK /\ TickProgress /\ TickTruth /\ LeaseHonoured)
<1>1. Init => TypeOK /\ TickProgress /\ TickTruth /\ LeaseHonoured
  BY MuAssumption DEF Init, TypeOK, TickProgress, TickTruth, LeaseHonoured, Free,
     Holding, TickStatus, Point, HoldingPoint, TryPoint, HandlerPoint, ReleasePoint
<1>2. /\ TypeOK /\ TickProgress /\ TickTruth /\ LeaseHonoured
      /\ [Next]_vars
      => (TypeOK /\ TickProgress /\ TickTruth /\ LeaseHonoured)'
  BY TypeStep, ProgressStep, TruthStep, LeaseStep
<1>3. QED
  BY <1>1, <1>2, PTL DEF Spec

\* The tables and the processes stay within their types.
THEOREM TypeCorrect == Spec => []TypeOK
  BY Invariance, PTL

\* A tick row with a result agrees with its worker run and is in run_count, twice
\* only after errors, and with a result other than "failed" only after two.
THEOREM TicksAreTrue == Spec => []TickTruth
  BY Invariance, PTL

\* For any number of schedulers, two are inside the locked region of one
\* schedule only after a lease ran out.
THEOREM LeaseExclusion == Spec => []ExclusiveWhileLeased
<1>1. TypeOK /\ LeaseHonoured => ExclusiveWhileLeased
  <2> SUFFICES ASSUME TypeOK, LeaseHonoured,
                      NEW s \in Scheduler, NEW t \in Scheduler,
                      s # t, Holding(s), Holding(t), cur[s] = cur[t],
                      lease[s] # 0, lease[t] # 0
               PROVE  FALSE
    BY DEF ExclusiveWhileLeased
  <2>1. lease[s] > 0 /\ lease[t] > 0
    BY DEF TypeOK
  <2>2. lock[cur[s]] = [owner |-> s, ttl |-> lease[s]]
    BY <2>1 DEF LeaseHonoured
  <2>3. lock[cur[t]] = [owner |-> t, ttl |-> lease[t]]
    BY <2>1 DEF LeaseHonoured
  <2>4. QED
    BY <2>2, <2>3
<1>2. QED
  BY <1>1, Invariance, PTL

\* A lock that has not expired leaves its owner only in the owner's release.
THEOREM LiveLocks == Spec => LiveLockKeepsOwner
<1>1. ASSUME TypeOK, [Next]_vars PROVE LiveLockKept
  <2> SUFFICES ASSUME NEW k \in Schedule, lock[k].ttl > 0,
                      lock[k].owner # None, lock'[k].owner # lock[k].owner
               PROVE  /\ lock'[k].owner = None
                      /\ pc[lock[k].owner] \in ReleasePoint
                      /\ pc'[lock[k].owner] \notin HoldingPoint
    BY DEF LiveLockKept
  <2> USE <1>1 DEF TypeOK
  <2>1. ASSUME NEW s \in Scheduler, AcquireLock(s) \/ UnheardLock(s) PROVE FALSE
    <3>1. k = cur[s] /\ lock'[k].owner = s
      BY <2>1 DEF AcquireLock, UnheardLock
    <3>2. QED
      BY <2>1, <3>1 DEF AcquireLock, UnheardLock, LockAvailable
  <2>2. ASSUME NEW s \in Scheduler, GiveBack(s), pc[s] \in ReleasePoint,
               pc'[s] \in {"pick", "failed"}
        PROVE  /\ lock'[k].owner = None
               /\ pc[lock[k].owner] \in ReleasePoint
               /\ pc'[lock[k].owner] \notin HoldingPoint
    <3>1. lock[k].owner = s /\ lock'[k] = Free
      BY <2>2 DEF GiveBack, Released
    <3>2. QED
      BY <2>2, <3>1 DEF Free, HoldingPoint, TryPoint, HandlerPoint, ReleasePoint
  <2>3. ASSUME NEW s \in Scheduler, ReleaseLock(s) \/ ReleaseAndRaise(s)
        PROVE  GiveBack(s) /\ pc[s] \in ReleasePoint /\ pc'[s] \in {"pick", "failed"}
    BY <2>3 DEF ReleaseLock, ReleaseAndRaise, Goto, ReleasePoint
  <2>4. CASE Elapse
    BY <2>4 DEF Elapse
  <2>5. CASE lock' = lock
    BY <2>5
  <2>6. QED
    BY <2>1, <2>2, <2>3, <2>4, <2>5 DEF Next, Step, vars, Start, FetchDue,
       InsertTick, RejectArgs, EndScan, SkipLocked, StartWorker, FinishWorker,
       FinishSchedule, FinishTick, FinishScheduleFailure, FinishTickFailure,
       MarkStopped, RaiseInTry, RaiseInHandler, CommitUnheard, UnheardTick,
       UnheardFailure, Abort, Crash, ForceDue
<1>2. QED
  BY <1>1, Invariance, PTL DEF Spec, LiveLockKeepsOwner

\* Unless something failed, a stopped scheduler has given every lock back.
THEOREM StoppedIsClean == Spec => []StoppedLeavesNoLock
<1>1. Init => Owned
  BY MuAssumption DEF Init, Owned, Free
<1>2. TypeOK /\ TickProgress /\ Owned /\ [Next]_vars => Owned'
  BY OwnedStep
<1>3. Owned => StoppedLeavesNoLock
  BY DEF Owned, StoppedLeavesNoLock, Holding, HoldingPoint, TryPoint, HandlerPoint,
     ReleasePoint
<1>4. QED
  BY <1>1, <1>2, <1>3, Invariance, PTL DEF Spec

\* While a lease lasts, the lock row is the one that was granted.
THEOREM LeasesHonoured == Spec => []LeaseHonoured
  BY Invariance, PTL

-----------------------------------------------------------------------------
(***************************************************************************)
(* The refinement of LeaseService.                                         *)
(***************************************************************************)
\* A step of a scheduler: it stays inside the locked region, or is outside
\* after it, or enters it; what others were granted is as it was.
LEMMA GrantFrame ==
  ASSUME TypeOK, NEW s \in Scheduler,
         \/ Start(s) \/ Step(s) \/ RaiseInTry(s) \/ RaiseInHandler(s)
         \/ CommitUnheard(s) \/ Abort(s) \/ Crash(s)
  PROVE  /\ \A t \in Scheduler \ {s} :
              pc'[t] = pc[t] /\ cur'[t] = cur[t] /\ lease'[t] = lease[t]
         /\ \/ Holding(s) /\ Holding(s)' /\ cur'[s] = cur[s] /\ lease'[s] = lease[s]
            \/ ~Holding(s)'
            \/ AcquireLock(s)
<1> DEFINE Frame ==
      /\ \A t \in Scheduler \ {s} :
           pc'[t] = pc[t] /\ cur'[t] = cur[t] /\ lease'[t] = lease[t]
      /\ \/ Holding(s) /\ Holding(s)' /\ cur'[s] = cur[s] /\ lease'[s] = lease[s]
         \/ ~Holding(s)'
         \/ AcquireLock(s)
<1> USE DEF TypeOK, HoldingPoint, TryPoint, HandlerPoint, ReleasePoint, Holding,
            Goto, Forget
<1>1. ASSUME Start(s) \/ FetchDue(s) \/ EndScan(s) \/ MarkStopped(s) PROVE Frame
  BY <1>1 DEF Start, FetchDue, EndScan, MarkStopped
<1>2. ASSUME NEW k \in Schedule, InsertTick(s, k) \/ RejectArgs(s, k) PROVE Frame
  BY <1>2 DEF InsertTick, RejectArgs
<1>3. ASSUME AcquireLock(s) PROVE Frame
  BY <1>3 DEF AcquireLock
<1>4. ASSUME SkipLocked(s) PROVE Frame
  BY <1>4 DEF SkipLocked
<1>5. ASSUME \/ StartWorker(s) \/ FinishWorker(s) \/ FinishSchedule(s)
             \/ FinishTick(s) \/ FinishScheduleFailure(s) \/ FinishTickFailure(s)
      PROVE  Frame
  BY <1>5 DEF StartWorker, FinishWorker, FinishSchedule, FinishTick,
              FinishScheduleFailure, FinishTickFailure
<1>6. ASSUME ReleaseLock(s) \/ ReleaseAndRaise(s) PROVE Frame
  BY <1>6 DEF ReleaseLock, ReleaseAndRaise, GiveBack
<1>7. ASSUME RaiseInTry(s) \/ RaiseInHandler(s) PROVE Frame
  BY <1>7 DEF RaiseInTry, RaiseInHandler
<1>8. ASSUME Abort(s) \/ Crash(s) \/ CommitUnheard(s) PROVE Frame
  BY <1>8 DEF Abort, Crash, CommitUnheard, UnheardTick, UnheardFailure, UnheardLock
<1>9. QED
  BY <1>1, <1>2, <1>3, <1>4, <1>5, <1>6, <1>7, <1>8 DEF Step

\* What schedulers were told of their locks is a lease service, for any
\* number of them and any lock_timeout.
THEOREM LeaseRefinement == Spec => LeasesGranted
<1> DEFINE grant == [s \in Scheduler |-> GrantOf(s)]
           NoGrant == [on |-> None, left |-> 0]
<1>1. ASSUME Init PROVE Leases!Init
  BY <1>1 DEF Init, Leases!Init, Leases!NoGrant, GrantOf, Holding, HoldingPoint,
              TryPoint, HandlerPoint, ReleasePoint
<1>2. ASSUME TypeOK, TickProgress, LeaseHonoured, [Next]_vars
      PROVE  [Leases!Next]_grant
  <2> USE <1>2
  <2>1. ASSUME NEW s \in Scheduler,
               \/ Start(s) \/ Step(s) \/ RaiseInTry(s) \/ RaiseInHandler(s)
               \/ CommitUnheard(s) \/ Abort(s) \/ Crash(s)
        PROVE  [Leases!Next]_grant
    <3>1. ASSUME NEW t \in Scheduler \ {s} PROVE GrantOf(t)' = GrantOf(t)
      BY <2>1, GrantFrame DEF GrantOf, Holding
    <3>2. CASE Holding(s) /\ Holding(s)' /\ cur'[s] = cur[s] /\ lease'[s] = lease[s]
      BY <3>1, <3>2 DEF GrantOf
    <3>3. CASE ~Holding(s)'
      <4>1. GrantOf(s)' = NoGrant
        BY <3>3 DEF GrantOf
      <4>2. Leases!GiveBack(s)
        BY <3>1, <4>1 DEF Leases!GiveBack, Leases!NoGrant
      <4>3. QED
        BY <4>2 DEF Leases!Next
    <3>4. CASE AcquireLock(s)
      <4> DEFINE k == cur[s]
      <4>1. k \in Schedule /\ LockAvailable(s, k) /\ ~Holding(s)
        BY <3>4 DEF AcquireLock, TickProgress, Holding, HoldingPoint, TryPoint,
                    HandlerPoint, ReleasePoint
      <4>2. GrantOf(s) = NoGrant
        BY <4>1 DEF GrantOf
      <4>3. ASSUME NEW t \in Scheduler, GrantOf(t).on = k, GrantOf(t).left # 0
            PROVE  FALSE
        <5>1. Holding(t) /\ cur[t] = k /\ lease[t] > 0
          BY <4>1, <4>3, MuAssumption DEF GrantOf, TypeOK
        <5>2. lock[k] = [owner |-> t, ttl |-> lease[t]] /\ t # s
          BY <4>1, <5>1 DEF LeaseHonoured
        <5>3. QED
          BY <4>1, <5>1, <5>2, MuAssumption DEF LockAvailable, TypeOK
      <4>4. GrantOf(s)' = [on |-> k, left |-> LockTimeout[k]]
        BY <3>4 DEF AcquireLock, GrantOf, Holding, HoldingPoint, TryPoint, Goto,
                    TypeOK
      <4>5. Leases!Grant(s, k)
        BY <3>1, <4>2, <4>3, <4>4 DEF Leases!Grant, Leases!NoGrant
      <4>6. QED
        BY <4>1, <4>5 DEF Leases!Next
    <3>5. QED
      BY <2>1, <3>2, <3>3, <3>4, GrantFrame
  <2>2. ASSUME UNCHANGED procVars PROVE [Leases!Next]_grant
    BY <2>2 DEF procVars, GrantOf, Holding
  <2>3. CASE Elapse
    <3>1. ASSUME NEW s \in Scheduler
          PROVE  GrantOf(s)' = [on |-> GrantOf(s).on,
                                left |-> Less(GrantOf(s).left)]
      BY <2>3 DEF Elapse, GrantOf, Holding, Less
    <3>2. Leases!Elapse
      BY <3>1 DEF Leases!Elapse, Less
    <3>3. QED
      BY <3>2 DEF Leases!Next
  <2>4. QED
    BY <2>1, <2>2, <2>3 DEF Next, ForceDue, vars
<1>3. QED
  BY <1>1, <1>2, Invariance, PTL DEF Spec, LeasesGranted, Leases!Spec

-----------------------------------------------------------------------------
(***************************************************************************)
(* What DueScheduleIsTaken rests on beside fairness: a scan comes to its   *)
(* end, whatever errors occur in it and whoever has the locks.             *)
(***************************************************************************)
Rank(point) ==
  CASE point = "lock" -> 11
    [] point = "work" -> 10
    [] point = "run" -> 9
    [] point = "finish_schedule" -> 8
    [] point = "finish_tick" -> 7
    [] point = "finish_schedule_failure" -> 6
    [] point = "finish_tick_failure" -> 5
    [] point \in {"release", "release_raise"} -> 4
    [] point = "pick" -> 3
    [] point = "stopping" -> 2
    [] point = "failed" -> 1
    [] OTHER -> 0

StepsLeft(s) == 9 * Cardinality(due[s]) + Rank(pc[s])

\* In the course of a scan: after the list was read, before the next is.
Scanning(s) == pc[s] \notin {"down", "scan"}

LEMMA DueFinite ==
  ASSUME IsFiniteSet(Schedule), TypeOK, NEW s \in Scheduler
  PROVE  /\ IsFiniteSet(due[s]) /\ Cardinality(due[s]) \in Nat
         /\ IsFiniteSet({}) /\ Cardinality({}) = 0
         /\ Rank(pc[s]) \in Nat /\ StepsLeft(s) \in Nat
         /\ Scanning(s) => Rank(pc[s]) > 0
<1>1. due[s] \in SUBSET Schedule
  BY DEF TypeOK
<1>2. IsFiniteSet(due[s]) /\ Cardinality(due[s]) \in Nat
  BY <1>1, FS_Subset, FS_CardinalityType
<1>3. IsFiniteSet({}) /\ Cardinality({}) = 0
  BY FS_EmptySet
<1>4. Rank(pc[s]) \in Nat
  BY DEF Rank
<1>5. Scanning(s) => Rank(pc[s]) > 0
  BY DEF Scanning, Rank, TypeOK, Point, HoldingPoint, TryPoint, HandlerPoint,
         ReleasePoint
<1>6. StepsLeft(s) \in Nat
  BY <1>2, <1>4 DEF StepsLeft
<1>7. QED
  BY <1>2, <1>3, <1>4, <1>5, <1>6

\* In a scan a process takes up a schedule of its list, goes on with it, or
\* lets the list go.
LEMMA ScanMoves ==
  ASSUME TypeOK, [Next]_vars, NEW s \in Scheduler, Scanning(s)
  PROVE  \/ pc'[s] = pc[s] /\ due'[s] = due[s]
         \/ /\ pc[s] = "pick" /\ pc'[s] = "lock"
            /\ \E k \in due[s] : due'[s] = due[s] \ {k}
         \/ /\ pc'[s] # pc[s] /\ Rank(pc'[s]) < Rank(pc[s])
            /\ due'[s] \in {due[s], {}}
<1> DEFINE
      Still == pc'[s] = pc[s] /\ due'[s] = due[s]
      TakesUp == /\ pc[s] = "pick" /\ pc'[s] = "lock"
                 /\ \E k \in due[s] : due'[s] = due[s] \ {k}
      GoesOn == /\ pc'[s] # pc[s] /\ Rank(pc'[s]) < Rank(pc[s])
                /\ due'[s] \in {due[s], {}}
<1> USE DEF TypeOK, Scanning, Goto
<1>1. ASSUME NEW t \in Scheduler, t # s,
             \/ Start(t) \/ Step(t) \/ RaiseInTry(t) \/ RaiseInHandler(t)
             \/ CommitUnheard(t) \/ Abort(t) \/ Crash(t)
      PROVE  Still
  BY <1>1 DEF Start, Step, FetchDue, InsertTick, RejectArgs, EndScan, AcquireLock,
     SkipLocked, StartWorker, FinishWorker, FinishSchedule, FinishTick,
     FinishScheduleFailure, FinishTickFailure, ReleaseLock, ReleaseAndRaise,
     MarkStopped, RaiseInTry, RaiseInHandler, CommitUnheard, UnheardTick,
     UnheardFailure, UnheardLock, Abort, Crash, Forget, GiveBack
<1>2. ASSUME UNCHANGED <<pc, due>> PROVE Still
  BY <1>2
<1>3. ~(Start(s) \/ FetchDue(s))
  BY DEF Start, FetchDue
<1>4. ASSUME NEW k \in Schedule, InsertTick(s, k) PROVE TakesUp
  BY <1>4 DEF InsertTick
<1>5. CASE AcquireLock(s) \/ SkipLocked(s) \/ StartWorker(s) \/ FinishWorker(s)
  <2>1. GoesOn
    BY <1>5 DEF AcquireLock, SkipLocked, StartWorker, FinishWorker, Rank
  <2>2. QED
    BY <2>1
<1>6. CASE FinishSchedule(s) \/ FinishTick(s) \/ FinishScheduleFailure(s)
           \/ FinishTickFailure(s) \/ ReleaseLock(s)
  <2>1. GoesOn
    BY <1>6 DEF FinishSchedule, FinishTick, FinishScheduleFailure,
       FinishTickFailure, ReleaseLock, Rank
  <2>2. QED
    BY <2>1
<1>7. CASE EndScan(s) \/ MarkStopped(s) \/ ReleaseAndRaise(s)
  <2>1. GoesOn
    BY <1>7 DEF EndScan, MarkStopped, ReleaseAndRaise, Rank
  <2>2. QED
    BY <2>1
<1>8. CASE RaiseInTry(s) \/ RaiseInHandler(s)
  <2>1. GoesOn
    BY <1>8 DEF RaiseInTry, RaiseInHandler, TryPoint, HandlerPoint, Rank
  <2>2. QED
    BY <2>1
<1>9. ASSUME Abort(s) \/ \E k \in Schedule : RejectArgs(s, k) PROVE GoesOn
  BY <1>9 DEF Abort, RejectArgs, Forget, ReleasePoint, Rank
<1>10. CASE Crash(s)
  <2>1. Rank(pc[s]) > Rank("down")
    BY DEF Rank, Point, HoldingPoint, TryPoint, HandlerPoint, ReleasePoint
  <2>2. GoesOn
    BY <1>10, <2>1 DEF Crash, Forget
  <2>3. QED
    BY <2>2
<1>11. CASE CommitUnheard(s)
  <2>1. GoesOn
    BY <1>11 DEF CommitUnheard, UnheardTick, UnheardFailure, UnheardLock, Forget, Rank
  <2>2. QED
    BY <2>1
<1>12. ASSUME Elapse \/ UNCHANGED vars PROVE UNCHANGED <<pc, due>>
  BY <1>12 DEF Elapse, vars, procVars
<1>13. ASSUME Step(s) PROVE Still \/ TakesUp \/ GoesOn
  BY <1>3, <1>4, <1>5, <1>6, <1>7, <1>9, <1>13 DEF Step
<1>14. ASSUME Start(s) \/ Step(s) \/ RaiseInTry(s) \/ RaiseInHandler(s)
              \/ CommitUnheard(s) \/ Abort(s) \/ Crash(s)
       PROVE  Still \/ TakesUp \/ GoesOn
  BY <1>3, <1>8, <1>9, <1>10, <1>11, <1>13, <1>14
<1>15. ASSUME NEW k \in Schedule, ForceDue(k) PROVE UNCHANGED <<pc, due>>
  BY <1>15 DEF ForceDue, procVars
<1>16. QED
  BY <1>1, <1>2, <1>12, <1>14, <1>15 DEF Next

\* Over finitely many schedules, each move of a scheduler in a scan brings it
\* nearer to the next scan or to its end, through locks that others hold,
\* errors in the error path and refused arguments, and nobody else's step, nor
\* time, puts it off: no schedule of the list can keep the others from their
\* turn but by ending the scheduler (the loops of run_mu_scheduler).
THEOREM ScanShortens ==
  ASSUME IsFiniteSet(Schedule)
  PROVE  Spec => [][\A s \in Scheduler : Scanning(s) =>
                     /\ StepsLeft(s) \in Nat
                     /\ pc'[s] # pc[s] => StepsLeft(s)' < StepsLeft(s)
                     /\ pc'[s] = pc[s] => StepsLeft(s)' = StepsLeft(s)]_vars
<1> DEFINE Shortens ==
             \A s \in Scheduler : Scanning(s) =>
               /\ StepsLeft(s) \in Nat
               /\ pc'[s] # pc[s] => StepsLeft(s)' < StepsLeft(s)
               /\ pc'[s] = pc[s] => StepsLeft(s)' = StepsLeft(s)
<1>1. ASSUME TypeOK, [Next]_vars PROVE Shortens
  <2>1. ASSUME NEW s \in Scheduler, Scanning(s)
        PROVE  /\ StepsLeft(s) \in Nat
               /\ pc'[s] # pc[s] => StepsLeft(s)' < StepsLeft(s)
               /\ pc'[s] = pc[s] => StepsLeft(s)' = StepsLeft(s)
    <3> DEFINE n == Cardinality(due[s])
    <3>1. /\ IsFiniteSet(due[s]) /\ n \in Nat /\ Cardinality({}) = 0
          /\ Rank(pc[s]) \in Nat /\ StepsLeft(s) \in Nat
      BY <1>1, DueFinite
    <3>2. Rank(pc'[s]) \in Nat
      BY DEF Rank
    <3>3. CASE pc'[s] = pc[s] /\ due'[s] = due[s]
      BY <3>1, <3>3 DEF StepsLeft
    <3>4. CASE /\ pc[s] = "pick" /\ pc'[s] = "lock"
               /\ \E k \in due[s] : due'[s] = due[s] \ {k}
      <4>1. Cardinality(due'[s]) = n - 1
        BY <3>1, <3>4, FS_RemoveElement
      <4>2. StepsLeft(s) = 9 * n + 3 /\ StepsLeft(s)' = 9 * (n - 1) + 11
        BY <3>4, <4>1 DEF StepsLeft, Rank
      <4>3. QED
        BY <3>1, <3>4, <4>2
    <3>5. CASE /\ pc'[s] # pc[s] /\ Rank(pc'[s]) < Rank(pc[s])
               /\ due'[s] \in {due[s], {}}
      <4>1. Cardinality(due'[s]) \in {n, 0}
        BY <3>1, <3>5
      <4>2. /\ StepsLeft(s) = 9 * n + Rank(pc[s])
            /\ StepsLeft(s)' = 9 * Cardinality(due'[s]) + Rank(pc'[s])
        BY DEF StepsLeft
      <4>3. QED
        BY <3>1, <3>2, <3>5, <4>1, <4>2
    <3>6. QED
      BY <1>1, <2>1, <3>3, <3>4, <3>5, ScanMoves
  <2>2. QED
    BY <2>1
<1>2. Spec => [][Shortens]_vars
  BY <1>1, TypeCorrect, PTL DEF Spec
<1>3. QED
  BY <1>2
=============================================================================
