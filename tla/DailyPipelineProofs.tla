------------------------- MODULE DailyPipelineProofs -------------------------
(***************************************************************************)
(* Proofs about DailyPipeline, for any number of runners, dates, retries   *)
(* and crashes.                                                            *)
(***************************************************************************)
EXTENDS DailyPipeline, FiniteSetTheorems, TLAPS

\* r is at a date, from picking it to the last write for it.
Working(r) == pc[r] \notin {"idle", "pick"}

\* What the control point of a runner says of its date and its verdict.
Shape ==
  \A r \in Runner :
    /\ Working(r) => day[r] \in Date
    /\ pc[r] = "enqueue" => verdict[r] \in Reason
    /\ pc[r] = "watermark" => day[r] \in succeeded

Base == TypeOK /\ Shape /\ WatermarkIsBacked

LEMMA LaunchStep ==
  ASSUME Base, NEW r \in Runner, NEW m \in Mode,
         NEW jobs \in SUBSET (Date \X (Reason \cup {"window"})),
         Launch(r, m, jobs)
  PROVE  Base'
<1> USE DEF Base, Launch, Goto, tables
<1>1. TypeOK'
  BY DEF TypeOK, Point
<1>2. Shape'
  BY DEF Shape, Working, TypeOK, Point
<1>3. WatermarkIsBacked'
  BY DEF WatermarkIsBacked
<1>4. QED
  BY <1>1, <1>2, <1>3

LEMMA LeaveStep ==
  ASSUME Base, NEW r \in Runner, Leave(r), crashes' \in Nat
  PROVE  Base'
<1> USE PipelineAssumption DEF Base, Leave, Goto, tables
<1>1. TypeOK'
  BY DEF TypeOK, Point, Mode, Result
<1>2. Shape'
  BY DEF Shape, Working, TypeOK, Point
<1>3. WatermarkIsBacked'
  BY DEF WatermarkIsBacked
<1>4. QED
  BY <1>1, <1>2, <1>3

LEMMA EndDateTypes ==
  ASSUME TypeOK, NEW r \in Runner, EndDate(r)
  PROVE  /\ pc' \in [Runner -> Point]
         /\ day' \in [Runner -> Date \cup {0}]
         /\ retries' \in [Runner -> 0 .. RetryLimit]
         /\ verdict' \in [Runner -> Result]
         /\ pc'[r] = "pick"
         /\ \A q \in Runner \ {r} :
              pc'[q] = pc[q] /\ day'[q] = day[q] /\ verdict'[q] = verdict[q]
BY PipelineAssumption DEF TypeOK, EndDate, Goto, Point, Result

\* The inductive step of the types, for every way to start a runner.
LEMMA BaseStep == ASSUME Base, [Next]_vars PROVE Base'
<1> USE PipelineAssumption DEF Base
<1>1. ASSUME NEW r \in Runner, LaunchIncremental(r) PROVE Base'
  <2>1. PICK end \in Date : Launch(r, "incremental", (lastSuccess + 1 .. end) \X {"window"})
    BY <1>1 DEF LaunchIncremental
  <2>2. (lastSuccess + 1 .. end) \X {"window"} \subseteq Date \X (Reason \cup {"window"})
    BY DEF TypeOK, Date
  <2>3. QED
    BY <2>1, <2>2, LaunchStep DEF Mode
<1>2. ASSUME NEW r \in Runner, LaunchWindow(r) PROVE Base'
  <2>1. PICK m \in Mode, first \in Date, end \in Date :
          Launch(r, m, (first .. end) \X {"window"})
    BY <1>2 DEF LaunchWindow, Mode
  <2>2. (first .. end) \X {"window"} \subseteq Date \X (Reason \cup {"window"})
    BY DEF Date
  <2>3. QED
    BY <2>1, <2>2, LaunchStep
<1>3. ASSUME NEW r \in Runner, LaunchRepair(r) PROVE Base'
  <2>1. items \subseteq Date \X (Reason \cup {"window"})
    BY DEF TypeOK
  <2>2. QED
    BY <1>3, <2>1, LaunchStep DEF LaunchRepair, Mode
<1>4. ASSUME NEW r \in Runner, PickDate(r) PROVE Base'
  <2> USE <1>4 DEF PickDate, Goto, tables
  <2>1. PICK job \in todo[r] :
          /\ todo' = [todo EXCEPT ![r] = @ \ {job}]
          /\ day' = [day EXCEPT ![r] = job[1]]
          /\ pc' = [pc EXCEPT ![r] =
               IF job[1] \in Closed \/ (~Forced(r) /\ job[1] \in succeeded)
               THEN "number_skip" ELSE "number"]
    OBVIOUS
  <2>2. job[1] \in Date
    BY DEF TypeOK
  <2>3. todo' \in [Runner -> SUBSET (Date \X (Reason \cup {"window"}))]
    BY <2>1 DEF TypeOK
  <2>4. TypeOK'
    BY <2>1, <2>2, <2>3 DEF TypeOK, Point
  <2>5. Shape'
    BY <2>1, <2>2 DEF Shape, Working, TypeOK
  <2>6. QED
    BY <2>4, <2>5 DEF WatermarkIsBacked
<1>5. ASSUME NEW r \in Runner, Done(r) \/ AttemptConflict(r) PROVE Base'
  BY <1>5, LeaveStep DEF Done, AttemptConflict, TypeOK
<1>6. ASSUME NEW r \in Runner, Crash(r) PROVE Base'
  BY <1>6, LeaveStep DEF Crash, TypeOK
<1>7. ASSUME NEW r \in Runner, ReadAttempt(r) PROVE Base'
  <2> USE <1>7 DEF ReadAttempt, Goto, tables
  <2>1. TypeOK'
    BY DEF TypeOK, Point
  <2>2. Shape'
    BY DEF Shape, Working, TypeOK
  <2>3. QED
    BY <2>1, <2>2 DEF WatermarkIsBacked
<1>8. ASSUME NEW r \in Runner, RecordSkipped(r) PROVE Base'
  <2> USE <1>8 DEF RecordSkipped, tables
  <2>1. numbered' \in [Runner -> BOOLEAN]
    BY DEF NumberTaken
  <2>2. TypeOK'
    BY <2>1, EndDateTypes DEF TypeOK
  <2>3. Shape'
    BY EndDateTypes DEF Shape, Working
  <2>4. QED
    BY <2>2, <2>3 DEF WatermarkIsBacked
<1>9. ASSUME NEW r \in Runner, StartRun(r) PROVE Base'
  <2> USE <1>9 DEF StartRun, Goto, tables
  <2>1. numbered' \in [Runner -> BOOLEAN]
    BY DEF NumberTaken
  <2>2. TypeOK'
    BY <2>1 DEF TypeOK, Point
  <2>3. Shape'
    BY DEF Shape, Working, TypeOK
  <2>4. QED
    BY <2>2, <2>3 DEF WatermarkIsBacked
<1>10. ASSUME NEW r \in Runner, SyncReturns(r) PROVE Base'
  <2> USE <1>10 DEF SyncReturns, Goto
  <2>1. PICK found \in {"partial", "complete"} :
          /\ data' = IF Dry(r) THEN data ELSE [data EXCEPT ![day[r]] = found]
          /\ verdict' = [verdict EXCEPT
                           ![r] = IF found = "complete" THEN "success" ELSE "partial"]
    OBVIOUS
  <2>2. TypeOK'
    BY <2>1 DEF TypeOK, Point, Result
  <2>3. Shape'
    BY <2>1 DEF Shape, Working, TypeOK
  <2>4. QED
    BY <2>2, <2>3 DEF WatermarkIsBacked
<1>11. ASSUME NEW r \in Runner, SyncRaises(r) PROVE Base'
  <2> USE <1>11 DEF SyncRaises, Goto
  <2>1. day[r] \in Date
    BY DEF Shape, Working
  <2>2. data' \in [Date -> {"absent", "partial", "complete"}]
    BY <2>1 DEF TypeOK
  <2>3. TypeOK'
    BY <2>2 DEF TypeOK, Point, Result
  <2>4. Shape'
    BY DEF Shape, Working, TypeOK
  <2>5. QED
    BY <2>3, <2>4 DEF WatermarkIsBacked
<1>12. ASSUME NEW r \in Runner, FinishRun(r) PROVE Base'
  <2> USE <1>12 DEF FinishRun, Goto
  <2>1. day[r] \in Date /\ verdict[r] \in Result
    BY DEF Shape, Working, TypeOK
  <2>2. succeeded' \subseteq Date /\ succeeded \subseteq succeeded'
    BY <2>1 DEF TypeOK
  <2>3. TypeOK'
    BY <2>1, <2>2 DEF TypeOK, Point
  <2>4. Shape'
    BY <2>1, <2>2 DEF Shape, Working, TypeOK, Result, Reason
  <2>5. QED
    BY <2>2, <2>3, <2>4 DEF WatermarkIsBacked
<1>13. ASSUME NEW r \in Runner, FinishDryRun(r) PROVE Base'
  <2> USE <1>13 DEF FinishDryRun
  <2>1. day[r] \in Date
    BY DEF Shape, Working
  <2>2. succeeded' \subseteq Date /\ succeeded \subseteq succeeded'
    BY <2>1 DEF TypeOK
  <2>3. TypeOK'
    BY <2>2, EndDateTypes DEF TypeOK
  <2>4. Shape'
    BY <2>2, EndDateTypes DEF Shape, Working
  <2>5. QED
    BY <2>2, <2>3, <2>4 DEF WatermarkIsBacked
<1>14. ASSUME NEW r \in Runner, UpdateWatermarkSuccess(r) PROVE Base'
  <2> USE <1>14 DEF UpdateWatermarkSuccess, Goto
  <2>1. day[r] \in Date /\ day[r] \in succeeded
    BY DEF Shape, Working
  <2>2. TypeOK'
    BY <2>1 DEF TypeOK, Point
  <2>3. Shape'
    BY DEF Shape, Working, TypeOK
  <2>4. QED
    BY <2>1, <2>2, <2>3 DEF WatermarkIsBacked
<1>15. ASSUME NEW r \in Runner, ResolveRepairItems(r) PROVE Base'
  <2> USE <1>15 DEF ResolveRepairItems
  <2>1. TypeOK'
    BY EndDateTypes DEF TypeOK
  <2>2. Shape'
    BY EndDateTypes DEF Shape, Working
  <2>3. QED
    BY <2>1, <2>2 DEF WatermarkIsBacked
<1>16. ASSUME NEW r \in Runner, UpsertRepairItem(r) PROVE Base'
  <2> USE <1>16 DEF UpsertRepairItem
  <2>1. day[r] \in Date /\ verdict[r] \in Reason
    BY DEF Shape, Working
  <2>2. items' \subseteq Date \X Reason
    BY <2>1 DEF TypeOK
  <2>3. CASE EndDate(r)
    <3>1. TypeOK'
      BY <2>2, <2>3, EndDateTypes DEF TypeOK
    <3>2. Shape'
      BY <2>3, EndDateTypes DEF Shape, Working
    <3>3. QED
      BY <3>1, <3>2 DEF WatermarkIsBacked
  <2>4. CASE /\ retries[r] > 0
             /\ retries' = [retries EXCEPT ![r] = @ - 1]
             /\ Goto(r, "number")
             /\ UNCHANGED <<day, verdict>>
    <3>1. retries' \in [Runner -> 0 .. RetryLimit]
      BY <2>4 DEF TypeOK
    <3>2. TypeOK'
      BY <2>2, <2>4, <3>1 DEF TypeOK, Point, Goto
    <3>3. Shape'
      BY <2>4 DEF Shape, Working, TypeOK, Goto
    <3>4. QED
      BY <3>2, <3>3 DEF WatermarkIsBacked
  <2>5. QED
    BY <2>3, <2>4
<1>17. CASE UNCHANGED vars
  BY <1>17 DEF vars, tables, TypeOK, Shape, Working, WatermarkIsBacked
<1>18. QED
  BY <1>1, <1>2, <1>3, <1>4, <1>5, <1>6, <1>7, <1>8, <1>9, <1>10, <1>11,
     <1>12, <1>13, <1>14, <1>15, <1>16, <1>17 DEF Next

\* Types, what each control point says of the date in hand, and the watermark's
\* run: what all other invariants build on.
THEOREM BaseInvariance == Spec => []Base
<1>1. Init => Base
  BY PipelineAssumption DEF Init, Base, TypeOK, Shape, Working, WatermarkIsBacked,
     Point, Mode, Result
<1>2. Base /\ [Next]_vars => Base'
  BY BaseStep
<1>3. QED
  BY <1>1, <1>2, PTL DEF Spec

\* Every value the pipeline keeps is of its type.
THEOREM PipelineTypes == Spec => []TypeOK
<1>1. Base => TypeOK
  BY DEF Base
<1>2. QED
  BY <1>1, BaseInvariance, PTL

\* The watermark always stands at a date with a successful run row, in
\* every mode, for any number of runners and crashes.
THEOREM WatermarkHasRun == Spec => []WatermarkIsBacked
<1>1. Base => WatermarkIsBacked
  BY DEF Base
<1>2. QED
  BY <1>1, BaseInvariance, PTL

-----------------------------------------------------------------------------
(***************************************************************************)
(* NoDayUnseen: the watermark may overtake days another runner is at, and  *)
(* an item may be repaired while an incremental window passes it.  What    *)
(* keeps every day seen is that a runner only ever takes up a date when    *)
(* all open days before it have had their run: its list has no holes.      *)
(***************************************************************************)
\* A day that needs no run any more for the watermark to pass it.
Seen(d) == d \in Closed \/ result[d] # "none"
Behind(d) == \A e \in Date : e < d => Seen(e)

\* What the tables say of the days before those they name.
Stored ==
  /\ \A d \in Date : d <= lastSuccess => Seen(d)
  /\ \A d \in succeeded : Seen(d)
  /\ \A item \in items : Seen(item[1]) /\ Behind(item[1])

\* A runner's list, with the date it is at, goes back without a hole to
\* days that are seen.
NoHole(r) ==
  \A job \in todo[r], e \in Date :
    e < job[1] => Seen(e) \/ e \in DatesOf(todo[r]) \/ (Working(r) /\ e = day[r])

Following(r) ==
  /\ mode[r] \in {"incremental", "repair"}
  /\ Working(r) => Behind(day[r])
  /\ pc[r] \in {"number_skip", "skip", "watermark", "resolve", "enqueue"} =>
       Seen(day[r])
  /\ NoHole(r)

Progress == Base /\ Stored /\ \A r \in Runner : Following(r)

\* What has been seen stays seen.
LEMMA SeenStays ==
  ASSUME Base, [Next]_vars, NEW d \in Date, Seen(d)
  PROVE  Seen(d)'
<1>1. CASE UNCHANGED result
  BY <1>1 DEF Seen
<1>2. ASSUME NEW r \in Runner, FinishRun(r) PROVE Seen(d)'
  <2>1. verdict[r] # "none" /\ result' = [result EXCEPT ![day[r]] = verdict[r]]
    BY <1>2 DEF FinishRun, Base, TypeOK, Result
  <2>2. QED
    BY <2>1 DEF Seen, Base, TypeOK
<1>3. QED
  BY <1>1, <1>2 DEF Next, vars, tables, LaunchIncremental, LaunchWindow,
     LaunchRepair, Launch, PickDate, Done, Leave, ReadAttempt, RecordSkipped,
     StartRun, AttemptConflict, SyncReturns, SyncRaises, FinishDryRun,
     UpdateWatermarkSuccess, ResolveRepairItems, UpsertRepairItem, Crash

\* A runner that does nothing is not disturbed by what others do.
LEMMA OtherRunner ==
  ASSUME Base, NEW q \in Runner, Following(q),
         \A d \in Date : Seen(d) => Seen(d)',
         UNCHANGED <<pc[q], day[q], todo[q], mode[q]>>
  PROVE  Following(q)'
<1>1. Working(q)' <=> Working(q)
  BY DEF Working
<1>2. Working(q) => day[q] \in Date
  BY DEF Base, Shape
<1>3. Working(q) => Behind(day[q])'
  BY <1>2 DEF Following, Behind
<1>4. NoHole(q)'
  BY <1>1 DEF Following, NoHole, DatesOf
<1>5. pc[q] \in {"number_skip", "skip", "watermark", "resolve", "enqueue"} => Working(q)
  BY DEF Working
<1>6. QED
  BY <1>1, <1>2, <1>3, <1>4, <1>5 DEF Following

\* Tables that are not written keep what they say.
LEMMA TablesKept ==
  ASSUME Base, Stored, \A d \in Date : Seen(d) => Seen(d)',
         UNCHANGED <<succeeded, lastSuccess, items>>
  PROVE  Stored'
<1>1. succeeded \subseteq Date /\ \A item \in items : item[1] \in Date
  BY DEF Base, TypeOK
<1>2. \A item \in items : Behind(item[1])'
  BY DEF Stored, Behind
<1>3. QED
  BY <1>1, <1>2 DEF Stored

\* Every step keeps the runners' lists without holes.
LEMMA ProgressStep ==
  ASSUME Modes \subseteq {"incremental", "repair"}, Progress, [Next]_vars
  PROVE  Progress'
<1> USE DEF Progress
<1>1. Base' /\ \A d \in Date : Seen(d) => Seen(d)'
  BY BaseStep, SeenStays
<1>2. ASSUME NEW r \in Runner, Stored', Following(r)',
             \A q \in Runner \ {r} : UNCHANGED <<pc[q], day[q], todo[q], mode[q]>>
      PROVE  Progress'
  BY <1>1, <1>2, OtherRunner
<1>3. ASSUME NEW r \in Runner, NEW m \in {"incremental", "repair"}, NEW jobs,
             Launch(r, m, jobs),
             \A job \in jobs : \A e \in Date :
               e < job[1] => Seen(e) \/ e \in DatesOf(jobs)
      PROVE  Progress'
  <2> USE <1>3 DEF Launch, Goto, tables
  <2>1. Stored'
    BY <1>1, TablesKept
  <2>2. todo'[r] = jobs /\ pc'[r] = "pick" /\ mode'[r] = m
    BY DEF Base, TypeOK
  <2>3. NoHole(r)'
    BY <1>1, <2>2 DEF NoHole, DatesOf
  <2>4. Following(r)'
    BY <2>2, <2>3 DEF Following, Working
  <2>5. QED
    BY <1>2, <2>1, <2>4 DEF Base, TypeOK
<1>4. ASSUME NEW r \in Runner, LaunchIncremental(r) PROVE Progress'
  <2>1. PICK end \in Date : Launch(r, "incremental", (lastSuccess + 1 .. end) \X {"window"})
    BY <1>4 DEF LaunchIncremental
  <2> DEFINE jobs == (lastSuccess + 1 .. end) \X {"window"}
  <2>2. \A job \in jobs : \A e \in Date : e < job[1] => Seen(e) \/ e \in DatesOf(jobs)
    <3> SUFFICES ASSUME NEW job \in jobs, NEW e \in Date, e < job[1], ~ Seen(e)
                 PROVE  e \in DatesOf(jobs)
      OBVIOUS
    <3>1. lastSuccess \in Nat /\ end \in Nat /\ job[1] \in lastSuccess + 1 .. end
      BY DEF Base, TypeOK, Date
    <3>2. e \in lastSuccess + 1 .. end
      BY <3>1 DEF Stored, Date
    <3>3. <<e, "window">> \in jobs /\ <<e, "window">>[1] = e
      BY <3>2
    <3>4. QED
      BY <3>3 DEF DatesOf
  <2>3. QED
    BY <1>3, <2>1, <2>2
<1>5. ASSUME NEW r \in Runner, LaunchWindow(r) PROVE Progress'
  BY <1>5 DEF LaunchWindow, Launch
<1>6. ASSUME NEW r \in Runner, LaunchRepair(r) PROVE Progress'
  <2>1. \A job \in items : \A e \in Date : e < job[1] => Seen(e)
    BY DEF Stored, Behind
  <2>2. QED
    BY <1>3, <1>6, <2>1 DEF LaunchRepair
<1>7. ASSUME NEW r \in Runner, PickDate(r) PROVE Progress'
  <2> USE <1>7 DEF PickDate, Goto, tables
  <2>1. PICK job \in todo[r] :
          /\ \A other \in todo[r] : job[1] <= other[1]
          /\ todo' = [todo EXCEPT ![r] = @ \ {job}]
          /\ day' = [day EXCEPT ![r] = job[1]]
          /\ pc' = [pc EXCEPT ![r] =
               IF job[1] \in Closed \/ (~Forced(r) /\ job[1] \in succeeded)
               THEN "number_skip" ELSE "number"]
    OBVIOUS
  <2>2. \A other \in todo[r] : other[1] \in Date
    BY DEF Base, TypeOK
  <2>3. day'[r] = job[1] /\ todo'[r] = todo[r] \ {job} /\ Working(r)' /\ ~Working(r)
    BY <2>1 DEF Base, TypeOK, Working
  <2>4. ASSUME NEW e \in Date, e < job[1] PROVE Seen(e)
    <3>1. e \notin DatesOf(todo[r])
      BY <2>1, <2>2, <2>4 DEF DatesOf, Date
    <3>2. QED
      BY <2>3, <2>4, <3>1 DEF Following, NoHole
  <2>5. Behind(day[r])'
    BY <1>1, <2>3, <2>4 DEF Behind
  <2>6. pc'[r] = "number_skip" => Seen(day[r])'
    <3>1. pc'[r] = "number_skip" => job[1] \in Closed \/ job[1] \in succeeded
      BY <2>1 DEF Base, TypeOK
    <3>2. QED
      BY <1>1, <2>2, <2>3, <3>1 DEF Stored, Seen
  <2>7. NoHole(r)'
    <3> SUFFICES ASSUME NEW other \in todo'[r], NEW e \in Date, e < other[1], ~ Seen(e)'
                 PROVE  e \in DatesOf(todo'[r]) \/ e = day'[r]
      BY <2>3 DEF NoHole, DatesOf
    <3>1. e \in DatesOf(todo[r])
      BY <1>1, <2>3 DEF Following, NoHole
    <3>2. QED
      BY <2>3, <3>1 DEF DatesOf
  <2>8. pc'[r] \in {"number_skip", "number"}
    BY <2>1 DEF Base, TypeOK
  <2>9. Following(r)'
    BY <2>5, <2>6, <2>7, <2>8 DEF Following
  <2>10. QED
    BY <1>1, <1>2, <2>1, <2>9, TablesKept DEF Base, TypeOK
<1>8. ASSUME NEW r \in Runner, Leave(r) PROVE Progress'
  <2> USE <1>8 DEF Leave, Goto, tables
  <2>1. pc'[r] = "idle" /\ todo'[r] = {} /\ mode'[r] = "incremental"
    BY DEF Base, TypeOK
  <2>2. Following(r)'
    BY <2>1 DEF Following, NoHole, Working
  <2>3. QED
    BY <1>1, <1>2, <2>2, TablesKept DEF Base, TypeOK
<1>9. ASSUME NEW r \in Runner, UNCHANGED <<succeeded, lastSuccess, items, mode, todo, day>>,
             NEW before \in {"number_skip", "number", "skip", "start", "sync"},
             NEW after \in {"skip", "start", "sync", "finish"},
             pc[r] = before, pc' = [pc EXCEPT ![r] = after],
             after = "skip" => before = "number_skip"
      PROVE  Progress'
  <2>1. pc'[r] = after /\ Working(r) /\ Working(r)' /\ day[r] \in Date
    BY <1>9 DEF Base, TypeOK, Working, Shape
  <2>2. Behind(day[r])' /\ NoHole(r)'
    BY <1>1, <1>9, <2>1 DEF Following, Behind, NoHole, DatesOf
  <2>3. after = "skip" => Seen(day[r])'
    BY <1>1, <1>9, <2>1 DEF Following
  <2>4. Following(r)'
    BY <1>9, <2>1, <2>2, <2>3 DEF Following
  <2>5. QED
    BY <1>1, <1>2, <1>9, <2>4, TablesKept DEF Base, TypeOK
<1>10. ASSUME NEW r \in Runner, ReadAttempt(r) \/ StartRun(r) \/ SyncReturns(r) \/ SyncRaises(r)
       PROVE  Progress'
  BY <1>9, <1>10 DEF ReadAttempt, StartRun, SyncReturns, SyncRaises, Goto, tables
\* Every way a date ends: it has been seen, so the list stays without a hole.
<1>11. ASSUME NEW r \in Runner, EndDate(r), UNCHANGED <<todo, mode>>,
              Seen(day[r]), Working(r), Stored'
       PROVE  Progress'
  <2>1. pc'[r] = "pick" /\ \A q \in Runner \ {r} : pc'[q] = pc[q] /\ day'[q] = day[q]
    BY <1>11, EndDateTypes DEF Base
  <2>2. NoHole(r)'
    BY <1>1, <1>11 DEF Following, NoHole, DatesOf
  <2>3. Following(r)'
    BY <1>11, <2>1, <2>2 DEF Following, Working
  <2>4. QED
    BY <1>2, <1>11, <2>1, <2>3
<1>12. ASSUME NEW r \in Runner, RecordSkipped(r) PROVE Progress'
  BY <1>1, <1>11, <1>12, TablesKept DEF RecordSkipped, tables, Following, Working
<1>13. ASSUME NEW r \in Runner, FinishRun(r) PROVE Progress'
  <2> USE <1>13 DEF FinishRun, Goto
  <2>1. day[r] \in Date /\ Working(r) /\ verdict[r] # "none"
    BY DEF Base, Shape, Working, TypeOK, Result
  <2>2. Seen(day[r])'
    BY <2>1 DEF Seen, Base, TypeOK
  <2>3. Stored'
    <3>1. \A item \in items : item[1] \in Date /\ Behind(item[1])'
      BY <1>1 DEF Stored, Behind, Base, TypeOK
    <3>2. \A d \in succeeded' : Seen(d)'
      BY <1>1, <2>2 DEF Stored, Base, TypeOK
    <3>3. QED
      BY <1>1, <3>1, <3>2 DEF Stored
  <2>4. Working(r)' /\ Behind(day[r])' /\ NoHole(r)'
    <3>1. pc'[r] \in {"watermark", "enqueue"}
      BY DEF Base, TypeOK
    <3>2. Working(r)'
      BY <3>1 DEF Working
    <3>3. QED
      BY <1>1, <2>1, <3>2 DEF Following, Behind, NoHole, DatesOf
  <2>5. Following(r)'
    BY <2>2, <2>4 DEF Following
  <2>6. QED
    BY <1>2, <2>3, <2>5 DEF Base, TypeOK
<1>14. ASSUME NEW r \in Runner, FinishDryRun(r) PROVE Progress'
  BY <1>14 DEF FinishDryRun, Dry, Following
<1>15. ASSUME NEW r \in Runner, UpdateWatermarkSuccess(r) PROVE Progress'
  <2> USE <1>15 DEF UpdateWatermarkSuccess, Goto
  <2>1. day[r] \in Date /\ Working(r) /\ Seen(day[r]) /\ Behind(day[r])
    BY DEF Base, Shape, Working, Following
  <2>2. Stored'
    <3>1. \A d \in Date : d <= day[r] => Seen(d)
      BY <2>1 DEF Behind, Date
    <3>2. \A item \in items : item[1] \in Date /\ Behind(item[1])'
      BY <1>1 DEF Stored, Behind, Base, TypeOK
    <3>3. \A d \in succeeded : Seen(d)'
      BY <1>1 DEF Stored, Base, TypeOK
    <3>4. QED
      BY <1>1, <3>1, <3>2, <3>3 DEF Stored
  <2>3. pc'[r] = "resolve" /\ Working(r)'
    BY DEF Base, TypeOK, Working
  <2>4. Behind(day[r])' /\ NoHole(r)'
    BY <1>1, <2>1, <2>3 DEF Following, Behind, NoHole, DatesOf
  <2>5. Following(r)'
    BY <1>1, <2>1, <2>3, <2>4 DEF Following
  <2>6. QED
    BY <1>2, <2>2, <2>5 DEF Base, TypeOK
<1>16. ASSUME NEW r \in Runner, ResolveRepairItems(r) PROVE Progress'
  <2>1. Stored'
    <3>1. \A item \in items' : item[1] \in Date /\ Seen(item[1])' /\ Behind(item[1])'
      BY <1>1, <1>16 DEF ResolveRepairItems, Stored, Behind, Base, TypeOK
    <3>2. QED
      BY <1>1, <1>16, <3>1 DEF ResolveRepairItems, Stored, Base, TypeOK
  <2>2. QED
    BY <1>11, <1>16, <2>1 DEF ResolveRepairItems, Following, Working
<1>17. ASSUME NEW r \in Runner, UpsertRepairItem(r) PROVE Progress'
  <2> USE <1>17 DEF UpsertRepairItem
  <2>1. day[r] \in Date /\ Working(r) /\ Seen(day[r]) /\ Behind(day[r])
    BY DEF Base, Shape, Working, Following
  <2>2. Stored'
    <3>1. \A item \in items' : item[1] \in Date /\ Seen(item[1])' /\ Behind(item[1])'
      BY <1>1, <2>1 DEF Stored, Behind, Base, TypeOK
    <3>2. QED
      BY <1>1, <3>1 DEF Stored, Base, TypeOK
  <2>3. CASE EndDate(r)
    BY <1>11, <2>1, <2>2, <2>3
  <2>4. CASE Goto(r, "number") /\ UNCHANGED day
    <3>1. pc'[r] = "number" /\ Working(r)'
      BY <2>4 DEF Base, TypeOK, Working, Goto
    <3>2. Behind(day[r])' /\ NoHole(r)'
      BY <1>1, <2>1, <2>4, <3>1 DEF Following, Behind, NoHole, DatesOf
    <3>3. Following(r)'
      BY <3>1, <3>2 DEF Following
    <3>4. QED
      BY <1>2, <2>2, <2>4, <3>3 DEF Base, TypeOK, Goto
  <2>5. QED
    BY <2>3, <2>4
<1>18. CASE UNCHANGED vars
  BY <1>1, <1>18, OtherRunner, TablesKept DEF vars, tables
<1>19. QED
  BY <1>4, <1>5, <1>6, <1>7, <1>8, <1>10, <1>12, <1>13, <1>14, <1>15, <1>16,
     <1>17, <1>18 DEF Next, Done, AttemptConflict, Crash

\* Incremental and repair runners, however many, however they interleave and
\* wherever they die, never let the watermark pass an open day that has not
\* had its run.  (A backfill or a rerun may start ahead of the watermark and
\* carry it over days nobody has run.)
THEOREM NoDayIsSkipped ==
  ASSUME Modes \subseteq {"incremental", "repair"}
  PROVE  Spec => []NoDayUnseen
<1>1. Init => Progress
  <2> SUFFICES ASSUME Init PROVE Progress
    OBVIOUS
  <2>1. Base
    BY PipelineAssumption DEF Init, Base, TypeOK, Shape, Working,
       WatermarkIsBacked, Point, Mode, Result
  <2>2. Stored
    BY DEF Init, Stored, Date
  <2>3. QED
    BY <2>1, <2>2 DEF Init, Progress, Following, NoHole, Working
<1>2. Progress /\ [Next]_vars => Progress'
  BY ProgressStep
<1>3. Progress => NoDayUnseen
  BY DEF Progress, Stored, Seen, NoDayUnseen
<1>4. QED
  BY <1>1, <1>2, <1>3, PTL DEF Spec

-----------------------------------------------------------------------------
(***************************************************************************)
(* NoSilentGap, for one incremental runner at a time: a day behind the     *)
(* watermark is never taken up again, so what made it good stays, and the  *)
(* days from the watermark to the runner's date are good already.          *)
(***************************************************************************)
\* A day on which readers miss nothing that is not queued for repair.
Good(d) == d \in Closed \/ data[d] = "complete" \/ d \in DatesOf(items)

NoGap(r) ==
  \A job \in todo[r], e \in Date :
    e < job[1] => Good(e) \/ e \in DatesOf(todo[r]) \/ (Working(r) /\ e = day[r])

Ahead(r) ==
  /\ mode[r] = "incremental"
  /\ \A job \in todo[r] :
       job[2] = "window" /\ job[1] > lastSuccess /\ (Working(r) => job[1] > day[r])
  /\ Working(r) => \A e \in Date : e < day[r] => Good(e)
  /\ Working(r) /\ pc[r] # "resolve" => day[r] > lastSuccess
  /\ pc[r] \in {"number_skip", "skip"} => day[r] \in Closed \cup succeeded
  /\ pc[r] \in {"number", "start", "sync", "finish", "enqueue"} =>
       day[r] \notin succeeded
  /\ pc[r] \in {"watermark", "resolve"} => data[day[r]] = "complete"
  /\ pc[r] = "finish" /\ verdict[r] = "success" => data[day[r]] = "complete"
  /\ NoGap(r)

Covered ==
  /\ \A d \in Date : d <= lastSuccess => Good(d)
  /\ \A d \in succeeded : data[d] = "complete"

LEMMA AheadStep ==
  ASSUME Modes \subseteq {"incremental"},
         NEW r \in Runner, \A q \in Runner : q = r,
         Base, Covered, Ahead(r), [Next]_vars
  PROVE  Covered' /\ Ahead(r)'
<1>1. Base'
  BY BaseStep
<1> USE DEF Base
<1>2. CASE LaunchIncremental(r)
  <2>1. PICK end \in Date : Launch(r, "incremental", (lastSuccess + 1 .. end) \X {"window"})
    BY <1>2 DEF LaunchIncremental
  <2> DEFINE jobs == (lastSuccess + 1 .. end) \X {"window"}
  <2>2. todo'[r] = jobs /\ pc'[r] = "pick" /\ mode'[r] = "incremental" /\ UNCHANGED tables
    BY <2>1 DEF Launch, Goto, TypeOK
  <2>3. Covered'
    BY <2>2 DEF Covered, Good, tables
  <2>4. lastSuccess \in Nat /\ end \in Nat
    BY DEF TypeOK, Date
  <2>5. NoGap(r)'
    <3> SUFFICES ASSUME NEW job \in jobs, NEW e \in Date, e < job[1], ~ Good(e)
                 PROVE  e \in DatesOf(jobs)
      BY <2>2 DEF NoGap, DatesOf, Good, tables
    <3>1. e \in lastSuccess + 1 .. end
      BY <2>4 DEF Covered, Date
    <3>2. <<e, "window">> \in jobs /\ <<e, "window">>[1] = e
      BY <3>1
    <3>3. QED
      BY <3>2 DEF DatesOf
  <2>6. \A job \in jobs : job[2] = "window" /\ job[1] > lastSuccess
    BY <2>4
  <2>7. QED
    BY <2>2, <2>3, <2>5, <2>6 DEF Ahead, Working, tables
<1>3. CASE LaunchWindow(r) \/ LaunchRepair(r)
  BY <1>3 DEF LaunchWindow, LaunchRepair, Launch
<1>4. CASE PickDate(r)
  <2> USE <1>4 DEF PickDate, Goto, tables
  <2>1. PICK job \in todo[r] :
          /\ \A other \in todo[r] : job[1] <= other[1]
          /\ todo' = [todo EXCEPT ![r] = @ \ {job}]
          /\ day' = [day EXCEPT ![r] = job[1]]
          /\ pc' = [pc EXCEPT ![r] =
               IF job[1] \in Closed \/ (~Forced(r) /\ job[1] \in succeeded)
               THEN "number_skip" ELSE "number"]
    OBVIOUS
  <2>2. \A other \in todo[r] :
          /\ other \in Date \X (Reason \cup {"window"})
          /\ other[1] \in Date /\ other[2] = "window" /\ other[1] > lastSuccess
    BY DEF Ahead, TypeOK
  <2>3. day'[r] = job[1] /\ todo'[r] = todo[r] \ {job} /\ Working(r)' /\ ~Working(r)
    BY <2>1 DEF TypeOK, Working
  <2>4. ASSUME NEW e \in Date, e < job[1] PROVE Good(e)
    <3>1. e \notin DatesOf(todo[r])
      BY <2>1, <2>2, <2>4 DEF DatesOf, Date
    <3>2. QED
      BY <2>3, <2>4, <3>1 DEF Ahead, NoGap
  <2>5. \A other \in todo'[r] : other[1] > day'[r]
    <3> SUFFICES ASSUME NEW other \in todo[r], other # job PROVE other[1] > job[1]
      BY <2>3
    <3>1. job = <<job[1], "window">> /\ other = <<other[1], "window">>
      BY <2>2
    <3>2. QED
      BY <2>1, <2>2, <3>1 DEF Date
  <2>6. /\ pc'[r] \in {"number_skip", "number"}
        /\ pc'[r] = "number_skip" => job[1] \in Closed \cup succeeded
        /\ pc'[r] = "number" => job[1] \notin succeeded
    BY <2>1 DEF TypeOK, Forced, Ahead
  <2>7. Covered'
    BY DEF Covered, Good
  <2>8. NoGap(r)'
    <3> SUFFICES ASSUME NEW other \in todo'[r], NEW e \in Date, e < other[1], ~ Good(e)
                 PROVE  e \in DatesOf(todo'[r]) \/ e = day'[r]
      BY <2>3 DEF NoGap, DatesOf, Good
    <3>1. e \in DatesOf(todo[r])
      BY <2>3 DEF Ahead, NoGap
    <3>2. QED
      BY <2>3, <3>1 DEF DatesOf
  <2>9. \A e \in Date : e < day'[r] => Good(e)'
    BY <2>3, <2>4 DEF Good
  <2>10. \A other \in todo'[r] : other[2] = "window" /\ other[1] > lastSuccess'
    BY <2>2, <2>3
  <2>11. mode'[r] = "incremental" /\ day'[r] > lastSuccess'
    BY <2>2, <2>3 DEF Ahead
  <2>12. QED
    BY <2>3, <2>5, <2>6, <2>7, <2>8, <2>9, <2>10, <2>11 DEF Ahead
<1>5. CASE Leave(r)
  <2> USE <1>5 DEF Leave, Goto, tables
  <2>1. pc'[r] = "idle" /\ todo'[r] = {} /\ mode'[r] = "incremental"
    BY DEF TypeOK
  <2>2. QED
    BY <2>1 DEF Covered, Good, Ahead, NoGap, Working
<1>6. CASE ReadAttempt(r)
  <2> USE <1>6 DEF ReadAttempt, Goto, tables
  <2>1. \/ pc[r] = "number" /\ pc'[r] = "start"
        \/ pc[r] = "number_skip" /\ pc'[r] = "skip"
    BY DEF TypeOK
  <2>2. Working(r)' /\ Working(r)
    BY <2>1 DEF Working
  <2>3. QED
    BY <2>1, <2>2 DEF Covered, Good, Ahead, NoGap, DatesOf
<1>7. CASE StartRun(r)
  <2> USE <1>7 DEF StartRun, Goto, tables
  <2>1. pc[r] = "start" /\ pc'[r] = "sync" /\ Working(r)' /\ Working(r)
    BY DEF TypeOK, Working
  <2>2. QED
    BY <2>1 DEF Covered, Good, Ahead, NoGap, DatesOf
\* A sync may change the data of the runner's date, which has no success yet
\* and lies ahead of the watermark.
<1>8. ASSUME pc[r] = "sync", pc' = [pc EXCEPT ![r] = "finish"],
             \E found \in {"absent", "partial", "complete"} :
               data' = [data EXCEPT ![day[r]] = found],
             verdict'[r] = "success" => data'[day[r]] = "complete",
             UNCHANGED <<succeeded, result, lastSuccess, items, mode, todo, day>>
      PROVE  Covered' /\ Ahead(r)'
  <2>1. pc'[r] = "finish" /\ Working(r)' /\ Working(r) /\ day[r] \in Date
    BY <1>8 DEF TypeOK, Working, Shape
  <2>2. day[r] > lastSuccess /\ day[r] \notin succeeded
    BY <1>8, <2>1 DEF Ahead
  <2>3. \A e \in Date \ {day[r]} : Good(e) => Good(e)'
    BY <1>8, <2>1 DEF Good, DatesOf, TypeOK
  <2>4. Covered'
    <3>1. \A d \in Date : d <= lastSuccess => d # day[r]
      BY <2>1, <2>2 DEF TypeOK, Date
    <3>2. \A d \in succeeded : d # day[r] /\ d \in Date
      BY <2>2 DEF TypeOK
    <3>3. \A d \in succeeded : data'[d] = data[d]
      BY <1>8, <3>2 DEF TypeOK
    <3>4. QED
      BY <1>8, <2>3, <3>1, <3>3 DEF Covered
  <2>5. NoGap(r)'
    BY <1>8, <2>1, <2>3 DEF Ahead, NoGap, DatesOf
  <2>6. \A e \in Date : e < day[r] => Good(e)'
    BY <2>1, <2>3 DEF Ahead, Date
  <2>7. QED
    BY <1>8, <2>1, <2>2, <2>4, <2>5, <2>6 DEF Ahead
<1>9. CASE SyncReturns(r)
  <2>1. ~Dry(r) /\ day[r] \in Date
    BY <1>9 DEF SyncReturns, Dry, Ahead, Shape, Working
  <2>2. PICK found \in {"partial", "complete"} :
          /\ data' = [data EXCEPT ![day[r]] = found]
          /\ verdict' = [verdict EXCEPT
                           ![r] = IF found = "complete" THEN "success" ELSE "partial"]
    BY <1>9, <2>1 DEF SyncReturns
  <2>3. verdict'[r] = "success" => data'[day[r]] = "complete"
    BY <2>1, <2>2 DEF TypeOK
  <2>4. QED
    BY <1>8, <1>9, <2>2, <2>3 DEF SyncReturns, Goto
<1>10. CASE SyncRaises(r)
  <2>1. day[r] \in Date /\ verdict'[r] = "failed"
    BY <1>10 DEF SyncRaises, Shape, Working, TypeOK
  <2>2. \E found \in {"absent", "partial", "complete"} : data' = [data EXCEPT ![day[r]] = found]
    BY <1>10, <2>1 DEF SyncRaises, TypeOK
  <2>3. QED
    BY <1>8, <1>10, <2>1, <2>2 DEF SyncRaises, Goto
<1>11. CASE FinishRun(r)
  <2> USE <1>11 DEF FinishRun, Goto
  <2>1. day[r] \in Date /\ Working(r)
    BY DEF Shape, Working
  <2>2. /\ pc'[r] \in {"watermark", "enqueue"} /\ Working(r)'
        /\ pc'[r] = "watermark" => verdict[r] = "success"
        /\ pc'[r] = "enqueue" => succeeded' = succeeded
    BY DEF TypeOK, Working
  <2>3. verdict[r] = "success" => data[day[r]] = "complete"
    BY DEF Ahead
  <2>4. Covered'
    BY <2>3 DEF Covered, Good, DatesOf
  <2>5. NoGap(r)' /\ \A e \in Date : e < day[r] => Good(e)'
    BY <2>1, <2>2 DEF Ahead, NoGap, DatesOf, Good
  <2>6. QED
    BY <2>1, <2>2, <2>3, <2>4, <2>5 DEF Ahead
<1>12. CASE FinishDryRun(r)
  BY <1>12 DEF FinishDryRun, Dry, Ahead
<1>13. CASE UpdateWatermarkSuccess(r)
  <2> USE <1>13 DEF UpdateWatermarkSuccess, Goto
  <2>1. day[r] \in Date /\ Working(r) /\ data[day[r]] = "complete"
    BY DEF Shape, Working, Ahead
  <2>2. pc'[r] = "resolve" /\ Working(r)'
    BY DEF TypeOK, Working
  <2>3. Covered'
    <3>1. \A d \in Date : d <= day[r] => Good(d)
      BY <2>1 DEF Ahead, Good, Date
    <3>2. QED
      BY <3>1 DEF Covered, Good
  <2>4. NoGap(r)' /\ \A e \in Date : e < day[r] => Good(e)'
    BY <2>1, <2>2 DEF Ahead, NoGap, DatesOf, Good
  <2>5. QED
    BY <2>1, <2>2, <2>3, <2>4 DEF Ahead
\* A date is over: it is good, so the list goes on without a gap.
<1>14. ASSUME EndDate(r), Working(r), UNCHANGED <<todo, mode, lastSuccess>>,
              NEW d \in Date, d = day[r], Good(d)',
              \A e \in Date : Good(e) => Good(e)', Covered'
       PROVE  Ahead(r)'
  <2>1. pc'[r] = "pick"
    BY <1>14, EndDateTypes
  <2>2. NoGap(r)'
    <3> SUFFICES ASSUME NEW job \in todo[r], NEW e \in Date, e < job[1], ~ Good(e)'
                 PROVE  e \in DatesOf(todo[r])
      BY <1>14 DEF NoGap, DatesOf
    <3>1. ~ Good(e) /\ e # day[r]
      BY <1>14
    <3>2. QED
      BY <3>1 DEF Ahead, NoGap
  <2>3. QED
    BY <1>14, <2>1, <2>2 DEF Ahead, Working
<1>15. CASE RecordSkipped(r)
  <2>1. Working(r) /\ day[r] \in Closed \cup succeeded /\ EndDate(r)
    BY <1>15 DEF RecordSkipped, Ahead, Working
  <2>2. Good(day[r])
    BY <2>1 DEF Good, Covered
  <2>3. UNCHANGED <<data, items, lastSuccess, succeeded, todo, mode>>
    BY <1>15 DEF RecordSkipped, tables
  <2>4. (\A e \in Date : Good(e) => Good(e)') /\ Covered'
    BY <2>3 DEF Good, DatesOf, Covered
  <2>5. PICK d \in Date : d = day[r]
    BY <2>1 DEF Shape
  <2>6. Good(d)'
    BY <2>2, <2>4, <2>5
  <2>7. QED
    BY <1>14, <2>1, <2>3, <2>4, <2>5, <2>6
<1>16. CASE ResolveRepairItems(r)
  <2>1. Working(r) /\ day[r] \in Date /\ data[day[r]] = "complete" /\ EndDate(r)
    BY <1>16 DEF ResolveRepairItems, Ahead, Working, Shape
  <2>2. \A e \in Date : Good(e) => Good(e)'
    BY <1>16, <2>1 DEF ResolveRepairItems, Good, DatesOf
  <2>3. Covered'
    BY <1>16, <2>2 DEF ResolveRepairItems, Covered
  <2>4. PICK d \in Date : d = day[r]
    BY <2>1
  <2>5. Good(d)'
    BY <1>16, <2>1, <2>4 DEF ResolveRepairItems, Good
  <2>6. QED
    BY <1>14, <1>16, <2>1, <2>2, <2>3, <2>4, <2>5 DEF ResolveRepairItems
<1>17. CASE UpsertRepairItem(r)
  <2> USE <1>17 DEF UpsertRepairItem
  <2>1. Working(r) /\ day[r] \in Date
    BY DEF Working, Shape
  <2>2. \A e \in Date : Good(e) => Good(e)'
    BY DEF Good, DatesOf
  <2>3. day[r] \in DatesOf(items')
    <3>1. <<day[r], verdict[r]>> \in items' /\ <<day[r], verdict[r]>>[1] = day[r]
      OBVIOUS
    <3>2. QED
      BY <3>1 DEF DatesOf
  <2>4. Covered'
    BY <2>2 DEF Covered
  <2>5. CASE EndDate(r)
    <3>1. PICK d \in Date : d = day[r]
      BY <2>1
    <3>2. Good(d)'
      BY <2>3, <3>1 DEF Good
    <3>3. QED
      BY <1>14, <2>1, <2>2, <2>4, <2>5, <3>1, <3>2
  <2>6. CASE Goto(r, "number") /\ UNCHANGED <<day, verdict>>
    <3>1. pc'[r] = "number" /\ Working(r)'
      BY <2>6 DEF TypeOK, Working, Goto
    <3>2. NoGap(r)' /\ \A e \in Date : e < day[r] => Good(e)'
      BY <2>1, <2>2, <2>6, <3>1 DEF Ahead, NoGap, DatesOf
    <3>3. QED
      BY <2>1, <2>4, <2>6, <3>1, <3>2 DEF Ahead
  <2>7. QED
    BY <2>5, <2>6
<1>18. CASE UNCHANGED vars
  BY <1>18 DEF vars, tables, Covered, Good, Ahead, NoGap, Working, DatesOf
<1>19. QED
  BY <1>2, <1>3, <1>4, <1>5, <1>6, <1>7, <1>9, <1>10, <1>11, <1>12, <1>13,
     <1>15, <1>16, <1>17, <1>18 DEF Next, Done, AttemptConflict, Crash

\* When runners are started one after the other from the watermark, however
\* many of them die and wherever, every open day behind the watermark has
\* complete data or an open repair item.
THEOREM NoGapIsSilent ==
  ASSUME Modes \subseteq {"incremental"}, \A q, r \in Runner : q = r
  PROVE  Spec => []NoSilentGap
<1> DEFINE IInv == Base /\ Covered /\ \A r \in Runner : Ahead(r)
<1>1. Init => IInv
  <2> SUFFICES ASSUME Init PROVE IInv
    OBVIOUS
  <2>1. Base
    BY PipelineAssumption DEF Init, Base, TypeOK, Shape, Working,
       WatermarkIsBacked, Point, Mode, Result
  <2>2. QED
    BY <2>1 DEF Init, Covered, Ahead, NoGap, Working, Date
<1>2. IInv /\ [Next]_vars => IInv'
  <2> SUFFICES ASSUME IInv, [Next]_vars PROVE IInv'
    OBVIOUS
  <2>1. Base'
    BY BaseStep
  <2>2. ASSUME NEW r \in Runner PROVE Covered' /\ Ahead(r)'
    BY <2>2, AheadStep
  <2>3. CASE Runner = {}
    BY <2>1, <2>3 DEF Next, vars, tables, Covered, Good, DatesOf
  <2>4. QED
    BY <2>1, <2>2, <2>3
<1>3. IInv => NoSilentGap
  BY DEF Covered, Good, NoSilentGap
<1>4. QED
  BY <1>1, <1>2, <1>3, PTL DEF Spec

-----------------------------------------------------------------------------
(***************************************************************************)
(* The repair queue, for one runner at a time, in every mode: queue and    *)
(* results are at odds on a date only between finish_run and the last      *)
(* write for it, or for the rest of time when the runner dies between.     *)
(***************************************************************************)
Agrees(d) ==
  /\ result[d] \in {"partial", "failed"} => d \in DatesOf(items)
  /\ result[d] = "success" => d \notin DatesOf(items)

\* The runner has recorded a result that the queue does not show yet.
Owing(r) == pc[r] \in {"watermark", "resolve", "enqueue"}

Owes(r) ==
  /\ pc[r] \in {"watermark", "resolve"} => result[day[r]] = "success"
  /\ pc[r] = "enqueue" => result[day[r]] \in {"partial", "failed"}

\* The dates at odds that nobody is about to put right.
Stray(r) == {d \in Date : ~Agrees(d) /\ ~(Owing(r) /\ d = day[r])}

\* Only a death adds a date to them, and only the one it happened at.
LEMMA StrayStep ==
  ASSUME NEW r \in Runner, \A q \in Runner : q = r,
         Base, Owes(r), [Next]_vars
  PROVE  /\ Owes(r)'
         /\ \/ Stray(r)' \subseteq Stray(r) /\ crashes' = crashes
            \/ /\ Stray(r)' \subseteq Stray(r) \cup {day[r]}
               /\ crashes < MaxCrashes /\ crashes' = crashes + 1
<1> DEFINE Kept == Owes(r)' /\ Stray(r)' \subseteq Stray(r) /\ crashes' = crashes
<1> USE DEF Base
\* Nothing is owed after the step, nor was before, and no table changed.
<1>1. ASSUME UNCHANGED <<result, items, crashes>>, ~Owing(r), ~Owing(r)' PROVE Kept
  BY <1>1 DEF Owes, Stray, Owing, Agrees, DatesOf
<1>2. CASE LaunchIncremental(r) \/ LaunchWindow(r) \/ LaunchRepair(r)
  BY <1>1, <1>2 DEF LaunchIncremental, LaunchWindow, LaunchRepair, Launch, Goto,
     Owing, TypeOK, tables
<1>3. CASE PickDate(r) \/ ReadAttempt(r) \/ StartRun(r)
  BY <1>1, <1>3 DEF PickDate, ReadAttempt, StartRun, Goto, Owing, TypeOK, tables
<1>4. CASE Done(r) \/ AttemptConflict(r)
  BY <1>1, <1>4 DEF Done, AttemptConflict, Leave, Goto, Owing, TypeOK, tables
<1>5. CASE RecordSkipped(r)
  <2>1. pc'[r] = "pick"
    BY <1>5, EndDateTypes DEF RecordSkipped
  <2>2. QED
    BY <1>1, <1>5, <2>1 DEF RecordSkipped, Owing, tables
<1>6. CASE SyncReturns(r) \/ SyncRaises(r)
  BY <1>1, <1>6 DEF SyncReturns, SyncRaises, Goto, Owing, TypeOK
<1>7. CASE FinishRun(r)
  <2> USE <1>7 DEF FinishRun, Goto
  <2>1. day[r] \in Date /\ ~Owing(r)
    BY DEF Shape, Working, Owing
  <2>2. result'[day[r]] = verdict[r] /\ verdict[r] \in Result
    BY <2>1 DEF TypeOK
  <2>3. pc'[r] = IF verdict[r] = "success" THEN "watermark" ELSE "enqueue"
    BY DEF TypeOK
  <2>4. \A d \in Date \ {day[r]} : Agrees(d) => Agrees(d)'
    BY <2>1 DEF Agrees, DatesOf, TypeOK
  <2>5. Owes(r)' /\ Owing(r)' /\ day' = day
    BY <2>1, <2>2, <2>3 DEF Owes, Owing, Result
  <2>6. QED
    BY <2>1, <2>4, <2>5 DEF Stray
<1>8. CASE FinishDryRun(r)
  <2>1. pc'[r] = "pick"
    BY <1>8, EndDateTypes DEF FinishDryRun
  <2>2. QED
    BY <1>1, <1>8, <2>1 DEF FinishDryRun, Owing
<1>9. CASE UpdateWatermarkSuccess(r)
  <2> USE <1>9 DEF UpdateWatermarkSuccess, Goto
  <2>1. pc'[r] = "resolve"
    BY DEF TypeOK
  <2>2. QED
    BY <2>1 DEF Owes, Stray, Owing, Agrees, DatesOf
<1>10. CASE ResolveRepairItems(r)
  <2>1. pc'[r] = "pick" /\ UNCHANGED <<result, crashes>>
    BY <1>10, EndDateTypes DEF ResolveRepairItems
  <2>2. \A d \in Date : d \in DatesOf(items') <=> d \in DatesOf(items) /\ d # day[r]
    BY <1>10 DEF ResolveRepairItems, DatesOf
  <2>3. result[day[r]] = "success"
    BY <1>10 DEF ResolveRepairItems, Owes
  <2>4. \A d \in Date : Agrees(d) \/ d = day[r] => Agrees(d)'
    BY <2>1, <2>2, <2>3 DEF Agrees
  <2>5. QED
    BY <2>1, <2>4 DEF Owes, Stray
<1>11. CASE UpsertRepairItem(r)
  <2>1. pc'[r] \in {"pick", "number"} /\ UNCHANGED <<result, crashes>>
    BY <1>11, EndDateTypes DEF UpsertRepairItem, Goto, TypeOK
  <2>2. \A d \in Date : d \in DatesOf(items') <=> d \in DatesOf(items) \/ d = day[r]
    <3>1. items' = items \cup {<<day[r], verdict[r]>>}
      BY <1>11 DEF UpsertRepairItem
    <3>2. <<day[r], verdict[r]>>[1] = day[r]
      OBVIOUS
    <3>3. QED
      BY <3>1, <3>2 DEF DatesOf
  <2>3. result[day[r]] \in {"partial", "failed"}
    BY <1>11 DEF UpsertRepairItem, Owes
  <2>4. \A d \in Date : Agrees(d) \/ d = day[r] => Agrees(d)'
    BY <2>1, <2>2, <2>3 DEF Agrees
  <2>5. QED
    BY <2>1, <2>4 DEF Owes, Stray
<1>12. CASE Crash(r)
  <2>1. pc'[r] = "idle" /\ UNCHANGED <<result, items>>
    BY <1>12 DEF Crash, Leave, Goto, TypeOK, tables
  <2>2. Stray(r)' \subseteq Stray(r) \cup {day[r]}
    BY <2>1 DEF Stray, Agrees, DatesOf
  <2>3. Owes(r)'
    BY <2>1 DEF Owes
  <2>4. QED
    BY <1>12, <2>2, <2>3 DEF Crash
<1>13. CASE UNCHANGED vars
  BY <1>13 DEF vars, tables, Owes, Stray, Owing, Agrees, DatesOf
<1>14. QED
  BY <1>2, <1>3, <1>4, <1>5, <1>6, <1>7, <1>8, <1>9, <1>10, <1>11, <1>12, <1>13
     DEF Next

\* No set of dates is infinite.
LEMMA DatesFinite ==
  ASSUME NEW D \in SUBSET Date
  PROVE  IsFiniteSet(D) /\ Cardinality(D) \in Nat
<1>1. IsFiniteSet(Date)
  BY PipelineAssumption, FS_Interval DEF Date
<1>2. QED
  BY <1>1, FS_Subset, FS_CardinalityType

QueueInv ==
  /\ Base
  /\ crashes <= MaxCrashes
  /\ \A r \in Runner : Owes(r) /\ Cardinality(Stray(r)) <= crashes
  /\ Runner = {} => \A d \in Date : Agrees(d)

\* With one runner at a time, there are no more stray dates than deaths.
LEMMA QueueInvariance ==
  ASSUME \A q, r \in Runner : q = r
  PROVE  Spec => []QueueInv
<1>1. Init => QueueInv
  <2> SUFFICES ASSUME Init PROVE QueueInv
    OBVIOUS
  <2>1. Base
    BY PipelineAssumption DEF Init, Base, TypeOK, Shape, Working,
       WatermarkIsBacked, Point, Mode, Result
  <2>2. \A d \in Date : Agrees(d)
    BY DEF Init, Agrees
  <2>3. ASSUME NEW r \in Runner PROVE Owes(r) /\ Cardinality(Stray(r)) = 0
    <3>1. Stray(r) = {}
      BY <2>2 DEF Stray
    <3>2. QED
      BY <3>1, FS_EmptySet DEF Init, Owes
  <2>4. QED
    BY <2>1, <2>2, <2>3, PipelineAssumption DEF Init, QueueInv
<1>2. QueueInv /\ [Next]_vars => QueueInv'
  <2> SUFFICES ASSUME QueueInv, [Next]_vars PROVE QueueInv'
    OBVIOUS
  <2>1. Base /\ Base' /\ crashes \in Nat
    BY BaseStep DEF QueueInv, Base, TypeOK
  <2>2. ASSUME NEW r \in Runner
        PROVE  Owes(r)' /\ Cardinality(Stray(r)') <= crashes' /\ crashes' <= MaxCrashes
    <3>1. Stray(r) \in SUBSET Date /\ Stray(r)' \in SUBSET Date
      BY DEF Stray
    <3>2. /\ IsFiniteSet(Stray(r)) /\ Cardinality(Stray(r)) \in Nat
          /\ IsFiniteSet(Stray(r)') /\ Cardinality(Stray(r)') \in Nat
      BY <3>1, DatesFinite
    <3>3. Cardinality(Stray(r)) <= crashes /\ crashes <= MaxCrashes
      BY DEF QueueInv
    <3>4. CASE Stray(r)' \subseteq Stray(r) /\ crashes' = crashes
      <4>1. Cardinality(Stray(r)') <= Cardinality(Stray(r))
        BY <3>2, <3>4, FS_Subset
      <4>2. QED
        BY <2>1, <2>2, <3>2, <3>3, <3>4, <4>1, StrayStep DEF QueueInv
    <3>5. CASE /\ Stray(r)' \subseteq Stray(r) \cup {day[r]}
               /\ crashes < MaxCrashes /\ crashes' = crashes + 1
      <4>1. /\ IsFiniteSet(Stray(r) \cup {day[r]})
            /\ Cardinality(Stray(r) \cup {day[r]}) \in
                 {Cardinality(Stray(r)), Cardinality(Stray(r)) + 1}
        BY <3>2, FS_AddElement, Zenon
      <4>2. Cardinality(Stray(r)') <= Cardinality(Stray(r) \cup {day[r]})
        BY <3>5, <4>1, FS_Subset
      <4>3. Cardinality(Stray(r)') <= crashes' /\ crashes' <= MaxCrashes
        BY <2>1, <3>2, <3>3, <3>5, <4>1, <4>2, PipelineAssumption
      <4>4. QED
        BY <2>2, <4>3, StrayStep DEF QueueInv
    <3>6. QED
      BY <2>2, <3>4, <3>5, StrayStep DEF QueueInv
  <2>3. CASE Runner = {}
    BY <2>1, <2>3 DEF QueueInv, Next, vars, tables, Agrees, DatesOf
  <2>4. QED
    BY <2>1, <2>2, <2>3 DEF QueueInv
<1>3. QED
  BY <1>1, <1>2, PTL DEF Spec

\* A date that a runner still owes something to is one it is busy with.
LEMMA OwingIsBusy ==
  ASSUME NEW r \in Runner, NEW d, Owing(r), d = day[r] PROVE Busy(r, d)
  BY DEF Owing, Busy

\* With one runner at a time, in whatever modes it is started and wherever it
\* dies, a death leaves at most one date at odds with the repair queue.
THEOREM DeathsAreCounted ==
  ASSUME \A q, r \in Runner : q = r
  PROVE  Spec => []OneDatePerCrash
<1> DEFINE Left == {d \in AtOdds : \A r \in Runner : ~Busy(r, d)}
<1>1. ASSUME QueueInv PROVE OneDatePerCrash
  <2>1. \A d \in AtOdds : d \in Date /\ ~Agrees(d)
    BY DEF AtOdds, Agrees
  <2>2. crashes \in Nat
    BY <1>1 DEF QueueInv, Base, TypeOK
  <2>3. CASE Runner = {}
    <3>1. Left = {}
      BY <1>1, <2>1, <2>3 DEF QueueInv
    <3>2. QED
      BY <2>2, <3>1, FS_EmptySet DEF OneDatePerCrash
  <2>4. ASSUME NEW r \in Runner PROVE OneDatePerCrash
    <3>1. Left \subseteq Stray(r)
      BY <2>1, OwingIsBusy DEF Stray
    <3>2. Stray(r) \in SUBSET Date
      BY DEF Stray
    <3>3. IsFiniteSet(Stray(r)) /\ Cardinality(Stray(r)) \in Nat
      BY <3>2, DatesFinite
    <3>4. Cardinality(Left) <= Cardinality(Stray(r)) /\ Cardinality(Left) \in Nat
      BY <3>1, <3>3, FS_Subset, FS_CardinalityType
    <3>5. QED
      BY <1>1, <2>2, <3>3, <3>4 DEF QueueInv, OneDatePerCrash
  <2>5. QED
    BY <2>3, <2>4
<1>2. QED
  BY <1>1, QueueInvariance, PTL

\* Queue and results agree, once no runner is at the date and none has died.
LEMMA QueueAgrees ==
  ASSUME MaxCrashes = 0, \A q, r \in Runner : q = r
  PROVE  Spec => [](FailedRunIsQueued /\ SuccessClosesItems)
<1>1. ASSUME QueueInv, NEW d \in Date
      PROVE  Agrees(d) \/ \E r \in Runner : Busy(r, d)
  <2>1. crashes = 0
    BY <1>1 DEF QueueInv, Base, TypeOK
  <2>2. CASE Runner = {}
    BY <1>1, <2>2 DEF QueueInv
  <2>3. ASSUME NEW r \in Runner PROVE Agrees(d) \/ Busy(r, d)
    <3>1. Stray(r) \in SUBSET Date
      BY DEF Stray
    <3>2. IsFiniteSet(Stray(r)) /\ Cardinality(Stray(r)) \in Nat
      BY <3>1, DatesFinite
    <3>3. Cardinality(Stray(r)) = 0
      BY <1>1, <2>1, <3>2 DEF QueueInv
    <3>4. Stray(r) = {}
      BY <3>2, <3>3, FS_EmptySet
    <3>5. QED
      BY <1>1, <3>4, OwingIsBusy DEF Stray
  <2>4. QED
    BY <2>2, <2>3
<1>2. QueueInv => FailedRunIsQueued /\ SuccessClosesItems
  BY <1>1 DEF Agrees, FailedRunIsQueued, SuccessClosesItems
<1>3. QED
  BY <1>2, QueueInvariance, PTL

\* With one runner at a time that does not die, in whatever modes it is
\* started, every failed or partial date is in the repair queue (finish_run
\* before upsert_repair_item).
THEOREM FailuresAreQueued ==
  ASSUME MaxCrashes = 0, \A q, r \in Runner : q = r
  PROVE  Spec => []FailedRunIsQueued
BY QueueAgrees, PTL

\* And every date that succeeded since is out of it (resolve_repair_items).
THEOREM SuccessesAreClosed ==
  ASSUME MaxCrashes = 0, \A q, r \in Runner : q = r
  PROVE  Spec => []SuccessClosesItems
BY QueueAgrees, PTL

-----------------------------------------------------------------------------
(***************************************************************************)
(* A runner comes to its end: no list, retry or conflict keeps it going.   *)
(***************************************************************************)
\* Steps of an attempt, and of a date with all its retries.
Rank(point) ==
  CASE point \in {"number", "number_skip"} -> 6
    [] point \in {"start", "skip"} -> 5
    [] point = "sync" -> 4
    [] point = "finish" -> 3
    [] point \in {"watermark", "enqueue"} -> 2
    [] point = "resolve" -> 1
    [] OTHER -> 0
PerDate == 6 * RetryLimit + 7

StepsLeft(r) ==
  IF pc[r] = "idle" THEN 0
  ELSE PerDate * Cardinality(todo[r]) + 1 +
       (IF pc[r] = "pick" THEN 0 ELSE 6 * retries[r] + Rank(pc[r]))

LEMMA StepsTypes ==
  ASSUME TypeOK, NEW r \in Runner
  PROVE  /\ IsFiniteSet(todo[r]) /\ Cardinality(todo[r]) \in Nat
         /\ PerDate \in Nat /\ PerDate * Cardinality(todo[r]) \in Nat
         /\ retries[r] \in Nat /\ Rank(pc[r]) \in Nat
         /\ pc[r] \notin {"idle", "pick"} => Rank(pc[r]) > 0
         /\ StepsLeft(r) \in Nat /\ (pc[r] # "idle" => StepsLeft(r) > 0)
<1> USE PipelineAssumption
<1>1. IsFiniteSet(Date \X (Reason \cup {"window"}))
  <2>1. IsFiniteSet(Date)
    BY FS_Interval DEF Date
  <2>2. IsFiniteSet({"partial", "failed", "window"})
    <3>1. IsFiniteSet({"partial"})
      BY FS_Singleton
    <3>2. IsFiniteSet({"partial"} \cup {"failed"})
      BY <3>1, FS_AddElement
    <3>3. IsFiniteSet(({"partial"} \cup {"failed"}) \cup {"window"})
      BY <3>2, FS_AddElement
    <3>4. ({"partial"} \cup {"failed"}) \cup {"window"} = {"partial", "failed", "window"}
      OBVIOUS
    <3>5. QED
      BY <3>3, <3>4
  <2>3. Reason \cup {"window"} = {"partial", "failed", "window"}
    BY DEF Reason
  <2>4. QED
    BY <2>1, <2>2, <2>3, FS_Product
<1>2. IsFiniteSet(todo[r]) /\ Cardinality(todo[r]) \in Nat
  <2>1. todo[r] \in SUBSET (Date \X (Reason \cup {"window"}))
    BY DEF TypeOK
  <2>2. QED
    BY <1>1, <2>1, FS_Subset, FS_CardinalityType
<1>3. PerDate \in Nat /\ retries[r] \in Nat /\ Rank(pc[r]) \in Nat
  BY DEF TypeOK, PerDate, Rank
<1>4. PerDate * Cardinality(todo[r]) \in Nat
  BY <1>2, <1>3
<1>5. pc[r] \notin {"idle", "pick"} => Rank(pc[r]) > 0
  BY DEF Rank, TypeOK, Point
<1>6. StepsLeft(r) \in Nat /\ (pc[r] # "idle" => StepsLeft(r) > 0)
  BY <1>3, <1>4 DEF StepsLeft
<1>7. QED
  BY <1>2, <1>3, <1>4, <1>5, <1>6

\* What r can do: take up a date, go on within an attempt, be through with the
\* date, try once more while retries are left, or leave.
LEMMA OwnMoves ==
  ASSUME TypeOK, [Next]_vars, NEW r \in Runner, pc[r] # "idle", pc'[r] # pc[r]
  PROVE  \/ pc'[r] = "idle"
         \/ /\ pc[r] = "pick" /\ pc'[r] \in {"number", "number_skip"}
            /\ retries'[r] = RetryLimit
            /\ \E job \in todo[r] : todo'[r] = todo[r] \ {job}
         \/ /\ todo'[r] = todo[r]
            /\ \/ /\ pc[r] # "pick" /\ pc'[r] \notin {"idle", "pick"}
                  /\ retries'[r] = retries[r] /\ Rank(pc'[r]) < Rank(pc[r])
               \/ pc[r] # "pick" /\ pc'[r] = "pick"
               \/ /\ pc[r] = "enqueue" /\ pc'[r] = "number"
                  /\ retries[r] > 0 /\ retries'[r] = retries[r] - 1
<1> DEFINE
      Left == pc'[r] = "idle"
      Forward == /\ pc[r] # "pick" /\ pc'[r] \notin {"idle", "pick"}
                 /\ retries'[r] = retries[r] /\ Rank(pc'[r]) < Rank(pc[r])
                 /\ todo'[r] = todo[r]
      Through == pc[r] # "pick" /\ pc'[r] = "pick" /\ todo'[r] = todo[r]
<1> USE DEF TypeOK, Goto
<1>1. PICK q \in Runner :
        \/ LaunchIncremental(q) \/ LaunchWindow(q) \/ LaunchRepair(q)
        \/ PickDate(q) \/ Done(q) \/ ReadAttempt(q) \/ RecordSkipped(q)
        \/ StartRun(q) \/ AttemptConflict(q) \/ SyncReturns(q) \/ SyncRaises(q)
        \/ FinishRun(q) \/ FinishDryRun(q) \/ UpdateWatermarkSuccess(q)
        \/ ResolveRepairItems(q) \/ UpsertRepairItem(q) \/ Crash(q)
  BY DEF Next, vars
<1>2. q = r
  BY <1>1 DEF LaunchIncremental, LaunchWindow, LaunchRepair, Launch, PickDate,
     Done, Leave, ReadAttempt, RecordSkipped, EndDate, StartRun,
     AttemptConflict, SyncReturns, SyncRaises, FinishRun, FinishDryRun,
     UpdateWatermarkSuccess, ResolveRepairItems, UpsertRepairItem, Crash
<1>3. ~(LaunchIncremental(r) \/ LaunchWindow(r) \/ LaunchRepair(r))
  BY DEF LaunchIncremental, LaunchWindow, LaunchRepair, Launch
<1>4. CASE Done(r) \/ AttemptConflict(r) \/ Crash(r)
  BY <1>4 DEF Done, AttemptConflict, Crash, Leave
<1>5. CASE PickDate(r)
  BY <1>5 DEF PickDate
<1>6. CASE ReadAttempt(r)
  <2>1. Forward
    BY <1>6 DEF ReadAttempt, Rank
  <2>2. QED
    BY <2>1
<1>7. CASE StartRun(r) \/ SyncReturns(r) \/ SyncRaises(r)
  <2>1. Forward
    BY <1>7 DEF StartRun, SyncReturns, SyncRaises, Rank
  <2>2. QED
    BY <2>1
<1>8. CASE FinishRun(r) \/ UpdateWatermarkSuccess(r)
  <2>1. Forward
    BY <1>8 DEF FinishRun, UpdateWatermarkSuccess, Rank
  <2>2. QED
    BY <2>1
<1>9. CASE RecordSkipped(r) \/ FinishDryRun(r) \/ ResolveRepairItems(r)
  BY <1>9 DEF RecordSkipped, FinishDryRun, ResolveRepairItems, EndDate
<1>10. CASE UpsertRepairItem(r)
  BY <1>10 DEF UpsertRepairItem, EndDate
<1>11. QED
  BY <1>1, <1>2, <1>3, <1>4, <1>5, <1>6, <1>7, <1>8, <1>9, <1>10

\* A runner that stays where it is keeps its list and its retries: every step
\* of its own moves it.
LEMMA SameMoves ==
  ASSUME TypeOK, [Next]_vars, NEW r \in Runner, pc[r] # "idle", pc'[r] = pc[r]
  PROVE  todo'[r] = todo[r] /\ retries'[r] = retries[r]
<1> USE DEF TypeOK, Goto
<1>1. ASSUME NEW q \in Runner, q # r,
        \/ LaunchIncremental(q) \/ LaunchWindow(q) \/ LaunchRepair(q)
        \/ PickDate(q) \/ Done(q) \/ ReadAttempt(q) \/ RecordSkipped(q)
        \/ StartRun(q) \/ AttemptConflict(q) \/ SyncReturns(q) \/ SyncRaises(q)
        \/ FinishRun(q) \/ FinishDryRun(q) \/ UpdateWatermarkSuccess(q)
        \/ ResolveRepairItems(q) \/ UpsertRepairItem(q) \/ Crash(q)
      PROVE  todo'[r] = todo[r] /\ retries'[r] = retries[r]
  BY <1>1 DEF LaunchIncremental, LaunchWindow, LaunchRepair, Launch, PickDate,
     Done, Leave, ReadAttempt, RecordSkipped, EndDate, StartRun,
     AttemptConflict, SyncReturns, SyncRaises, FinishRun, FinishDryRun,
     UpdateWatermarkSuccess, ResolveRepairItems, UpsertRepairItem, Crash
<1>2. ~( \/ LaunchIncremental(r) \/ LaunchWindow(r) \/ LaunchRepair(r)
         \/ PickDate(r) \/ Done(r) \/ ReadAttempt(r) \/ RecordSkipped(r)
         \/ StartRun(r) \/ AttemptConflict(r) \/ SyncReturns(r) \/ SyncRaises(r)
         \/ FinishRun(r) \/ FinishDryRun(r) \/ UpdateWatermarkSuccess(r)
         \/ ResolveRepairItems(r) \/ UpsertRepairItem(r) \/ Crash(r))
  BY DEF LaunchIncremental, LaunchWindow, LaunchRepair, Launch, PickDate,
     Done, Leave, ReadAttempt, RecordSkipped, EndDate, StartRun,
     AttemptConflict, SyncReturns, SyncRaises, FinishRun, FinishDryRun,
     UpdateWatermarkSuccess, ResolveRepairItems, UpsertRepairItem, Crash
<1>3. CASE UNCHANGED vars
  BY <1>3 DEF vars
<1>4. QED
  BY <1>1, <1>2, <1>3 DEF Next

\* Whatever step a runner takes brings it nearer to its end, a retry by the
\* retry it uses up, and what other runners do makes its way no longer: neither
\* its list nor the retries of a date go on for ever (the two loops of
\* DailyPipelineRunner.run).
THEOREM RunnerShortens ==
  Spec => [][\A r \in Runner : pc[r] # "idle" =>
              /\ StepsLeft(r) \in Nat
              /\ pc'[r] # pc[r] => StepsLeft(r)' < StepsLeft(r)
              /\ pc'[r] = pc[r] => StepsLeft(r)' = StepsLeft(r)]_vars
<1> DEFINE Shortens ==
             \A r \in Runner : pc[r] # "idle" =>
               /\ StepsLeft(r) \in Nat
               /\ pc'[r] # pc[r] => StepsLeft(r)' < StepsLeft(r)
               /\ pc'[r] = pc[r] => StepsLeft(r)' = StepsLeft(r)
<1>1. ASSUME Base, [Next]_vars PROVE Shortens
  <2>1. ASSUME NEW r \in Runner, pc[r] # "idle"
        PROVE  /\ StepsLeft(r) \in Nat
               /\ pc'[r] # pc[r] => StepsLeft(r)' < StepsLeft(r)
               /\ pc'[r] = pc[r] => StepsLeft(r)' = StepsLeft(r)
    <3> DEFINE n == Cardinality(todo[r])
    <3>1. /\ IsFiniteSet(todo[r]) /\ n \in Nat
          /\ PerDate \in Nat /\ PerDate * n \in Nat
          /\ retries[r] \in Nat /\ Rank(pc[r]) \in Nat
          /\ pc[r] \notin {"idle", "pick"} => Rank(pc[r]) > 0
          /\ StepsLeft(r) \in Nat /\ StepsLeft(r) > 0
      BY <1>1, <2>1, StepsTypes DEF Base
    <3>2. Rank(pc'[r]) \in Nat
      BY DEF Rank
    <3>3. CASE pc'[r] = "idle"
      <4>1. StepsLeft(r)' = 0
        BY <3>3 DEF StepsLeft
      <4>2. QED
        BY <2>1, <3>1, <3>3, <4>1
    <3>4. ASSUME pc[r] = "pick", pc'[r] \in {"number", "number_skip"},
                 retries'[r] = RetryLimit, NEW job \in todo[r],
                 todo'[r] = todo[r] \ {job}
          PROVE  StepsLeft(r)' < StepsLeft(r)
      <4>1. Cardinality(todo'[r]) = n - 1
        BY <3>1, <3>4, FS_RemoveElement
      <4>2. PerDate * (n - 1) = PerDate * n - PerDate
        BY <3>1
      <4>3. StepsLeft(r) = PerDate * n + 1
        BY <3>1, <3>4 DEF StepsLeft
      <4>4. StepsLeft(r)' = PerDate * n - PerDate + 1 + (6 * RetryLimit + 6)
        BY <3>4, <4>1, <4>2 DEF StepsLeft, Rank
      <4>5. PerDate = 6 * RetryLimit + 7 /\ RetryLimit \in Nat
        BY PipelineAssumption DEF PerDate
      <4> HIDE DEF n
      <4>6. QED
        BY <3>1, <4>3, <4>4, <4>5
    <3>5. ASSUME todo'[r] = todo[r], pc[r] # "pick",
                 pc'[r] \notin {"idle", "pick"}, retries'[r] = retries[r],
                 Rank(pc'[r]) < Rank(pc[r])
          PROVE  StepsLeft(r)' < StepsLeft(r)
      <4>1. StepsLeft(r) = PerDate * n + 1 + (6 * retries[r] + Rank(pc[r]))
        BY <2>1, <3>5 DEF StepsLeft
      <4>2. StepsLeft(r)' = PerDate * n + 1 + (6 * retries[r] + Rank(pc'[r]))
        BY <3>5 DEF StepsLeft
      <4> HIDE DEF n
      <4>3. QED
        BY <3>1, <3>2, <3>5, <4>1, <4>2
    <3>6. ASSUME todo'[r] = todo[r], pc[r] # "pick", pc'[r] = "pick"
          PROVE  StepsLeft(r)' < StepsLeft(r)
      <4>1. StepsLeft(r) = PerDate * n + 1 + (6 * retries[r] + Rank(pc[r]))
        BY <2>1, <3>6 DEF StepsLeft
      <4>2. StepsLeft(r)' = PerDate * n + 1 + 0
        BY <3>6 DEF StepsLeft
      <4> HIDE DEF n
      <4>3. QED
        BY <2>1, <3>1, <3>6, <4>1, <4>2
    <3>7. ASSUME todo'[r] = todo[r], pc[r] = "enqueue", pc'[r] = "number",
                 retries[r] > 0, retries'[r] = retries[r] - 1
          PROVE  StepsLeft(r)' < StepsLeft(r)
      <4>1. StepsLeft(r) = PerDate * n + 1 + (6 * retries[r] + 2)
        BY <3>7 DEF StepsLeft, Rank
      <4>2. StepsLeft(r)' = PerDate * n + 1 + (6 * (retries[r] - 1) + 6)
        BY <3>7 DEF StepsLeft, Rank
      <4> HIDE DEF n
      <4>3. QED
        BY <3>1, <3>7, <4>1, <4>2
    <3>8. ASSUME pc'[r] = pc[r] PROVE StepsLeft(r)' = StepsLeft(r)
      <4>1. todo'[r] = todo[r] /\ (pc[r] # "pick" => retries'[r] = retries[r])
        BY <1>1, <2>1, <3>8, SameMoves DEF Base
      <4>2. QED
        BY <3>8, <4>1 DEF StepsLeft
    <3>9. pc'[r] # pc[r] => StepsLeft(r)' < StepsLeft(r)
      BY <1>1, <2>1, <3>1, <3>3, <3>4, <3>5, <3>6, <3>7, OwnMoves DEF Base
    <3>10. QED
      BY <3>1, <3>8, <3>9
  <2>2. QED
    BY <2>1
<1>2. Spec => [][Shortens]_vars
  BY <1>1, BaseInvariance, PTL DEF Spec
<1>3. QED
  BY <1>2
=============================================================================
