------------------------- MODULE SourceRoutingProofs -------------------------
(***************************************************************************)
(* Proofs about SourceRouting, for any sources, policies, thresholds and   *)
(* periods, and for any number of syncs and monitors at the same time.     *)
(***************************************************************************)
EXTENDS SourceRouting, FiniteSetTheorems, TLAPS

\* What a sync under way has in hand: which source it is at, and what it has
\* tried before it got there.
AtSource(j) ==
  \/ j.source = j.selected
  \/ /\ j.source \in j.fallbacks \cup {j.requested}
     /\ j.selected \in j.tried
     /\ j.source \in j.fallbacks \/ j.fallbacks \subseteq j.tried

JobOK(j) ==
  /\ j.at = "fetch" /\ j.tried # {} => j.selected \in j.tried
  /\ j.at # "idle" => AtSource(j)
  /\ j.at \in {"fetch", "load"} => ~j.empty
  /\ j.at = "fetch" => j.source \notin j.tried
  /\ j.at = "fetch" => j.selected \in j.skipped \/ j.fallbacks \cap j.skipped = {}
  /\ j.at = "load" =>
       j.source \in j.tried /\ (j.source = j.selected => j.tried = {j.selected})
  /\ j.at = "audit" => {j.selected, j.source} \subseteq j.tried
  /\ j.at # "idle" /\ j.selected \in Source =>
       \/ j.selected \in j.known
       \/ j.selected = j.requested /\ j.known # {j.selected}
  /\ j.at = "audit" /\ j.status = "success" => j.source = j.selected
  /\ j.at = "audit" /\ j.status = "fallback_success" => j.source # j.selected
  /\ j.at = "audit" /\ j.empty =>
       {j.selected, j.requested} \cup j.fallbacks \subseteq j.tried

JobsOK == \A y \in Sync : JobOK(job[y])

\* Of each tick in the window there is one sync under way or one decision, and
\* of this tick there is none if nothing has started: no two decisions of one
\* tick can be taken for the same one.
UnderWay(t) == {y \in Sync : job[y].at # "idle" /\ job[y].age = t}
OnePerTick ==
  \A t \in DOMAIN audit :
    /\ \A y \in UnderWay(t) : audit[t] = {} /\ UnderWay(t) = {y}
    /\ t = 0 /\ ~started => audit[t] = {} /\ UnderWay(t) = {}

WindowFinite == IsFiniteSet(Window)

\* A monitor that was not overtaken writes an open circuit as it is.
PlansOK ==
  \A m \in Monitor : \A s \in todo[m] \ overtaken[m] :
    IsOpen(s) => plan[m][s] = breaker[s]

Inv == TypeOK /\ JobsOK /\ OnePerTick /\ WindowFinite /\ PlansOK

-----------------------------------------------------------------------------
LEMMA AnySourceType == AnySource \in Source /\ AnySource \in Code
<1>1. \E s : s \in Source
  BY RoutingAssumption
<1>2. QED
  BY <1>1 DEF AnySource, Code

LEMMA IdleType == Idle \in Job /\ Idle.at = "idle" /\ Idle.tried = {}
                  /\ ~Idle.empty
  BY AnySourceType, RoutingAssumption DEF Idle, Job, DecisionStatus, Failing, Age

LEMMA ClosedType == Closed \in Breaker
  BY RoutingAssumption DEF Closed, Breaker

\* Time takes a breaker to one with a tick less.
LEMMA LaterType ==
  ASSUME NEW b \in Breaker
  PROVE  /\ Later(b) \in Breaker /\ Later(b).status = b.status
         /\ Later(b).left = IF b.left = 0 THEN 0 ELSE b.left - 1
<1>1. b.left \in 0 .. OpenTicks /\ OpenTicks \in Nat
  BY RoutingAssumption DEF Breaker
<1>2. (IF b.left = 0 THEN 0 ELSE b.left - 1) \in 0 .. OpenTicks
  BY <1>1
<1>3. QED
  BY <1>2 DEF Later, Breaker

\* What the evaluation makes of a health and a breaker.
LEMMA EvaluateType ==
  ASSUME NEW h \in {"hard", "good"}, NEW b \in Breaker
  PROVE  /\ Evaluate(h, b) \in Breaker
         /\ b.status = "open" /\ b.left > 0 => Evaluate(h, b) = b
<1>1. b.left \in 0 .. OpenTicks /\ OpenTicks \in Nat
      /\ b.status \in {"none", "closed", "open"}
  BY RoutingAssumption DEF Breaker
<1>2. [status |-> "open", left |-> OpenTicks] \in Breaker
  BY <1>1 DEF Breaker
<1>3. CASE b.status = "open" /\ b.left > 0
  <2>1. b.left # 0
    BY <1>1, <1>3
  <2>2. Evaluate(h, b) = b
    BY <1>3, <2>1 DEF Evaluate
  <2>3. QED
    BY <2>2
<1>4. CASE ~(b.status = "open" /\ b.left > 0)
  <2>1. b.status = "open" => b.left = 0
    BY <1>1, <1>4
  <2>2. CASE h = "hard"
    <3>1. Evaluate(h, b) = [status |-> "open", left |-> OpenTicks]
      BY <1>4, <2>1, <2>2 DEF Evaluate
    <3>2. QED
      BY <1>2, <1>4, <3>1
  <2>3. CASE h # "hard"
    <3>1. Evaluate(h, b) = Closed
      BY <1>4, <2>1, <2>3 DEF Evaluate
    <3>2. QED
      BY <1>4, <3>1, ClosedType
  <2>4. QED
    BY <2>2, <2>3
<1>5. QED
  BY <1>3, <1>4

LEMMA CodesFinite == IsFiniteSet(Code) /\ NoSource \notin Source
  BY RoutingAssumption, FS_Union DEF Code

\* The codes a job under way has tried, as a finite set.
LEMMA TriedTwice ==
  ASSUME NEW S \in SUBSET Code, NEW s \in S, NEW r \in S, s # r
  PROVE  Cardinality(S) > 1
<1>1. IsFiniteSet(S)
  BY CodesFinite, FS_Subset
<1>2. IsFiniteSet({s, r}) /\ Cardinality({s, r}) = 2
  <2>1. IsFiniteSet({s}) /\ Cardinality({s}) = 1
    BY FS_Singleton
  <2>2. {s, r} = {s} \cup {r}
    OBVIOUS
  <2>3. QED
    BY <2>1, <2>2, FS_AddElement
<1>3. Cardinality({s, r}) <= Cardinality(S)
  BY <1>1, FS_Subset
<1>4. Cardinality(S) \in Nat
  BY <1>1, FS_CardinalityType
<1>5. QED
  BY <1>2, <1>3, <1>4

LEMMA WindowElements ==
  /\ \A t \in DOMAIN audit : \A d \in audit[t] : <<t, d>> \in Window
  /\ \A o \in Window :
       o[1] \in DOMAIN audit /\ o[2] \in audit[o[1]] /\ o = <<o[1], o[2]>>
<1>1. ASSUME NEW t \in DOMAIN audit, NEW d \in audit[t] PROVE <<t, d>> \in Window
  BY DEF Window
<1>2. ASSUME NEW o \in Window
      PROVE  o[1] \in DOMAIN audit /\ o[2] \in audit[o[1]] /\ o = <<o[1], o[2]>>
  <2>1. PICK t \in DOMAIN audit : o \in {t} \X audit[t]
    BY DEF Window
  <2>2. QED
    BY <2>1
<1>3. QED
  BY <1>1, <1>2

-----------------------------------------------------------------------------
\* What a step does to the jobs: a sync starts, goes on or is gone.
\* What a resolution gives a sync or a read.
LEMMA RouteFacts ==
  ASSUME NEW requested \in Requested, NEW r \in Routes(requested)
  PROVE  /\ r.selected \in Code /\ r.fallbacks \subseteq Code
         /\ r.known \subseteq Source /\ r.skipped \subseteq Source
         /\ r.selected \in r.skipped \/ r.fallbacks \cap r.skipped = {}
         /\ r.selected \in Source =>
              \/ r.selected \in r.known
              \/ r.selected = requested /\ r.known # {r.selected}
<1>1. requested \in Code
  BY DEF Code
<1>2. CASE r = [selected |-> requested, fallbacks |-> {},
                known |-> Source \cap {requested}, skipped |-> {}]
  BY <1>1, <1>2
<1>3. CASE \E p \in Policy : r \in PolicyRoutes(p, requested)
  <2>1. PICK p \in Policy : r \in PolicyRoutes(p, requested)
    BY <1>3
  <2> DEFINE C == Candidates(p, requested)
  <2>2. /\ p.candidates \subseteq p.named /\ p.named \subseteq Source
        /\ C \subseteq p.candidates \cup {requested} /\ C \subseteq Code
    BY <1>1, RoutingAssumption DEF Candidates, Code
  <2>3. PICK open \in SUBSET Source : r \in RoutesPast(p, requested, open)
    BY <2>1 DEF PolicyRoutes
  <2>4. PICK s \in Routed(C, open) :
          r = [selected |-> s, fallbacks |-> Routed(C, open) \ {s},
               known |-> p.named \ {requested}, skipped |-> open]
    BY <2>3 DEF RoutesPast
  <2>5. Routed(C, open) \subseteq C
    BY DEF Routed
  <2>6. s \in open \/ (Routed(C, open) \ {s}) \cap open = {}
    <3>1. CASE C \subseteq open
      BY <2>4, <2>5, <3>1
    <3>2. CASE ~(C \subseteq open)
      BY <3>2 DEF Routed
    <3>3. QED
      BY <3>1, <3>2
  <2>7. s \in p.named \ {requested} \/ s = requested
    BY <2>2, <2>4, <2>5
  <2> HIDE DEF C
  <2>8. QED
    BY <2>2, <2>4, <2>5, <2>6, <2>7
<1>4. QED
  BY <1>2, <1>3 DEF Routes

LEMMA ResolveJob ==
  ASSUME TypeOK, NEW y \in Sync, Resolve(y)
  PROVE  /\ job' = [job EXCEPT ![y] = job'[y]] /\ job'[y] \in Job
         /\ JobOK(job'[y]) /\ job'[y].age = 0
<1>0. PICK requested \in Requested : \E r \in Routes(requested) :
        job' = [job EXCEPT ![y] =
                 [Idle EXCEPT !.at = "fetch", !.selected = r.selected,
                              !.source = r.selected, !.fallbacks = r.fallbacks,
                              !.requested = requested, !.known = r.known,
                              !.skipped = r.skipped]]
  BY DEF Resolve
<1>1. PICK r \in Routes(requested) :
        job' = [job EXCEPT ![y] =
                 [Idle EXCEPT !.at = "fetch", !.selected = r.selected,
                              !.source = r.selected, !.fallbacks = r.fallbacks,
                              !.requested = requested, !.known = r.known,
                              !.skipped = r.skipped]]
  BY <1>0
<1> DEFINE j == [Idle EXCEPT !.at = "fetch", !.selected = r.selected,
                   !.source = r.selected, !.fallbacks = r.fallbacks,
                   !.requested = requested, !.known = r.known,
                   !.skipped = r.skipped]
<1>2. job' = [job EXCEPT ![y] = j] /\ job'[y] = j
  BY <1>1 DEF TypeOK
<1>3. j \in Job
  BY IdleType, RouteFacts DEF Job, Code
<1>4. /\ j.at = "fetch" /\ j.source = r.selected /\ j.selected = r.selected
      /\ j.fallbacks = r.fallbacks /\ j.skipped = r.skipped
      /\ j.requested = requested /\ j.known = r.known
      /\ j.tried = {} /\ ~j.empty /\ j.age = 0
  BY DEF Idle
<1> HIDE DEF j
<1>5. JobOK(j)
  BY <1>4, RouteFacts DEF JobOK, AtSource
<1>6. QED
  BY <1>2, <1>3, <1>4, <1>5

LEMMA ProceedJob ==
  ASSUME TypeOK, NEW y \in Sync, JobOK(job[y]),
         FetchSucceeds(y) \/ FetchFails(y) \/ Load(y)
  PROVE  /\ job' = [job EXCEPT ![y] = job'[y]] /\ job'[y] \in Job
         /\ JobOK(job'[y]) /\ job'[y].at # "idle" /\ job'[y].age = job[y].age
<1> DEFINE j == job[y]
<1>1. /\ j \in Job /\ j.source \in Code /\ j.requested \in Code
      /\ j.selected \in Code /\ j.fallbacks \subseteq Code
      /\ j.tried \subseteq Code
  BY DEF TypeOK, Job
<1>2. Attempts(y) = j.tried \cup {j.source} /\ Attempts(y) \subseteq Code
  BY <1>1 DEF Attempts
<1>3. CASE FetchSucceeds(y)
  <2>1. /\ j.at = "fetch"
        /\ job' = [job EXCEPT ![y] = [j EXCEPT !.at = "load", !.tried = Attempts(y),
                                              !.skipped = {}]]
    BY <1>3 DEF FetchSucceeds
  <2>2. job'[y] = [j EXCEPT !.at = "load", !.tried = Attempts(y), !.skipped = {}]
    BY <2>1 DEF TypeOK
  <2>3. job'[y] \in Job
    BY <1>1, <1>2, <2>2 DEF Job
  <2>4. /\ job'[y].at = "load" /\ job'[y].tried = Attempts(y)
        /\ job'[y].source = j.source /\ job'[y].selected = j.selected
        /\ job'[y].requested = j.requested /\ job'[y].fallbacks = j.fallbacks
        /\ job'[y].empty = j.empty /\ job'[y].known = j.known
        /\ job'[y].age = j.age
    BY <1>1, <2>2 DEF Job
  <2>5. JobOK(job'[y])
    BY <1>2, <2>1, <2>4 DEF JobOK, AtSource
  <2>6. QED
    BY <2>1, <2>2, <2>3, <2>4, <2>5
<1>4. CASE FetchFails(y)
  <2>1. CASE \E s \in NextSources(y) :
               job' = [job EXCEPT ![y].source = s, ![y].tried = Attempts(y)]
    <3>1. PICK s \in NextSources(y) :
            job' = [job EXCEPT ![y] = [j EXCEPT !.source = s, !.tried = Attempts(y)]]
      BY <2>1
    <3>2. /\ s \in Code /\ s \notin Attempts(y)
          /\ \/ s \in j.fallbacks
             \/ s = j.requested /\ j.fallbacks \subseteq Attempts(y)
      BY <1>1 DEF NextSources
    <3>3. job'[y] = [j EXCEPT !.source = s, !.tried = Attempts(y)]
      BY <3>1 DEF TypeOK
    <3>4. job'[y] \in Job
      BY <1>1, <1>2, <3>2, <3>3 DEF Job
    <3>5. /\ job'[y].at = "fetch" /\ job'[y].tried = Attempts(y)
          /\ job'[y].source = s /\ job'[y].selected = j.selected
          /\ job'[y].requested = j.requested /\ job'[y].fallbacks = j.fallbacks
          /\ job'[y].skipped = j.skipped /\ job'[y].empty = j.empty
          /\ job'[y].known = j.known /\ job'[y].age = j.age
      BY <1>1, <1>4, <3>3 DEF Job, FetchFails
    <3>6. j.selected \in Attempts(y)
      BY <1>2, <1>4 DEF JobOK, AtSource, FetchFails
    <3>7. JobOK(job'[y])
      BY <1>4, <3>2, <3>5, <3>6 DEF JobOK, AtSource, FetchFails
    <3>8. QED
      BY <3>1, <3>3, <3>4, <3>5, <3>7
  <2>2. CASE /\ NextSources(y) = {}
             /\ job' = [job EXCEPT ![y].at = "audit", ![y].tried = Attempts(y),
                  ![y].skipped = {}, ![y].empty = TRUE,
                  ![y].status = IF Cardinality(Attempts(y)) > 1
                                THEN "fallback_failed" ELSE "failed"]
    <3>1. PICK status \in Failing :
            job' = [job EXCEPT ![y] =
              [j EXCEPT !.at = "audit", !.tried = Attempts(y), !.skipped = {},
                        !.empty = TRUE, !.status = status]]
      BY <2>2 DEF Failing
    <3>2. job'[y] = [j EXCEPT !.at = "audit", !.tried = Attempts(y),
                              !.skipped = {}, !.empty = TRUE,
                              !.status = status]
      BY <3>1 DEF TypeOK
    <3>3. job'[y] \in Job
      BY <1>1, <1>2, <3>2 DEF Job, DecisionStatus
    <3>4. /\ job'[y].at = "audit" /\ job'[y].tried = Attempts(y)
          /\ job'[y].source = j.source /\ job'[y].selected = j.selected
          /\ job'[y].requested = j.requested /\ job'[y].fallbacks = j.fallbacks
          /\ job'[y].status = status /\ job'[y].known = j.known
          /\ job'[y].age = j.age
      BY <1>1, <3>2 DEF Job
    <3>5. j.fallbacks \subseteq Attempts(y) /\ j.requested \in Attempts(y)
      BY <2>2 DEF NextSources
    <3>6. j.selected \in Attempts(y)
      BY <1>2, <1>4 DEF JobOK, AtSource, FetchFails
    <3>7. JobOK(job'[y])
      BY <1>2, <1>4, <3>4, <3>5, <3>6 DEF JobOK, AtSource, FetchFails, Failing
    <3>8. QED
      BY <3>1, <3>2, <3>3, <3>4, <3>7
  <2>3. QED
    BY <1>4, <2>1, <2>2 DEF FetchFails
<1>5. CASE Load(y)
  <2>1. PICK status \in {LoadStatus(y), "failed"} :
          job' = [job EXCEPT ![y] = [j EXCEPT !.at = "audit", !.status = status]]
    BY <1>5 DEF Load
  <2>2. job'[y] = [j EXCEPT !.at = "audit", !.status = status]
    BY <2>1 DEF TypeOK
  <2>3. job'[y] \in Job
    BY <1>1, <2>2 DEF Job, LoadStatus, DecisionStatus, Failing
  <2>4. /\ job'[y].at = "audit" /\ job'[y].tried = j.tried
        /\ job'[y].source = j.source /\ job'[y].selected = j.selected
        /\ job'[y].requested = j.requested /\ job'[y].fallbacks = j.fallbacks
        /\ job'[y].status = status /\ job'[y].empty = j.empty
        /\ job'[y].known = j.known /\ job'[y].age = j.age
    BY <1>1, <2>2 DEF Job
  <2>5. ASSUME status = "success" PROVE j.source = j.selected
    <3>1. ~(Cardinality(j.tried) > 1)
      BY <2>5 DEF LoadStatus
    <3>2. j.source \in j.tried /\ AtSource(j)
      BY <1>5 DEF JobOK, Load
    <3>3. SUFFICES ASSUME j.source # j.selected PROVE FALSE
      OBVIOUS
    <3>4. j.selected \in j.tried
      BY <3>2, <3>3 DEF AtSource
    <3>5. QED
      BY <1>1, <3>1, <3>2, <3>3, <3>4, TriedTwice
  <2>6. ASSUME status = "fallback_success" PROVE j.source # j.selected
    <3>1. Cardinality(j.tried) > 1
      BY <2>1, <2>6 DEF LoadStatus
    <3>2. j.source = j.selected => j.tried = {j.selected}
      BY <1>5 DEF JobOK, Load
    <3>3. Cardinality({j.selected}) = 1
      BY FS_Singleton
    <3>4. QED
      BY <3>1, <3>2, <3>3
  <2>7. JobOK(job'[y])
    BY <1>5, <2>4, <2>5, <2>6 DEF JobOK, AtSource, Load
  <2>8. QED
    BY <2>1, <2>2, <2>3, <2>4, <2>7
<1>6. QED
  BY <1>3, <1>4, <1>5

\* A sync that ends leaves the others as they are.
LEMMA EndJob ==
  ASSUME TypeOK, NEW y \in Sync, job' = [job EXCEPT ![y] = Idle]
  PROVE  /\ job' = [job EXCEPT ![y] = job'[y]] /\ job'[y] \in Job
         /\ JobOK(job'[y]) /\ job'[y].at = "idle"
<1>1. job'[y] = Idle
  BY DEF TypeOK
<1>2. JobOK(Idle)
  BY IdleType DEF JobOK
<1>3. QED
  BY <1>1, <1>2, IdleType

LEMMA OneJob ==
  ASSUME TypeOK, JobsOK, NEW y \in Sync, job' = [job EXCEPT ![y] = job'[y]],
         job'[y] \in Job, JobOK(job'[y])
  PROVE  job' \in [Sync -> Job] /\ JobsOK'
<1>1. \A z \in Sync : z # y => job'[z] = job[z]
  BY DEF TypeOK
<1>2. job' \in [Sync -> Job]
  BY DEF TypeOK
<1>3. ASSUME NEW z \in Sync PROVE JobOK(job'[z])
  BY <1>1 DEF JobsOK
<1>4. QED
  BY <1>2, <1>3 DEF JobsOK

\* Time makes a job older and leaves the rest of it alone.
LEMMA TickJobs ==
  ASSUME TypeOK, JobsOK, Tick
  PROVE  job' \in [Sync -> Job] /\ JobsOK'
<1>1. ASSUME NEW y \in Sync
      PROVE  job'[y] \in Job /\ JobOK(job'[y])
  <2>1. job[y] \in Job /\ job[y].age \in 0 .. Lookback /\ JobOK(job[y])
    BY DEF TypeOK, Job, JobsOK, Age
  <2>2. CASE job[y].at = "idle" \/ job[y].age = Lookback
    <3>1. job'[y] = job[y]
      BY <2>2 DEF Tick
    <3>2. QED
      BY <2>1, <3>1
  <2>3. CASE ~(job[y].at = "idle" \/ job[y].age = Lookback)
    <3>1. job'[y] = [job[y] EXCEPT !.age = job[y].age + 1]
      BY <2>3 DEF Tick
    <3>2. job[y].age + 1 \in Age
      BY <2>1, <2>3, RoutingAssumption DEF Age
    <3>3. job'[y] \in Job
      BY <2>1, <3>1, <3>2 DEF Job
    <3>4. /\ job'[y].at = job[y].at /\ job'[y].source = job[y].source
          /\ job'[y].known = job[y].known
          /\ job'[y].selected = job[y].selected
          /\ job'[y].requested = job[y].requested
          /\ job'[y].fallbacks = job[y].fallbacks
          /\ job'[y].skipped = job[y].skipped
          /\ job'[y].tried = job[y].tried /\ job'[y].status = job[y].status
          /\ job'[y].empty = job[y].empty
      BY <2>1, <3>1 DEF Job
    <3>5. QED
      BY <2>1, <3>3, <3>4 DEF JobOK, AtSource
  <2>4. QED
    BY <2>2, <2>3
<1>2. job' = [y \in Sync |-> job'[y]]
  BY DEF Tick
<1>3. QED
  BY <1>1, <1>2 DEF JobsOK

-----------------------------------------------------------------------------
\* What a decision is made of.
LEMMA FinalDecisionFacts ==
  ASSUME NEW j \in Job
  PROVE  LET d == FinalDecision(j) IN
         /\ d \in Decision
         /\ d.selected = IF j.selected \in j.known THEN j.selected ELSE NoSource
         /\ d.final = IF j.source \in j.known THEN j.source ELSE d.selected
         /\ d.status = j.status
<1>1. /\ j.known \subseteq Source
      /\ j.status \in DecisionStatus /\ j.empty \in BOOLEAN
  BY DEF Job
<1>2. QED
  BY <1>1 DEF FinalDecision, IdOr, Decision, SourceId

\* The decision of a read.
Read(s, known, empty) ==
  [selected |-> IdOr(s, known, NoSource), final |-> IdOr(s, known, NoSource),
   status |-> "success", fallback |-> FALSE, empty |-> empty]

LEMMA ReadFacts ==
  ASSUME NEW s, NEW known \in SUBSET Source, NEW empty \in BOOLEAN
  PROVE  Read(s, known, empty) \in Decision
  BY DEF Read, IdOr, Decision, SourceId, DecisionStatus, Failing

LEMMA ServeWrites ==
  ASSUME NEW s, Serve(s)
  PROVE  \E known \in SUBSET Source, empty \in BOOLEAN :
           Write(0, Read(s, known, empty))
<1>0. PICK requested \in Requested : \E r \in Routes(requested) :
        \E empty \in BOOLEAN : Write(0, Read(s, r.known, empty))
  BY DEF Serve, Read
<1>1. PICK r \in Routes(requested), empty \in BOOLEAN :
        Write(0, Read(s, r.known, empty))
  BY <1>0
<1>2. r.known \subseteq Source
  BY RouteFacts
<1>3. QED
  BY <1>1, <1>2

\* A decision that is written is added to its tick in the window, if it has a
\* selected_source_id.
LEMMA WriteWindow ==
  ASSUME TypeOK, NEW age, NEW d \in Decision, Write(age, d)
  PROVE  /\ audit' \in [0 .. Lookback - 1 -> SUBSET Decision]
         /\ \A t \in DOMAIN audit : t # age => audit'[t] = audit[t]
         /\ Window' \subseteq Window \cup {<<age, d>>}
         /\ age \in DOMAIN audit /\ d.selected # NoSource =>
              Window' = Window \cup {<<age, d>>}
<1>1. DOMAIN audit' = DOMAIN audit /\ DOMAIN audit = 0 .. Lookback - 1
  BY DEF Write, TypeOK
<1>2. \A t \in DOMAIN audit :
        audit'[t] = IF t = age /\ d.selected # NoSource
                    THEN audit[t] \cup {d} ELSE audit[t]
  BY DEF Write
<1>3. audit' \in [0 .. Lookback - 1 -> SUBSET Decision]
  BY <1>1, <1>2 DEF Write, TypeOK
<1>4. ASSUME NEW o \in Window' PROVE o \in Window \cup {<<age, d>>}
  <2>1. o[1] \in DOMAIN audit' /\ o[2] \in audit'[o[1]] /\ o = <<o[1], o[2]>>
    <3>1. PICK t \in DOMAIN audit' : o \in {t} \X audit'[t]
      BY DEF Window
    <3>2. QED
      BY <3>1
  <2>2. CASE o[2] \in audit[o[1]]
    BY <1>1, <2>1, <2>2, WindowElements
  <2>3. CASE o[2] = d /\ o[1] = age
    BY <2>1, <2>3
  <2>4. QED
    BY <1>1, <1>2, <2>1, <2>2, <2>3
<1>5. ASSUME age \in DOMAIN audit, d.selected # NoSource,
             NEW o \in Window \cup {<<age, d>>}
      PROVE  o \in Window'
  <2>1. PICK t \in DOMAIN audit' : o \in {t} \X audit'[t]
    <3>1. CASE o \in Window
      <4>1. o[1] \in DOMAIN audit /\ o[2] \in audit[o[1]] /\ o = <<o[1], o[2]>>
        BY <3>1, WindowElements
      <4>2. o[2] \in audit'[o[1]]
        BY <1>2, <4>1
      <4>3. QED
        BY <1>1, <4>1, <4>2
    <3>2. CASE o = <<age, d>>
      <4>1. d \in audit'[age]
        BY <1>2, <1>5
      <4>2. QED
        BY <1>1, <1>5, <3>2, <4>1
    <3>3. QED
      BY <1>5, <3>1, <3>2
  <2>2. QED
    BY <2>1 DEF Window
<1>6. QED
  BY <1>2, <1>3, <1>4, <1>5

LEMMA AuditWrites ==
  ASSUME TypeOK, NEW y \in Sync, Audit(y)
  PROVE  /\ job[y] \in Job /\ job[y].at = "audit"
         /\ FinalDecision(job[y]) \in Decision
         /\ Write(job[y].age, FinalDecision(job[y]))
<1>1. job[y] \in Job
  BY DEF TypeOK
<1>2. QED
  BY <1>1, FinalDecisionFacts DEF Audit

\* A tick moves the decisions of the window on, and the last ones out of it.
LEMMA TickWindow ==
  ASSUME TypeOK, Tick
  PROVE  /\ audit' \in [0 .. Lookback - 1 -> SUBSET Decision]
         /\ \A o \in Window' : /\ o[1] \in Nat /\ o = <<o[1], o[2]>>
                               /\ <<o[1] - 1, o[2]>> \in Window
<1>1. DOMAIN audit' = DOMAIN audit /\ DOMAIN audit = 0 .. Lookback - 1
  BY DEF Tick, TypeOK
<1>2. \A t \in DOMAIN audit : audit'[t] = IF t = 0 THEN {} ELSE audit[t - 1]
  BY DEF Tick
<1>3. \A t \in 0 .. Lookback - 1 : t # 0 => t - 1 \in 0 .. Lookback - 1
  BY RoutingAssumption
<1>4. \A t \in 0 .. Lookback - 1 : audit'[t] \in SUBSET Decision
  BY <1>1, <1>2, <1>3 DEF TypeOK
<1>5. audit' \in [0 .. Lookback - 1 -> SUBSET Decision]
  BY <1>1, <1>4 DEF Tick
<1>6. ASSUME NEW o \in Window'
      PROVE  /\ o[1] \in Nat /\ o = <<o[1], o[2]>>
             /\ <<o[1] - 1, o[2]>> \in Window
  <2>1. o[1] \in DOMAIN audit' /\ o[2] \in audit'[o[1]] /\ o = <<o[1], o[2]>>
    <3>1. PICK t \in DOMAIN audit' : o \in {t} \X audit'[t]
      BY DEF Window
    <3>2. QED
      BY <3>1
  <2>2. o[1] # 0 /\ o[2] \in audit[o[1] - 1]
    BY <1>1, <1>2, <2>1
  <2>3. o[1] \in 0 .. Lookback - 1 /\ o[1] - 1 \in DOMAIN audit
    BY <1>1, <1>3, <2>1, <2>2
  <2>4. <<o[1] - 1, o[2]>> \in Window
    BY <2>2, <2>3, WindowElements
  <2>5. QED
    BY <2>1, <2>3, <2>4
<1>7. QED
  BY <1>5, <1>6

\* So a tick has no more of anything in the window.
LEMMA TickShrinks ==
  ASSUME TypeOK, Tick, NEW S \in SUBSET Window', NEW T, IsFiniteSet(T),
         \A o \in S : <<o[1] - 1, o[2]>> \in T
  PROVE  IsFiniteSet(S) /\ Cardinality(S) <= Cardinality(T)
<1> DEFINE f == [o \in S |-> <<o[1] - 1, o[2]>>]
<1>1. f \in [S -> T]
  OBVIOUS
<1>2. ASSUME NEW o \in S, NEW p \in S, f[o] = f[p] PROVE o = p
  <2>1. o[1] - 1 = p[1] - 1 /\ o[2] = p[2]
    BY <1>2
  <2>2. /\ o[1] \in Nat /\ o = <<o[1], o[2]>>
        /\ p[1] \in Nat /\ p = <<p[1], p[2]>>
    BY TickWindow
  <2>3. o[1] = p[1]
    BY <2>1, <2>2
  <2>4. QED
    BY <2>1, <2>2, <2>3
<1>3. f \in Injection(S, T)
  BY <1>1, <1>2 DEF Injection, IsInjective
<1>4. QED
  BY <1>3, FS_Injection

-----------------------------------------------------------------------------
LEMMA NothingTypes ==
  NoHealth \in [Source -> Health] /\ NoPlan \in [Source -> Breaker]
  BY ClosedType DEF NoHealth, NoPlan, Health

LEMMA HealthType == \A s \in Source : HealthOf(s) \in Health
  BY DEF HealthOf, Health

LEMMA TypeStep ==
  ASSUME TypeOK, JobsOK, [Next]_vars
  PROVE  TypeOK' /\ JobsOK'
<1> USE DEF monitors
<1>1. ASSUME NEW y \in Sync, Resolve(y) PROVE TypeOK' /\ JobsOK'
  <2>1. job' \in [Sync -> Job] /\ JobsOK'
    BY <1>1, ResolveJob, OneJob
  <2>2. started' \in BOOLEAN
    BY <1>1 DEF Resolve
  <2>3. QED
    BY <1>1, <2>1, <2>2 DEF Resolve, TypeOK
<1>2. ASSUME NEW y \in Sync, FetchSucceeds(y) \/ FetchFails(y) \/ Load(y)
      PROVE  TypeOK' /\ JobsOK'
  <2>1. job' \in [Sync -> Job] /\ JobsOK'
    BY <1>2, ProceedJob, OneJob DEF JobsOK
  <2>2. UNCHANGED <<audit, breaker, started, monitors>>
    BY <1>2 DEF FetchSucceeds, FetchFails, Load
  <2>3. QED
    BY <2>1, <2>2 DEF TypeOK
<1>3. ASSUME NEW y \in Sync, Audit(y) PROVE TypeOK' /\ JobsOK'
  <2>1. job' \in [Sync -> Job] /\ JobsOK'
    BY <1>3, EndJob, OneJob DEF Audit
  <2>2. audit' \in [0 .. Lookback - 1 -> SUBSET Decision]
    BY <1>3, AuditWrites, WriteWindow
  <2>3. QED
    BY <1>3, <2>1, <2>2 DEF Audit, TypeOK
<1>4. ASSUME NEW y \in Sync, LoseSync(y) PROVE TypeOK' /\ JobsOK'
  <2>1. job' \in [Sync -> Job] /\ JobsOK'
    BY <1>4, EndJob, OneJob DEF LoseSync
  <2>2. QED
    BY <1>4, <2>1 DEF LoseSync, TypeOK
<1>5. ASSUME NEW m \in Monitor, ReadMetrics(m) PROVE TypeOK' /\ JobsOK'
  BY <1>5, HealthType DEF ReadMetrics, TypeOK, JobsOK
<1>6. ASSUME NEW m \in Monitor, ReadStates(m) PROVE TypeOK' /\ JobsOK'
  <2> DEFINE p == [s \in Source |-> IF health[m][s] = "absent" THEN Closed
                                    ELSE Evaluate(health[m][s], breaker[s])]
  <2>1. ASSUME NEW s \in Source
        PROVE  (IF health[m][s] = "absent" THEN Closed
                ELSE Evaluate(health[m][s], breaker[s])) \in Breaker
    <3>1. health[m][s] \in Health /\ breaker[s] \in Breaker
      BY DEF TypeOK
    <3>2. CASE health[m][s] = "absent"
      BY <3>2, ClosedType
    <3>3. CASE health[m][s] \in {"hard", "good"}
      BY <3>1, <3>3, EvaluateType
    <3>4. QED
      BY <3>1, <3>2, <3>3 DEF Health
  <2>2. p \in [Source -> Breaker]
    BY <2>1
  <2>3. plan' = [plan EXCEPT ![m] = p]
    BY <1>6 DEF ReadStates
  <2> HIDE DEF p
  <2>4. QED
    BY <1>6, <2>2, <2>3, NothingTypes DEF ReadStates, TypeOK, JobsOK
<1>7. ASSUME NEW m \in Monitor, Upsert(m) PROVE TypeOK' /\ JobsOK'
  <2>1. PICK s \in todo[m] :
          /\ breaker' = [breaker EXCEPT ![s] = plan[m][s]]
          /\ plan' = [plan EXCEPT ![m] = [plan[m] EXCEPT ![s] = Closed]]
          /\ todo' = [todo EXCEPT ![m] = todo[m] \ {s}]
          /\ overtaken' = [n \in Monitor |->
               IF n # m /\ s \in todo[n] THEN overtaken[n] \cup {s}
               ELSE overtaken[n] \ (IF n = m THEN {s} ELSE {})]
    BY <1>7 DEF Upsert
  <2>2. s \in Source /\ plan[m] \in [Source -> Breaker]
    BY DEF TypeOK
  <2>3. overtaken' \in [Monitor -> SUBSET Source]
    BY <2>1, <2>2 DEF TypeOK
  <2>4. plan' \in [Monitor -> [Source -> Breaker]]
    BY <2>1, <2>2, ClosedType DEF TypeOK
  <2>5. breaker' \in [Source -> Breaker] /\ todo' \in [Monitor -> SUBSET Source]
    BY <2>1, <2>2 DEF TypeOK
  <2>6. QED
    BY <1>7, <2>3, <2>4, <2>5 DEF Upsert, TypeOK, JobsOK
<1>8. ASSUME NEW m \in Monitor, EndMonitor(m) PROVE TypeOK' /\ JobsOK'
  BY <1>8, NothingTypes DEF EndMonitor, TypeOK, JobsOK
<1>9. CASE Tick
  <2>1. job' \in [Sync -> Job] /\ JobsOK'
    BY <1>9, TickJobs
  <2>2. breaker' \in [Source -> Breaker]
    BY <1>9, LaterType DEF Tick, TypeOK
  <2>3. plan' \in [Monitor -> [Source -> Breaker]]
    BY <1>9, LaterType DEF Tick, TypeOK
  <2>4. QED
    BY <1>9, <2>1, <2>2, <2>3, TickWindow DEF Tick, TypeOK
<1>10. ASSUME NEW s \in Code, Serve(s) PROVE TypeOK' /\ JobsOK'
  <2>1. audit' \in [0 .. Lookback - 1 -> SUBSET Decision]
    BY <1>10, ServeWrites, ReadFacts, WriteWindow
  <2>2. QED
    BY <1>10, <2>1 DEF Serve, TypeOK, JobsOK
<1>11. CASE UNCHANGED vars
  BY <1>11 DEF vars, TypeOK, JobsOK
<1>12. QED
  BY <1>1, <1>2, <1>3, <1>4, <1>5, <1>6, <1>7, <1>8, <1>9, <1>10, <1>11
     DEF Next, Proceed

-----------------------------------------------------------------------------
\* Only an audit, a read and a tick touch the decisions.
LEMMA AuditCases ==
  ASSUME [Next]_vars
  PROVE  \/ \E y \in Sync : Audit(y)
         \/ \E s \in Code : Serve(s)
         \/ Tick
         \/ UNCHANGED audit
  BY DEF Next, Proceed, Resolve, FetchSucceeds, FetchFails, Load, LoseSync,
         ReadMetrics, ReadStates, Upsert, EndMonitor, vars

LEMMA WindowStep ==
  ASSUME TypeOK, WindowFinite, [Next]_vars
  PROVE  WindowFinite'
<1>1. ASSUME NEW age, NEW d \in Decision, Write(age, d) PROVE WindowFinite'
  <2>1. IsFiniteSet(Window \cup {<<age, d>>})
    BY FS_AddElement DEF WindowFinite
  <2>2. Window' \subseteq Window \cup {<<age, d>>}
    BY <1>1, WriteWindow
  <2>3. QED
    BY <2>1, <2>2, FS_Subset DEF WindowFinite
<1>2. ASSUME NEW y \in Sync, Audit(y) PROVE WindowFinite'
  BY <1>1, <1>2, AuditWrites
<1>3. ASSUME NEW s \in Code, Serve(s) PROVE WindowFinite'
  BY <1>1, <1>3, ServeWrites, ReadFacts
<1>4. CASE Tick
  BY <1>4, TickWindow, TickShrinks DEF WindowFinite
<1>5. CASE UNCHANGED audit
  BY <1>5 DEF WindowFinite, Window
<1>6. QED
  BY <1>2, <1>3, <1>4, <1>5, AuditCases

\* A step of one sync leaves those of the others that are under way.
LEMMA OneUnderWay ==
  ASSUME TypeOK, NEW y \in Sync, job' = [job EXCEPT ![y] = job'[y]], NEW t
  PROVE  /\ \A z \in Sync \ {y} : z \in UnderWay(t)' <=> z \in UnderWay(t)
         /\ UnderWay(t) \subseteq Sync /\ UnderWay(t)' \subseteq Sync
         /\ y \in UnderWay(t)' <=> job'[y].at # "idle" /\ job'[y].age = t
         /\ y \in UnderWay(t) <=> job[y].at # "idle" /\ job[y].age = t
<1>1. \A z \in Sync \ {y} : job'[z] = job[z]
  BY DEF TypeOK
<1>2. QED
  BY <1>1 DEF UnderWay

LEMMA OnePerTickStep ==
  ASSUME TypeOK, JobsOK, OnePerTick, [Next]_vars
  PROVE  OnePerTick'
<1> DEFINE One(t) == /\ \A y \in UnderWay(t) : audit[t] = {} /\ UnderWay(t) = {y}
                     /\ t = 0 /\ ~started => audit[t] = {} /\ UnderWay(t) = {}
<1>1. ASSUME NEW y \in Sync, Resolve(y) PROVE OnePerTick'
  <2>1. job' = [job EXCEPT ![y] = job'[y]] /\ job'[y].age = 0
    BY <1>1, ResolveJob
  <2>2. job[y].at = "idle" /\ ~started /\ started' /\ audit' = audit
    BY <1>1 DEF Resolve
  <2>3. ASSUME NEW t \in DOMAIN audit PROVE One(t)'
    <3>1. CASE t = 0
      <4>1. UnderWay(t) = {} /\ audit[t] = {}
        BY <2>2, <2>3, <3>1 DEF OnePerTick
      <4>2. UnderWay(t)' \subseteq {y}
        BY <2>1, <4>1, OneUnderWay
      <4>3. QED
        BY <2>2, <4>1, <4>2
    <3>2. CASE t # 0
      <4>1. UnderWay(t)' = UnderWay(t)
        BY <2>1, <2>2, <3>2, OneUnderWay
      <4>2. QED
        BY <2>2, <2>3, <3>2, <4>1 DEF OnePerTick
    <3>3. QED
      BY <3>1, <3>2
  <2>4. QED
    BY <2>2, <2>3 DEF OnePerTick
<1>2. ASSUME NEW y \in Sync, FetchSucceeds(y) \/ FetchFails(y) \/ Load(y)
      PROVE  OnePerTick'
  <2>1. /\ job' = [job EXCEPT ![y] = job'[y]]
        /\ job'[y].at # "idle" /\ job'[y].age = job[y].age
    BY <1>2, ProceedJob DEF JobsOK
  <2>2. job[y].at # "idle" /\ UNCHANGED <<audit, started>>
    BY <1>2 DEF FetchSucceeds, FetchFails, Load
  <2>3. \A t : UnderWay(t)' = UnderWay(t)
    BY <2>1, <2>2, OneUnderWay
  <2>4. QED
    BY <2>2, <2>3 DEF OnePerTick
<1>3. ASSUME NEW y \in Sync, job' = [job EXCEPT ![y] = Idle],
             UNCHANGED started, NEW age, job[y].at # "idle",
             job[y].age = age,
             DOMAIN audit' = DOMAIN audit,
             \A t \in DOMAIN audit : t # age => audit'[t] = audit[t]
      PROVE  OnePerTick'
  <2>1. job' = [job EXCEPT ![y] = job'[y]] /\ job'[y].at = "idle"
    BY <1>3, EndJob
  <2>2. ASSUME NEW t \in DOMAIN audit PROVE One(t)'
    <3>1. CASE t = age
      <4>0. y \in UnderWay(t)
        BY <1>3, <3>1 DEF UnderWay
      <4>1. UnderWay(t) = {y}
        BY <2>2, <4>0 DEF OnePerTick
      <4>2. UnderWay(t)' = {}
        BY <2>1, <4>1, OneUnderWay
      <4>3. ~(t = 0 /\ ~started)
        BY <2>2, <4>1 DEF OnePerTick
      <4>4. QED
        BY <1>3, <4>2, <4>3
    <3>2. CASE t # age
      <4>0. y \notin UnderWay(t) /\ ~(y \in UnderWay(t)')
        BY <1>3, <2>1, <3>2, OneUnderWay
      <4>1. UnderWay(t)' = UnderWay(t)
        BY <2>1, <4>0, OneUnderWay
      <4>2. QED
        BY <1>3, <2>2, <3>2, <4>1 DEF OnePerTick
    <3>3. QED
      BY <3>1, <3>2
  <2>3. QED
    BY <1>3, <2>2 DEF OnePerTick
<1>4. ASSUME NEW y \in Sync, Audit(y) PROVE OnePerTick'
  <2>1. /\ Write(job[y].age, FinalDecision(job[y]))
        /\ FinalDecision(job[y]) \in Decision /\ job[y].at # "idle"
    BY <1>4, AuditWrites
  <2>2. \A t \in DOMAIN audit : t # job[y].age => audit'[t] = audit[t]
    BY <2>1, WriteWindow
  <2>3. DOMAIN audit' = DOMAIN audit
    BY <2>1 DEF Write
  <2>4. QED
    BY <1>3, <1>4, <2>1, <2>2, <2>3 DEF Audit
<1>5. ASSUME NEW y \in Sync, LoseSync(y) PROVE OnePerTick'
  BY <1>3, <1>5 DEF LoseSync
<1>6. ASSUME NEW s \in Code, Serve(s) PROVE OnePerTick'
  <2>1. /\ \A t \in DOMAIN audit : t # 0 => audit'[t] = audit[t]
        /\ DOMAIN audit' = DOMAIN audit
    BY <1>6, ServeWrites, ReadFacts, WriteWindow DEF Write
  <2>2. ~started /\ started' /\ \A t : UnderWay(t)' = UnderWay(t)
    BY <1>6 DEF Serve, UnderWay
  <2>3. ASSUME NEW t \in DOMAIN audit PROVE One(t)'
    <3>1. CASE t = 0
      BY <2>2, <2>3, <3>1 DEF OnePerTick
    <3>2. CASE t # 0
      BY <2>1, <2>2, <2>3, <3>2 DEF OnePerTick
    <3>3. QED
      BY <3>1, <3>2
  <2>4. QED
    BY <2>1, <2>3 DEF OnePerTick
<1>7. CASE Tick
  <2>1. /\ DOMAIN audit' = DOMAIN audit /\ DOMAIN audit = 0 .. Lookback - 1
        /\ \A t \in DOMAIN audit : audit'[t] = IF t = 0 THEN {} ELSE audit[t - 1]
    BY <1>7 DEF Tick, TypeOK
  <2>2. ASSUME NEW t \in 0 .. Lookback - 1, NEW y \in UnderWay(t)'
        PROVE  t # 0 /\ t - 1 \in 0 .. Lookback - 1 /\ y \in UnderWay(t - 1)
    <3>1. y \in Sync /\ job'[y].at # "idle" /\ job'[y].age = t
      BY DEF UnderWay
    <3>2. job[y] \in Job /\ job[y].age \in 0 .. Lookback
      BY <3>1 DEF TypeOK, Job, Age
    <3>3. ~(job[y].at = "idle" \/ job[y].age = Lookback)
      <4>1. SUFFICES ASSUME job[y].at = "idle" \/ job[y].age = Lookback
                     PROVE  FALSE
        OBVIOUS
      <4>2. job'[y] = job[y]
        BY <1>7, <3>1, <4>1 DEF Tick
      <4>3. QED
        BY <3>1, <4>1, <4>2, RoutingAssumption
    <3>4. job'[y] = [job[y] EXCEPT !.age = job[y].age + 1]
      BY <1>7, <3>1, <3>3 DEF Tick
    <3>5. job[y].age + 1 = t
      BY <3>1, <3>2, <3>4 DEF Job
    <3>6. t # 0 /\ t - 1 = job[y].age
      BY <3>2, <3>5, RoutingAssumption
    <3>7. QED
      BY <3>1, <3>2, <3>3, <3>6, RoutingAssumption DEF UnderWay
  <2>3. ASSUME NEW t \in 0 .. Lookback - 1 PROVE One(t)'
    <3>1. CASE t = 0
      BY <2>1, <2>2, <3>1
    <3>2. CASE t # 0
      <4>1. ASSUME NEW y \in UnderWay(t)'
            PROVE  audit'[t] = {} /\ UnderWay(t)' = {y}
        <5>1. y \in UnderWay(t - 1) /\ t - 1 \in DOMAIN audit
              /\ audit'[t] = audit[t - 1]
          BY <2>1, <2>2, <3>2, <4>1
        <5>2. audit[t - 1] = {} /\ UnderWay(t - 1) = {y}
          BY <5>1 DEF OnePerTick
        <5>3. UnderWay(t)' \subseteq {y}
          BY <2>2, <5>2
        <5>4. QED
          BY <4>1, <5>1, <5>2, <5>3
      <4>2. QED
        BY <3>2, <4>1
    <3>3. QED
      BY <3>1, <3>2
  <2>4. QED
    BY <2>1, <2>3 DEF OnePerTick
<1>8. CASE UNCHANGED <<audit, job, started>>
  BY <1>8 DEF OnePerTick, UnderWay
<1>9. QED
  BY <1>1, <1>2, <1>4, <1>5, <1>6, <1>7, <1>8
     DEF Next, Proceed, ReadMetrics, ReadStates, Upsert, EndMonitor, vars

LEMMA PlansStep ==
  ASSUME TypeOK, PlansOK, [Next]_vars
  PROVE  PlansOK'
<1> USE DEF monitors
<1>1. ASSUME NEW m \in Monitor, ReadStates(m) PROVE PlansOK'
  <2>1. ASSUME NEW n \in Monitor, NEW s \in todo'[n] \ overtaken'[n], IsOpen(s)'
        PROVE  plan'[n][s] = breaker'[s]
    <3>1. breaker' = breaker /\ overtaken' = overtaken /\ IsOpen(s)
      BY <1>1, <2>1 DEF ReadStates, IsOpen
    <3>2. CASE n = m
      <4>1. s \in Source /\ health[m][s] # "absent"
            /\ plan'[m][s] = Evaluate(health[m][s], breaker[s])
        BY <1>1, <3>2 DEF ReadStates, TypeOK
      <4>2. health[m][s] \in {"hard", "good"} /\ breaker[s] \in Breaker
        BY <4>1 DEF TypeOK, Health
      <4>3. QED
        BY <3>1, <3>2, <4>1, <4>2, EvaluateType DEF IsOpen
    <3>3. CASE n # m
      <4>1. todo'[n] = todo[n] /\ plan'[n] = plan[n]
        BY <1>1, <3>3 DEF ReadStates, TypeOK
      <4>2. QED
        BY <3>1, <4>1 DEF PlansOK
    <3>4. QED
      BY <3>2, <3>3
  <2>2. QED
    BY <2>1 DEF PlansOK
<1>2. ASSUME NEW m \in Monitor, Upsert(m) PROVE PlansOK'
  <2>1. PICK r \in todo[m] :
          /\ breaker' = [breaker EXCEPT ![r] = plan[m][r]]
          /\ plan' = [plan EXCEPT ![m] = [plan[m] EXCEPT ![r] = Closed]]
          /\ todo' = [todo EXCEPT ![m] = todo[m] \ {r}]
          /\ overtaken' = [n \in Monitor |->
               IF n # m /\ r \in todo[n] THEN overtaken[n] \cup {r}
               ELSE overtaken[n] \ (IF n = m THEN {r} ELSE {})]
    BY <1>2 DEF Upsert
  <2>2. ASSUME NEW n \in Monitor, NEW s \in todo'[n] \ overtaken'[n], IsOpen(s)'
        PROVE  plan'[n][s] = breaker'[s]
    <3>1. s \in Source /\ r \in Source /\ s \in todo[n] /\ s # r
          /\ s \notin overtaken[n]
      BY <2>1 DEF TypeOK
    <3>2. breaker'[s] = breaker[s] /\ plan'[n][s] = plan[n][s]
      BY <2>1, <3>1 DEF TypeOK
    <3>3. IsOpen(s)
      BY <2>2, <3>2 DEF IsOpen
    <3>4. QED
      BY <3>1, <3>2, <3>3 DEF PlansOK
  <2>3. QED
    BY <2>2 DEF PlansOK
<1>3. ASSUME NEW m \in Monitor, EndMonitor(m) PROVE PlansOK'
  <2>1. ASSUME NEW n \in Monitor, NEW s \in todo'[n] \ overtaken'[n], IsOpen(s)'
        PROVE  plan'[n][s] = breaker'[s]
    <3>1. n # m /\ todo'[n] = todo[n] /\ plan'[n] = plan[n]
          /\ overtaken'[n] = overtaken[n] /\ breaker' = breaker
      BY <1>3 DEF EndMonitor, TypeOK
    <3>2. QED
      BY <2>1, <3>1 DEF PlansOK, IsOpen
  <2>2. QED
    BY <2>1 DEF PlansOK
<1>4. CASE Tick
  <2>1. ASSUME NEW n \in Monitor, NEW s \in todo'[n] \ overtaken'[n], IsOpen(s)'
        PROVE  plan'[n][s] = breaker'[s]
    <3>1. s \in todo[n] \ overtaken[n] /\ s \in Source
      BY <1>4 DEF Tick, TypeOK
    <3>2. breaker'[s] = Later(breaker[s]) /\ plan'[n][s] = Later(plan[n][s])
      BY <1>4, <3>1 DEF Tick
    <3>3. breaker[s] \in Breaker /\ breaker[s].left \in 0 .. OpenTicks
      BY <3>1 DEF TypeOK, Breaker
    <3>4. IsOpen(s)
      BY <2>1, <3>2, <3>3, LaterType, RoutingAssumption DEF IsOpen
    <3>5. QED
      BY <3>1, <3>2, <3>4 DEF PlansOK
  <2>2. QED
    BY <2>1 DEF PlansOK
<1>5. CASE UNCHANGED <<breaker, plan, todo, overtaken>>
  BY <1>5 DEF PlansOK, IsOpen
<1>6. QED
  BY <1>1, <1>2, <1>3, <1>4, <1>5
     DEF Next, Proceed, Resolve, FetchSucceeds, FetchFails, Load, Audit, Serve,
         LoseSync, ReadMetrics, vars

-----------------------------------------------------------------------------
\* The invariant holds at first and is kept by every step.
THEOREM Invariant == Spec => []Inv
<1>1. Init => Inv
  <2> SUFFICES ASSUME Init PROVE Inv
    OBVIOUS
  <2>1. TypeOK
    <3>2. breaker \in [Source -> Breaker]
      BY ClosedType DEF Init
    <3>3. job \in [Sync -> Job]
      BY IdleType DEF Init
    <3>4. /\ health \in [Monitor -> [Source -> Health]]
          /\ plan \in [Monitor -> [Source -> Breaker]]
      BY NothingTypes DEF Init
    <3>5. audit \in [0 .. Lookback - 1 -> SUBSET Decision]
      BY DEF Init
    <3>6. QED
      BY <3>2, <3>3, <3>4, <3>5 DEF Init, TypeOK
  <2>2. JobsOK
    BY IdleType DEF Init, JobsOK, JobOK
  <2>3. \A t \in DOMAIN audit : audit[t] = {}
    BY DEF Init
  <2>4. OnePerTick
    BY <2>3, IdleType DEF Init, OnePerTick, UnderWay
  <2>5. Window = {}
    BY <2>3, WindowElements
  <2>6. WindowFinite
    BY <2>5, FS_EmptySet DEF WindowFinite
  <2>7. PlansOK
    BY DEF Init, PlansOK
  <2>8. QED
    BY <2>1, <2>2, <2>4, <2>6, <2>7 DEF Inv
<1>2. Inv /\ [Next]_vars => Inv'
  BY TypeStep, OnePerTickStep, WindowStep, PlansStep DEF Inv
<1>3. QED
  BY <1>1, <1>2, PTL DEF Spec

\* Every variable keeps its type: no breaker is ever half open.
THEOREM TypeCorrect == Spec => []TypeOK
<1>1. Inv => TypeOK
  BY DEF Inv
<1>2. QED
  BY <1>1, Invariant, PTL

\* FallbackOrder, for any candidates and any number of syncs: open circuits
\* are tried last, and nobody gives up before all were tried.
THEOREM FallbackSafety == Spec => []FallbackOrder
<1>1. Inv => FallbackOrder
  BY DEF Inv, JobsOK, JobOK, AtSource, FallbackOrder
<1>2. QED
  BY <1>1, Invariant, PTL

-----------------------------------------------------------------------------
\* What the monitor counts of a kind: the decisions of the window that count
\* there.
LEMMA CountFacts ==
  ASSUME Inv, NEW s \in Source
  PROVE  /\ IsFiniteSet({o \in Observations(s) : Success(o[2], s)})
         /\ IsFiniteSet({o \in Observations(s) : Failed(o[2], s)})
         /\ Successes(s) \in Nat /\ Failures(s) \in Nat
<1>1. IsFiniteSet(Observations(s))
  BY FS_Subset DEF Inv, WindowFinite, Observations
<1>2. QED
  BY <1>1, FS_Subset, FS_CardinalityType DEF Successes, Failures

\* They grow by the decision that is written, if it is of that kind.
LEMMA WriteCounts ==
  ASSUME Inv, NEW s \in Source, NEW age, NEW d \in Decision, Write(age, d)
  PROVE  /\ Successes(s)' > Successes(s) => Observed(d, s) /\ Success(d, s)
         /\ Failures(s)' > Failures(s) => Observed(d, s) /\ Failed(d, s)
<1> DEFINE Good == {o \in Observations(s) : Success(o[2], s)}
           Bad == {o \in Observations(s) : Failed(o[2], s)}
<1>1. /\ Good' = {o \in Window' : Observed(o[2], s) /\ Success(o[2], s)}
      /\ Bad' = {o \in Window' : Observed(o[2], s) /\ Failed(o[2], s)}
  BY DEF Observations, Observed, Success, Failed
<1>2. Window' \subseteq Window \cup {<<age, d>>}
  BY WriteWindow DEF Inv
<1>3. ~(Observed(d, s) /\ Success(d, s)) => Good' \subseteq Good
  BY <1>1, <1>2 DEF Observations
<1>4. ~(Observed(d, s) /\ Failed(d, s)) => Bad' \subseteq Bad
  BY <1>1, <1>2 DEF Observations
<1>5. /\ IsFiniteSet(Good) /\ IsFiniteSet(Bad)
      /\ Successes(s) = Cardinality(Good) /\ Failures(s) = Cardinality(Bad)
      /\ Successes(s)' = Cardinality(Good') /\ Failures(s)' = Cardinality(Bad')
      /\ Successes(s) \in Nat /\ Failures(s) \in Nat
  BY CountFacts DEF Successes, Failures
<1> HIDE DEF Good, Bad
<1>6. Good' \subseteq Good =>
        Cardinality(Good') \in Nat /\ Cardinality(Good') <= Cardinality(Good)
  BY <1>5, FS_Subset, FS_CardinalityType
<1>7. Bad' \subseteq Bad =>
        Cardinality(Bad') \in Nat /\ Cardinality(Bad') <= Cardinality(Bad)
  BY <1>5, FS_Subset, FS_CardinalityType
<1>8. ASSUME ~(Observed(d, s) /\ Success(d, s)) PROVE ~(Successes(s)' > Successes(s))
  BY <1>3, <1>5, <1>6, <1>8
<1>9. ASSUME ~(Observed(d, s) /\ Failed(d, s)) PROVE ~(Failures(s)' > Failures(s))
  BY <1>4, <1>5, <1>7, <1>9
<1>10. QED
  BY <1>8, <1>9

\* They do not grow with time.
LEMMA TickCounts ==
  ASSUME Inv, NEW s \in Source, Tick
  PROVE  ~(Successes(s)' > Successes(s)) /\ ~(Failures(s)' > Failures(s))
<1> DEFINE Good == {o \in Observations(s) : Success(o[2], s)}
           Bad == {o \in Observations(s) : Failed(o[2], s)}
<1>1. /\ Good' = {o \in Window' : Observed(o[2], s) /\ Success(o[2], s)}
      /\ Bad' = {o \in Window' : Observed(o[2], s) /\ Failed(o[2], s)}
  BY DEF Observations, Observed, Success, Failed
<1>2. \A o \in Window' : <<o[1] - 1, o[2]>> \in Window
  BY TickWindow DEF Inv
<1>3. \A o \in Good' : <<o[1] - 1, o[2]>> \in Good
  BY <1>1, <1>2 DEF Observations
<1>4. \A o \in Bad' : <<o[1] - 1, o[2]>> \in Bad
  BY <1>1, <1>2 DEF Observations
<1>5. /\ IsFiniteSet(Good) /\ IsFiniteSet(Bad)
      /\ Successes(s) = Cardinality(Good) /\ Failures(s) = Cardinality(Bad)
      /\ Successes(s)' = Cardinality(Good') /\ Failures(s)' = Cardinality(Bad')
      /\ Successes(s) \in Nat /\ Failures(s) \in Nat
  BY CountFacts DEF Successes, Failures
<1>6. Good' \in SUBSET Window' /\ Bad' \in SUBSET Window'
  BY <1>1
<1> HIDE DEF Good, Bad
<1>7. IsFiniteSet(Good') /\ Cardinality(Good') <= Cardinality(Good)
  BY <1>3, <1>5, <1>6, TickShrinks DEF Inv
<1>8. IsFiniteSet(Bad') /\ Cardinality(Bad') <= Cardinality(Bad)
  BY <1>4, <1>5, <1>6, TickShrinks DEF Inv
<1>9. Cardinality(Good') \in Nat /\ Cardinality(Bad') \in Nat
  BY <1>7, <1>8, FS_CardinalityType
<1>10. QED
  BY <1>5, <1>7, <1>8, <1>9

\* What can be behind a success or a failure more.
LEMMA CountSteps ==
  ASSUME Inv, [Next]_vars, NEW s \in Source
  PROVE  /\ Successes(s)' > Successes(s) =>
              \/ \E y \in Sync : /\ Audit(y)
                                 /\ Observed(FinalDecision(job[y]), s)
                                 /\ Success(FinalDecision(job[y]), s)
              \/ Serve(s)
         /\ Failures(s)' > Failures(s) =>
              \E y \in Sync : /\ Audit(y)
                              /\ Observed(FinalDecision(job[y]), s)
                              /\ Failed(FinalDecision(job[y]), s)
<1>1. ASSUME NEW y \in Sync, Audit(y)
      PROVE  /\ Successes(s)' > Successes(s) =>
                  /\ Observed(FinalDecision(job[y]), s)
                  /\ Success(FinalDecision(job[y]), s)
             /\ Failures(s)' > Failures(s) =>
                  /\ Observed(FinalDecision(job[y]), s)
                  /\ Failed(FinalDecision(job[y]), s)
  BY <1>1, AuditWrites, WriteCounts DEF Inv
<1>2. ASSUME NEW r \in Code, Serve(r)
      PROVE  Successes(s)' > Successes(s) => r = s
  <2>1. PICK known \in SUBSET Source, empty \in BOOLEAN :
          Write(0, Read(r, known, empty))
    BY <1>2, ServeWrites
  <2>2. Observed(Read(r, known, empty), s) => r = s
    BY RoutingAssumption DEF Observed, Read, IdOr
  <2>3. QED
    BY <2>1, <2>2, ReadFacts, WriteCounts
<1>3. ASSUME NEW r \in Code, Serve(r)
      PROVE  ~(Failures(s)' > Failures(s))
  <2>1. PICK known \in SUBSET Source, empty \in BOOLEAN :
          Write(0, Read(r, known, empty))
    BY <1>3, ServeWrites
  <2>2. ~Failed(Read(r, known, empty), s)
    BY DEF Failed, Read, Failing
  <2>3. QED
    BY <2>1, <2>2, ReadFacts, WriteCounts
<1>4. CASE Tick
  BY <1>4, TickCounts
<1>5. CASE UNCHANGED audit
  <2>1. Successes(s)' = Successes(s) /\ Failures(s)' = Failures(s)
    BY <1>5 DEF Successes, Failures, Observations, Window, Observed, Success, Failed
  <2>2. Successes(s) \in Nat /\ Failures(s) \in Nat
    BY CountFacts
  <2>3. QED
    BY <2>1, <2>2
<1>6. QED
  BY <1>1, <1>2, <1>3, <1>4, <1>5, AuditCases

\* FailureNoted, for any number of syncs, reads and sources: a failure is lost
\* only on the source that was asked for by name.
THEOREM FailureNotedSafety == Spec => FailureNoted
<1> DEFINE Noted(y, s) ==
             (/\ Audit(y)
              /\ job[y].selected = s
              /\ job[y].source # s \/ job[y].status \in Failing
              /\ job[y].age < Lookback)
             => \/ Failures(s)' > Failures(s)
                \/ job[y].requested = s /\ job[y].known # {s}
<1>1. ASSUME Inv, NEW y \in Sync, NEW s \in Source, Audit(y),
             job[y].selected = s,
             job[y].source # s \/ job[y].status \in Failing,
             job[y].age < Lookback,
             ~(job[y].requested = s /\ job[y].known # {s})
      PROVE  Failures(s)' > Failures(s)
  <2> DEFINE d == FinalDecision(job[y])
             o == <<job[y].age, d>>
             Bad == {p \in Observations(s) : Failed(p[2], s)}
  <2>1. /\ job[y] \in Job /\ job[y].at = "audit" /\ d \in Decision
        /\ Write(job[y].age, d)
    BY <1>1, AuditWrites DEF Inv
  <2>2. job[y].age \in DOMAIN audit
    BY <1>1, <2>1, RoutingAssumption DEF Inv, TypeOK, Job, Age
  <2>3. JobOK(job[y])
    BY <1>1 DEF Inv, JobsOK
  <2>4. s \in job[y].known
    BY <1>1, <2>1, <2>3 DEF JobOK
  <2>5. d.selected = s /\ d.status = job[y].status
    BY <1>1, <2>1, <2>4, FinalDecisionFacts
  <2>6. Failed(d, s)
    <3>1. job[y].status # "success" \/ job[y].status \in Failing
      BY <1>1, <2>1, <2>3 DEF JobOK
    <3>2. job[y].status \in DecisionStatus
      BY <2>1 DEF Job
    <3>3. QED
      BY <2>5, <3>1, <3>2 DEF Failed, DecisionStatus, Failing
  <2>7. audit[job[y].age] = {}
    BY <1>1, <2>1, <2>2 DEF Inv, OnePerTick, UnderWay
  <2>8. o \notin Window
    BY <2>7, WindowElements
  <2>9. d.selected # NoSource
    BY <2>5, RoutingAssumption
  <2> HIDE DEF d
  <2>10. Window' = Window \cup {o}
    BY <1>1, <2>1, <2>2, <2>9, WriteWindow DEF Inv
  <2>11. /\ Bad' = {p \in Window' : Observed(p[2], s) /\ Failed(p[2], s)}
         /\ Bad = {p \in Window : Observed(p[2], s) /\ Failed(p[2], s)}
    BY DEF Observations, Observed, Failed
  <2>12. Bad' = Bad \cup {o} /\ o \notin Bad
    BY <2>5, <2>6, <2>8, <2>10, <2>11 DEF Observed
  <2>13. /\ IsFiniteSet(Bad) /\ Failures(s) = Cardinality(Bad)
         /\ Failures(s)' = Cardinality(Bad') /\ Failures(s) \in Nat
    BY <1>1, CountFacts DEF Failures
  <2> HIDE DEF Bad, o
  <2>14. Cardinality(Bad') = Cardinality(Bad) + 1
    BY <2>12, <2>13, FS_AddElement
  <2>15. QED
    BY <2>13, <2>14
<1>2. ASSUME Inv PROVE \A y \in Sync : \A s \in Source : Noted(y, s)
  BY <1>1, <1>2
<1>3. Inv /\ [Next]_vars => \A y \in Sync : \A s \in Source : Noted(y, s)
  BY <1>2
<1> HIDE DEF Noted
<1>4. Spec => [][\A y \in Sync : \A s \in Source : Noted(y, s)]_vars
  BY <1>3, Invariant, PTL DEF Spec
<1>5. QED
  BY <1>4 DEF FailureNoted, Noted

\* BlameDue, for any number of syncs, reads and sources: whoever is blamed was
\* tried and did not deliver, or a sync failed with what it delivered.
THEOREM BlameSafety == Spec => BlameDue
<1> DEFINE Due ==
             audit' # audit => \A s \in Source : Failures(s)' > Failures(s) =>
               \E y \in Sync : /\ Audit(y)
                               /\ s \in job[y].tried
                               /\ job[y].source # s \/ job[y].status \in Failing
<1>1. ASSUME Inv, [Next]_vars, NEW s \in Source, Failures(s)' > Failures(s)
      PROVE  \E y \in Sync : /\ Audit(y)
                             /\ s \in job[y].tried
                             /\ job[y].source # s \/ job[y].status \in Failing
  <2>1. PICK y \in Sync : /\ Audit(y)
                          /\ Observed(FinalDecision(job[y]), s)
                          /\ Failed(FinalDecision(job[y]), s)
    BY <1>1, CountSteps
  <2>2. job[y] \in Job /\ job[y].at = "audit" /\ JobOK(job[y])
    BY <1>1, <2>1, AuditWrites DEF Inv, JobsOK
  <2> DEFINE d == FinalDecision(job[y])
  <2>3. /\ d.selected = IF job[y].selected \in job[y].known
                        THEN job[y].selected ELSE NoSource
        /\ d.final = IF job[y].source \in job[y].known THEN job[y].source
                     ELSE d.selected
        /\ d.status = job[y].status
    BY <2>2, FinalDecisionFacts
  <2>4. s # NoSource
    BY RoutingAssumption
  <2>5. {job[y].selected, job[y].source} \subseteq job[y].tried
    BY <2>2 DEF JobOK
  <2>6. Observed(d, s) /\ Failed(d, s)
    BY <2>1
  <2> HIDE DEF d
  <2>7. s \in job[y].tried
    BY <2>3, <2>4, <2>5, <2>6 DEF Observed
  <2>8. job[y].source # s \/ job[y].status \in Failing
    <3>1. SUFFICES ASSUME job[y].source = s, job[y].status \notin Failing
                   PROVE  FALSE
      OBVIOUS
    <3>2. d.selected = s /\ job[y].status = "fallback_success"
      BY <2>3, <2>6, <3>1 DEF Failed
    <3>3. job[y].selected = s
      BY <2>3, <2>4, <3>2
    <3>4. QED
      BY <2>2, <3>1, <3>2, <3>3 DEF JobOK
  <2>9. QED
    BY <2>1, <2>7, <2>8
<1>2. Inv /\ [Next]_vars => Due
  BY <1>1
<1> HIDE DEF Due
<1>3. Spec => [][Due]_vars
  BY <1>2, Invariant, PTL DEF Spec
<1>4. QED
  BY <1>3 DEF BlameDue, Due

\* CreditDue, for any number of syncs, reads and sources: nobody but the
\* source that delivered, or that a read would have used, gains a success.
THEOREM CreditSafety == Spec => CreditDue
<1> DEFINE Due ==
             audit' # audit => \A s \in Source : Successes(s)' > Successes(s) =>
               \/ \E y \in Sync : /\ Audit(y)
                                  /\ job[y].source = s
                                  /\ job[y].status \notin Failing
               \/ Serve(s)
<1>1. ASSUME Inv, [Next]_vars, NEW s \in Source, Successes(s)' > Successes(s),
             ~Serve(s)
      PROVE  \E y \in Sync : /\ Audit(y)
                             /\ job[y].source = s
                             /\ job[y].status \notin Failing
  <2>1. PICK y \in Sync : /\ Audit(y)
                          /\ Observed(FinalDecision(job[y]), s)
                          /\ Success(FinalDecision(job[y]), s)
    BY <1>1, CountSteps
  <2>2. job[y] \in Job /\ job[y].at = "audit" /\ JobOK(job[y])
    BY <1>1, <2>1, AuditWrites DEF Inv, JobsOK
  <2> DEFINE d == FinalDecision(job[y])
  <2>3. /\ d.selected = IF job[y].selected \in job[y].known
                        THEN job[y].selected ELSE NoSource
        /\ d.final = IF job[y].source \in job[y].known THEN job[y].source
                     ELSE d.selected
        /\ d.status = job[y].status
    BY <2>2, FinalDecisionFacts
  <2>4. s # NoSource
    BY RoutingAssumption
  <2>5. Observed(d, s) /\ Success(d, s)
    BY <2>1
  <2> HIDE DEF d
  <2>6. job[y].status \in {"success", "fallback_success"}
    BY <2>3, <2>5 DEF Success
  <2>7. CASE d.selected = s
    <3>1. job[y].status = "success"
      BY <2>3, <2>5, <2>7 DEF Success
    <3>2. job[y].source = job[y].selected
      BY <2>2, <3>1 DEF JobOK
    <3>3. QED
      BY <2>1, <2>3, <2>4, <2>6, <2>7, <3>2 DEF Failing
  <2>8. CASE d.selected # s
    <3>1. d.final = s
      BY <2>5, <2>8 DEF Observed
    <3>2. job[y].source = s
      BY <2>3, <2>8, <3>1
    <3>3. QED
      BY <2>1, <2>6, <3>2 DEF Failing
  <2>9. QED
    BY <2>7, <2>8
<1>2. Inv /\ [Next]_vars => Due
  BY <1>1
<1> HIDE DEF Due
<1>3. Spec => [][Due]_vars
  BY <1>2, Invariant, PTL DEF Spec
<1>4. QED
  BY <1>3 DEF CreditDue, Due

-----------------------------------------------------------------------------
\* OpenUntilHonoured, for any number of monitors: a circuit opens up early
\* only by the write of a monitor that was overtaken; one that runs alone
\* never does that.
THEOREM OpenSafety == Spec => OpenUntilHonoured
<1> DEFINE Honoured ==
             \A s \in Source : IsOpen(s) /\ ~IsOpen(s)' =>
               \/ breaker[s].left = 1 /\ breaker'[s] = Later(breaker[s])
               \/ \E m \in Monitor : s \in todo[m] /\ s \in overtaken[m]
<1>1. ASSUME Inv, [Next]_vars PROVE Honoured
  <2>1. ASSUME NEW s \in Source, IsOpen(s), ~IsOpen(s)'
        PROVE  \/ breaker[s].left = 1 /\ breaker'[s] = Later(breaker[s])
               \/ \E m \in Monitor : s \in todo[m] /\ s \in overtaken[m]
    <3>1. ASSUME NEW m \in Monitor, Upsert(m)
          PROVE  s \in todo[m] /\ s \in overtaken[m]
      <4>1. PICK r \in todo[m] : breaker' = [breaker EXCEPT ![r] = plan[m][r]]
        BY <3>1 DEF Upsert
      <4>2. s = r
        BY <1>1, <2>1, <4>1 DEF Inv, TypeOK, IsOpen
      <4>3. breaker'[s] = plan[m][s]
        BY <1>1, <4>1, <4>2 DEF Inv, TypeOK
      <4>4. plan[m][s] # breaker[s]
        BY <2>1, <4>3 DEF IsOpen
      <4>5. QED
        BY <1>1, <2>1, <4>1, <4>2, <4>4 DEF Inv, PlansOK
    <3>2. CASE Tick
      <4>1. breaker'[s] = Later(breaker[s])
        BY <3>2 DEF Tick
      <4>2. breaker[s] \in Breaker /\ breaker[s].left \in 0 .. OpenTicks
        BY <1>1 DEF Inv, TypeOK, Breaker
      <4>3. breaker[s].left > 0 /\ ~(breaker[s].left - 1 > 0)
        BY <2>1, <4>1, <4>2, LaterType, RoutingAssumption DEF IsOpen
      <4>4. breaker[s].left = 1
        BY <4>2, <4>3, RoutingAssumption
      <4>5. QED
        BY <4>1, <4>4
    <3>3. CASE UNCHANGED breaker
      BY <2>1, <3>3 DEF IsOpen
    <3>4. QED
      BY <1>1, <3>1, <3>2, <3>3
         DEF Next, Proceed, Resolve, FetchSucceeds, FetchFails, Load, Audit,
             Serve, LoseSync, ReadMetrics, ReadStates, EndMonitor, vars
  <2>2. QED
    BY <2>1
<1>2. Spec => [][Honoured]_vars
  BY <1>1, Invariant, PTL DEF Spec
<1>3. QED
  BY <1>2 DEF OpenUntilHonoured

-----------------------------------------------------------------------------
(***************************************************************************)
(* A sync has a bounded number of steps to its end, if its fetches end.    *)
(***************************************************************************)
StepsLeft(j) ==
  CASE j.at = "idle" -> 0
    [] j.at = "audit" -> 1
    [] j.at = "load" -> 2
    [] j.at = "fetch" -> 2 + Cardinality(Code \ j.tried)

MaxSteps == 2 + Cardinality(Code)

LEMMA StepsTypes ==
  ASSUME NEW j \in Job
  PROVE  /\ StepsLeft(j) \in 0 .. MaxSteps /\ MaxSteps \in Nat
         /\ Cardinality(Code \ j.tried) \in Nat
<1>1. IsFiniteSet(Code \ j.tried)
      /\ Cardinality(Code \ j.tried) <= Cardinality(Code)
  BY CodesFinite, FS_Subset
<1>2. Cardinality(Code \ j.tried) \in Nat /\ Cardinality(Code) \in Nat
  BY <1>1, CodesFinite, FS_CardinalityType
<1>3. j.at \in {"idle", "fetch", "load", "audit"}
  BY DEF Job
<1>4. CASE j.at = "fetch"
  BY <1>1, <1>2, <1>4 DEF StepsLeft, MaxSteps
<1>5. CASE j.at # "fetch"
  BY <1>2, <1>3, <1>5 DEF StepsLeft, MaxSteps
<1>6. QED
  BY <1>2, <1>4, <1>5

\* A step of a sync brings it nearer to its end, a fallback by the source it
\* has now tried.
LEMMA ProceedShortens ==
  ASSUME TypeOK, NEW y \in Sync, JobOK(job[y]), Proceed(y)
  PROVE  StepsLeft(job'[y]) < StepsLeft(job[y])
<1> DEFINE j == job[y]
<1>1. j \in Job /\ j.source \in Code /\ j.tried \subseteq Code
  BY DEF TypeOK, Job
<1>2. Cardinality(Code \ j.tried) \in Nat
  BY <1>1, StepsTypes
<1>3. ASSUME j.at = "fetch"
      PROVE  /\ Cardinality(Code \ Attempts(y)) = Cardinality(Code \ j.tried) - 1
             /\ Cardinality(Code \ Attempts(y)) \in Nat
             /\ StepsLeft(j) = 2 + Cardinality(Code \ j.tried)
  <2>1. Code \ Attempts(y) = (Code \ j.tried) \ {j.source}
    BY DEF Attempts
  <2>2. j.source \in Code \ j.tried
    BY <1>1, <1>3 DEF JobOK
  <2>3. IsFiniteSet(Code \ j.tried)
    BY CodesFinite, FS_Subset
  <2>4. Cardinality(Code \ Attempts(y)) = Cardinality(Code \ j.tried) - 1
    <3> DEFINE S == Code \ j.tried
    <3>1. IsFiniteSet(S) /\ j.source \in S /\ Code \ Attempts(y) = S \ {j.source}
      BY <2>1, <2>2, <2>3
    <3> HIDE DEF S, j
    <3>2. Cardinality(S \ {j.source}) = Cardinality(S) - 1
      BY <3>1, FS_RemoveElement
    <3>3. QED
      BY <3>1, <3>2 DEF S
  <2>5. Cardinality(Code \ Attempts(y)) \in Nat
    BY <2>1, <2>3, FS_RemoveElement, FS_CardinalityType
  <2>6. QED
    BY <1>3, <2>4, <2>5 DEF StepsLeft
<1>4. CASE FetchSucceeds(y)
  <2>1. j.at = "fetch" /\ job'[y].at = "load"
    BY <1>1, <1>4 DEF FetchSucceeds, TypeOK, Job
  <2>2. StepsLeft(job'[y]) = 2
    BY <2>1 DEF StepsLeft
  <2>3. QED
    BY <1>2, <1>3, <2>1, <2>2
<1>5. CASE FetchFails(y)
  <2>1. j.at = "fetch"
    BY <1>5 DEF FetchFails
  <2>2. \/ job'[y].at = "fetch" /\ job'[y].tried = Attempts(y)
        \/ job'[y].at = "audit"
    <3>1. CASE \E s \in NextSources(y) :
                 job' = [job EXCEPT ![y].source = s, ![y].tried = Attempts(y)]
      <4>1. PICK s \in NextSources(y) :
              job' = [job EXCEPT ![y] = [j EXCEPT !.source = s, !.tried = Attempts(y)]]
        BY <3>1
      <4>2. job'[y] = [j EXCEPT !.source = s, !.tried = Attempts(y)]
        BY <4>1 DEF TypeOK
      <4>3. QED
        BY <1>1, <2>1, <4>2 DEF Job
    <3>2. CASE job' = [job EXCEPT ![y].at = "audit", ![y].tried = Attempts(y),
                 ![y].skipped = {}, ![y].empty = TRUE,
                 ![y].status = IF Cardinality(Attempts(y)) > 1
                               THEN "fallback_failed" ELSE "failed"]
      <4>1. PICK status \in Failing :
              job' = [job EXCEPT ![y] =
                [j EXCEPT !.at = "audit", !.tried = Attempts(y), !.skipped = {},
                          !.empty = TRUE, !.status = status]]
        BY <3>2 DEF Failing
      <4>2. job'[y] = [j EXCEPT !.at = "audit", !.tried = Attempts(y),
                                !.skipped = {}, !.empty = TRUE,
                                !.status = status]
        BY <4>1 DEF TypeOK
      <4>3. QED
        BY <1>1, <4>2 DEF Job
    <3>3. QED
      BY <1>5, <3>1, <3>2 DEF FetchFails
  <2>3. \/ StepsLeft(job'[y]) = 2 + Cardinality(Code \ Attempts(y))
        \/ StepsLeft(job'[y]) = 1
    BY <2>2 DEF StepsLeft
  <2>4. QED
    BY <1>2, <1>3, <2>1, <2>3
<1>6. CASE Load(y)
  <2>1. j.at = "load" /\ job'[y].at = "audit"
    BY <1>1, <1>6 DEF Load, TypeOK, Job
  <2>2. QED
    BY <2>1 DEF StepsLeft
<1>7. CASE Audit(y)
  <2>1. j.at = "audit" /\ job'[y].at = "idle"
    BY <1>7, IdleType DEF Audit, TypeOK
  <2>2. QED
    BY <2>1 DEF StepsLeft
<1>8. QED
  BY <1>4, <1>5, <1>6, <1>7 DEF Proceed

\* No step of anybody else puts a sync under way off: it leaves the job as it
\* is, makes it older, or ends it.
LEMMA OthersShorten ==
  ASSUME TypeOK, [Next]_vars, NEW y \in Sync, job[y].at # "idle", ~Proceed(y)
  PROVE  StepsLeft(job'[y]) <= StepsLeft(job[y])
<1>1. job[y] \in Job /\ StepsLeft(job[y]) \in Nat /\ job[y].age \in Age
  <2>1. job[y] \in Job
    BY DEF TypeOK
  <2>2. StepsLeft(job[y]) \in 0 .. MaxSteps /\ MaxSteps \in Nat
    BY <2>1, StepsTypes
  <2>3. QED
    BY <2>1, <2>2 DEF Job
<1>2. ASSUME NEW z \in Sync, Resolve(z) \/ Proceed(z) \/ LoseSync(z), z # y
      PROVE  job'[y] = job[y]
  BY <1>2 DEF Resolve, Proceed, FetchSucceeds, FetchFails, Load, Audit,
     LoseSync, TypeOK
<1>3. CASE LoseSync(y)
  <2>1. job'[y].at = "idle"
    BY <1>3, IdleType DEF LoseSync, TypeOK
  <2>2. StepsLeft(job'[y]) = 0
    BY <2>1 DEF StepsLeft
  <2>3. QED
    BY <1>1, <2>2
<1>4. CASE Tick
  <2>1. \/ job'[y] = job[y]
        \/ job'[y] = [job[y] EXCEPT !.age = job[y].age + 1]
    BY <1>4 DEF Tick
  <2>2. job'[y].at = job[y].at /\ job'[y].tried = job[y].tried
    BY <1>1, <2>1 DEF Job
  <2>3. StepsLeft(job'[y]) = StepsLeft(job[y])
    BY <2>2 DEF StepsLeft
  <2>4. QED
    BY <1>1, <2>3
<1>5. ASSUME job'[y] = job[y] PROVE StepsLeft(job'[y]) <= StepsLeft(job[y])
  BY <1>1, <1>5
<1>6. ASSUME NEW m \in Monitor,
             ReadMetrics(m) \/ ReadStates(m) \/ Upsert(m) \/ EndMonitor(m)
      PROVE  job' = job
  BY <1>6 DEF ReadMetrics, ReadStates, Upsert, EndMonitor
<1>7. ASSUME NEW s \in Code, Serve(s) PROVE job' = job
  BY <1>7 DEF Serve
<1>8. ~Resolve(y)
  BY DEF Resolve
<1>9. QED
  BY <1>2, <1>3, <1>4, <1>5, <1>6, <1>7, <1>8 DEF Next, vars

\* A sync has at most MaxSteps steps to its end, each of its own is one less,
\* and no other step, of another sync, a monitor or time, makes them more: the
\* fallback sequence cannot go round (_provider_attempt_sequence).
THEOREM SyncShortens ==
  Spec => /\ [](\A y \in Sync : StepsLeft(job[y]) \in 0 .. MaxSteps)
          /\ [][\A y \in Sync : job[y].at # "idle" =>
                  /\ StepsLeft(job'[y]) <= StepsLeft(job[y])
                  /\ Proceed(y) => StepsLeft(job'[y]) < StepsLeft(job[y])]_vars
<1> DEFINE Bounded == \A y \in Sync : StepsLeft(job[y]) \in 0 .. MaxSteps
           Shortens ==
             \A y \in Sync : job[y].at # "idle" =>
               /\ StepsLeft(job'[y]) <= StepsLeft(job[y])
               /\ Proceed(y) => StepsLeft(job'[y]) < StepsLeft(job[y])
<1>1. ASSUME Inv PROVE Bounded
  BY <1>1, StepsTypes DEF Inv, TypeOK
<1>2. ASSUME Inv, Inv', [Next]_vars PROVE Shortens
  <2>1. ASSUME NEW y \in Sync, job[y].at # "idle"
        PROVE  /\ StepsLeft(job'[y]) <= StepsLeft(job[y])
               /\ Proceed(y) => StepsLeft(job'[y]) < StepsLeft(job[y])
    <3>1. StepsLeft(job[y]) \in Nat /\ StepsLeft(job'[y]) \in Nat
      <4>1. job[y] \in Job /\ job'[y] \in Job
        BY <1>2 DEF Inv, TypeOK
      <4>2. /\ StepsLeft(job[y]) \in 0 .. MaxSteps
            /\ StepsLeft(job'[y]) \in 0 .. MaxSteps
            /\ MaxSteps \in Nat
        BY <4>1, StepsTypes
      <4>3. QED
        BY <4>2
    <3>2. CASE Proceed(y)
      <4>1. StepsLeft(job'[y]) < StepsLeft(job[y])
        BY <1>2, <3>2, ProceedShortens DEF Inv, JobsOK
      <4>2. QED
        BY <3>1, <4>1
    <3>3. CASE ~Proceed(y)
      BY <1>2, <2>1, <3>3, OthersShorten DEF Inv
    <3>4. QED
      BY <3>2, <3>3
  <2>2. QED
    BY <2>1
<1> HIDE DEF Bounded, Shortens
<1>3. Spec => []Bounded /\ [][Shortens]_vars
  BY <1>1, <1>2, Invariant, PTL DEF Spec
<1>4. QED
  BY <1>3 DEF Bounded, Shortens
=============================================================================
