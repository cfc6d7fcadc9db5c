---------------------------- MODULE SourceRouting ----------------------------
(***************************************************************************)
(* The closed loop of source routing for one dataset: syncs resolve a      *)
(* source (qdata/phi5_route_policy.py), fall back to others                *)
(* (qdata/sources/sync.py) and leave a decision in the audit, and so does  *)
(* the API for every read it routes (qdata/api/server.py), which fetches   *)
(* nothing; monitors (qdata/chi5_route_feedback.py) read the decisions of  *)
(* the last Lookback ticks, whoever wrote them, and open or close the      *)
(* circuit breaker of each source, which the next resolutions skip while   *)
(* it is open.                                                             *)
(*                                                                         *)
(* Times are relative: a decision by the ticks since its sync started, an  *)
(* open circuit by the ticks left until open_until.  A policy has at most  *)
(* two candidates, as the free source is the backup, so that fallbacks     *)
(* need no order.  Rates are percentages; the latency check is off         *)
(* (max_latency_p95_ms = 0).  Health snapshots and recovery probes are     *)
(* rows nobody reads back, and nothing sets a breaker to disabled.         *)
(***************************************************************************)
EXTENDS Naturals, FiniteSets

CONSTANTS
  Source,      \* sources of the dataset, rows of qmeta.source_system
  NoSource,    \* an id that is NULL
  Requested,   \* codes that syncs and reads ask for, of a source or not
  Policy,      \* active route policies: the sources whose ids a row brings,
               \*  those with a weight, and whether the backup has a weight
               \*  but no source
  Sync,        \* syncs that may run at the same time
  Monitor,     \* run_source_route_feedback_monitor calls, likewise
  Lookback,    \* ticks of lookback_hours
  OpenTicks,   \* ticks of circuit_open_minutes
  MinSuccess, MaxFailure, MaxFallback, MaxEmpty   \* thresholds

ASSUME RoutingAssumption ==
  /\ Source # {} /\ IsFiniteSet(Source)
  /\ IsFiniteSet(Requested)
  /\ NoSource \notin Source
  /\ \A p \in Policy : /\ p.candidates \subseteq p.named
                       /\ p.named \subseteq Source
                       /\ p.vacant \in BOOLEAN
  /\ Lookback \in Nat /\ OpenTicks \in Nat
  /\ MinSuccess \in Nat /\ MaxFailure \in Nat /\ MaxFallback \in Nat
  /\ MaxEmpty \in Nat

Age == 0 .. Lookback           \* Lookback and more is out of the window
Failing == {"failed", "fallback_failed"}
DecisionStatus == Failing \cup {"success", "fallback_success"}
Code == Source \cup Requested
SourceId == Source \cup {NoSource}
Decision == [selected : SourceId, final : SourceId, status : DecisionStatus,
             fallback : BOOLEAN, empty : BOOLEAN]

\* Status and ticks until open_until of a breaker; a source without a row
\* counts as closed everywhere.
Breaker == [status : {"closed", "open"}, left : 0 .. OpenTicks]
Closed == [status |-> "closed", left |-> 0]

Health == {"absent", "hard", "good"}

Job == [at : {"idle", "fetch", "load", "audit"}, selected : Code,
        source : Code, requested : Code, fallbacks : SUBSET Code,
        known : SUBSET Source, skipped : SUBSET Source,
        tried : SUBSET Code, age : Age, status : DecisionStatus,
        empty : BOOLEAN]

VARIABLES
  audit,    \* [ages in the window -> decisions of what started then]
  breaker,  \* [Source -> Breaker]
  job,      \* [Sync -> Job]
  started,  \* has a sync or a read started in this tick?
  mpc,      \* [Monitor -> control point]
  health,   \* [Monitor -> what the metrics it read make of each source]
  plan,     \* [Monitor -> [Source -> Breaker to be written]]
  todo,     \* [Monitor -> sources to be written]
  overtaken \* history: [Monitor -> those that another monitor wrote since]

monitors == <<mpc, health, plan, todo, overtaken>>
vars == <<audit, breaker, job, started, monitors>>

AnySource == CHOOSE s \in Source : TRUE
Idle == [at |-> "idle", selected |-> AnySource, source |-> AnySource,
         requested |-> AnySource, fallbacks |-> {}, known |-> {},
         skipped |-> {}, tried |-> {}, age |-> 0, status |-> "success",
         empty |-> FALSE]
NoHealth == [s \in Source |-> "absent"]
NoPlan == [s \in Source |-> Closed]

TypeOK ==
  /\ audit \in [0 .. Lookback - 1 -> SUBSET Decision]
  /\ breaker \in [Source -> Breaker]
  /\ job \in [Sync -> Job]
  /\ started \in BOOLEAN
  /\ mpc \in [Monitor -> {"idle", "states", "write"}]
  /\ health \in [Monitor -> [Source -> Health]]
  /\ plan \in [Monitor -> [Source -> Breaker]]
  /\ todo \in [Monitor -> SUBSET Source]
  /\ overtaken \in [Monitor -> SUBSET Source]

Init ==
  /\ audit = [t \in 0 .. Lookback - 1 |-> {}]
  /\ breaker = [s \in Source |-> Closed]
  /\ job = [y \in Sync |-> Idle]
  /\ started = FALSE
  /\ mpc = [m \in Monitor |-> "idle"]
  /\ health = [m \in Monitor |-> NoHealth]
  /\ plan = [m \in Monitor |-> NoPlan]
  /\ todo = [m \in Monitor |-> {}]
  /\ overtaken = [m \in Monitor |-> {}]

-----------------------------------------------------------------------------
(***************************************************************************)
(* The resolution of a source.                                             *)
(***************************************************************************)
\* _is_circuit_open
IsOpen(s) == breaker[s].status = "open" /\ breaker[s].left > 0

\* build_route_candidates: those with a weight, where the requested source
\* stands in for a backup without a source, and for all if there are none.
Candidates(p, requested) ==
  p.candidates \cup
    (IF p.vacant \/ p.candidates = {} THEN {requested} ELSE {})

\* Mutant: the breakers are not looked at.
MutantRouted(candidates, open) == candidates

\* filter_route_candidates_by_circuit
Routed(candidates, open) ==
  IF candidates \subseteq open THEN candidates ELSE candidates \ open

\* The bucket of the request key may select any candidate.  The dict of the
\* ids has the requested source last, with a column that the policies do not
\* have: its own id is lost.
RoutesPast(p, requested, open) ==
  LET routed == Routed(Candidates(p, requested), open)
  IN  {[selected |-> s, fallbacks |-> routed \ {s},
        known |-> p.named \ {requested}, skipped |-> open] : s \in routed}

\* Circuit states that cannot be loaded count as closed.
PolicyRoutes(p, requested) ==
  RoutesPast(p, requested,
             {s \in Source \cap Candidates(p, requested) : IsOpen(s)})
    \cup RoutesPast(p, requested, {})

\* resolve_source_route, where no policy or one is active: the source
\* selected, the others, those whose id is known, those with an open circuit.
Routes(requested) ==
  {[selected |-> requested, fallbacks |-> {}, known |-> Source \cap {requested},
    skipped |-> {}]}
    \cup UNION {PolicyRoutes(p, requested) : p \in Policy}

\* write_source_route_decision_audit, of a decision that started then.  Rows
\* without a selected_source_id are not kept: the monitors leave them out.
Write(age, decision) ==
  audit' = [t \in DOMAIN audit |->
             IF t = age /\ decision.selected # NoSource
             THEN audit[t] \cup {decision} ELSE audit[t]]

-----------------------------------------------------------------------------
(***************************************************************************)
(* A sync, and a read of the API.                                          *)
(***************************************************************************)
\* One sync or read starts per tick (bound).
Resolve(y) ==
  /\ job[y].at = "idle"
  /\ ~started
  /\ \E requested \in Requested : \E r \in Routes(requested) :
       job' = [job EXCEPT ![y] =
                [Idle EXCEPT !.at = "fetch", !.selected = r.selected,
                             !.source = r.selected, !.fallbacks = r.fallbacks,
                             !.requested = requested, !.known = r.known,
                             !.skipped = r.skipped]]
  /\ started' = TRUE
  /\ UNCHANGED <<audit, breaker, monitors>>

Attempts(y) == job[y].tried \cup {job[y].source}

\* create_provider, which knows no other codes than those of the sources, and
\* fetch: bars were returned.
FetchSucceeds(y) ==
  /\ job[y].at = "fetch"
  /\ job[y].source \in Source
  /\ job' = [job EXCEPT ![y].at = "load", ![y].tried = Attempts(y),
                        ![y].skipped = {}]
  /\ UNCHANGED <<audit, breaker, started, monitors>>

\* _provider_attempt_sequence: what is left of it.
NextSources(y) ==
  LET fallbacks == job[y].fallbacks \ Attempts(y)
  IN  IF fallbacks = {} THEN {job[y].requested} \ Attempts(y) ELSE fallbacks

\* An error or no bars: the next of the sequence, or the end of it.
FetchFails(y) ==
  /\ job[y].at = "fetch"
  /\ \/ \E s \in NextSources(y) :
          job' = [job EXCEPT ![y].source = s, ![y].tried = Attempts(y)]
     \/ /\ NextSources(y) = {}
        /\ job' = [job EXCEPT ![y].at = "audit", ![y].tried = Attempts(y),
             ![y].skipped = {}, ![y].empty = TRUE,
             ![y].status = IF Cardinality(Attempts(y)) > 1
                           THEN "fallback_failed" ELSE "failed"]
  /\ UNCHANGED <<audit, breaker, started, monitors>>

\* Mutant: a fallback that worked is a plain success.
MutantLoadStatus(y) == "success"

LoadStatus(y) ==
  IF Cardinality(job[y].tried) > 1 THEN "fallback_success" ELSE "success"

\* Export, quality gate and load (a dry run ends with the gate), which raise
\* for reasons of their own too.
Load(y) ==
  /\ job[y].at = "load"
  /\ \E status \in {LoadStatus(y), "failed"} :
       job' = [job EXCEPT ![y].at = "audit", ![y].status = status]
  /\ UNCHANGED <<audit, breaker, started, monitors>>

\* The id under which a source is recorded, where it is known.
IdOr(s, known, other) == IF s \in known THEN s ELSE other

\* finalize_route_decision: the final source by its id, where it is known,
\* and else whatever is recorded of the selected one.
FinalDecision(j) ==
  LET selected == IdOr(j.selected, j.known, NoSource) IN
  [selected |-> selected, final |-> IdOr(j.source, j.known, selected),
   status |-> j.status, fallback |-> j.source # j.selected, empty |-> j.empty]

\* Under the start of the sync.
Audit(y) ==
  /\ job[y].at = "audit"
  /\ Write(job[y].age, FinalDecision(job[y]))
  /\ job' = [job EXCEPT ![y] = Idle]
  /\ UNCHANGED <<breaker, started, monitors>>

\* _resolve_api_route_decision and _attach_route_policy, a read within a tick:
\* a success of the source s that was selected, from which nothing is
\* fetched, with the rows of the answer, which may be none.
Serve(s) ==
  /\ ~started
  /\ \E requested \in Requested : \E r \in Routes(requested) :
       \E empty \in BOOLEAN :
         LET id == IdOr(s, r.known, NoSource) IN
         /\ s = r.selected
         /\ Write(0, [selected |-> id, final |-> id, status |-> "success",
                      fallback |-> FALSE, empty |-> empty])
  /\ started' = TRUE
  /\ UNCHANGED <<breaker, job, monitors>>

\* The audit is written as best it can, and a sync may die before it.
LoseSync(y) ==
  /\ job[y].at # "idle"
  /\ job' = [job EXCEPT ![y] = Idle]
  /\ UNCHANGED <<audit, breaker, started, monitors>>

-----------------------------------------------------------------------------
(***************************************************************************)
(* A monitor.                                                              *)
(***************************************************************************)
\* The observations of fetch_route_health_metrics.
Observed(d, s) == s \in {d.selected, d.final}
Success(d, s) ==
  IF d.selected = s THEN d.status = "success" /\ d.final = s
                    ELSE d.status \in {"success", "fallback_success"}

\* Mutants: the source that was selected is not blamed for a fallback, the one
\* that helped out is blamed too.
MutantFailed(d, s) == d.status \in Failing
MutantFailedBoth(d, s) == d.status \in Failing \cup {"fallback_success"}

Failed(d, s) ==
  IF d.selected = s THEN d.status \in Failing \cup {"fallback_success"}
                    ELSE d.status \in Failing

Window == UNION {{t} \X audit[t] : t \in DOMAIN audit}
Observations(s) == {o \in Window : Observed(o[2], s)}
Requests(s) == Cardinality(Observations(s))
Successes(s) == Cardinality({o \in Observations(s) : Success(o[2], s)})
Failures(s) == Cardinality({o \in Observations(s) : Failed(o[2], s)})
Fallbacks(s) ==
  Cardinality({o \in Window : o[2].selected = s /\ o[2].fallback})
Empties(s) == Cardinality({o \in Observations(s) : o[2].empty})

HardIssue(s) ==
  LET requests == Requests(s) IN
  \/ 100 * Successes(s) < MinSuccess * requests
  \/ 100 * Failures(s) > MaxFailure * requests
  \/ 100 * Fallbacks(s) > MaxFallback * requests
  \/ 100 * Empties(s) > MaxEmpty * requests

\* Fewer decisions than min_request_count alone are a warning, which opens
\* and closes what a good health does.
HealthOf(s) ==
  IF Requests(s) = 0 THEN "absent" ELSE IF HardIssue(s) THEN "hard" ELSE "good"

ReadMetrics(m) ==
  /\ mpc[m] = "idle"
  /\ mpc' = [mpc EXCEPT ![m] = "states"]
  /\ health' = [health EXCEPT ![m] = [s \in Source |-> HealthOf(s)]]
  /\ UNCHANGED <<audit, breaker, job, started, plan, todo, overtaken>>

\* Mutants: an open circuit is closed when its source looks well, is kept
\* open for a full period from now, is reopened for it when time is up.
MutantEvaluate(h, b) ==
  IF h = "hard" THEN [status |-> "open", left |-> OpenTicks] ELSE Closed
MutantKeepOpen(h, b) ==
  IF h = "hard" \/ b.left > 0 THEN [status |-> "open", left |-> OpenTicks]
                              ELSE Closed
MutantReopen(h, b) ==
  CASE b.status = "open" /\ b.left > 0 -> b
    [] h = "hard" \/ (b.status = "open" /\ b.left = 0) ->
         [status |-> "open", left |-> OpenTicks]
    [] OTHER -> Closed

\* evaluate_route_health of a source with decisions.  Every open breaker has
\* an open_until, so that the branch to half_open is never taken.
Evaluate(h, b) ==
  CASE b.status = "open" /\ b.left = 0 /\ h # "hard" -> Closed
    [] b.status = "open" /\ b.left > 0 -> b
    [] ~(b.status = "open" /\ b.left > 0) /\ h = "hard" ->
         [status |-> "open", left |-> OpenTicks]
    [] b.status # "open" /\ h # "hard" -> Closed

ReadStates(m) ==
  /\ mpc[m] = "states"
  /\ mpc' = [mpc EXCEPT ![m] = "write"]
  /\ todo' = [todo EXCEPT ![m] = {s \in Source : health[m][s] # "absent"}]
  /\ plan' = [plan EXCEPT ![m] =
       [s \in Source |-> IF health[m][s] = "absent" THEN Closed
                         ELSE Evaluate(health[m][s], breaker[s])]]
  /\ health' = [health EXCEPT ![m] = NoHealth]
  /\ UNCHANGED <<audit, breaker, job, started, overtaken>>

\* upsert_source_route_circuit_breaker, whatever the row has become.
Upsert(m) ==
  /\ mpc[m] = "write"
  /\ \E s \in todo[m] :
       /\ breaker' = [breaker EXCEPT ![s] = plan[m][s]]
       /\ plan' = [plan EXCEPT ![m][s] = Closed]
       /\ todo' = [todo EXCEPT ![m] = @ \ {s}]
       /\ overtaken' = [n \in Monitor |->
            IF n # m /\ s \in todo[n] THEN overtaken[n] \cup {s}
            ELSE overtaken[n] \ (IF n = m THEN {s} ELSE {})]
  /\ UNCHANGED <<audit, job, started, mpc, health>>

\* All sources are written, or the monitor dies.
EndMonitor(m) ==
  /\ mpc[m] # "idle"
  /\ mpc' = [mpc EXCEPT ![m] = "idle"]
  /\ health' = [health EXCEPT ![m] = NoHealth]
  /\ plan' = [plan EXCEPT ![m] = NoPlan]
  /\ todo' = [todo EXCEPT ![m] = {}]
  /\ overtaken' = [overtaken EXCEPT ![m] = {}]
  /\ UNCHANGED <<audit, breaker, job, started>>

-----------------------------------------------------------------------------
\* Mutant: time goes on past zero.
MutantLater(b) == [b EXCEPT !.left = b.left - 1]

Later(b) == [b EXCEPT !.left = IF b.left = 0 THEN 0 ELSE b.left - 1]

\* A monitor reads the clock, the metrics and the states in the same tick
\* (granularity of the ticks).
Tick ==
  /\ \A m \in Monitor : mpc[m] # "states"
  /\ audit' = [t \in DOMAIN audit |-> IF t = 0 THEN {} ELSE audit[t - 1]]
  /\ breaker' = [s \in Source |-> Later(breaker[s])]
  /\ plan' = [m \in Monitor |-> [s \in Source |-> Later(plan[m][s])]]
  /\ job' = [y \in Sync |->
       IF job[y].at = "idle" \/ job[y].age = Lookback THEN job[y]
       ELSE [job[y] EXCEPT !.age = @ + 1]]
  /\ started' = FALSE
  /\ UNCHANGED <<mpc, health, todo, overtaken>>

Proceed(y) ==
  \/ FetchSucceeds(y)
  \/ FetchFails(y)
  \/ Load(y)
  \/ Audit(y)

Next ==
  \/ \E y \in Sync : Resolve(y) \/ Proceed(y) \/ LoseSync(y)
  \/ \E s \in Code : Serve(s)
  \/ \E m \in Monitor :
       ReadMetrics(m) \/ ReadStates(m) \/ Upsert(m) \/ EndMonitor(m)
  \/ Tick

Spec == Init /\ [][Next]_vars

\* Time passes and queries return.  Nothing is asked of the syncs: a fetch
\* has no timeout with every provider, so that one may never end.
FairSpec ==
  /\ Spec
  /\ SF_vars(Tick)
  /\ \A m \in Monitor : WF_vars(ReadStates(m))

-----------------------------------------------------------------------------
(***************************************************************************)
(* Properties.                                                             *)
(***************************************************************************)
\* A source whose circuit was open is tried only if no candidate was left
\* (fail-open) or, asked for by name, after all others have failed; and a
\* sync gives up only when it has tried all candidates left and the source
\* it was asked for.
FallbackOrder ==
  \A y \in Sync :
    LET j == job[y] IN
    /\ j.at = "fetch" /\ j.source \in j.skipped =>
         \/ j.selected \in j.skipped
         \/ j.source = j.requested /\ {j.selected} \cup j.fallbacks \subseteq j.tried
    /\ j.at = "audit" /\ j.empty =>
         {j.selected, j.requested} \cup j.fallbacks \subseteq j.tried

\* A sync whose selected source did not deliver, or that failed after it did,
\* costs that source a failure, also when a fallback of unknown id made good for
\* it, unless its start has left the window or the source is the one the
\* sync was asked for under a policy, whose id is lost: a source that is
\* always asked for by name is never held to account.
FailureNoted ==
  [][\A y \in Sync : \A s \in Source :
       /\ Audit(y)
       /\ job[y].selected = s
       /\ job[y].source # s \/ job[y].status \in Failing
       /\ job[y].age < Lookback
       => \/ Failures(s)' > Failures(s)
          \/ job[y].requested = s /\ job[y].known # {s}]_vars

\* No source is blamed for another: it gains a failure only by a sync that
\* tried it and got nothing from it, or failed with what it got, whichever
\* ids were known when the decision was recorded.
BlameDue ==
  [][audit' # audit => \A s \in Source : Failures(s)' > Failures(s) =>
       \E y \in Sync : /\ Audit(y)
                       /\ s \in job[y].tried
                       /\ job[y].source # s \/ job[y].status \in Failing]_vars

\* No source is credited for another: among the syncs it gains a success only
\* by one that ended well with what this source delivered.  Reads of the API
\* credit the source they would have used.
CreditDue ==
  [][audit' # audit => \A s \in Source : Successes(s)' > Successes(s) =>
       \/ \E y \in Sync : /\ Audit(y)
                          /\ job[y].source = s
                          /\ job[y].status \notin Failing
       \/ Serve(s)]_vars

\* A circuit opens up before its open_until only by the write of a monitor
\* that another monitor has overtaken since it read the states.
OpenUntilHonoured ==
  [][\A s \in Source : IsOpen(s) /\ ~IsOpen(s)' =>
       \/ breaker[s].left = 1 /\ breaker'[s] = Later(breaker[s])
       \/ \E m \in Monitor : s \in todo[m] /\ s \in overtaken[m]]_vars

\* No circuit keeps its source out of the candidates for ever, however often
\* the same failures open it again.
Readmitted ==
  \A s \in Source : []<>~IsOpen(s)

\* A source whose window stays without a hard issue stays readmitted.
Recovers ==
  \A s \in Source :
    <>[](HealthOf(s) # "hard") => <>[]~IsOpen(s)
=============================================================================
