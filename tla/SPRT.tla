-------------------------------- MODULE SPRT --------------------------------
(***************************************************************************)
(* The sequential test of internal/controller/metrics_analyzer.go:         *)
(* cumulative Prometheus counters that grow while they are read, one       *)
(* accumulator per metric persisted in status.analysisState, the cycle of  *)
(* RunSPRT that walks over the metrics in memory and whose result is       *)
(* persisted or lost as a whole.                                           *)
(*                                                                         *)
(* Log-likelihoods are integers.  A baseline rate p0 is a member of Rates; *)
(* for a metric m (with its delta) Gain[m, r] stands for ln(p1/p0), what   *)
(* one failure adds, and Loss[m, r] for ln((1-p1)/(1-p0)), what one        *)
(* success adds.  Upper and Lower are Wald's bounds; Lower < 0 < Upper     *)
(* says that alpha + beta < 1.  At the baselines Certain stable always     *)
(* fails (p0 = 1): a success then adds +infinity and no success at all is  *)
(* 0 * infinity, not a number.  Neither can be written as JSON, so a slice *)
(* that holds one is not storable.                                         *)
(***************************************************************************)
EXTENDS AnalysisState

CONSTANTS
  List,        \* spec.analysis.metrics
  Rates,       \* the baseline rates stable may show
  Certain,     \* those at which stable always fails
  Gain,        \* [Metrics \X Rates -> Int], positive
  Loss,        \* [Metrics \X Rates -> Int], negative
  Upper,       \* upperBound, at or above which the canary is rolled back
  Lower,       \* lowerBound, at or below which it is promoted
  MaxTotal,    \* bound: per metric, the requests in one life of the counters
  MaxRestarts, \* bound: restarts of the canary, which zero its counters
  MaxSteps     \* bound: steps of the rollout

ASSUME ListAssumption ==
  /\ List \in Seq(Metrics) /\ List # <<>>
  /\ \A i, j \in DOMAIN List : List[i] = List[j] => i = j

ASSUME BoundsOrdered ==
  /\ Upper \in Int /\ Lower \in Int
  /\ Lower < 0 /\ 0 < Upper

ASSUME RatesAssumption ==
  /\ Certain \subseteq Rates
  /\ Gain \in [Metrics \X Rates -> Int] /\ Loss \in [Metrics \X Rates -> Int]
  /\ \A m \in Metrics, r \in Rates : Gain[m, r] > 0 /\ Loss[m, r] < 0

ASSUME LimitsAssumption ==
  MaxTotal \in [Metrics -> Nat] /\ MaxRestarts \in Nat /\ MaxSteps \in Nat

VARIABLES
  total, failures,  \* the canary's counters, per metric
  restarts, step,   \* how often they were zeroed; the rollout's step
  state,            \* the persisted SPRTMetricStates
  cycle,            \* the RunSPRT cycle in flight
  origin            \* (history) counters at which `state' began to count, and
                    \* the baseline rates it has used since

vars == <<total, failures, restarts, step, state, cycle, origin>>

MetricState == [llr : Int, obs : Int, failed : Int,
                lastTotal : Nat, lastFailure : Nat, decision : Decisions]

\* findOrInitState for a metric without an entry: nothing was seen yet.
FreshState == [llr |-> 0, obs |-> 0, failed |-> 0,
               lastTotal |-> 0, lastFailure |-> 0, decision |-> "pending"]

Absent == [FreshState EXCEPT !.decision = "none"]

NoStates == [m \in Metrics |-> Absent]

Origins == [total : Nat, failures : Nat, rates : SUBSET Rates]

ZeroOrigin == [total |-> 0, failures |-> 0, rates |-> {}]

ZeroOrigins == [m \in Metrics |-> ZeroOrigin]

\* pc        "total" and "failure" are the queries of the metric at position
\*           `at'; "done" is the end of the loop;
\* slice     updatedState so far;
\* storable  the slice can be encoded as JSON.
NoCycle == [pc |-> "idle", at |-> 1, total |-> 0, slice |-> NoStates,
            origin |-> ZeroOrigins, storable |-> TRUE]

Counters == [Metrics -> Nat]

\* Type correctness.  That a stored last counter is never negative is what the
\* treatment of counters that went backwards has to ensure.
TypeOK ==
  /\ total \in Counters /\ failures \in Counters
  /\ restarts \in Nat /\ step \in Nat
  /\ state \in [Metrics -> MetricState]
  /\ cycle \in [pc : {"idle", "total", "failure", "done"}, at : DOMAIN List,
                total : Nat, slice : [Metrics -> MetricState],
                origin : [Metrics -> Origins], storable : BOOLEAN]
  /\ origin \in [Metrics -> Origins]

Init ==
  /\ total = [m \in Metrics |-> 0] /\ failures = total
  /\ restarts = 0 /\ step = 0
  /\ state = NoStates
  /\ cycle = NoCycle
  /\ origin = ZeroOrigins

-----------------------------------------------------------------------------
(* The canary. *)

Request(m, fails) ==
  /\ total[m] < MaxTotal[m]
  /\ total' = [total EXCEPT ![m] = @ + 1]
  /\ failures' = IF fails THEN [failures EXCEPT ![m] = @ + 1] ELSE failures
  /\ UNCHANGED <<restarts, step, state, cycle, origin>>

\* Its pods restart: all its counters begin again.
Restart ==
  /\ restarts < MaxRestarts
  /\ restarts' = restarts + 1
  /\ total' = [m \in Metrics |-> 0] /\ failures' = total'
  /\ UNCHANGED <<step, state, cycle, origin>>

-----------------------------------------------------------------------------
(* A cycle of RunSPRT. *)

Decision(s) == [m \in Metrics |-> s[m].decision]

Current == List[cycle.at]

Find(m) == IF state[m].decision = "none" THEN FreshState ELSE state[m]

Old == Find(Current)

\* A rollout with a stored rollback is Aborted and not analysed any more.
StartCycle ==
  /\ cycle.pc = "idle" /\ ~HasRollback(Decision(state))
  /\ cycle' = [NoCycle EXCEPT !.pc = "total"]
  /\ UNCHANGED <<total, failures, restarts, step, state, origin>>

\* Mutant: a rollback does not end the cycle.
AppendedOn(new, base, storable) ==
  LET last == cycle.at = Len(List) IN
  cycle' = [cycle EXCEPT
    !.pc = IF last THEN "done" ELSE "total",
    !.at = IF last THEN 1 ELSE @ + 1,
    !.total = 0,
    !.slice[Current] = new,
    !.origin[Current] = base,
    !.storable = @ /\ storable]

\* updatedState = append(updatedState, new): go on to the next metric, unless
\* the cycle returns here.
Appended(new, base, storable) ==
  LET last == new.decision = "rollback" \/ cycle.at = Len(List) IN
  cycle' = [cycle EXCEPT
    !.pc = IF last THEN "done" ELSE "total",
    !.at = IF last THEN 1 ELSE @ + 1,
    !.total = 0,
    !.slice[Current] = new,
    !.origin[Current] = base,
    !.storable = @ /\ storable]

\* A decided metric is not queried again.
KeepDecided ==
  /\ cycle.pc = "total" /\ Decided(Old.decision)
  /\ Appended(Old, origin[Current], TRUE)
  /\ UNCHANGED <<total, failures, restarts, step, state, origin>>

\* Mutant: decided metrics are tested further.
QueryAlways ==
  /\ cycle.pc = "total"
  /\ cycle' = [cycle EXCEPT !.pc = "failure", !.total = total[Current]]
  /\ UNCHANGED <<total, failures, restarts, step, state, origin>>

\* The first query.
QueryTotal ==
  /\ cycle.pc = "total" /\ ~Decided(Old.decision)
  /\ cycle' = [cycle EXCEPT !.pc = "failure", !.total = total[Current]]
  /\ UNCHANGED <<total, failures, restarts, step, state, origin>>

\* A query fails: RunSPRT returns an error, and the whole cycle is dropped.
QueryFails ==
  /\ \/ cycle.pc = "total" /\ ~Decided(Old.decision)
     \/ cycle.pc = "failure"
  /\ cycle' = NoCycle
  /\ UNCHANGED <<total, failures, restarts, step, state, origin>>

\* Some counter has no series yet, or stable has no traffic: the metric's state
\* stays as it is.
SkipMetric ==
  /\ cycle.pc = "failure"
  /\ Appended(Old, origin[Current], TRUE)
  /\ UNCHANGED <<total, failures, restarts, step, state, origin>>

-----------------------------------------------------------------------------
(* The second canary query, which may see requests the first one did not. *)

NewTotal == cycle.total - Old.lastTotal

NewFailures == failures[Current] - Old.lastFailure

\* A counter went backwards since the last observation.
WentBack == NewTotal < 0 \/ NewFailures < 0

\* Mutants: the negative delta is kept; the old counts are kept.
RestartedByDelta == [FreshState EXCEPT !.lastTotal = NewTotal]

RestartedInPlace ==
  [Old EXCEPT !.lastTotal = cycle.total, !.lastFailure = failures[Current]]

\* The accumulator restarts from the current counters.
Restarted ==
  [FreshState EXCEPT !.lastTotal = cycle.total,
                     !.lastFailure = failures[Current]]

\* (history) The counters at which it begins again.
RestartedAt ==
  [total |-> cycle.total, failures |-> failures[Current], rates |-> {}]

ResetMetric ==
  /\ cycle.pc = "failure" /\ WentBack
  /\ Appended(Restarted, RestartedAt, TRUE)
  /\ UNCHANGED <<total, failures, restarts, step, state, origin>>

Verdict(llr) ==
  IF llr >= Upper THEN "rollback"
  ELSE IF llr <= Lower THEN "promote" ELSE "pending"

\* The evidence of a metric's counts at one baseline rate.
LLR(m, rate, obs, failed) ==
  failed * Gain[m, rate] + (obs - failed) * Loss[m, rate]

\* The entry of Current with a new ratio and new counts.
Observed(llr, failed) ==
  [llr |-> llr, obs |-> Old.obs + NewTotal, failed |-> failed,
   lastTotal |-> cycle.total, lastFailure |-> failures[Current],
   decision |-> Verdict(llr)]

\* The ratio and the count of failures move only when the total moved.
NewLLR(rate) ==
  IF NewTotal > 0 THEN Old.llr + LLR(Current, rate, NewTotal, NewFailures)
  ELSE Old.llr

NewFailed == IF NewTotal > 0 THEN Old.failed + NewFailures ELSE Old.failed

\* Mutants: failures are counted without their requests; the verdict is taken
\* before the new evidence.
AccumulatedFailures(rate) == Observed(NewLLR(rate), Old.failed + NewFailures)

AccumulatedLate(rate) ==
  [Observed(NewLLR(rate), NewFailed) EXCEPT !.decision = Verdict(Old.llr)]

\* The counters that were read are remembered in any case.
Accumulated(rate) == Observed(NewLLR(rate), NewFailed)

\* The new entry enters the slice.
Observe(new, rate, storable) ==
  /\ cycle.pc = "failure" /\ ~WentBack
  /\ Appended(new, [origin[Current] EXCEPT !.rates = @ \cup {rate}], storable)
  /\ UNCHANGED <<total, failures, restarts, step, state, origin>>

ObserveFinite(rate) ==
  /\ rate \notin Certain \/ NewTotal = 0
  /\ Observe(Accumulated(rate), rate, TRUE)

\* New requests against a baseline that always fails: the ratio is infinite by
\* the sign of the successes (which is negative when the second query saw more
\* failures than the first one saw requests), or not a number, which is on no
\* side of a bound.
InfiniteVerdict ==
  LET successes == NewTotal - NewFailures IN
  IF successes > 0 THEN "rollback"
  ELSE IF successes < 0 THEN "promote" ELSE "pending"

\* p0 above 1, which two stable queries of different moments can give, is not a
\* number whatever the successes are.
ObserveInfinite(rate) ==
  /\ rate \in Certain /\ NewTotal > 0
  /\ \E decision \in {InfiniteVerdict, "pending"} :
       Observe([Observed(Old.llr, Old.failed + NewFailures)
                  EXCEPT !.decision = decision], rate, FALSE)

-----------------------------------------------------------------------------
(* The end of the reconcile that ran the cycle. *)

\* The single status update of the reconcile stores the new slice.
Persist ==
  /\ cycle.pc = "done" /\ cycle.storable
  /\ state' = cycle.slice
  /\ origin' = cycle.origin
  /\ cycle' = NoCycle
  /\ UNCHANGED <<total, failures, restarts, step>>

\* The update is refused, cannot be encoded, or the controller stops before it.
Lose ==
  /\ cycle.pc = "done"
  /\ cycle' = NoCycle
  /\ UNCHANGED <<total, failures, restarts, step, state, origin>>

\* The controller stops in a cycle and starts again.
ControllerRestart ==
  /\ cycle' = NoCycle
  /\ UNCHANGED <<total, failures, restarts, step, state, origin>>

\* The gate on the slice in memory.
Promotable == cycle.pc = "done" /\ AllPromote(Decision(cycle.slice))

\* The timer is up too: the next step starts without entries, so nothing has to
\* be encoded.
AdvanceStep ==
  /\ Promotable /\ step < MaxSteps
  /\ step' = step + 1
  /\ state' = NoStates
  /\ origin' = ZeroOrigins
  /\ cycle' = NoCycle
  /\ UNCHANGED <<total, failures, restarts>>

Next ==
  \/ \E m \in Metrics, fails \in BOOLEAN : Request(m, fails)
  \/ Restart
  \/ StartCycle \/ KeepDecided
  \/ QueryTotal \/ QueryFails \/ SkipMetric \/ ResetMetric
  \/ \E rate \in Rates : ObserveFinite(rate) \/ ObserveInfinite(rate)
  \/ Persist \/ Lose \/ ControllerRestart \/ AdvanceStep

Spec == Init /\ [][Next]_vars

-----------------------------------------------------------------------------
(* Properties. *)

\* Every request between the counter values at which an accumulator began and
\* the last one it read is counted exactly once, however many cycles were
\* skipped, lost, dropped for another metric's sake or repeated, and wherever
\* the controller restarted.  A failure is counted at most once; one that only
\* the second query saw, in a cycle without new requests, is never counted.
\* (RunSPRT's deltas since the last observation.)
CountedOnce ==
  \A m \in Metrics :
    LET s == state[m] IN
    /\ s.obs = s.lastTotal - origin[m].total
    /\ s.failed \in 0 .. (s.lastFailure - origin[m].failures)

\* As long as the baseline has not moved, the stored ratio is the one of the
\* stored counts: a failure enters the ratio and the count together or, seen in
\* a cycle without new requests, neither.
RatioOfCounts ==
  \A m \in Metrics, r \in Rates :
    origin[m].rates = {r} =>
      state[m].llr = LLR(m, r, state[m].obs, state[m].failed)

\* A stored verdict is the one Wald's bounds give for the stored ratio, and
\* rests on at least one observed request, also where stable always fails.
VerdictJustified ==
  \A m \in Metrics :
    LET s == state[m] IN
    /\ s.decision # "none" => s.decision = Verdict(s.llr)
    /\ Decided(s.decision) => s.obs > 0

\* A metric's verdict is final for its step, whatever the other metrics do;
\* only another metric's rollback may drop it.
VerdictFinal == [][
  \A m \in Metrics :
    Decided(state[m].decision) =>
      \/ state'[m] = state[m]
      \/ step' # step
      \/ state'[m] = Absent /\ HasRollback(Decision(state'))]_vars

Promise == INSTANCE Verdicts WITH decision <- Decision(state)

\* The analyser keeps its promise to the reconcile loop.
IsVerdicts == Promise!Spec

=============================================================================
