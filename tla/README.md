# StatGate in TLA+

StatGate is a Kubernetes controller that moves traffic from a stable to a canary
version step by step, and lets a sequential probability ratio test (SPRT) over
Prometheus counters decide whether the canary may go on or is rolled back. This
directory holds TLA+ models of the controller, of its command line client and of the
demo service, the TLC configurations that check them, and TLAPS proofs. `PROJECT.json`
lists the runs, the map from definitions to source lines, the hazards, the findings
and the theorems.

## 1. Inventory

| Part | State | Operations | Talks to |
|---|---|---|---|
| Reconcile loop (`internal/controller/reconciler.go`) | none of its own: the status of the `CanaryRollout` | `Reconcile`, `setStatus`, `isCanaryReady` | API server through a cache (read) and directly (status update), VirtualService, Prometheus, gauges |
| API types (`api/v1alpha1/types.go`) | spec (steps, metrics, paused, abort), status (phase, step, weight, transition time, analysis state) | | users write the spec, the controller the status |
| SPRT analyser (`metrics_analyzer.go`) | per metric: ratio, observations, failures, last counters, decision, all in the status | `RunSPRT`, `findOrInitState`, `queryScalar` | Prometheus (four queries per metric), reconcile loop |
| VirtualService writer (`virtualservice.go`) | the Istio document | `SetVirtualServiceWeights`: get, walk over routes, update | API server |
| Exported metrics (`metrics.go`) | gauges in the process | record and reset | reconcile loop, analyser |
| statctl commands (`cmd/statctl/main.go`, `commands.go`, `client.go`) | the copy a command holds between its read and its write | `list`, `get`, `apply`, `pause`, `resume`, `abort`, `delete`; `splitArgs`, `parse` | API server |
| statctl dashboard (`render.go`, `watch.go`) | the terminal | `get`, `watch`, `llrBar` | API server |
| Demo service (`demo/app`) | a table of orders, counters, the process's phases | five routes, error injection, middleware, shutdown | PostgreSQL, Prometheus |
| Manager (`cmd/main.go`) | work queue, informer cache | start | controller-runtime |
| Deep copies, manifests, CRD, chart | | | |

What is hard here:

* **Concurrency.** One worker reconciles a rollout, but users edit it meanwhile. The
  reconcile reads a cache that may be several versions old, then changes the
  VirtualService and only then learns, from a refused status update, that its copy
  was outdated. The commands of statctl are reads followed by writes as well.
* **Two stores, no transaction.** Traffic lives in the VirtualService and the record
  of it in the status. A crash, an error or a conflict can fall between the writes,
  and the decision whether to write the VirtualService is taken from the status.
* **Errors treated in two ways.** A user's abort and a step's weight return the error
  of the VirtualService; the two automatic rollbacks drop it. statctl reports errors,
  but not after Ctrl-C.
* **Progress without a loop.** Some results ask for a requeue, some rely on the watch
  event of the controller's own update, some rest for ever.
* **Counters.** The test works on differences of cumulative counters that restart
  with the canary's pods, that are read by separate queries, and whose last values
  are persisted only if the update is accepted.
* **Endings.** The demo drains requests against a deadline while its database pool
  waits to be closed; a rollout that is over is never looked at again.

What makes each part correct: the reconcile loop never leaves a step that was not
earned, never moves a paused rollout, ends, carries out aborts, and keeps traffic
within what the status allows; the analyser counts every request once and its
verdict follows from its evidence; the writer sets both weights or none and
disturbs nothing else; a command acts on the rollout its line names, undoes nobody's
change and tells the truth with its exit status; the dashboard keeps up with the rollout
and shows the verdict as it is; the demo counts what it answers.

## 2. Modules

| Module | Models | Uses |
|---|---|---|
| `AnalysisState` | `status.analysisState`: verdicts of several metrics and how a cycle combines them | |
| `CanaryRollout` | the resource as a record; the conditions of `Reconcile` | `AnalysisState` |
| `Reconciler` | the loop with cache, watch, queue, VirtualService, pods, gauges and users | `CanaryRollout`, `Lifecycle` |
| `SPRT` | `RunSPRT` over all metrics, with counters that grow while they are read | `AnalysisState`, `Verdicts` |
| `SPRTGauges` | the exported number of observations | `SPRT` |
| `VirtualService` | the writer on the list of routes | `TrafficSplit` |
| `CommandLine` | `splitArgs`, `parse`, the lookup of the kubeconfig, what a line means | |
| `Statctl` | the commands as processes | `CommandLine`, `RolloutStore` |
| `Dashboard` | the rows of `renderRollout` and the cells of `llrBar` | |
| `Watch` | the loop of `watch` and what the lines of the terminal begin with | `Dashboard`, `RolloutStore` |
| `DemoApp` | the demo service | `CanaryCounters` |

The abstract specifications, each implemented by one side and relied upon by another:

| Abstract | Promise | Implemented by | Relied upon by |
|---|---|---|---|
| `Lifecycle` | the diagram of phases on the stored rollout | `Reconciler` (`IsLifecycle`, proved) | users |
| `Verdicts` | stored verdicts change by whole cycles; a step ends when all promote; nothing follows a rollback | `SPRT` (`IsVerdicts`, proved) and `Reconciler` (`FollowsAnalyser`, proved) | each other: `Reconciler` takes verdicts from thin air, `SPRT` knows no traffic |
| `TrafficSplit` | a register of two shares | `VirtualService` (`IsRegister`, proved) | `Reconciler`'s `SetWeights` |
| `RolloutStore` | the rollout as one register that each writer changes in its own part | `Statctl` (`IsStore`, for the commands, proved), `Reconciler` (`SharesStore`, for the controller, proved) | `Watch`; the one-step commands of `Reconciler` |
| `CanaryCounters` | requests and failures grow together or restart together | `DemoApp` (`IsCanary`, proved) | `SPRT`'s canary |

`MC...` modules hold instances, `...Proofs` modules theorems. `LoopProofs` extends
`ReconcilerProofs`: they share the invariant. `FoldTheorems` says what the folds of the
community modules compute; `StatctlProofs` and `DemoProofs` instantiate it with the
operators they fold with.

### Reconciler

`obj` is the stored rollout, `events` the versions the watch has not delivered, `cache`
the version the controller knows, `queued` whether the key waits for the worker,
`rec` the reconcile in flight with its in-memory copy of the rollout.

A reconcile starts with one of the actions named after the branches of `Reconcile`, in
the order of its early returns: `RolloutGone`, `StayTerminal`, `HandleAbort`,
`HandlePause`, `StayPaused`, `HandleResume`, `Initialize`, `CompleteRollout`,
`ReadinessError`, `WaitForPods`, `ReadinessTimedOut`, `ApplyWeight`, `CheckStep`. It then
passes through at most three more points at which other actors may act:

* `vs`: `SetWeights` or `SetWeightsFails`. Every caller of `SetVirtualServiceWeights`
  writes the weight that it is about to report, so the weight is `rec.cr.weight`.
  `rec.strict` says whether an error ends the reconcile.
* `analyze`: `AnalysisError`, `AnalysisRollsBack`, `AnalysisContinues`, then `gate`: `Hold`
  or `Advance`.
* `update`: `UpdateStatus` or `UpdateFails`. This is the single `Status().Update` of the
  cycle; `setStatus` publishes the gauges first.

Optimistic concurrency is the flag `rec.stale`: the copy was read while an event was
undelivered, or somebody wrote the rollout since. The API server then refuses the
update. There are no version numbers, which keeps the state space finite.

Time is `age`, the time since `lastTransitionTime`, which saturates at `MaxAge`; `Tick`
ages every copy. `RequeueAfter` delays are arbitrary: the key may be picked up at
once or later, and a timer that an event overtook may still fire (`Wake`).

Users run the five commands of statctl that change a rollout, each as one step: in
detail they are a get and an update that the API server accepts or refuses as a whole,
and `Statctl` shows that this is the same. `apply` replaces the whole spec and may set
`paused` and `abort`. `Faults` and `UserOps` say which disturbances and commands an
instance has.

### SPRT

The canary's counters grow (`Request`) and restart (`Restart`) between the queries of a
cycle. A cycle walks over the metrics in memory: `KeepDecided`, `SkipMetric`,
`ResetMetric`, or `QueryTotal` and then `ObserveFinite` or `ObserveInfinite`, which read
the failure counter; a failing query drops the cycle, a rollback ends it. `Persist` and
`Lose` are the outcomes of the reconcile's update, `AdvanceStep` the one that forgets the
step's evidence. `Gain` and `Loss` stand for the logarithms `ln(p1/p0)` and
`ln((1-p1)/(1-p0))` as integers, per metric and baseline rate; the baseline may differ
from cycle to cycle. At a rate in `Certain` stable always fails: `p1` is clamped below
`p0`, a success adds +infinity and none at all is not a number, and neither can be
encoded, so such a cycle cannot be persisted. `origin` is a history variable: the two
counters at which an accumulator began, and the baselines it has used.

Requests are counted exactly; failures are not. The failure counter is queried after the
total, and while the total stands still only the last counter moves on
(`metrics_analyzer.go:129`): a failure that only the second query saw, in a cycle without
new requests, is never counted, and its request later counts as a success. So
`CountedOnce` bounds the count of failures by what the counter showed, from above, and
`RatioOfCounts` says that ratio and counts agree with each other. How the requests fall
into cycles does change the evidence.

`SPRTGauges` adds what is published while a cycle runs, that is before anybody knows
whether its result will be stored.

### VirtualService and TrafficSplit

A document is a sequence of http entries, each a sequence of routes. `Get` reads and
patches the copy, `Update` puts it back if nobody wrote meanwhile. Others `Edit` the
document. `IsRegister` states that under the mapping `SplitOf` this is `TrafficSplit`, the
atomic write `Reconciler` uses as `SetWeights`.

### CommandLine and Statctl

A user writes items: names, and flags whose value is joined by `=` or follows. `Tokens`
makes `os.Args` of them; `SplitArgs` and `ParseFlags` are the code's two passes, the second
what Go's flag package does with a command's `FlagSet`, and `Parse` keeps the first name;
`Meant` says without tokens what the items mean: the last value given for a field
(`Given`) and the first of the `Names`. `Target` goes
on to the cluster, the namespace and the rollout, also from a manifest, and
`RightTarget` compares the two.

A client's `pc` names the API call it waits for. `stale` is the resource version's part of
its copy. The server may carry a write out although the client hears an error
(`AnswerLost`), and Ctrl-C cancels the call in flight and silences its error, which is why
`ExitMeansDone` speaks of commands that were not interrupted. `Report` is the controller.

### Dashboard and Watch

A frame is a sequence of rows, each row a tuple of what its line tells. The rollout changes
by `RolloutStore`, so any sequence of edits, reports, deletions and creations passes.

`screen` is what the lines of the terminal begin with. `cmdWatch` goes home, writes the frame
and erases below it (`watch.go:70-72`), so after `Render` each line begins with its row of the
frame, and there is no line below. It erases no line to its end: where a row is shorter than
what was drawn there before, the tail of the old line stays visible. These tails are left
out, and no property is about them; what they do to the reader is described in section 3.

### DemoApp

A request waits in its handler, sleeps before an injected error, waits for the
database, is answered, and then counted: the middleware comes after the handler. The
table outlives the process, the counters do not. `Drained` and `DrainTimesOut` are
`Shutdown`'s two results; only the first leads to the deferred close of the pool.

## 3. Runs

| Run | Instance | What it shows |
|---|---|---|
| `gated` | two metrics, two gated steps; pause, resume, abort; all faults | `RollbackPersisted`, `ExposureBounded`, `WeightInForce`, `StepEarned`, `TerminalPhases`, `UserAbortComplete`, `FollowsAnalyser` |
| `edits` | two plans (gated, and shorter without analysis), applied with any flags, deleted, re-created | `AbortedMeansStable`, `PauseHonoured`, `StepEarned`, `IsLifecycle`, `SharesStore` |
| `live` | a gated step and one without a pause, all faults, pause and abort; `FairSpec` | `AppliedBeforeReported`, `AbortHonoured`, `RolloutEnds`, `UnreadyFails` |
| `sprt` | two metrics, a usual and a certain baseline, two and one requests per life of the counters, one restart, two steps | `CountedOnce`, `RatioOfCounts`, `VerdictJustified`, `VerdictFinal`, `IsVerdicts` |
| `routes` | two overlapping writers, five documents | `RestKept`, `IsRegister` |
| `statctl` | two clients, eight commands, all lines of up to three items out of eleven; one rollout, two plans, two statuses | `RightTarget`, `ExitMeansDone`, `IsStore` |
| `watch` | three plans of different height and bounds, eleven statuses | `BarTellsVerdict`, `Fresh` |
| `demo` | two requests, one order, two attempts to connect, one restart; a ramp with a spike | `PoolOpen`, `DeletedOnce`, `CountedAsAnswered`, `IsCanary`, `Settles` |

`gated`, `sprt` and `statctl` check their module's `TypeOK` as well. Deadlock is checked in
all but `demo`, whose process ends for good after its last restart.

That a step is left only when it was earned has two parts. `StepEarned` is about the stored
rollout: the step's weight was reported for the pause, the promotions are those of the
stored spec's metrics, and no verdict goes along to the next step. It says nothing of the
VirtualService. `WeightInForce` does: while the step's weight is reported, the
VirtualService has it or was rolled back. The second case is real, an abort that was
withdrawn after its rollback (`v_abort_withdrawn`) or an outdated rollback whose update was
refused, and a step can be left in it. `WeightInForce` is checked without `apply` and
`delete`: a new plan, or a rollout created again, may report a weight that nobody has
written, and `edits` checks `StepEarned` only.

Runs that end in a violation show where the code and its own words disagree:

| Run | What happens | What is said |
|---|---|---|
| `v_ignored_error` | the analysis decides to roll back, the write to the VirtualService fails, the rollout is Aborted and never looked at again while the canary keeps its traffic | `reconciler.go:45`: "rollback already performed" |
| `v_stale_promotion` | right after the promotion a reconcile of an outdated copy runs the analysis again, which now rolls the VirtualService back; its update is refused, the rollout stays Promoted with all traffic on stable | `README.md:48`: the canary has reached 100 % |
| `v_abort_withdrawn` | `resume` lands between the rollback of an abort and its status update; the VirtualService stays at 0, the status at the old weight, and nothing writes it again | `types.go:131`: `currentWeight` is the current traffic weight |
| `v_sprt_step` | the second step counts the requests of the first again | `metrics.go:34`: "since the current step started" |

`AbortedMeansStable` therefore holds under a condition (writes that do not fail), and the
run `edits` and the theorem say so. Further behaviours of the code that the models have and
no run is spent on:

* A plan that ends below 100 is Promoted with weight 100 in the status and the last step's
  weight in the VirtualService (`reconciler.go:240` writes the status only).
* Metrics without `prometheusURL`: the analysis is skipped, its gate is not, and the
  rollout stays in its step for ever (`types.go:101` says that the analysis is skipped).
* A momentary loss of readiness in a step older than the timeout fails the rollout at once,
  for the timeout runs from the last transition (`reconciler.go:104`).
* A refused update has already published its gauges. After the rollout has ended nothing
  publishes them again, so an outdated reconcile can leave `Running` or `Failed` there.
* A frame of `watch` erases what is below it, not what is beside it: the tail of a longer
  line stays visible. When a step is left the analysis is cleared, the rows of a metric give
  way to a short one, and the tail of the old bar, with its marker, can stay on a line whose
  row is now shorter, although "the marker '●' shows the current Λ" (`render.go:129`). A
  Promoted rollout reads "step 4 / 3" (`render.go:32`).
* A failure seen in a cycle without new requests is lost (`metrics_analyzer.go:129-138`).
* A verdict stands when an `apply` changes what its metric is compared with: entries are
  found by the metric's name (`metrics_analyzer.go:178`).
* With a stable that always fails, no cycle with new requests can be stored.

### Bounds

* Two steps are the fewest with an advance and a promotion; two metrics the fewest for
  which "any" and "all" differ. A metric's position matters to the early return of
  `RunSPRT`, so no symmetry is used for them.
* `MaxAge` 2 with pauses and a readiness timeout of 1 tells not elapsed, just elapsed
  and long elapsed apart. `live` and `edits` use 1 (and `live` a timeout of 0), which keeps
  elapsed and not elapsed.
* `MaxLag` bounds how many versions the watch has not delivered. Users write when there are
  fewer; the controller's update is accepted only when there is none, so it needs no
  bound.
* `MaxTotal`, `MaxRestarts`, `MaxSteps` of `sprt`: both verdicts are reached for each metric,
  also after a restart of the counters, and in the second step. The two requests of the
  tolerant metric can be cut into cycles in every way.
* `statctl`: three items hold a name between two flags and a flag given twice; two clients
  are the fewest that race. Members of `Clients` are interchangeable and no property names
  one, hence the symmetry. One key is enough, since commands on other keys are refused
  like commands on a rollout that does not exist.
* `watch`: the ratios lie below, on, between and above two pairs of bounds, and the frames
  differ in height by more than one row.
* `demo`: two requests meet on one order; `Attempts` 2 stands for five; times 0, 1 and 2 are
  before, in and after the spike, with rates of 0, 100 and 50 per cent.

### Fairness

`Reconciler`'s `FairSpec` assumes weak fairness of taking up a queued key (`Start`), of the
watch, of time and of finishing an update one way or the other: that is what a running
controller-runtime manager does. Strong fairness is assumed of the successful
VirtualService write and status update, of the analysis that promotes, and of `Hold` and
`Advance`: the code retries each of them without end (an error puts the key back, an
analysis error requeues after 15 seconds), so "retried for ever and never once
successful" is excluded, as is a restart that hits the same point for ever. Users, pods,
`Wake` and faults have no fairness. `RolloutEnds` is about pods that stay ready in the end.

`Watch` assumes weak fairness of `Refresh`: the ticker does not stop and `Get` does not fail
for ever. `DemoApp` assumes that a ping is answered or refused, and that `Shutdown`'s
deadline comes; of requests, handlers and queries nothing is assumed.

## 4. Proofs

TLC decides the runs above on small instances. TLAPS proves the following for every value of
the constants that the named assumptions allow. Each module proves one inductive invariant
action by action, and the theorems follow from it.

| Module | Theorems | Of the run |
|---|---|---|
| `ReconcilerProofs` | `TypeCorrect`, `RollbackNeverForgotten` (`RollbackPersisted`), `AbortIsStable` (`AbortedMeansStable`), `PauseIsHonoured` (`PauseHonoured`), `TerminalIsFinal` (`TerminalPhases`), `StepsAreEarned` (`StepEarned`) | `gated`, `edits` |
| `LoopProofs` | `ImplementsLifecycle` (`IsLifecycle`), `SharesTheRegister` (`SharesStore`), `LoopFollowsAnalyser` (`FollowsAnalyser`), `AbortsAreComplete` (`UserAbortComplete`), `WeightsAreApplied` (`AppliedBeforeReported`), `ExposureIsBounded` (`ExposureBounded`), `WeightsStayInForce` (`WeightInForce`) | `edits`, `gated`, `live` |
| `SPRTProofs` | `TypeCorrect`, `EvidenceCountedOnce` (`CountedOnce`), `RatiosAreOfCounts` (`RatioOfCounts`), `VerdictsJustified` (`VerdictJustified`), `VerdictsAreFinal` (`VerdictFinal`), `ImplementsVerdicts` (`IsVerdicts`) | `sprt` |
| `VirtualServiceProofs` | `ImplementsRegister` (`IsRegister`), `OthersKept` (`RestKept`) | `routes` |
| `StatctlProofs` | `TypeCorrect`, `SameTarget`, `TargetIsMeant` (`RightTarget`), `ExitIsTrue` (`ExitMeansDone`), `CommandsShareStore` (`IsStore`) | `statctl` |
| `WatchProofs` | `BarIsTrue` (`BarTellsVerdict`) | `watch` |
| `DemoProofs` | `PoolIsOpen` (`PoolOpen`), `OrdersAreDeletedOnce` (`DeletedOnce`), `CountsAreAnswers` (`CountedAsAnswered`), `ServiceIsCanary` (`IsCanary`) | `demo` |

With these every safety, action and refinement property of the passing runs is proved;
what is left to TLC is liveness. `FoldTheorems` has lemmas only, about folds and not about
this program, that `StatctlProofs` and `DemoProofs` rest on.

### The reconcile loop

The properties speak of the stored rollout, but what is stored next is decided by a
reconcile that read another copy. The strengthening has these parts.

* `Coherent`: the last undelivered event, or the cache if there is none, is the stored
  rollout.
* `Fresh`: a reconcile in flight that is not stale has no undelivered event behind it; the
  stored rollout it will update is not terminal, and it obeys that rollout's abort and
  pause. This is what optimistic concurrency gives.
* `RollbackInv`: every copy, also the one in memory, has a rollback verdict only with the
  abort.
* `StableInv`: once an abort is stored, or a reconcile that may still succeed in storing
  one has passed its write, the canary has no traffic; and every copy left to read, in the
  cache or undelivered, already has its step's weight in place, so that no reconcile of it
  writes the VirtualService again. `AbortIsStable` assumes `"vs" \notin Faults`;
  `v_ignored_error` shows that it must.
* `GateInv`: a reconcile that is not stale stands, at the analysis and the gate, at the
  stored step with its weight in place; one about to store another step has earned it.
* `LifeInv`: what a reconcile that may still succeed is about to store
  is an edge of the diagram from the stored phase and step.
* `RegisterInv`: such a reconcile holds the stored spec, so that its update changes the
  status alone; its step is within the plan it was begun with, and every copy shows a
  step and a weight that some plan can bring about. The spec and not the whole copy: a
  reconcile changes its status in memory long before it stores it.
* `VerdictInv`: it analyses the stored verdicts, stands at the gate with those of one cycle,
  and is about to store what may follow them (`Follows`). `LoopFollowsAnalyser` assumes what
  the property needs: every step has a pause and an analysis of the same metrics
  (`FullyGated`), since a step without a gate drops verdicts that have not promoted
  (`reconciler.go:208`), and nobody replaces or deletes the rollout, since a new plan or a
  new rollout may have other metrics and starts without verdicts.
* `ReportInv`: such a reconcile writes strictly for an abort or a step,
  and has passed the write when it comes to the update. `ZeroInv` says of a rollout that was
  never initialised that it reports weight and step 0.
* `ExposureInv`: every copy anywhere is behind the stored one on the same plan, so the
  weight an outdated reconcile writes is one the stored step allows too. It
  needs that nobody replaces or deletes the rollout
  (`{"apply", "delete"} \cap UserOps = {}`): an applied plan may allow less than the
  traffic it finds.
* `ForceInv`: a copy of an earlier step was left with its weight reported (`CopiesLeft`), so
  no reconcile of it writes that weight again; a write under way is a rollback's or that of
  the stored step, and the latter must succeed (`WritesOwn`). So what is about to be reported
  is in force or rolled back (`ReportsOwn`). `WeightsStayInForce` assumes what
  `ExposureIsBounded` does and that no step has the weight 0 (`StepsSend`), which would look
  like a rollback.

Assumed of the constants: plans have at least one step (the CRD's MinItems), bounds are
natural numbers, `NotFound` is not a rollout nor a register's value (`RegisterAssumption`).

### The analyser

`EvidenceInv` says of every stored accumulator, and of every one in memory as long as its
cycle can be stored, that it is `Sound`: its observations are the difference between the
last counter and the counter at its origin, its failures at most that, its ratio is the
one of its counts if it saw a single baseline, its verdict the one of its ratio. It has to
include the cycle in memory, because that is what `Persist` stores, and the storable flag,
because a cycle with an infinite ratio is unsound and never stored. `WalkInv` says how far
the cycle in memory has come and that decided entries are in it as they were; from it
follows that a stored cycle is one of the whole cycles of `Verdicts`. Assumed: distinct
metric names, `Lower < 0 < Upper`, a failure adds to the ratio and a success takes from
it.

### The VirtualService

For any number of writers, any weights and every set of documents in which each of the two
hosts has exactly one route: `FreshCopies` says that a copy which would be accepted is the
stored document with the weights set; `PatchSplit` is the lemma about the loop over the
routes, and `PatchRest` the one about what it leaves alone.

### statctl

For any number of clients, rollouts, manifests and command lines: `Accepted` says that a copy
the server would accept is the stored spec with the one edit of its command, which is the
optimistic concurrency of `patchRollout` and `cmdApply`; `Sound` says which commands come to
which call, so that only `apply` creates, and only from a manifest. `BecomesInv` reduces a step
to the client that makes it, since other clients' copies of what it wrote become stale.
Each write is then an operation of `RolloutStore`.

What a command acts on is decided by folds over its tokens. `Understood` says of a line what
the two passes have made of it and that it is what the line means; it holds of the bare
command and is kept by one more item (`UnderstoodMore`), so it holds of every line by
induction over the number of items (`LinesAreUnderstood`). It is about lines that end between
two items, since a flag and its value are two tokens and the passes are in a different
state between them. From it follows `SameTarget`. `Doing` carries it into the processes: a
client's key is the one its line means, a call belongs to its command, and no exit status is
set while it waits; `ExitIsTrue` then looks at each write with the copy that `Accepted`
describes.

Assumed: manifests hold specs of the type
(`StatctlAssumption`), and what the lines apply is among `Keys` (`KeysAssumption`), and
lines are made of items, `None` being no word and no flag (`LineAssumption`).

### The dashboard

The invariant is small: what is shown is an answer the API server may give. `BarIsTrue` then
follows `llrBar` cell by cell through the division (`DivMonotonic`, `CellFacts`,
`MarkerFacts`), for all ordered bounds and every ratio. Assumed: manifests and statuses are of
the type (`WatchAssumption`).

### The demo

Steps are summed up in two ways, `ProcessStep` for the process and `HandlerStep` for a handler up
to its answer; arriving and counting are separate. `PoolInv`: requests are active only while
the process serves or drains, and then the pool is open. `DeletedInv`: whoever was told 204
finds its order deleted, for good. `CountInv`: the recorder remembers the answer, and the
counters are the cardinalities of the sets of counted requests. `HttpSteps` says that a step
counts one request, none, or starts anew; what that does to the total, a sum over the status
codes, follows from `SumStep`. Assumed: finitely many requests.

### Folds and induction

The library's induction theorems take the property as an operator, which the provers here
cannot instantiate. `Induction` in `FoldTheorems` states it for a set instead: of the numbers
outside a set that holds 0 and all successors there is a least one, by well-foundedness, and
it cannot be. With it `FoldTheorems` proves that the recursive function which the community
modules' folds choose exists, and that its values depend on the elements taken so far only;
then a fold over a longer sequence, or over a larger set of a function's arguments, is one
more application of the operator. The operator is a constant of the module.

### Only model-checked

Liveness: `AbortHonoured`, `RolloutEnds`, `UnreadyFails`, `Fresh`, `Settles`. They need
fairness and ENABLED, which are outside the prover. The runs that end in a violation are
counterexamples and need no proof; `BarTellsVerdict`, `FollowsAnalyser`,
`ExposureBounded`, `WeightInForce`, `AbortedMeansStable` and the properties of the
analyser are proved under the conditions named above, as they are checked.

## 5. Not modelled

* Messages, logs, wording, columns, durations and names of targets: no control depends
  on them. `humanDuration` and `truncate` only format.
* Floating point. Ratios are integers; what infinities and not-a-number do to a cycle is
  modelled, their arithmetic is not. Bounds that are not ordered (`alpha + beta >= 1`) are
  excluded by the assumption `BoundsOrdered` and listed as a hazard. `BarTellsVerdict`
  speaks of ordered bounds that were not edited after the verdict.
* Metrics listed twice under one name (`ListAssumption`).
* VirtualServices in which a host has no route, or several, and drift of the weights by
  third parties within `Reconciler`.
* Two controller processes that overlap in whole reconciles. Leader election is on in
  `config/manager/manager.yaml:28` and in the chart (off by the flag's default); overlapping
  calls to the VirtualService are in `VirtualService`.
* On the command line: `--`, `-h` and flags with negative numbers, a missing or unknown
  subcommand, and standard input for `-f -`, which `splitArgs` and the model treat as any
  other word.
* Lines that are longer than the terminal is wide, frames taller than it, and the tails of
  longer lines that a frame leaves beside its rows.
* Of the demo: latency histograms, `db_operations_total`, the values of pagination, titles
  and times of orders, idle connections.
* Deep copies (generated), Kubernetes manifests, the CRD and the chart, the Windows console.

## 6. What is left

* Bounds that are not ordered, documents without a route for the canary, and two managers
  that overlap in whole reconciles are hazards the models exclude by an assumption; each
  needs a statement of what the program should do there before a property makes sense.
* `AbortIsStable` and `ExposureIsBounded` hold where writes of the VirtualService do not fail,
  or nobody replaces the rollout. What the traffic is allowed to be after a failed rollback
  or a new plan is not stated; it could be, as a bound over the plans applied so far.
* That a one-step command of `Reconciler` is a command of `Statctl` follows from both using
  `RolloutStore`; a composition of the two modules would state it in one place.
