----------------------------- MODULE Reconciler -----------------------------
(***************************************************************************)
(* The reconcile loop of internal/controller/reconciler.go for one         *)
(* CanaryRollout, with everything it shares: the rollout in the API        *)
(* server, the controller's informer cache that lags behind it, the work   *)
(* queue, the Istio VirtualService, the canary's pods, the exported gauges *)
(* and the users who edit the rollout with statctl while a reconcile is in *)
(* flight.                                                                 *)
(*                                                                         *)
(* A reconcile is a single worker's sequence of steps: it reads the CACHED *)
(* rollout, then writes the VirtualService ("vs"), queries Prometheus      *)
(* ("analyze"), tests the timer and the gate ("gate") and ends with at     *)
(* most one Status().Update ("update"), which the API server refuses when  *)
(* the copy that was read is not the stored version any more.  Optimistic  *)
(* concurrency needs no version numbers here: `rec.stale' says that the    *)
(* copy in hand is outdated, because an event was still undelivered when   *)
(* it was read or because somebody wrote the rollout since.                *)
(*                                                                         *)
(* A RequeueAfter delay is any delay: the key may be picked up at once or  *)
(* after any number of Ticks, and a timer that an event overtook may still *)
(* fire at any moment (Wake).                                              *)
(***************************************************************************)
EXTENDS CanaryRollout

CONSTANTS
  ReadinessTimeout,  \* readinessTimeout, in ticks
  MaxLag,            \* bound: watch events the cache may be behind
  Faults,            \* the disturbances of this instance
  UserOps            \* the statctl commands its users run

AllFaults == {"vs", "status", "prom", "pods", "crash"}

AllUserOps == {"pause", "resume", "abort", "apply", "delete"}

ASSUME BoundsAssumption ==
  /\ ReadinessTimeout \in Nat
  /\ MaxLag \in Nat \ {0}

ASSUME EnvironmentAssumption ==
  /\ Faults \subseteq AllFaults
  /\ UserOps \subseteq AllUserOps

VARIABLES
  obj,      \* the rollout stored in the API server, or NotFound
  cache,    \* the informer's copy of it
  events,   \* the versions the watch has not delivered yet, oldest first
  queued,   \* the rollout's key waits in the work queue
  rec,      \* the reconcile in flight
  vs,       \* the weights in the VirtualService
  pods,     \* the canary Deployment: a ready pod, none, or no Deployment
  gauge     \* statgate_rollout_phase and statgate_canary_weight

vars == <<obj, cache, events, queued, rec, vs, pods, gauge>>

PodStates == {"ready", "unready", "missing"}

\* A reconcile that is not running, and a gauge that was never set.
Idle == [pc |-> "idle", cr |-> NotFound, stale |-> FALSE, strict |-> FALSE,
         transition |-> FALSE, requeue |-> FALSE, timerUp |-> FALSE,
         verdict |-> NoAnalysis]

NoGauge == [phase |-> "", weight |-> 0]

\* pc          the step the reconcile takes next;
\* cr          its in-memory copy of the rollout, status edits included;
\* strict      an error of the VirtualService ends the reconcile;
\* transition  the update comes from setStatus;
\* requeue     the Result asks for another reconcile;
\* timerUp     the step's pause had elapsed when the copy was read;
\* verdict     (history) the analysis state the gate let pass.
RecType ==
  [pc : {"idle", "vs", "analyze", "gate", "update"}, cr : MaybeRollout,
   stale : BOOLEAN, strict : BOOLEAN, transition : BOOLEAN,
   requeue : BOOLEAN, timerUp : BOOLEAN, verdict : [Metrics -> Decisions]]

\* Type correctness of the whole state; a reconcile in flight holds a copy.
TypeOK ==
  /\ obj \in MaybeRollout
  /\ cache \in MaybeRollout
  /\ events \in Seq(MaybeRollout)
  /\ queued \in BOOLEAN
  /\ rec \in RecType
  /\ rec.pc # "idle" => rec.cr \in Rollout
  /\ vs \in [stable : Int, canary : Int]
  /\ pods \in PodStates
  /\ gauge \in [phase : Phases, weight : Int]

\* A rollout was just applied and the controller has not heard of it; the
\* VirtualService is as the deployment manifests leave it.
Init ==
  /\ \E plan \in Plans : obj = NewRollout(plan, FALSE, FALSE)
  /\ cache = NotFound
  /\ events = <<obj>>
  /\ queued = FALSE
  /\ rec = Idle
  /\ vs = [stable |-> 100, canary |-> 0]
  /\ pods \in (IF "pods" \in Faults THEN PodStates ELSE {"ready"})
  /\ gauge = NoGauge

-----------------------------------------------------------------------------
(* The start of a reconcile: the worker takes the key and reads the cache. *)

Starts == rec.pc = "idle" /\ queued

StartsWhen(condition) == Starts /\ cache # NotFound /\ condition

\* The reconcile goes on with the copy cr; without a call to setStatus.
Continue(pc, cr) ==
  /\ rec' = [Idle EXCEPT !.pc = pc, !.cr = cr, !.stale = events # <<>>,
                         !.timerUp = cache.age >= CurrentStep(cache).pause]
  /\ queued' = FALSE
  /\ UNCHANGED <<obj, cache, events, vs, pods, gauge>>

\* The reconcile decides on a setStatus, after a VirtualService write if pc is
\* "vs".
Transition(pc, strict, phase, step, weight, requeue) ==
  /\ rec' = [Idle EXCEPT !.pc = pc, !.stale = events # <<>>,
                         !.cr = SetStatus(cache, phase, step, weight),
                         !.strict = strict, !.transition = TRUE,
                         !.requeue = requeue]
  /\ queued' = FALSE
  /\ UNCHANGED <<obj, cache, events, vs, pods, gauge>>

\* Result{}, nil at once.
Done ==
  /\ queued' = FALSE
  /\ UNCHANGED <<obj, cache, events, rec, vs, pods, gauge>>

RolloutGone == Starts /\ cache = NotFound /\ Done

StayTerminal == StartsWhen(Terminal(cache)) /\ Done

StayPaused ==
  /\ StartsWhen(MustPause(cache)) /\ cache.phase = "Paused"
  /\ Done

\* Mutant: an abort whose rollback may fail.
HandleAbortLeniently ==
  /\ StartsWhen(MustAbort(cache))
  /\ Transition("vs", FALSE, "Aborted", cache.step, 0, FALSE)

HandleAbort ==
  /\ StartsWhen(MustAbort(cache))
  /\ Transition("vs", TRUE, "Aborted", cache.step, 0, FALSE)

HandlePause ==
  /\ StartsWhen(MustPause(cache)) /\ cache.phase # "Paused"
  /\ Transition("update", FALSE, "Paused", cache.step, cache.weight, FALSE)

Unpaused(cr) == ~Terminal(cr) /\ ~cr.abort /\ ~cr.paused

HandleResume ==
  /\ StartsWhen(Unpaused(cache)) /\ cache.phase = "Paused"
  /\ Transition("update", FALSE, "Running", cache.step, cache.weight, TRUE)

\* Mutant: the first step is counted from -1.
InitializeBeforeFirst ==
  /\ StartsWhen(Unpaused(cache)) /\ cache.phase \in {"", "Pending"}
  /\ Transition("update", FALSE, "Running", -1, 0, TRUE)

Initialize ==
  /\ StartsWhen(Unpaused(cache)) /\ cache.phase \in {"", "Pending"}
  /\ Transition("update", FALSE, "Running", 0, 0, TRUE)

\* The stored step is past the (shortened) list of steps.
CompleteRollout ==
  /\ StartsWhen(Advancing(cache)) /\ ~InSteps(cache)
  /\ Transition("update", FALSE, "Promoted", cache.step, 100, FALSE)

\* isCanaryReady fails: the error puts the key back.
ReadinessError ==
  /\ StartsWhen(InSteps(cache)) /\ pods = "missing"
  /\ UNCHANGED vars

\* Mutant: nobody looks again.
WaitForPodsOnce ==
  /\ StartsWhen(InSteps(cache)) /\ pods = "unready"
  /\ cache.age <= ReadinessTimeout
  /\ Done

\* No ready pod yet: look again in 10 seconds.
WaitForPods ==
  /\ StartsWhen(InSteps(cache)) /\ pods = "unready" /\ cache.age <= ReadinessTimeout
  /\ UNCHANGED vars

ReadinessTimedOut ==
  /\ StartsWhen(InSteps(cache)) /\ pods = "unready" /\ cache.age > ReadinessTimeout
  /\ Transition("vs", FALSE, "Failed", cache.step, 0, FALSE)

\* Mutant: a failed write of the step's weight is ignored.
ApplyWeightLeniently ==
  /\ StartsWhen(InSteps(cache)) /\ pods = "ready"
  /\ cache.weight # CurrentStep(cache).weight
  /\ Transition("vs", FALSE, "Running", cache.step, CurrentStep(cache).weight,
                CurrentStep(cache).pause > 0)

\* RequeueAfter: pauseDuration, which asks for nothing when it is zero.
ApplyWeight ==
  /\ StartsWhen(InSteps(cache)) /\ pods = "ready"
  /\ cache.weight # CurrentStep(cache).weight
  /\ Transition("vs", TRUE, "Running", cache.step, CurrentStep(cache).weight,
                CurrentStep(cache).pause > 0)

\* The weight is in place: go on to the analysis, or to the timer without it.
CheckStep ==
  /\ StartsWhen(InSteps(cache)) /\ pods = "ready"
  /\ cache.weight = CurrentStep(cache).weight
  /\ Continue(IF AnalysisRuns(cache.plan) THEN "analyze" ELSE "gate", cache)

-----------------------------------------------------------------------------
(* The analysis, the timer and the gate, on the copy in memory. *)

\* A Prometheus error: nothing is persisted, try again in 15 seconds.
AnalysisError ==
  /\ rec.pc = "analyze" /\ "prom" \in Faults
  /\ rec' = Idle
  /\ queued' = TRUE
  /\ UNCHANGED <<obj, cache, events, vs, pods, gauge>>

AnalysisRollsBack(outcome) ==
  LET cr == rec.cr IN
  /\ rec.pc = "analyze" /\ RollsBack(cr.plan.metrics, cr.analysis, outcome)
  /\ rec' = [rec EXCEPT
       !.pc = "vs", !.transition = TRUE,
       !.cr = [SetStatus(cr, "Aborted", cr.step, 0) EXCEPT
                 !.analysis = UpdatedState(cr.plan.metrics, cr.analysis, outcome)]]
  /\ UNCHANGED <<obj, cache, events, queued, vs, pods, gauge>>

AnalysisContinues(outcome) ==
  LET cr == rec.cr IN
  /\ rec.pc = "analyze" /\ ~RollsBack(cr.plan.metrics, cr.analysis, outcome)
  /\ rec' = [rec EXCEPT
       !.pc = "gate",
       !.cr.analysis = UpdatedState(cr.plan.metrics, cr.analysis, outcome)]
  /\ UNCHANGED <<obj, cache, events, queued, vs, pods, gauge>>

\* Mutant: a rollout that waits does not ask to be looked at again.
HoldForEver ==
  /\ rec.pc = "gate" /\ ~(rec.timerUp /\ GateOpen(rec.cr))
  /\ rec' = [rec EXCEPT !.pc = "update"]
  /\ UNCHANGED <<obj, cache, events, queued, vs, pods, gauge>>

\* The timer runs or the gate is closed: only the analysis state is saved.
Hold ==
  /\ rec.pc = "gate" /\ ~(rec.timerUp /\ GateOpen(rec.cr))
  /\ rec' = [rec EXCEPT !.pc = "update", !.requeue = TRUE]
  /\ UNCHANGED <<obj, cache, events, queued, vs, pods, gauge>>

\* The step is over: forget its analysis, go to the next step or promote.
Advance ==
  LET cr   == rec.cr
      next == cr.step + 1
      done == next >= Len(cr.plan.steps)
      phase  == IF done THEN "Promoted" ELSE "Running"
      weight == IF done THEN 100 ELSE cr.weight
  IN
  /\ rec.pc = "gate" /\ rec.timerUp /\ GateOpen(cr)
  /\ rec' = [rec EXCEPT
       !.pc = "update", !.transition = TRUE, !.requeue = ~done,
       !.verdict = cr.analysis,
       !.cr = [SetStatus(cr, phase, next, weight) EXCEPT
                 !.analysis = NoAnalysis]]
  /\ UNCHANGED <<obj, cache, events, queued, vs, pods, gauge>>

-----------------------------------------------------------------------------
(* The writes. *)

\* Mutant: the two weights are swapped.
WeightsSwapped(canary) == [stable |-> canary, canary |-> 100 - canary]

Weights(canary) == [stable |-> 100 - canary, canary |-> canary]

\* SetVirtualServiceWeights succeeds; every caller writes the canary weight it
\* is about to report.
SetWeights ==
  /\ rec.pc = "vs"
  /\ vs' = Weights(rec.cr.weight)
  /\ rec' = [rec EXCEPT !.pc = "update"]
  /\ UNCHANGED <<obj, cache, events, queued, pods, gauge>>

\* Mutant: a failed rollback is not tried again.
SetWeightsFailsQuietly ==
  /\ rec.pc = "vs" /\ "vs" \in Faults
  /\ rec' = IF rec.strict THEN Idle ELSE [rec EXCEPT !.pc = "update"]
  /\ UNCHANGED <<obj, cache, events, queued, vs, pods, gauge>>

\* It returns an error, after or without the effect.  Abort and the step weight
\* return the error; the two automatic rollbacks ignore it.
SetWeightsFails ==
  /\ rec.pc = "vs" /\ "vs" \in Faults
  /\ vs' \in {vs, Weights(rec.cr.weight)}
  /\ rec' = IF rec.strict THEN Idle ELSE [rec EXCEPT !.pc = "update"]
  /\ queued' = (queued \/ rec.strict)
  /\ UNCHANGED <<obj, cache, events, pods, gauge>>

\* setStatus publishes the gauges before it calls Update.
RecordGauges ==
  gauge' = IF rec.transition
           THEN [phase |-> rec.cr.phase, weight |-> rec.cr.weight]
           ELSE gauge

\* Mutants: the status is patched without a look at the version; the whole copy
\* is put back without one.
PutBack ==
  /\ rec.pc = "update" /\ obj # NotFound
  /\ obj' = rec.cr
  /\ events' = IF obj' = obj THEN events ELSE Append(events, obj')
  /\ queued' = (queued \/ rec.requeue)
  /\ rec' = Idle
  /\ RecordGauges
  /\ UNCHANGED <<cache, vs, pods>>

PatchStatus ==
  /\ rec.pc = "update" /\ obj # NotFound
  /\ obj' = [rec.cr EXCEPT !.plan = obj.plan, !.paused = obj.paused,
                           !.abort = obj.abort]
  /\ events' = IF obj' = obj THEN events ELSE Append(events, obj')
  /\ queued' = (queued \/ rec.requeue)
  /\ rec' = Idle
  /\ RecordGauges
  /\ UNCHANGED <<cache, vs, pods>>

\* Status().Update succeeds.  An update that changes nothing makes no event.
UpdateStatus ==
  /\ rec.pc = "update" /\ ~rec.stale
  /\ obj' = rec.cr
  /\ events' = IF obj = rec.cr THEN events ELSE Append(events, rec.cr)
  /\ queued' = (queued \/ rec.requeue)
  /\ rec' = Idle
  /\ RecordGauges
  /\ UNCHANGED <<cache, vs, pods>>

\* It is refused as a conflict (or the rollout is gone), or it fails.
UpdateFails ==
  /\ rec.pc = "update" /\ (rec.stale \/ "status" \in Faults)
  /\ rec' = Idle
  /\ queued' = TRUE
  /\ RecordGauges
  /\ UNCHANGED <<obj, cache, events, vs, pods>>

-----------------------------------------------------------------------------
(* The controller's runtime: watch, timers and restart. *)

DeliverEvent ==
  /\ events # <<>>
  /\ cache' = Head(events)
  /\ events' = Tail(events)
  /\ queued' = TRUE
  /\ UNCHANGED <<obj, rec, vs, pods, gauge>>

\* The key is queued though nothing is new: the RequeueAfter of a reconcile that
\* an event overtook fires, or the informer replays what it has cached.
Wake ==
  /\ queued' = TRUE
  /\ UNCHANGED <<obj, cache, events, rec, vs, pods, gauge>>

\* The controller stops between two of its steps and starts again: it lists the
\* rollouts anew and has published nothing.
Crash ==
  /\ "crash" \in Faults
  /\ cache' = obj
  /\ events' = <<>>
  /\ queued' = (obj # NotFound)
  /\ rec' = Idle
  /\ gauge' = NoGauge
  /\ UNCHANGED <<obj, vs, pods>>

-----------------------------------------------------------------------------
(* The users.  A statctl command is a Get and an Update that the API server  *)
(* accepts only if nothing was written in between; a refused one has no      *)
(* effect.                                                                   *)

UserWrites(new) ==
  /\ new # obj
  /\ Len(events) < MaxLag
  /\ obj' = new
  /\ events' = Append(events, new)
  /\ rec' = [rec EXCEPT !.stale = rec.pc # "idle"]
  /\ UNCHANGED <<cache, queued, vs, pods, gauge>>

UserPause ==
  /\ "pause" \in UserOps /\ obj # NotFound
  /\ UserWrites([obj EXCEPT !.paused = TRUE])

UserResume ==
  /\ "resume" \in UserOps /\ obj # NotFound
  /\ UserWrites([obj EXCEPT !.paused = FALSE, !.abort = FALSE])

UserAbort ==
  /\ "abort" \in UserOps /\ obj # NotFound
  /\ UserWrites([obj EXCEPT !.abort = TRUE])

UserDelete ==
  /\ "delete" \in UserOps /\ obj # NotFound
  /\ UserWrites(NotFound)

\* Create the rollout, or replace its whole spec and keep its status.
UserApply(plan, paused, abort) ==
  /\ "apply" \in UserOps
  /\ UserWrites(
       IF obj = NotFound THEN NewRollout(plan, paused, abort)
       ELSE [obj EXCEPT !.plan = plan, !.paused = paused, !.abort = abort])

-----------------------------------------------------------------------------
(* The canary's pods, and time. *)

PodsChange ==
  /\ "pods" \in Faults
  /\ pods' \in PodStates \ {pods}
  /\ UNCHANGED <<obj, cache, events, queued, rec, vs, gauge>>

\* The timestamp of a pending setStatus is taken at its Update.
Tick ==
  /\ obj' = Aged(obj)
  /\ cache' = Aged(cache)
  /\ events' = [i \in DOMAIN events |-> Aged(events[i])]
  /\ rec' = IF rec.transition THEN rec ELSE [rec EXCEPT !.cr = Aged(rec.cr)]
  /\ UNCHANGED <<queued, vs, pods, gauge>>

-----------------------------------------------------------------------------

Analysis == \E outcome \in Outcomes :
  AnalysisRollsBack(outcome) \/ AnalysisContinues(outcome)

Reconcile ==
  \/ RolloutGone \/ StayTerminal \/ StayPaused
  \/ HandleAbort \/ HandlePause \/ HandleResume
  \/ Initialize \/ CompleteRollout
  \/ ReadinessError \/ WaitForPods \/ ReadinessTimedOut
  \/ ApplyWeight \/ CheckStep
  \/ AnalysisError \/ Analysis \/ Hold \/ Advance
  \/ SetWeights \/ SetWeightsFails \/ UpdateStatus \/ UpdateFails

Runtime == DeliverEvent \/ Wake \/ Crash

Users ==
  \/ UserPause \/ UserResume \/ UserAbort \/ UserDelete
  \/ \E plan \in Plans, paused, abort \in BOOLEAN :
       UserApply(plan, paused, abort)

Environment == PodsChange \/ Tick

Next == Reconcile \/ Runtime \/ Users \/ Environment

Spec == Init /\ [][Next]_vars

-----------------------------------------------------------------------------
(* Safety. *)

\* Every copy of the rollout outside the reconcile in flight.
Versions == {obj, cache} \cup {events[i] : i \in DOMAIN events}

\* A rollback decision is never stored without the abort that goes with it:
\* RunSPRT skips decided metrics, so a stored "rollback" in a rollout that goes
\* on would never be acted upon.  This is what the single Update per reconcile
\* is for.
RollbackPersisted ==
  \A v \in Versions :
    v # NotFound /\ HasRollback(v.analysis) => v.phase = "Aborted"

\* An aborted rollout sends no traffic to the canary, whatever reconcile of an
\* outdated copy comes after the abort.  (Reconcile: "Aborted is always
\* terminal -- rollback already performed".)
AbortedMeansStable ==
  obj # NotFound /\ obj.phase = "Aborted" => vs.canary = 0

\* The canary never gets more traffic than the steps reached so far allow,
\* however outdated the copy is that a reconcile works from.
ExposureBounded ==
  obj # NotFound =>
    \/ vs.canary = 0
    \/ \E i \in DOMAIN obj.plan.steps :
         i <= obj.step + 1 /\ vs.canary = obj.plan.steps[i].weight

\* While a rollout whose plan is not edited reports its step's weight, the
\* VirtualService has it, or a rollback has taken the traffic away: one of an
\* abort that was withdrawn since, or of an outdated copy.  No reconcile of an
\* earlier step puts an earlier weight back.  (Reconcile: the weight is written
\* before it is reported, and while it is reported never again.)
WeightInForce ==
  obj # NotFound /\ obj.step < Len(obj.plan.steps)
    /\ obj.weight = CurrentStep(obj).weight
  => vs.canary \in {0, obj.weight}

\* No step of the controller is under way or due.
Settled == rec.pc = "idle" /\ ~queued /\ events = <<>>

\* Once everything in flight is settled, a promoted rollout that nobody asked to
\* abort has all its traffic on the canary.  (README, table of phases: the
\* canary has reached 100 %.)
PromotedMeansCanary ==
  Settled /\ obj # NotFound /\ obj.phase = "Promoted" /\ ~obj.abort =>
    vs.canary = 100

\* Once everything in flight is settled, the weight a paused or promoted rollout
\* reports is the traffic its canary gets.  (types.go: CurrentWeight is the
\* current canary traffic weight percentage.)
SettledWeightIsTraffic ==
  Settled /\ obj # NotFound /\ obj.phase \in {"Paused", "Promoted"} =>
    vs.canary = obj.weight

-----------------------------------------------------------------------------
(* What a step may never do. *)

\* The rollout is edited and not created or deleted.
Edited == obj # NotFound /\ obj' # NotFound

\* The rollout leaves a step only after its weight was reported for its pause,
\* and with every analysed metric promoting, under the spec that is stored at
\* that moment: no edit of the plan slips in between the reading and the write.
\* The next step takes no verdict along, so each step's are reached in it.  What
\* the VirtualService has meanwhile is WeightInForce's.
StepEarned == [][
  Edited /\ obj'.step # obj.step /\ obj.phase \notin {"", "Pending"} =>
    /\ obj.weight = CurrentStep(obj).weight
    /\ obj.age >= CurrentStep(obj).pause
    /\ CurrentStep(obj).pause > 0 /\ AnalysisRuns(obj.plan) =>
         \A i \in DOMAIN obj.plan.metrics :
           rec.verdict[obj.plan.metrics[i]] = "promote"
    /\ obj'.analysis = NoAnalysis]_vars

\* While spec.paused is set (and spec.abort is not) the step, the weight and the
\* analysis stand still, even if the pause arrived during a reconcile.
PauseHonoured == [][
  Edited /\ obj.paused /\ ~obj.abort =>
    /\ obj'.step = obj.step
    /\ obj'.weight = obj.weight
    /\ obj'.analysis = obj.analysis
    /\ obj'.phase \in {obj.phase, "Paused"}]_vars

\* Aborted is final, and Promoted can only be aborted on request.
TerminalPhases == [][
  Edited =>
    /\ obj.phase = "Aborted" => obj'.phase = "Aborted"
    /\ obj.phase = "Promoted" =>
         obj'.phase = "Promoted" \/ (obj.abort /\ obj'.phase = "Aborted")]_vars

\* An abort the user asked for is reported only when the traffic is back on
\* stable, even if writes to the VirtualService fail.
UserAbortComplete == [][
  Edited /\ obj.abort /\ obj.phase # "Aborted" /\ obj'.phase = "Aborted" =>
    vs.canary = 0]_vars

\* A running rollout reports a new weight only when the VirtualService has it.
AppliedBeforeReported == [][
  Edited /\ obj'.weight # obj.weight /\ obj'.phase = "Running" =>
    vs = Weights(obj'.weight)]_vars

-----------------------------------------------------------------------------
(* What users see. *)

\* What is seen of a rollout that does not exist.
Gone == [phase |-> "none", step |-> 0, paused |-> FALSE, abort |-> FALSE]

\* The part of the stored rollout that its users set and read.
Seen ==
  IF obj = NotFound THEN Gone
  ELSE [phase |-> obj.phase, step |-> obj.step,
        paused |-> obj.paused, abort |-> obj.abort]

View == INSTANCE Lifecycle WITH None <- Gone, life <- Seen

\* The phases follow the diagram of Lifecycle on the stored rollout, as if no
\* reconcile ever worked from an outdated copy.  (Reconcile's early returns.)
IsLifecycle == View!Spec

\* The two parts of a stored rollout; the age is the register's clock.
SpecOf(cr) == [plan |-> cr.plan, paused |-> cr.paused, abort |-> cr.abort]

StatusOf(cr) == [phase |-> cr.phase, step |-> cr.step, weight |-> cr.weight,
                 analysis |-> cr.analysis]

\* The steps and weights that a status can show, given the plans.
Reached == UNION {0..Len(p.steps) : p \in Plans}

Shown ==
  {0, 100} \cup UNION {{p.steps[i].weight : i \in DOMAIN p.steps} : p \in Plans}

SpecsApplied == [plan : Plans, paused : BOOLEAN, abort : BOOLEAN]

StatusesShown == [phase : Phases, step : Reached, weight : Shown,
                  analysis : [Metrics -> Decisions]]

ASSUME RegisterAssumption ==
  NotFound \notin [spec : SpecsApplied, status : StatusesShown]

ZeroStatus == [phase |-> "", step |-> 0, weight |-> 0, analysis |-> NoAnalysis]

Register ==
  IF obj = NotFound THEN NotFound
  ELSE [spec |-> SpecOf(obj), status |-> StatusOf(obj)]

Store == INSTANCE RolloutStore WITH
  Absent <- NotFound, Manifests <- SpecsApplied, Statuses <- StatusesShown,
  NewStatus <- ZeroStatus, rollout <- Register

\* To its users the rollout is one register: the controller changes the status
\* and nothing else of what is stored at that moment, however outdated the copy
\* it has worked on; and the commands change what they are for.  Statctl shows
\* the same for the commands in detail.  (Status().Update in setStatus.)
SharesStore == Store!Spec

\* What is analysed if every plan analyses the same.
Analysed == (CHOOSE p \in Plans : TRUE).metrics

\* A plan whose every step is held for the analysis.
FullyGated(p) ==
  /\ AnalysisRuns(p) /\ p.metrics = Analysed
  /\ \A i \in DOMAIN p.steps : p.steps[i].pause > 0

Analyser == INSTANCE Verdicts WITH List <- Analysed, decision <- obj.analysis

\* With fully gated plans and no rollout created anew, the stored verdicts change
\* as the abstract analyser's do: by whole cycles, an advance only when all
\* promote, nothing after a rollback, whatever users, faults and restarts do in
\* between.  SPRT implements the same specification, so the verdicts this loop
\* takes from anywhere are the test's.  (Reconcile: one status update per cycle.)
FollowsAnalyser == Analyser!Spec

-----------------------------------------------------------------------------
(* Liveness. *)

\* A worker takes up a queued key: every way a reconcile begins.
Start ==
  \/ RolloutGone \/ StayTerminal \/ StayPaused
  \/ HandleAbort \/ HandlePause \/ HandleResume
  \/ Initialize \/ CompleteRollout
  \/ ReadinessTimedOut \/ ApplyWeight \/ CheckStep

\* The test ends: enough traffic arrives for every open metric to promote.
AnalysisDecides ==
  AnalysisContinues([m \in Metrics |-> "promote"])

\* A running controller works its queue, its watch delivers, time passes.  A
\* call that is tried over and over succeeds in the end (writes, the test), and
\* restarts do not hit the same place for ever: hence the strong fairness.
\* Users, pods and faults owe nothing.
Fairness ==
  /\ WF_vars(Start)
  /\ WF_vars(DeliverEvent)
  /\ WF_vars(Tick)
  /\ WF_vars(UpdateStatus \/ UpdateFails)
  /\ SF_vars(SetWeights)
  /\ SF_vars(AnalysisDecides)
  /\ SF_vars(Hold)
  /\ SF_vars(Advance)
  /\ SF_vars(UpdateStatus /\ rec.transition)

FairSpec == Spec /\ Fairness

\* An abort is carried out unless it is withdrawn: lost status updates,
\* refused VirtualService writes and restarts only delay it.  (types.go: Abort
\* triggers an immediate rollback.)
AbortHonoured ==
  (obj # NotFound /\ obj.abort)
    ~> (obj = NotFound \/ ~obj.abort \/ obj.phase = "Aborted")

\* The rollout comes to rest.
AtRest ==
  obj # NotFound => Terminal(obj) \/ (obj.paused /\ obj.phase = "Paused")

\* With pods that stay ready and metrics that decide, the rollout ends by itself
\* or rests where a user paused it: some event or requeue always drives it on,
\* also from steps without a pause, whose RequeueAfter of zero asks for nothing.
RolloutEnds == <>[](pods = "ready") => <>[]AtRest

\* If the canary's pods stay unready, the rollout is Failed in the end (unless
\* it is over or paused), and stays so.
UnreadyFails ==
  <>[](pods = "unready")
    => <>[](AtRest \/ (obj # NotFound /\ obj.phase = "Failed"))

=============================================================================
