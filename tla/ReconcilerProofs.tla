-------------------------- MODULE ReconcilerProofs --------------------------
(***************************************************************************)
(* Proofs about Reconciler that hold for every set of plans and metrics,   *)
(* every lag of the cache, every fault and every mix of user commands.     *)
(***************************************************************************)
EXTENDS Reconciler, SequenceTheorems, TLAPS

-----------------------------------------------------------------------------
(* The operators on rollouts respect the types. *)

\* setStatus turns a rollout into a rollout.
LEMMA SetStatusType ==
  ASSUME NEW cr \in Rollout, NEW phase \in Phases, NEW step \in Nat,
         NEW weight \in Int
  PROVE  SetStatus(cr, phase, step, weight) \in Rollout
<1>1. 0 \in 0..MaxAge
  BY MaxAgeAssumption
<1> QED BY <1>1 DEF SetStatus, Rollout

\* Time turns rollouts into rollouts and leaves absent ones absent.
LEMMA AgedType ==
  /\ \A v \in Rollout : Aged(v) \in Rollout
  /\ \A v \in MaybeRollout : Aged(v) \in MaybeRollout
<1>1. ASSUME NEW v \in Rollout PROVE Aged(v) \in Rollout
  <2>1. v # NotFound
    BY NotFoundAssumption
  <2>2. v.age \in 0..MaxAge
    BY DEF Rollout
  <2>3. (IF v.age < MaxAge THEN v.age + 1 ELSE v.age) \in 0..MaxAge
    BY <2>2, MaxAgeAssumption
  <2> QED BY <2>1, <2>3 DEF Aged, Rollout
<1>2. Aged(NotFound) = NotFound
  BY DEF Aged
<1> QED BY <1>1, <1>2 DEF MaybeRollout

\* A rollout that has a current step finds it in its plan.
LEMMA CurrentStepType ==
  ASSUME NEW cr \in Rollout, cr.step < Len(cr.plan.steps)
  PROVE  CurrentStep(cr) \in CanaryStep
<1>1. cr.plan \in PlanType /\ cr.step \in Nat
  BY PlansAssumption DEF Rollout
<1>2. cr.plan.steps \in Seq(CanaryStep)
  BY <1>1 DEF PlanType
<1>3. cr.step + 1 \in 1..Len(cr.plan.steps)
  BY <1>1, <1>2
<1> QED BY <1>2, <1>3 DEF CurrentStep

\* A fresh rollout is a rollout.
LEMMA NewRolloutType ==
  ASSUME NEW plan \in Plans, NEW paused \in BOOLEAN, NEW abort \in BOOLEAN
  PROVE  NewRollout(plan, paused, abort) \in Rollout
BY MaxAgeAssumption
   DEF NewRollout, NoAnalysis, Rollout, Phases, Decisions

\* A cycle of the test yields a decision for every metric.
LEMMA UpdatedStateType ==
  ASSUME NEW cr \in Rollout, NEW outcome \in Outcomes
  PROVE  UpdatedState(cr.plan.metrics, cr.analysis, outcome) \in [Metrics -> Decisions]
<1>1. cr.analysis \in [Metrics -> Decisions]
  BY DEF Rollout
<1>2. ASSUME NEW m \in Metrics
      PROVE  NextDecision(cr.analysis[m], outcome[m]) \in Decisions
  BY <1>1 DEF NextDecision, Outcomes, Decisions
<1> QED BY <1>2 DEF UpdatedState, Decisions

\* The idle reconcile is well typed.
LEMMA IdleType == Idle \in RecType /\ Idle.pc = "idle"
BY DEF Idle, RecType, MaybeRollout, NoAnalysis, Decisions

\* Unset gauges are well typed.
LEMMA NoGaugeType == NoGauge \in [phase : Phases, weight : Int]
<1>1. "" \in Phases /\ 0 \in Int
  BY DEF Phases
<1> QED BY <1>1 DEF NoGauge

-----------------------------------------------------------------------------
(* Type correctness. *)

\* A reconcile that ends in a setStatus keeps the types.
LEMMA TransitionType ==
  ASSUME TypeOK, cache # NotFound,
         NEW pc \in {"vs", "update"}, NEW strict \in BOOLEAN,
         NEW phase \in Phases, NEW step \in Nat, NEW weight \in Int,
         NEW requeue \in BOOLEAN,
         Transition(pc, strict, phase, step, weight, requeue)
  PROVE  TypeOK'
<1>1. SetStatus(cache, phase, step, weight) \in Rollout
  BY SetStatusType DEF TypeOK, MaybeRollout
<1>2. rec' \in RecType /\ rec'.cr \in Rollout
  BY <1>1, IdleType DEF Transition, RecType, MaybeRollout, Idle
<1> QED BY <1>2 DEF Transition, TypeOK

\* A step that only empties the queue keeps the types.
LEMMA DoneType == TypeOK /\ Done => TypeOK'
BY DEF Done, TypeOK

\* The steps that begin a reconcile keep the types.
LEMMA StartType ==
  TypeOK /\ (Start \/ ReadinessError \/ WaitForPods) => TypeOK'
<1> SUFFICES ASSUME TypeOK, Start \/ ReadinessError \/ WaitForPods
             PROVE  TypeOK'
  OBVIOUS
<1> USE DEF StartsWhen, Starts
<1>f. cache # NotFound => cache.step \in Nat /\ cache.weight \in Int
                          /\ cache \in Rollout
  BY DEF TypeOK, MaybeRollout, Rollout
<1>p. /\ {"Aborted", "Paused", "Running", "Promoted", "Failed"} \subseteq Phases
      /\ {TRUE, FALSE} \subseteq BOOLEAN
      /\ 0 \in Nat /\ 0 \in Int /\ 100 \in Int
  BY DEF Phases
<1>1. CASE RolloutGone \/ StayTerminal \/ StayPaused
  BY <1>1, DoneType DEF RolloutGone, StayTerminal, StayPaused
<1>2. CASE HandleAbort
  BY <1>2, <1>f, <1>p, TransitionType DEF HandleAbort
<1>3. CASE HandlePause
  BY <1>3, <1>f, <1>p, TransitionType DEF HandlePause
<1>4. CASE HandleResume
  BY <1>4, <1>f, <1>p, TransitionType DEF HandleResume
<1>5. CASE Initialize
  BY <1>5, <1>f, <1>p, TransitionType DEF Initialize
<1>6. CASE CompleteRollout
  BY <1>6, <1>f, <1>p, TransitionType DEF CompleteRollout
<1>7. CASE ReadinessTimedOut
  BY <1>7, <1>f, <1>p, TransitionType DEF ReadinessTimedOut
<1>8. CASE ApplyWeight
  <2>1. CurrentStep(cache) \in CanaryStep
    BY <1>8, <1>f, CurrentStepType DEF ApplyWeight, InSteps
  <2>2. CurrentStep(cache).weight \in Int
        /\ (CurrentStep(cache).pause > 0) \in BOOLEAN
    BY <2>1 DEF CanaryStep
  <2> QED BY <1>8, <1>f, <1>p, <2>2, TransitionType DEF ApplyWeight
<1>9. CASE CheckStep
  <2>1. PICK pc \in {"analyze", "gate"} : Continue(pc, cache)
    BY <1>9 DEF CheckStep
  <2>2. cache \in Rollout
    BY <1>9, <1>f DEF CheckStep
  <2>t. (cache.age >= CurrentStep(cache).pause) \in BOOLEAN
    BY <2>2, <1>9, CurrentStepType, MaxAgeAssumption
       DEF CheckStep, InSteps, CanaryStep, Rollout
  <2>3. rec' \in RecType /\ rec'.cr \in Rollout
    BY <2>1, <2>2, <2>t, IdleType DEF Continue, RecType, MaybeRollout
  <2> QED BY <2>1, <2>3 DEF Continue, TypeOK
<1>10. CASE ReadinessError \/ WaitForPods
  BY <1>10 DEF ReadinessError, WaitForPods, vars, TypeOK
<1> QED BY <1>1, <1>2, <1>3, <1>4, <1>5, <1>6, <1>7, <1>8, <1>9, <1>10
        DEF Start

\* The analysis, the gate and the writes keep the types.
LEMMA ReconcileType == TypeOK /\ Reconcile => TypeOK'
<1> SUFFICES ASSUME TypeOK, Reconcile
             PROVE  TypeOK'
  OBVIOUS
<1>r. rec \in RecType /\ (rec.pc # "idle" => rec.cr \in Rollout)
  BY DEF TypeOK
<1>1. CASE Start \/ ReadinessError \/ WaitForPods
  BY <1>1, StartType
<1>2. CASE AnalysisError
  BY <1>2, IdleType DEF AnalysisError, TypeOK
<1>3. ASSUME NEW outcome \in Outcomes, AnalysisRollsBack(outcome)
      PROVE  TypeOK'
  <2> DEFINE new == UpdatedState(rec.cr.plan.metrics, rec.cr.analysis, outcome)
             cr  == [SetStatus(rec.cr, "Aborted", rec.cr.step, 0) EXCEPT
                       !.analysis = new]
  <2>1. rec.cr \in Rollout
    BY <1>3, <1>r DEF AnalysisRollsBack
  <2>2. new \in [Metrics -> Decisions]
    BY <2>1, UpdatedStateType
  <2>3. SetStatus(rec.cr, "Aborted", rec.cr.step, 0) \in Rollout
    <3>1. rec.cr.step \in Nat
      BY <2>1 DEF Rollout
    <3>2. "Aborted" \in Phases
      BY DEF Phases
    <3> QED BY <2>1, <3>1, <3>2, SetStatusType
  <2> HIDE DEF new
  <2>4. cr \in Rollout
    BY <2>2, <2>3 DEF Rollout
  <2>5. rec' = [rec EXCEPT !.pc = "vs", !.transition = TRUE, !.cr = cr]
    BY <1>3 DEF AnalysisRollsBack, new
  <2> HIDE DEF cr
  <2>6. rec' \in RecType /\ rec'.cr \in Rollout
    BY <1>r, <2>4, <2>5 DEF RecType, MaybeRollout
  <2> QED BY <1>3, <2>6 DEF AnalysisRollsBack, TypeOK
<1>4. ASSUME NEW outcome \in Outcomes, AnalysisContinues(outcome)
      PROVE  TypeOK'
  <2> DEFINE new == UpdatedState(rec.cr.plan.metrics, rec.cr.analysis, outcome)
             cr  == [rec.cr EXCEPT !.analysis = new]
  <2>1. rec.cr \in Rollout
    BY <1>4, <1>r DEF AnalysisContinues
  <2>2. new \in [Metrics -> Decisions]
    BY <2>1, UpdatedStateType
  <2> HIDE DEF new
  <2>3. cr \in Rollout
    BY <2>1, <2>2 DEF Rollout
  <2>4. rec' = [rec EXCEPT !.pc = "gate", !.cr = cr]
    BY <1>4, <1>r DEF AnalysisContinues, new, RecType
  <2> HIDE DEF cr
  <2>5. rec' \in RecType /\ rec'.cr \in Rollout
    BY <1>r, <2>3, <2>4 DEF RecType, MaybeRollout
  <2> QED BY <1>4, <2>5 DEF AnalysisContinues, TypeOK
<1>5. CASE Hold
  <2>1. rec' \in RecType /\ rec'.cr \in Rollout
    BY <1>5, <1>r DEF Hold, RecType
  <2> QED BY <1>5, <2>1 DEF Hold, TypeOK
<1>6. CASE Advance
  <2> DEFINE next == rec.cr.step + 1
             done == next >= Len(rec.cr.plan.steps)
             set  == SetStatus(rec.cr, IF done THEN "Promoted" ELSE "Running",
                               next, IF done THEN 100 ELSE rec.cr.weight)
             cr   == [set EXCEPT !.analysis = NoAnalysis]
  <2>1. rec.cr \in Rollout
    BY <1>6, <1>r DEF Advance
  <2>2. /\ rec.cr.step \in Nat /\ rec.cr.weight \in Int
        /\ rec.cr.analysis \in [Metrics -> Decisions]
    BY <2>1 DEF Rollout
  <2>3. /\ next \in Nat
        /\ (IF done THEN "Promoted" ELSE "Running") \in Phases
        /\ (IF done THEN 100 ELSE rec.cr.weight) \in Int
    BY <2>2 DEF Phases
  <2>4. set \in Rollout
    BY <2>1, <2>3, SetStatusType
  <2> HIDE DEF set
  <2>5. cr \in Rollout
    BY <2>4 DEF Rollout, NoAnalysis, Decisions
  <2>6. rec' = [rec EXCEPT !.pc = "update", !.transition = TRUE,
                  !.requeue = ~done, !.verdict = rec.cr.analysis, !.cr = cr]
    BY <1>6 DEF Advance, set
  <2> HIDE DEF cr, done
  <2>7. rec' \in RecType /\ rec'.cr \in Rollout
    BY <1>r, <2>2, <2>5, <2>6 DEF RecType, MaybeRollout
  <2> QED BY <1>6, <2>7 DEF Advance, TypeOK
<1>7. CASE SetWeights \/ SetWeightsFails
  <2>1. rec.cr \in Rollout
    BY <1>7, <1>r DEF SetWeights, SetWeightsFails
  <2>2. Weights(rec.cr.weight) \in [stable : Int, canary : Int]
    BY <2>1 DEF Rollout, Weights
  <2>3. vs' \in [stable : Int, canary : Int]
    BY <1>7, <2>2 DEF SetWeights, SetWeightsFails, TypeOK
  <2>4. rec' \in RecType /\ (rec'.pc # "idle" => rec'.cr \in Rollout)
    BY <1>7, <1>r, <2>1, IdleType DEF SetWeights, SetWeightsFails, RecType
  <2>5. queued' \in BOOLEAN
    BY <1>7, <1>r DEF SetWeights, SetWeightsFails, TypeOK, RecType
  <2> QED BY <1>7, <2>3, <2>4, <2>5 DEF SetWeights, SetWeightsFails, TypeOK
<1>8. CASE UpdateStatus \/ UpdateFails
  <2>1. rec.cr \in Rollout
    BY <1>8, <1>r DEF UpdateStatus, UpdateFails
  <2>2. gauge' \in [phase : Phases, weight : Int]
    BY <1>8, <2>1 DEF UpdateStatus, UpdateFails, RecordGauges, TypeOK, Rollout
  <2>5. rec.cr \in MaybeRollout /\ events \in Seq(MaybeRollout)
    BY <2>1 DEF TypeOK, MaybeRollout
  <2>6. Append(events, rec.cr) \in Seq(MaybeRollout)
    BY <2>5, AppendProperties
  <2>7. events' \in {events, Append(events, rec.cr)} /\ obj' \in {obj, rec.cr}
    BY <1>8 DEF UpdateStatus, UpdateFails
  <2>3. events' \in Seq(MaybeRollout) /\ obj' \in MaybeRollout
    BY <2>5, <2>6, <2>7 DEF TypeOK
  <2>4. rec' = Idle /\ queued' \in BOOLEAN
    BY <1>8, <1>r DEF UpdateStatus, UpdateFails, TypeOK, RecType
  <2> QED BY <1>8, <2>2, <2>3, <2>4, IdleType
          DEF UpdateStatus, UpdateFails, TypeOK
<1> QED BY <1>1, <1>2, <1>3, <1>4, <1>5, <1>6, <1>7, <1>8
        DEF Reconcile, Analysis, Start

\* A user's write of a well typed rollout keeps the types.
LEMMA UserWritesType ==
  ASSUME TypeOK, NEW new \in MaybeRollout, UserWrites(new)
  PROVE  TypeOK'
<1>1. rec' \in RecType /\ rec'.cr = rec.cr /\ rec'.pc = rec.pc
  BY DEF UserWrites, TypeOK, RecType
<1>2. events' \in Seq(MaybeRollout)
  BY DEF UserWrites, TypeOK
<1> QED BY <1>1, <1>2 DEF UserWrites, TypeOK

\* The users' commands keep the types.
LEMMA UsersType == TypeOK /\ Users => TypeOK'
<1> SUFFICES ASSUME TypeOK, Users PROVE TypeOK'
  OBVIOUS
<1>o. obj # NotFound => obj \in Rollout
  BY DEF TypeOK, MaybeRollout
<1>1. CASE UserPause
  <2>1. [obj EXCEPT !.paused = TRUE] \in MaybeRollout
    BY <1>1, <1>o DEF UserPause, Rollout, MaybeRollout
  <2> QED BY <1>1, <2>1, UserWritesType DEF UserPause
<1>2. CASE UserResume
  <2>1. [obj EXCEPT !.paused = FALSE, !.abort = FALSE] \in MaybeRollout
    BY <1>2, <1>o DEF UserResume, Rollout, MaybeRollout
  <2> QED BY <1>2, <2>1, UserWritesType DEF UserResume
<1>3. CASE UserAbort
  <2>1. [obj EXCEPT !.abort = TRUE] \in MaybeRollout
    BY <1>3, <1>o DEF UserAbort, Rollout, MaybeRollout
  <2> QED BY <1>3, <2>1, UserWritesType DEF UserAbort
<1>4. CASE UserDelete
  BY <1>4, UserWritesType DEF UserDelete, MaybeRollout
<1>5. ASSUME NEW plan \in Plans, NEW paused \in BOOLEAN,
             NEW abort \in BOOLEAN, UserApply(plan, paused, abort)
      PROVE  TypeOK'
  <2>1. obj # NotFound =>
          [obj EXCEPT !.plan = plan, !.paused = paused, !.abort = abort]
            \in MaybeRollout
    BY <1>o DEF Rollout, MaybeRollout
  <2>2. NewRollout(plan, paused, abort) \in MaybeRollout
    BY NewRolloutType DEF MaybeRollout
  <2> QED BY <1>5, <2>1, <2>2, UserWritesType DEF UserApply
<1> QED BY <1>1, <1>2, <1>3, <1>4, <1>5 DEF Users

\* Every step keeps the types.
LEMMA TypeStep == TypeOK /\ [Next]_vars => TypeOK'
<1> SUFFICES ASSUME TypeOK, [Next]_vars PROVE TypeOK'
  OBVIOUS
<1>1. CASE Reconcile
  BY <1>1, ReconcileType
<1>2. CASE Users
  BY <1>2, UsersType
<1>3. CASE DeliverEvent
  <2>1. Head(events) \in MaybeRollout /\ Tail(events) \in Seq(MaybeRollout)
    BY <1>3 DEF DeliverEvent, TypeOK
  <2> QED BY <1>3, <2>1 DEF DeliverEvent, TypeOK
<1>4. CASE Wake
  BY <1>4 DEF Wake, TypeOK
<1>5. CASE Crash
  <2>1. gauge' \in [phase : Phases, weight : Int]
    BY <1>5, NoGaugeType DEF Crash
  <2> QED BY <1>5, <2>1, IdleType DEF Crash, TypeOK
<1>6. CASE PodsChange
  BY <1>6 DEF PodsChange, TypeOK
<1>7. CASE Tick
  <2>1. obj' \in MaybeRollout /\ cache' \in MaybeRollout
    BY <1>7, AgedType DEF Tick, TypeOK
  <2>2. events' \in Seq(MaybeRollout)
    BY <1>7, AgedType DEF Tick, TypeOK
  <2>3. rec.cr \in MaybeRollout /\ rec \in RecType
    BY DEF TypeOK, RecType
  <2>4. rec' \in RecType /\ rec'.pc = rec.pc
        /\ (rec'.pc # "idle" => rec'.cr \in Rollout)
    BY <1>7, <2>3, AgedType DEF Tick, TypeOK, RecType
  <2> QED BY <1>7, <2>1, <2>2, <2>4 DEF Tick, TypeOK
<1>8. CASE UNCHANGED vars
  BY <1>8 DEF vars, TypeOK
<1> QED BY <1>1, <1>2, <1>3, <1>4, <1>5, <1>6, <1>7, <1>8
        DEF Next, Runtime, Environment

\* The initial states are well typed.
LEMMA TypeInit == Init => TypeOK
<1> SUFFICES ASSUME Init PROVE TypeOK
  OBVIOUS
<1>1. obj \in Rollout
  BY NewRolloutType DEF Init
<1>2. obj \in MaybeRollout /\ cache \in MaybeRollout
  BY <1>1 DEF Init, MaybeRollout
<1>e. events \in Seq(MaybeRollout)
  <2>1. events = <<obj>>
    BY DEF Init
  <2> QED BY <1>2, <2>1
<1>3. pods \in PodStates
  BY DEF Init, PodStates
<1>4. gauge \in [phase : Phases, weight : Int]
  BY NoGaugeType DEF Init
<1>5. vs \in [stable : Int, canary : Int]
  BY DEF Init
<1>6. rec \in RecType /\ rec.pc = "idle" /\ queued \in BOOLEAN
  BY IdleType DEF Init
<1> QED BY <1>2, <1>e, <1>3, <1>4, <1>5, <1>6 DEF TypeOK

\* Type correctness: the state of the API server, the cache, the queue and the
\* reconcile in flight stay well formed for all plans, faults and commands.
THEOREM TypeCorrect == Spec => []TypeOK
BY TypeInit, TypeStep, PTL DEF Spec

-----------------------------------------------------------------------------
(* The inductive invariant. *)

\* The last version written is the newest one the watch still has to deliver;
\* with nothing to deliver, the cache is up to date.
Coherent ==
  /\ events = <<>> => cache = obj
  /\ events # <<>> => events[Len(events)] = obj

\* A reconcile whose update the API server would accept.
InFlight == rec.pc # "idle" /\ ~rec.stale

\* Such a reconcile works on the stored rollout, which is not over, and obeys
\* its abort and pause.
Fresh ==
  InFlight =>
    /\ events = <<>>
    /\ obj # NotFound /\ ~Terminal(obj)
    /\ obj.abort => rec.pc \in {"vs", "update"} /\ rec.cr.phase = "Aborted"
    /\ ~obj.abort /\ obj.paused =>
         /\ rec.pc = "update" /\ rec.cr.phase = "Paused"
         /\ rec.cr.step = obj.step
         /\ rec.cr.weight = obj.weight
         /\ rec.cr.analysis = obj.analysis

\* A copy that holds a rollback decision is an aborted one.
Recorded(v) == v # NotFound /\ HasRollback(v.analysis) => v.phase = "Aborted"

\* This holds of every copy, and of the one in flight; a reconcile that has come
\* to the analysis or to the gate does not hold an aborted copy.
RollbackInv ==
  /\ Recorded(obj) /\ Recorded(cache)
  /\ \A i \in DOMAIN events : Recorded(events[i])
  /\ rec.pc # "idle" => Recorded(rec.cr)
  /\ rec.pc \in {"analyze", "gate"} => rec.cr.phase # "Aborted"

\* A reconcile of this copy would not write a step's weight.
InPlace(v) ==
  v # NotFound /\ InSteps(v) => v.weight = CurrentStep(v).weight

\* Once the rollout is aborted no copy is left from which a reconcile could
\* write the VirtualService again.
StableInv ==
  /\ rec.pc = "vs" /\ rec.cr.phase = "Aborted" => rec.cr.weight = 0
  /\ rec.pc = "update" /\ rec.cr.phase = "Aborted" => vs.canary = 0
  /\ InFlight /\ (rec.pc \in {"analyze", "gate"} \/ rec.cr.phase = "Aborted")
       => InPlace(cache)
  /\ obj # NotFound /\ obj.phase = "Aborted" =>
       /\ vs.canary = 0
       /\ InPlace(cache) /\ \A i \in DOMAIN events : InPlace(events[i])
       /\ rec.pc = "vs" => rec.cr.weight = 0

\* What leaving the stored rollout's step takes.
Earned ==
  /\ obj.step < Len(obj.plan.steps)
  /\ obj.weight = CurrentStep(obj).weight
  /\ obj.age >= CurrentStep(obj).pause
  /\ CurrentStep(obj).pause > 0 /\ AnalysisRuns(obj.plan) =>
       \A i \in DOMAIN obj.plan.metrics :
         rec.verdict[obj.plan.metrics[i]] = "promote"
  /\ rec.cr.analysis = NoAnalysis

\* A fresh reconcile at the analysis or the gate stands at the stored step with
\* its weight in place; after the analysis every metric of the plan has an entry;
\* one that is about to store another step has earned it.
GateInv ==
  /\ InFlight /\ rec.pc \in {"analyze", "gate"} =>
       /\ rec.cr.step = obj.step /\ rec.cr.plan = obj.plan
       /\ obj.step < Len(obj.plan.steps)
       /\ obj.weight = CurrentStep(obj).weight
       /\ rec.timerUp => obj.age >= CurrentStep(obj).pause
  /\ rec.pc = "gate" /\ AnalysisRuns(rec.cr.plan) =>
       \A i \in DOMAIN rec.cr.plan.metrics :
         rec.cr.analysis[rec.cr.plan.metrics[i]] # "none"
  /\ InFlight /\ rec.pc \in {"vs", "update"} =>
       rec.cr.step = obj.step \/ obj.phase \in {"", "Pending"} \/ Earned

-----------------------------------------------------------------------------
(* What the building blocks of the actions do to the fields of a rollout. *)

SameButAge(v, w) ==
  /\ v.plan = w.plan /\ v.paused = w.paused /\ v.abort = w.abort
  /\ v.phase = w.phase /\ v.step = w.step /\ v.weight = w.weight
  /\ v.analysis = w.analysis

\* Time changes nothing of a rollout but its age.
LEMMA AgedSame ==
  /\ Aged(NotFound) = NotFound
  /\ \A v \in Rollout : Aged(v) # NotFound /\ SameButAge(Aged(v), v)
<1>1. ASSUME NEW v \in Rollout PROVE Aged(v) # NotFound
  BY <1>1, AgedType, NotFoundAssumption
<1>2. ASSUME NEW v \in Rollout PROVE SameButAge(Aged(v), v)
  BY <1>2, NotFoundAssumption DEF Aged, SameButAge, Rollout
<1> QED BY <1>1, <1>2 DEF Aged

\* setStatus changes the fields it is given and the age.
LEMMA SetStatusFields ==
  ASSUME NEW cr \in Rollout, NEW phase, NEW step, NEW weight
  PROVE  LET new == SetStatus(cr, phase, step, weight)
         IN  /\ new.phase = phase /\ new.step = step /\ new.weight = weight
             /\ new.plan = cr.plan /\ new.paused = cr.paused
             /\ new.abort = cr.abort /\ new.analysis = cr.analysis
BY DEF SetStatus, Rollout

\* What a reconcile that starts with a setStatus is about to write.
LEMMA TransitionFields ==
  ASSUME TypeOK, cache # NotFound, NEW pc, NEW strict, NEW phase, NEW step,
         NEW weight, NEW requeue,
         Transition(pc, strict, phase, step, weight, requeue)
  PROVE  /\ rec'.pc = pc /\ rec'.stale = (events # <<>>)
         /\ rec'.cr = SetStatus(cache, phase, step, weight)
         /\ rec'.cr.phase = phase /\ rec'.cr.step = step
         /\ rec'.cr.weight = weight /\ rec'.cr.analysis = cache.analysis
         /\ UNCHANGED <<obj, cache, events, vs>>
<1>1. cache \in Rollout
  BY DEF TypeOK, MaybeRollout
<1>2. /\ rec'.pc = pc /\ rec'.stale = (events # <<>>)
      /\ rec'.cr = SetStatus(cache, phase, step, weight)
  BY DEF Transition, Idle
<1> QED BY <1>1, <1>2, SetStatusFields DEF Transition

\* What a reconcile that goes on to the analysis or the gate holds.
LEMMA ContinueFields ==
  ASSUME NEW pc, NEW cr, Continue(pc, cr)
  PROVE  /\ rec'.pc = pc /\ rec'.stale = (events # <<>>) /\ rec'.cr = cr
         /\ UNCHANGED <<obj, cache, events, vs>>
BY DEF Continue, Idle

\* How time changes the reconcile in flight.
LEMMA TickFields ==
  ASSUME TypeOK, Tick
  PROVE  /\ rec'.pc = rec.pc /\ rec'.stale = rec.stale
         /\ rec.pc # "idle" => SameButAge(rec'.cr, rec.cr)
         /\ Len(events') = Len(events) /\ DOMAIN events' = DOMAIN events
         /\ \A i \in DOMAIN events : events'[i] = Aged(events[i])
         /\ vs' = vs
<1>1. rec \in RecType /\ events \in Seq(MaybeRollout)
  BY DEF TypeOK
<1>2. rec'.pc = rec.pc /\ rec'.stale = rec.stale
      /\ rec'.cr = (IF rec.transition THEN rec.cr ELSE Aged(rec.cr))
  BY <1>1 DEF Tick, RecType
<1>3. rec.pc # "idle" => SameButAge(rec'.cr, rec.cr)
  <2>1. SUFFICES ASSUME rec.pc # "idle" PROVE SameButAge(rec'.cr, rec.cr)
    OBVIOUS
  <2>2. rec.cr \in Rollout
    BY <2>1 DEF TypeOK
  <2>3. CASE rec.transition
    BY <1>2, <2>3 DEF SameButAge
  <2>4. CASE ~rec.transition
    BY <1>2, <2>2, <2>4, AgedSame
  <2> QED BY <2>3, <2>4
<1>4. Len(events') = Len(events) /\ DOMAIN events' = DOMAIN events
  BY <1>1 DEF Tick
<1> QED BY <1>2, <1>3, <1>4 DEF Tick

-----------------------------------------------------------------------------
(* The cache follows the API server. *)

\* Every step keeps the watch coherent with what is stored.
LEMMA CoherentStep == TypeOK /\ Coherent /\ [Next]_vars => Coherent'
<1> SUFFICES ASSUME TypeOK, Coherent, [Next]_vars PROVE Coherent'
  OBVIOUS
<1>e. events \in Seq(MaybeRollout)
  BY DEF TypeOK
<1>u. ASSUME UNCHANGED <<obj, cache, events>> PROVE Coherent'
  BY <1>u DEF Coherent
<1>a. ASSUME NEW new, events' = Append(events, new), obj' = new
      PROVE  Coherent'
  BY <1>e, <1>a DEF Coherent
<1>1. CASE Start \/ ReadinessError \/ WaitForPods
  BY <1>1, <1>u
     DEF Start, RolloutGone, StayTerminal, StayPaused, Done, HandleAbort,
         HandlePause, HandleResume, Initialize, CompleteRollout,
         ReadinessTimedOut, ApplyWeight, CheckStep, Transition, Continue,
         ReadinessError, WaitForPods, vars
<1>2. CASE Analysis \/ AnalysisError \/ Hold \/ Advance \/ SetWeights
            \/ SetWeightsFails \/ UpdateFails \/ Wake \/ PodsChange
  BY <1>2, <1>u
     DEF Analysis, AnalysisError, AnalysisRollsBack, AnalysisContinues, Hold,
         Advance, SetWeights, SetWeightsFails, UpdateFails, Wake, PodsChange
<1>3. CASE UpdateStatus
  <2>1. CASE obj = rec.cr
    BY <1>3, <2>1, <1>u DEF UpdateStatus
  <2>2. CASE obj # rec.cr
    BY <1>3, <2>2, <1>a DEF UpdateStatus
  <2> QED BY <2>1, <2>2
<1>4. CASE Users
  BY <1>4, <1>a DEF Users, UserPause, UserResume, UserAbort, UserDelete,
                    UserApply, UserWrites
<1>5. CASE DeliverEvent
  <2>1. events # <<>> /\ events' = Tail(events) /\ cache' = Head(events)
        /\ obj' = obj
    BY <1>5 DEF DeliverEvent
  <2>2. events[Len(events)] = obj
    BY <2>1 DEF Coherent
  <2>3. CASE Len(events) = 1
    BY <1>e, <2>1, <2>2, <2>3 DEF Coherent
  <2>4. CASE Len(events) # 1
    <3>1. Len(events) \in Nat \ {0}
      BY <1>e, <2>1, EmptySeq
    <3>2. /\ Len(events') = Len(events) - 1
          /\ \A i \in 1..Len(events') : events'[i] = events[i + 1]
      BY <1>e, <2>1, HeadTailProperties
    <3>3. events'[Len(events')] = events[Len(events)]
      BY <2>4, <3>1, <3>2
    <3>4. events' # <<>>
      BY <2>4, <3>1, <3>2
    <3> QED BY <2>1, <2>2, <3>3, <3>4 DEF Coherent
  <2> QED BY <2>3, <2>4
<1>6. CASE Crash
  BY <1>6 DEF Crash, Coherent
<1>7. CASE Tick
  <2>1. obj' = Aged(obj) /\ cache' = Aged(cache)
    BY <1>7 DEF Tick
  <2>2. CASE events = <<>>
    <3>1. events' = <<>>
      BY <1>7, <2>2 DEF Tick
    <3> QED BY <2>1, <2>2, <3>1 DEF Coherent
  <2>3. CASE events # <<>>
    <3>1. Len(events) \in DOMAIN events /\ events[Len(events)] = obj
      BY <1>e, <2>3 DEF Coherent
    <3>2. events'[Len(events')] = Aged(obj) /\ events' # <<>>
      BY <1>7, <1>e, <3>1, TickFields
    <3> QED BY <2>1, <3>2 DEF Coherent
  <2> QED BY <2>2, <2>3
<1>8. CASE UNCHANGED vars
  BY <1>8, <1>u DEF vars
<1> QED BY <1>1, <1>2, <1>3, <1>4, <1>5, <1>6, <1>7, <1>8
        DEF Next, Reconcile, Start, Runtime, Environment

-----------------------------------------------------------------------------
(* An update that is accepted was computed from the stored rollout. *)

\* A reconcile that starts on an up-to-date cache is fresh.
LEMMA FreshStart ==
  TypeOK /\ Coherent /\ Fresh /\ (Start \/ ReadinessError \/ WaitForPods)
    => Fresh'
<1> SUFFICES ASSUME TypeOK, Coherent, Fresh,
                    Start \/ ReadinessError \/ WaitForPods
             PROVE  Fresh'
  OBVIOUS
<1> USE DEF StartsWhen, Starts
<1>c. events = <<>> => cache = obj
  BY DEF Coherent
<1>1. CASE RolloutGone \/ StayTerminal \/ StayPaused
  BY <1>1 DEF RolloutGone, StayTerminal, StayPaused, Done, Fresh, InFlight
<1>2. CASE HandleAbort
  <2>1. cache # NotFound /\ MustAbort(cache)
        /\ Transition("vs", TRUE, "Aborted", cache.step, 0, FALSE)
    BY <1>2 DEF HandleAbort
  <2> QED BY <2>1, <1>c, TransitionFields DEF Fresh, InFlight, MustAbort
<1>3. CASE HandlePause
  <2>1. cache # NotFound /\ MustPause(cache)
        /\ Transition("update", FALSE, "Paused", cache.step, cache.weight, FALSE)
    BY <1>3 DEF HandlePause
  <2>2. /\ rec'.pc = "update" /\ rec'.stale = (events # <<>>)
        /\ rec'.cr.phase = "Paused" /\ rec'.cr.step = cache.step
        /\ rec'.cr.weight = cache.weight /\ rec'.cr.analysis = cache.analysis
        /\ UNCHANGED <<obj, events>>
    BY <2>1, TransitionFields
  <2> QED BY <2>1, <2>2, <1>c DEF Fresh, InFlight, MustPause
<1>4. ASSUME NEW pc, NEW strict, NEW phase, NEW step, NEW weight, NEW requeue,
             cache # NotFound, Unpaused(cache),
             Transition(pc, strict, phase, step, weight, requeue)
      PROVE  Fresh'
  BY <1>4, <1>c, TransitionFields DEF Fresh, InFlight, Unpaused
<1>5. CASE HandleResume
  BY <1>5, <1>4 DEF HandleResume
<1>6. CASE Initialize
  BY <1>6, <1>4 DEF Initialize
<1>a. Advancing(cache) => Unpaused(cache)
  BY DEF Advancing, Unpaused
<1>7. CASE CompleteRollout
  BY <1>7, <1>4, <1>a DEF CompleteRollout
<1>8. CASE ReadinessTimedOut
  BY <1>8, <1>4, <1>a DEF ReadinessTimedOut, InSteps
<1>9. CASE ApplyWeight
  BY <1>9, <1>4, <1>a DEF ApplyWeight, InSteps
<1>10. CASE CheckStep
  <2>1. PICK pc \in {"analyze", "gate"} : Continue(pc, cache)
    BY <1>10 DEF CheckStep
  <2>2. cache # NotFound /\ Unpaused(cache)
    BY <1>10, <1>a DEF CheckStep, InSteps
  <2> QED BY <2>1, <2>2, <1>c, ContinueFields DEF Fresh, InFlight, Unpaused
<1>11. CASE ReadinessError \/ WaitForPods
  BY <1>11 DEF ReadinessError, WaitForPods, vars, Fresh, InFlight
<1> QED BY <1>1, <1>2, <1>3, <1>5, <1>6, <1>7, <1>8, <1>9, <1>10, <1>11
        DEF Start

\* Every step keeps the reconcile in flight fresh or marks it stale.
LEMMA FreshStep == TypeOK /\ Coherent /\ Fresh /\ [Next]_vars => Fresh'
<1> SUFFICES ASSUME TypeOK, Coherent, Fresh, [Next]_vars PROVE Fresh'
  OBVIOUS
<1>r. rec \in RecType
  BY DEF TypeOK
<1>i. ASSUME rec' = Idle PROVE Fresh'
  BY <1>i DEF Fresh, InFlight, Idle
<1>1. CASE Start \/ ReadinessError \/ WaitForPods
  BY <1>1, FreshStart
<1>2. CASE AnalysisError \/ UpdateStatus \/ UpdateFails \/ Crash
  BY <1>2, <1>i DEF AnalysisError, UpdateStatus, UpdateFails, Crash
<1>3. ASSUME rec.pc \in {"analyze", "gate"}, rec'.pc # "idle",
             rec'.stale = rec.stale, UNCHANGED <<obj, events>>
      PROVE  Fresh'
  BY <1>3 DEF Fresh, InFlight
<1>4. CASE Analysis
  BY <1>4, <1>3, <1>r
     DEF Analysis, AnalysisRollsBack, AnalysisContinues, RecType
<1>5. CASE Hold \/ Advance
  BY <1>5, <1>3, <1>r DEF Hold, Advance, RecType
<1>6. ASSUME rec' = [rec EXCEPT !.pc = "update"], rec.pc = "vs",
             UNCHANGED <<obj, events>>
      PROVE  Fresh'
  BY <1>6, <1>r DEF Fresh, InFlight, RecType
<1>7. CASE SetWeights \/ SetWeightsFails
  BY <1>7, <1>6, <1>i DEF SetWeights, SetWeightsFails
<1>8. CASE Users
  <2>1. rec' = [rec EXCEPT !.stale = rec.pc # "idle"]
    BY <1>8 DEF Users, UserPause, UserResume, UserAbort, UserDelete,
                UserApply, UserWrites
  <2> QED BY <2>1, <1>r DEF Fresh, InFlight, RecType
<1>9. CASE DeliverEvent \/ Wake \/ PodsChange
  BY <1>9 DEF DeliverEvent, Wake, PodsChange, Fresh, InFlight
<1>10. CASE Tick
  <2>1. obj' = Aged(obj) /\ (events = <<>> => events' = <<>>)
    BY <1>10 DEF Tick
  <2>2. obj # NotFound => obj \in Rollout
    BY DEF TypeOK, MaybeRollout
  <2>3. obj # NotFound => obj' # NotFound /\ SameButAge(obj', obj)
    BY <2>1, <2>2, AgedSame
  <2> QED BY <1>10, <2>1, <2>3, TickFields
          DEF Fresh, InFlight, SameButAge, Terminal
<1>11. CASE UNCHANGED vars
  BY <1>11 DEF vars, Fresh, InFlight
<1> QED BY <1>1, <1>2, <1>4, <1>5, <1>7, <1>8, <1>9, <1>10, <1>11
        DEF Next, Reconcile, Start, Runtime, Environment

-----------------------------------------------------------------------------
(* A rollback decision is stored only with the abort. *)

\* The decisions of a cycle that does not roll back are no rollbacks.
LEMMA ContinuesWithoutRollback ==
  ASSUME NEW cr \in Rollout, NEW outcome \in Outcomes, ~HasRollback(cr.analysis),
         ~RollsBack(cr.plan.metrics, cr.analysis, outcome), NEW m \in Metrics
  PROVE  UpdatedState(cr.plan.metrics, cr.analysis, outcome)[m] # "rollback"
<1>1. cr.analysis[m] # "rollback"
  BY DEF HasRollback
<1>2. ASSUME NEW j \in DOMAIN cr.plan.metrics, cr.plan.metrics[j] = m
      PROVE  NextDecision(cr.analysis[m], outcome[m]) # "rollback"
  BY <1>1, <1>2 DEF RollsBack, RollbackAt, NextDecision, Decided
<1> QED BY <1>2 DEF UpdatedState

\* A setStatus on a copy that is not aborted brings no rollback decision.
LEMMA TransitionRecorded ==
  ASSUME TypeOK, RollbackInv, cache # NotFound, ~Terminal(cache),
         NEW pc \in {"vs", "update"}, NEW strict, NEW phase, NEW step,
         NEW weight, NEW requeue,
         Transition(pc, strict, phase, step, weight, requeue)
  PROVE  RollbackInv'
<1>1. ~HasRollback(cache.analysis)
  BY DEF RollbackInv, Recorded, Terminal
<1>2. /\ rec'.pc = pc /\ rec'.cr.analysis = cache.analysis
      /\ UNCHANGED <<obj, cache, events>>
  BY TransitionFields
<1>3. ~HasRollback(rec'.cr.analysis)
  BY <1>1, <1>2 DEF HasRollback
<1> QED BY <1>2, <1>3 DEF RollbackInv, Recorded

\* Every step stores rollback decisions with the abort only.
LEMMA RollbackStep == TypeOK /\ RollbackInv /\ [Next]_vars => RollbackInv'
<1> SUFFICES ASSUME TypeOK, RollbackInv, [Next]_vars PROVE RollbackInv'
  OBVIOUS
<1> USE DEF StartsWhen, Starts
<1>r. rec \in RecType /\ (rec.pc # "idle" => rec.cr \in Rollout)
  BY DEF TypeOK
<1>e. events \in Seq(MaybeRollout)
  BY DEF TypeOK
<1>i. ASSUME rec' = Idle \/ rec' = rec, UNCHANGED <<obj, cache, events>>
      PROVE  RollbackInv'
  BY <1>i DEF RollbackInv, Idle
<1>1. CASE RolloutGone \/ StayTerminal \/ StayPaused \/ ReadinessError
            \/ WaitForPods \/ UNCHANGED vars \/ Wake \/ PodsChange
            \/ AnalysisError \/ UpdateFails
  BY <1>1, <1>i DEF RolloutGone, StayTerminal, StayPaused, Done, ReadinessError,
                    WaitForPods, vars, Wake, PodsChange, AnalysisError,
                    UpdateFails
<1>2. CASE HandleAbort
  BY <1>2, TransitionRecorded DEF HandleAbort, MustAbort
<1>3. CASE HandlePause
  BY <1>3, TransitionRecorded DEF HandlePause, MustPause
<1>4. CASE HandleResume
  BY <1>4, TransitionRecorded DEF HandleResume, Unpaused
<1>5. CASE Initialize
  BY <1>5, TransitionRecorded DEF Initialize, Unpaused
<1>6. CASE CompleteRollout
  BY <1>6, TransitionRecorded DEF CompleteRollout, Advancing
<1>7. CASE ReadinessTimedOut
  BY <1>7, TransitionRecorded DEF ReadinessTimedOut, InSteps, Advancing
<1>8. CASE ApplyWeight
  BY <1>8, TransitionRecorded DEF ApplyWeight, InSteps, Advancing
<1>9. CASE CheckStep
  <2>1. PICK pc \in {"analyze", "gate"} : Continue(pc, cache)
    BY <1>9 DEF CheckStep
  <2>2. cache.phase # "Aborted"
    BY <1>9 DEF CheckStep, InSteps, Advancing, Terminal
  <2> QED BY <2>1, <2>2, ContinueFields DEF RollbackInv
<1>10. ASSUME NEW outcome \in Outcomes, AnalysisRollsBack(outcome)
       PROVE  RollbackInv'
  <2>1. rec.cr \in Rollout
    BY <1>10, <1>r DEF AnalysisRollsBack
  <2>3. rec'.pc = "vs" /\ rec'.cr.phase = "Aborted"
    BY <1>10, <1>r, <2>1 DEF AnalysisRollsBack, RecType, SetStatus, Rollout
  <2> QED BY <1>10, <2>3 DEF AnalysisRollsBack, RollbackInv, Recorded
<1>11. ASSUME NEW outcome \in Outcomes, AnalysisContinues(outcome)
       PROVE  RollbackInv'
  <2> DEFINE new == UpdatedState(rec.cr.plan.metrics, rec.cr.analysis, outcome)
  <2>1. rec.cr \in Rollout /\ rec.cr # NotFound
    BY <1>11, <1>r, NotFoundAssumption DEF AnalysisContinues
  <2>2. ~HasRollback(rec.cr.analysis) /\ rec.cr.phase # "Aborted"
    BY <1>11, <2>1 DEF AnalysisContinues, RollbackInv, Recorded
  <2>3. \A m \in Metrics : new[m] # "rollback"
    BY <1>11, <2>1, <2>2, ContinuesWithoutRollback DEF AnalysisContinues
  <2>4. /\ rec'.pc = "gate" /\ rec'.cr.analysis = new
        /\ rec'.cr.phase = rec.cr.phase
    BY <1>11, <1>r, <2>1 DEF AnalysisContinues, RecType, Rollout
  <2>5. ~HasRollback(rec'.cr.analysis)
    BY <2>3, <2>4 DEF HasRollback
  <2> QED BY <1>11, <2>2, <2>4, <2>5
          DEF AnalysisContinues, RollbackInv, Recorded
<1>12. CASE Hold
  <2>1. rec'.pc = "update" /\ rec'.cr = rec.cr
    BY <1>12, <1>r DEF Hold, RecType
  <2> QED BY <1>12, <2>1 DEF Hold, RollbackInv
<1>13. CASE Advance
  <2>1. rec.cr \in Rollout
    BY <1>13, <1>r DEF Advance
  <2>2. rec'.pc = "update" /\ rec'.cr.analysis = NoAnalysis
    BY <1>13, <1>r, <2>1 DEF Advance, RecType, SetStatus, Rollout
  <2>3. ~HasRollback(rec'.cr.analysis)
    BY <2>2 DEF HasRollback, NoAnalysis
  <2> QED BY <1>13, <2>2, <2>3 DEF Advance, RollbackInv, Recorded
<1>14. CASE SetWeights \/ SetWeightsFails
  <2>1. rec' = Idle \/ (rec'.pc = "update" /\ rec'.cr = rec.cr)
    BY <1>14, <1>r DEF SetWeights, SetWeightsFails, RecType
  <2>2. CASE rec' = Idle
    BY <1>14, <1>i, <2>2 DEF SetWeights, SetWeightsFails
  <2>3. CASE rec'.pc = "update" /\ rec'.cr = rec.cr
    BY <1>14, <2>3 DEF SetWeights, SetWeightsFails, RollbackInv
  <2> QED BY <2>1, <2>2, <2>3
<1>a. ASSUME NEW new, Recorded(new), obj' = new, cache' = cache,
             events' = events \/ events' = Append(events, new),
             rec'.pc # "idle" => rec'.pc = rec.pc /\ rec'.cr = rec.cr
      PROVE  RollbackInv'
  <2>1. \A i \in DOMAIN events' : Recorded(events'[i])
    BY <1>a, <1>e DEF RollbackInv
  <2> QED BY <1>a, <2>1 DEF RollbackInv
<1>15. CASE UpdateStatus
  BY <1>15, <1>a, <1>r DEF UpdateStatus, RollbackInv, Idle
<1>16. CASE Users
  <2>1. PICK new : UserWrites(new)
    BY <1>16 DEF Users, UserPause, UserResume, UserAbort, UserDelete, UserApply
  <2>2. Recorded(new)
    <3>o. obj # NotFound => obj \in Rollout
      BY DEF TypeOK, MaybeRollout
    <3>1. obj' = new
      BY <2>1 DEF UserWrites
    <3>2. CASE UserPause \/ UserResume \/ UserAbort
      <4>1. obj \in Rollout
        BY <3>2, <3>o DEF UserPause, UserResume, UserAbort
      <4>2. obj'.phase = obj.phase /\ obj'.analysis = obj.analysis
        BY <3>2, <4>1
           DEF UserPause, UserResume, UserAbort, UserWrites, Rollout
      <4> QED BY <3>1, <4>1, <4>2, NotFoundAssumption
              DEF RollbackInv, Recorded, HasRollback
    <3>3. CASE UserDelete
      BY <3>1, <3>3 DEF UserDelete, UserWrites, Recorded
    <3>4. ASSUME NEW plan \in Plans, NEW paused \in BOOLEAN,
                 NEW abort \in BOOLEAN, UserApply(plan, paused, abort)
          PROVE  Recorded(new)
      <4>1. CASE obj = NotFound
        <5>1. new = NewRollout(plan, paused, abort)
          BY <3>1, <3>4, <4>1 DEF UserApply, UserWrites
        <5>2. new.analysis = NoAnalysis
          BY <5>1 DEF NewRollout
        <5> QED BY <5>2 DEF Recorded, HasRollback, NoAnalysis
      <4>2. CASE obj # NotFound
        <5>1. new = [obj EXCEPT !.plan = plan, !.paused = paused,
                                !.abort = abort]
          BY <3>1, <3>4, <4>2 DEF UserApply, UserWrites
        <5>2. new.phase = obj.phase /\ new.analysis = obj.analysis
          BY <3>o, <4>2, <5>1 DEF Rollout
        <5> QED BY <4>2, <5>2 DEF RollbackInv, Recorded, HasRollback
      <4> QED BY <4>1, <4>2
    <3> QED BY <1>16, <3>2, <3>3, <3>4 DEF Users
  <2>3. /\ rec'.pc = rec.pc /\ rec'.cr = rec.cr /\ obj' = new
        /\ cache' = cache /\ events' = Append(events, new)
    BY <2>1, <1>r DEF UserWrites, RecType
  <2> QED BY <2>2, <2>3, <1>a
<1>17. CASE DeliverEvent
  <2>1. events # <<>>
    BY <1>17 DEF DeliverEvent
  <2>2. Len(events) \in Nat \ {0}
    BY <1>e, <2>1, EmptySeq
  <2>3. /\ Len(Tail(events)) = Len(events) - 1
        /\ \A i \in 1..Len(Tail(events)) : Tail(events)[i] = events[i + 1]
        /\ Tail(events) \in Seq(MaybeRollout)
    BY <1>e, <2>1, HeadTailProperties
  <2>4. \A i \in DOMAIN Tail(events) : Recorded(Tail(events)[i])
    BY <1>e, <2>2, <2>3 DEF RollbackInv
  <2>5. Recorded(Head(events))
    BY <1>e, <2>2 DEF RollbackInv
  <2> QED BY <1>17, <2>4, <2>5 DEF DeliverEvent, RollbackInv
<1>18. CASE Crash
  BY <1>18 DEF Crash, RollbackInv, Idle
<1>19. CASE Tick
  <2>1. \A v \in MaybeRollout : Recorded(v) => Recorded(Aged(v))
    BY AgedSame DEF MaybeRollout, Recorded, HasRollback, SameButAge
  <2>2. Recorded(obj') /\ Recorded(cache')
    BY <1>19, <2>1 DEF Tick, TypeOK, RollbackInv
  <2>3. \A i \in DOMAIN events' : Recorded(events'[i])
    BY <1>19, <1>e, <2>1, TickFields DEF RollbackInv
  <2>4. rec'.pc # "idle" => Recorded(rec'.cr)
    BY <1>19, <1>r, TickFields, NotFoundAssumption
       DEF RollbackInv, Recorded, HasRollback, SameButAge
  <2> QED BY <1>19, <2>2, <2>3, <2>4, TickFields DEF RollbackInv, SameButAge
<1> QED BY <1>1, <1>2, <1>3, <1>4, <1>5, <1>6, <1>7, <1>8, <1>9, <1>10, <1>11,
           <1>12, <1>13, <1>14, <1>15, <1>16, <1>17, <1>18, <1>19
        DEF Next, Reconcile, Analysis, Runtime, Environment

-----------------------------------------------------------------------------
(* No traffic after an abort, when writes to the VirtualService succeed. *)

\* Time does not make a copy write weights.
LEMMA InPlaceAged ==
  \A v \in MaybeRollout : InPlace(v) => InPlace(Aged(v))
<1>1. ASSUME NEW v \in Rollout, InPlace(v) PROVE InPlace(Aged(v))
  BY <1>1, AgedSame, NotFoundAssumption
     DEF InPlace, InSteps, Advancing, Terminal, CurrentStep, SameButAge
<1>2. InPlace(Aged(NotFound))
  BY AgedSame DEF InPlace
<1> QED BY <1>1, <1>2 DEF MaybeRollout

\* A reconcile that starts does not endanger a rollout that is aborted.
LEMMA StableStart ==
  TypeOK /\ Coherent /\ StableInv
    /\ (Start \/ ReadinessError \/ WaitForPods) => StableInv'
<1> SUFFICES ASSUME TypeOK, Coherent, StableInv,
                    Start \/ ReadinessError \/ WaitForPods
             PROVE  StableInv'
  OBVIOUS
<1> USE DEF StartsWhen, Starts
<1>1. CASE RolloutGone \/ StayTerminal \/ StayPaused
            \/ ReadinessError \/ WaitForPods
  BY <1>1 DEF RolloutGone, StayTerminal, StayPaused, Done, ReadinessError,
              WaitForPods, vars, StableInv, InFlight
<1>2. CASE HandleAbort
  <2>1. /\ cache # NotFound /\ MustAbort(cache)
        /\ Transition("vs", TRUE, "Aborted", cache.step, 0, FALSE)
    BY <1>2 DEF HandleAbort
  <2>2. /\ rec'.pc = "vs" /\ rec'.cr.phase = "Aborted" /\ rec'.cr.weight = 0
        /\ UNCHANGED <<obj, cache, events, vs>>
    BY <2>1, TransitionFields
  <2>3. InPlace(cache)
    BY <2>1 DEF InPlace, InSteps, Advancing, MustAbort
  <2> QED BY <2>2, <2>3 DEF StableInv, InFlight
<1>3. ASSUME cache # NotFound, NEW phase, NEW step, NEW weight, NEW requeue,
             phase # "Aborted",
             Transition("update", FALSE, phase, step, weight, requeue)
      PROVE  StableInv'
  <2>1. /\ rec'.pc = "update" /\ rec'.cr.phase = phase
        /\ UNCHANGED <<obj, cache, events, vs>>
    BY <1>3, TransitionFields
  <2> QED BY <1>3, <2>1 DEF StableInv, InFlight
<1>4. CASE HandlePause
  BY <1>4, <1>3 DEF HandlePause
<1>5. CASE HandleResume
  BY <1>5, <1>3 DEF HandleResume
<1>6. CASE Initialize
  BY <1>6, <1>3 DEF Initialize
<1>7. CASE CompleteRollout
  BY <1>7, <1>3 DEF CompleteRollout
<1>8. CASE ReadinessTimedOut
  <2>1. /\ cache # NotFound
        /\ Transition("vs", FALSE, "Failed", cache.step, 0, FALSE)
    BY <1>8 DEF ReadinessTimedOut
  <2>2. /\ rec'.pc = "vs" /\ rec'.cr.phase = "Failed" /\ rec'.cr.weight = 0
        /\ UNCHANGED <<obj, cache, events, vs>>
    BY <2>1, TransitionFields
  <2> QED BY <2>2 DEF StableInv, InFlight
<1>9. CASE ApplyWeight
  <2>1. /\ cache # NotFound
        /\ Transition("vs", TRUE, "Running", cache.step,
             CurrentStep(cache).weight, CurrentStep(cache).pause > 0)
    BY <1>9 DEF ApplyWeight
  <2>2. /\ rec'.pc = "vs" /\ rec'.cr.phase = "Running"
        /\ UNCHANGED <<obj, cache, events, vs>>
    BY <2>1, TransitionFields
  <2>3. ~InPlace(cache)
    BY <1>9 DEF ApplyWeight, InPlace
  <2>4. ~(obj # NotFound /\ obj.phase = "Aborted")
    BY <2>3 DEF StableInv
  <2> QED BY <2>2, <2>4 DEF StableInv, InFlight
<1>10. CASE CheckStep
  <2>1. PICK pc \in {"analyze", "gate"} : Continue(pc, cache)
    BY <1>10 DEF CheckStep
  <2>2. InPlace(cache)
    BY <1>10 DEF CheckStep, InPlace
  <2>3. rec'.pc \in {"analyze", "gate"} /\ UNCHANGED <<obj, cache, events, vs>>
    BY <2>1, ContinueFields
  <2> QED BY <2>2, <2>3 DEF StableInv, InFlight
<1> QED BY <1>1, <1>2, <1>4, <1>5, <1>6, <1>7, <1>8, <1>9, <1>10 DEF Start

\* Every step keeps an aborted rollout away from the VirtualService.
LEMMA StableStep ==
  ASSUME "vs" \notin Faults, TypeOK, Coherent, Fresh, RollbackInv, StableInv,
         [Next]_vars
  PROVE  StableInv'
<1>r. rec \in RecType /\ (rec.pc # "idle" => rec.cr \in Rollout)
  BY DEF TypeOK
<1>e. events \in Seq(MaybeRollout)
  BY DEF TypeOK
<1>i. ASSUME rec' = Idle \/ rec' = rec, UNCHANGED <<obj, cache, events, vs>>
      PROVE  StableInv'
  BY <1>i DEF StableInv, InFlight, Idle
<1>1. CASE Start \/ ReadinessError \/ WaitForPods
  BY <1>1, StableStart
<1>2. CASE AnalysisError \/ UpdateFails \/ Wake \/ PodsChange
            \/ UNCHANGED vars
  BY <1>2, <1>i DEF AnalysisError, UpdateFails, Wake, PodsChange, vars
<1>3. ASSUME NEW outcome \in Outcomes, AnalysisRollsBack(outcome)
      PROVE  StableInv'
  <2>1. rec.cr \in Rollout
    BY <1>3, <1>r DEF AnalysisRollsBack
  <2>2. /\ rec'.pc = "vs" /\ rec'.cr.weight = 0 /\ rec'.stale = rec.stale
        /\ rec.pc = "analyze" /\ UNCHANGED <<obj, cache, events, vs>>
    BY <1>3, <1>r, <2>1 DEF AnalysisRollsBack, RecType, SetStatus, Rollout
  <2> QED BY <2>2 DEF StableInv, InFlight
<1>4. ASSUME NEW outcome \in Outcomes, AnalysisContinues(outcome)
      PROVE  StableInv'
  <2>1. /\ rec'.pc = "gate" /\ rec'.stale = rec.stale /\ rec.pc = "analyze"
        /\ UNCHANGED <<obj, cache, events, vs>>
    BY <1>4, <1>r DEF AnalysisContinues, RecType
  <2> QED BY <2>1 DEF StableInv, InFlight
<1>5. CASE Hold
  <2>1. /\ rec'.pc = "update" /\ rec'.cr = rec.cr /\ rec.pc = "gate"
        /\ UNCHANGED <<obj, cache, events, vs>>
    BY <1>5, <1>r DEF Hold, RecType
  <2>2. rec'.cr.phase # "Aborted"
    BY <2>1 DEF RollbackInv
  <2> QED BY <2>1, <2>2 DEF StableInv, InFlight
<1>6. CASE Advance
  <2>1. rec.cr \in Rollout
    BY <1>6, <1>r DEF Advance
  <2>2. rec'.pc = "update" /\ rec'.cr.phase \in {"Promoted", "Running"}
        /\ UNCHANGED <<obj, cache, events, vs>>
    BY <1>6, <1>r, <2>1 DEF Advance, RecType, SetStatus, Rollout
  <2> QED BY <2>2 DEF StableInv, InFlight
<1>7. CASE SetWeights
  <2>1. /\ rec'.pc = "update" /\ rec'.cr = rec.cr /\ rec'.stale = rec.stale
        /\ rec.pc = "vs" /\ UNCHANGED <<obj, cache, events>>
        /\ vs'.canary = rec.cr.weight
    BY <1>7, <1>r DEF SetWeights, RecType, Weights
  <2> QED BY <2>1 DEF StableInv, InFlight
<1>8. CASE SetWeightsFails
  BY <1>8 DEF SetWeightsFails
<1>9. CASE UpdateStatus
  <2>1. /\ rec.pc = "update" /\ InFlight /\ obj' = rec.cr /\ rec' = Idle
        /\ UNCHANGED <<cache, vs>>
        /\ events' = events \/ events' = Append(events, rec.cr)
    BY <1>9 DEF UpdateStatus, InFlight
  <2>2. rec'.pc = "idle"
    BY <2>1, IdleType
  <2>3. CASE rec.cr.phase # "Aborted"
    BY <2>1, <2>2, <2>3 DEF StableInv, InFlight
  <2>4. CASE rec.cr.phase = "Aborted"
    <3>1. vs.canary = 0 /\ InPlace(cache) /\ events = <<>>
      BY <2>1, <2>4 DEF StableInv, Fresh
    <3>2. InPlace(rec.cr)
      BY <2>4 DEF InPlace, InSteps, Advancing, Terminal
    <3>3. \A i \in DOMAIN events' : InPlace(events'[i])
      BY <2>1, <3>1, <3>2
    <3> QED BY <2>1, <2>2, <3>1, <3>3 DEF StableInv, InFlight
  <2> QED BY <2>3, <2>4
<1>10. CASE Users
  <2>1. PICK new : UserWrites(new)
    BY <1>10 DEF Users, UserPause, UserResume, UserAbort, UserDelete, UserApply
  <2>2. /\ rec'.pc = rec.pc /\ rec'.cr = rec.cr /\ obj' = new
        /\ rec.pc # "idle" => rec'.stale
        /\ events' = Append(events, new) /\ UNCHANGED <<cache, vs>>
    BY <2>1, <1>r DEF UserWrites, RecType
  <2>3. ~InFlight'
    BY <2>2 DEF InFlight
  <2>4. obj' # NotFound /\ obj'.phase = "Aborted"
          => obj # NotFound /\ obj.phase = "Aborted"
    <3>o. obj # NotFound => obj \in Rollout
      BY DEF TypeOK, MaybeRollout
    <3>1. CASE UserPause \/ UserResume \/ UserAbort
      BY <3>1, <3>o DEF UserPause, UserResume, UserAbort, UserWrites, Rollout
    <3>2. CASE UserDelete
      BY <3>2 DEF UserDelete, UserWrites
    <3>3. ASSUME NEW plan \in Plans, NEW paused \in BOOLEAN,
                 NEW abort \in BOOLEAN, UserApply(plan, paused, abort)
          PROVE  obj' # NotFound /\ obj'.phase = "Aborted"
                   => obj # NotFound /\ obj.phase = "Aborted"
      <4>1. CASE obj = NotFound
        BY <3>3, <4>1 DEF UserApply, UserWrites, NewRollout
      <4>2. CASE obj # NotFound
        BY <3>3, <4>2, <3>o DEF UserApply, UserWrites, Rollout
      <4> QED BY <4>1, <4>2
    <3> QED BY <1>10, <3>1, <3>2, <3>3 DEF Users
  <2>5. CASE obj' # NotFound /\ obj'.phase = "Aborted"
    <3>1. InPlace(new)
      BY <2>2, <2>5 DEF InPlace, InSteps, Advancing, Terminal
    <3>2. \A i \in DOMAIN events' : InPlace(events'[i])
      BY <1>e, <2>2, <2>4, <2>5, <3>1 DEF StableInv
    <3> QED BY <2>2, <2>3, <2>4, <2>5, <3>2 DEF StableInv
  <2>6. CASE ~(obj' # NotFound /\ obj'.phase = "Aborted")
    BY <2>2, <2>3, <2>6 DEF StableInv
  <2> QED BY <2>5, <2>6
<1>11. CASE DeliverEvent
  <2>1. events # <<>> /\ events' = Tail(events) /\ cache' = Head(events)
        /\ UNCHANGED <<obj, rec, vs>>
    BY <1>11 DEF DeliverEvent
  <2>2. Len(events) \in Nat \ {0}
    BY <1>e, <2>1, EmptySeq
  <2>3. /\ Len(events') = Len(events) - 1
        /\ \A i \in 1..Len(events') : events'[i] = events[i + 1]
        /\ events' \in Seq(MaybeRollout)
    BY <1>e, <2>1, HeadTailProperties
  <2>4. ~InFlight /\ ~InFlight'
    BY <2>1 DEF Fresh, InFlight
  <2>5. (\A i \in DOMAIN events : InPlace(events[i])) =>
          InPlace(cache') /\ \A i \in DOMAIN events' : InPlace(events'[i])
    BY <1>e, <2>1, <2>2, <2>3
  <2> QED BY <2>1, <2>4, <2>5 DEF StableInv
<1>12. CASE Crash
  <2>1. rec'.pc = "idle" /\ cache' = obj /\ events' = <<>>
        /\ UNCHANGED <<obj, vs>>
    BY <1>12, IdleType DEF Crash
  <2>2. obj.phase = "Aborted" => InPlace(obj)
    BY DEF InPlace, InSteps, Advancing, Terminal
  <2> QED BY <2>1, <2>2 DEF StableInv, InFlight
<1>13. CASE Tick
  <2>1. obj' = Aged(obj) /\ cache' = Aged(cache)
    BY <1>13 DEF Tick
  <2>2. obj \in MaybeRollout /\ cache \in MaybeRollout
    BY DEF TypeOK
  <2>3. obj' # NotFound /\ obj'.phase = "Aborted"
          => obj # NotFound /\ obj.phase = "Aborted"
    BY <2>1, <2>2, AgedSame DEF MaybeRollout, SameButAge
  <2>4. InPlace(cache) => InPlace(cache')
    BY <2>1, <2>2, InPlaceAged
  <2>5. (\A i \in DOMAIN events : InPlace(events[i])) =>
          \A i \in DOMAIN events' : InPlace(events'[i])
    BY <1>13, <1>e, TickFields, InPlaceAged
  <2>6. /\ rec'.pc = rec.pc /\ rec'.stale = rec.stale /\ vs' = vs
        /\ rec.pc # "idle" => rec'.cr.phase = rec.cr.phase
                              /\ rec'.cr.weight = rec.cr.weight
    BY <1>13, TickFields DEF SameButAge
  <2> QED BY <2>3, <2>4, <2>5, <2>6 DEF StableInv, InFlight
<1> QED BY <1>1, <1>2, <1>3, <1>4, <1>5, <1>6, <1>7, <1>8, <1>9, <1>10, <1>11,
           <1>12, <1>13
        DEF Next, Reconcile, Analysis, Start, Runtime, Environment

-----------------------------------------------------------------------------
(* The theorems. *)

\* The part of the invariant that holds whatever fails.
Inv == TypeOK /\ Coherent /\ Fresh /\ RollbackInv

\* The invariant holds initially.
LEMMA InvInit == Init => Inv /\ StableInv
<1> SUFFICES ASSUME Init PROVE Inv /\ StableInv
  OBVIOUS
<1>1. TypeOK
  BY TypeInit
<1>2. PICK plan \in Plans : obj = NewRollout(plan, FALSE, FALSE)
  BY DEF Init
<1>3. obj.analysis = NoAnalysis /\ obj.phase = ""
  BY <1>2 DEF NewRollout
<1>4. /\ cache = NotFound /\ events = <<obj>> /\ rec.pc = "idle"
  BY IdleType DEF Init
<1>5. Coherent
  BY <1>4 DEF Coherent
<1>6. Fresh
  BY <1>4 DEF Fresh, InFlight
<1>7. Recorded(obj) /\ Recorded(NotFound)
  BY <1>3 DEF Recorded, HasRollback, NoAnalysis
<1>8. RollbackInv
  BY <1>4, <1>7 DEF RollbackInv
<1>9. StableInv
  BY <1>3, <1>4 DEF StableInv, InFlight
<1> QED BY <1>1, <1>5, <1>6, <1>8, <1>9 DEF Inv

\* Every step preserves it.
LEMMA InvStep == Inv /\ [Next]_vars => Inv'
BY TypeStep, CoherentStep, FreshStep, RollbackStep DEF Inv

\* It holds for ever.
LEMMA InvHolds == Spec => []Inv
BY InvInit, InvStep, PTL DEF Spec

\* Whatever fails, lags or is edited, no stored or cached version of a rollout
\* holds a rollback decision without being aborted.
THEOREM RollbackNeverForgotten == Spec => []RollbackPersisted
<1>1. Inv => RollbackPersisted
  BY DEF Inv, RollbackInv, RollbackPersisted, Recorded, Versions
<1> QED BY <1>1, InvHolds, PTL

\* If writes to the VirtualService do not fail, an aborted rollout sends no
\* traffic to the canary, and no reconcile of an outdated copy brings it back.
THEOREM AbortIsStable ==
  ASSUME "vs" \notin Faults
  PROVE  Spec => []AbortedMeansStable
<1>1. Inv /\ StableInv /\ [Next]_vars => (Inv /\ StableInv)'
  BY InvStep, StableStep DEF Inv
<1>2. StableInv => AbortedMeansStable
  BY DEF StableInv, AbortedMeansStable
<1> QED BY <1>1, <1>2, InvInit, PTL DEF Spec

\* Of the steps of a reconcile only the status update writes the rollout.
LEMMA ReadsKeepStore ==
  ASSUME Reconcile, ~UpdateStatus
  PROVE  obj' = obj
BY DEF Reconcile, RolloutGone, StayTerminal, StayPaused, Done, HandleAbort,
       HandlePause, HandleResume, Initialize, CompleteRollout,
       ReadinessTimedOut, ApplyWeight, CheckStep, Transition, Continue,
       ReadinessError, WaitForPods, vars, Analysis, AnalysisError,
       AnalysisRollsBack, AnalysisContinues, Hold, Advance, SetWeights,
       SetWeightsFails, UpdateFails

\* The controller writes the rollout only by an update of a fresh reconcile;
\* what any step does to the status of an existing rollout follows from it.
LEMMA StatusChange ==
  ASSUME TypeOK, Fresh, [Next]_vars, Edited
  PROVE  \/ /\ obj'.phase = obj.phase /\ obj'.step = obj.step
            /\ obj'.weight = obj.weight /\ obj'.analysis = obj.analysis
         \/ UpdateStatus /\ InFlight
<1>o. obj \in Rollout
  BY DEF Edited, TypeOK, MaybeRollout
<1>u. ASSUME obj' = obj PROVE obj'.phase = obj.phase /\ obj'.step = obj.step
            /\ obj'.weight = obj.weight /\ obj'.analysis = obj.analysis
  BY <1>u
<1>1. CASE Reconcile /\ ~UpdateStatus
  BY <1>1, <1>u, ReadsKeepStore
<1>2. CASE UpdateStatus
  BY <1>2 DEF UpdateStatus, InFlight
<1>3. CASE Users
  BY <1>3, <1>o DEF Users, UserPause, UserResume, UserAbort, UserDelete,
                    UserApply, UserWrites, Edited, Rollout
<1>4. CASE Tick
  <2>1. SameButAge(obj', obj)
    BY <1>4, <1>o, AgedSame DEF Tick
  <2> QED BY <2>1 DEF SameButAge
<1>5. CASE Runtime \/ PodsChange \/ UNCHANGED vars
  BY <1>5, <1>u DEF Runtime, DeliverEvent, Wake, Crash, PodsChange, vars
<1> QED BY <1>1, <1>2, <1>3, <1>4, <1>5 DEF Next, Environment

\* A paused rollout stands still, although the pause may arrive in the middle of
\* a reconcile and the cache may be behind.
THEOREM PauseIsHonoured == Spec => PauseHonoured
<1>1. Inv /\ [Next]_vars =>
        [Edited /\ obj.paused /\ ~obj.abort =>
           /\ obj'.step = obj.step
           /\ obj'.weight = obj.weight
           /\ obj'.analysis = obj.analysis
           /\ obj'.phase \in {obj.phase, "Paused"}]_vars
  <2> SUFFICES ASSUME Inv, [Next]_vars, Edited, obj.paused, ~obj.abort
               PROVE  /\ obj'.step = obj.step
                      /\ obj'.weight = obj.weight
                      /\ obj'.analysis = obj.analysis
                      /\ obj'.phase \in {obj.phase, "Paused"}
    OBVIOUS
  <2>1. CASE UpdateStatus /\ InFlight
    BY <2>1 DEF Inv, Fresh, UpdateStatus
  <2> QED BY <2>1, StatusChange DEF Inv
<1> QED BY <1>1, InvHolds, PTL DEF Spec, PauseHonoured

\* No reconcile, however outdated its copy, takes a rollout out of Aborted, or
\* out of Promoted other than by a requested abort.
THEOREM TerminalIsFinal == Spec => TerminalPhases
<1>1. Inv /\ [Next]_vars =>
        [Edited =>
           /\ obj.phase = "Aborted" => obj'.phase = "Aborted"
           /\ obj.phase = "Promoted" =>
                obj'.phase = "Promoted"
                  \/ (obj.abort /\ obj'.phase = "Aborted")]_vars
  <2> SUFFICES ASSUME Inv, [Next]_vars, Edited
               PROVE  /\ obj.phase = "Aborted" => obj'.phase = "Aborted"
                      /\ obj.phase = "Promoted" =>
                           obj'.phase = "Promoted"
                             \/ (obj.abort /\ obj'.phase = "Aborted")
    OBVIOUS
  <2>1. CASE UpdateStatus /\ InFlight
    BY <2>1 DEF Inv, Fresh, UpdateStatus, Terminal
  <2> QED BY <2>1, StatusChange DEF Inv
<1> QED BY <1>1, InvHolds, PTL DEF Spec, TerminalPhases

-----------------------------------------------------------------------------
(* Steps are earned. *)

\* After a cycle without rollback every metric of the plan has a decision.
LEMMA ContinuesWithEntries ==
  ASSUME NEW cr \in Rollout, NEW outcome \in Outcomes,
         ~RollsBack(cr.plan.metrics, cr.analysis, outcome),
         NEW i \in DOMAIN cr.plan.metrics
  PROVE  UpdatedState(cr.plan.metrics, cr.analysis, outcome)[cr.plan.metrics[i]]
           # "none"
<1> DEFINE m == cr.plan.metrics[i]
<1>1. cr.plan.metrics \in Seq(Metrics)
  BY PlansAssumption DEF Rollout, PlanType
<1>2. m \in Metrics
  BY <1>1
<1>3. NextDecision(cr.analysis[m], outcome[m]) # "none"
  BY <1>2 DEF NextDecision, Decided, Outcomes
<1>4. UpdatedState(cr.plan.metrics, cr.analysis, outcome)[m]
        = NextDecision(cr.analysis[m], outcome[m])
  BY <1>2 DEF UpdatedState, RollsBack
<1> QED BY <1>3, <1>4

\* Time does not take back what was earned.
LEMMA AgeGrows ==
  ASSUME NEW v \in Rollout, v.step < Len(v.plan.steps),
         v.age >= CurrentStep(v).pause
  PROVE  Aged(v).age >= CurrentStep(Aged(v)).pause
<1>1. CurrentStep(v).pause \in Int
  BY CurrentStepType DEF CanaryStep
<1>2. CurrentStep(Aged(v)) = CurrentStep(v)
  BY AgedSame DEF CurrentStep, SameButAge
<1>3. v.age \in Int
  BY MaxAgeAssumption DEF Rollout
<1>4. Aged(v).age = v.age \/ Aged(v).age = v.age + 1
  BY NotFoundAssumption DEF Aged, Rollout
<1> QED BY <1>1, <1>2, <1>3, <1>4

\* A reconcile that starts on an up-to-date cache keeps GateInv.
LEMMA GateStart ==
  ASSUME TypeOK, Coherent, GateInv, Start \/ ReadinessError \/ WaitForPods
  PROVE  GateInv'
<1> USE DEF StartsWhen, Starts
<1>c. events = <<>> => cache = obj
  BY DEF Coherent
<1>1. CASE RolloutGone \/ StayTerminal \/ StayPaused
            \/ ReadinessError \/ WaitForPods
  BY <1>1 DEF RolloutGone, StayTerminal, StayPaused, Done, ReadinessError,
              WaitForPods, vars, GateInv, InFlight, Earned
<1>2. ASSUME cache # NotFound, NEW pc \in {"vs", "update"}, NEW strict,
             NEW phase, NEW step, NEW weight, NEW requeue,
             step = cache.step \/ cache.phase \in {"", "Pending"},
             Transition(pc, strict, phase, step, weight, requeue)
      PROVE  GateInv'
  <2>1. /\ rec'.pc = pc /\ rec'.stale = (events # <<>>)
        /\ rec'.cr.step = step /\ UNCHANGED <<obj, cache, events>>
    BY <1>2, TransitionFields
  <2> QED BY <1>2, <1>c, <2>1 DEF GateInv, InFlight
<1>3. CASE HandleAbort
  BY <1>3, <1>2 DEF HandleAbort
<1>4. CASE HandlePause
  BY <1>4, <1>2 DEF HandlePause
<1>5. CASE HandleResume
  BY <1>5, <1>2 DEF HandleResume
<1>6. CASE Initialize
  BY <1>6, <1>2 DEF Initialize
<1>7. CASE CompleteRollout
  BY <1>7, <1>2 DEF CompleteRollout
<1>8. CASE ReadinessTimedOut
  BY <1>8, <1>2 DEF ReadinessTimedOut
<1>9. CASE ApplyWeight
  BY <1>9, <1>2 DEF ApplyWeight
<1>10. CASE CheckStep
  <2> DEFINE pc == IF AnalysisRuns(cache.plan) THEN "analyze" ELSE "gate"
  <2>1. /\ Continue(pc, cache)
        /\ cache.step < Len(cache.plan.steps)
        /\ cache.weight = CurrentStep(cache).weight
    BY <1>10 DEF CheckStep, InSteps
  <2>2. /\ rec'.pc = pc /\ rec'.stale = (events # <<>>) /\ rec'.cr = cache
        /\ UNCHANGED <<obj, cache, events>>
    BY <2>1, ContinueFields
  <2>3. rec'.timerUp = (cache.age >= CurrentStep(cache).pause)
    BY <2>1 DEF Continue, Idle
  <2> QED BY <1>c, <2>1, <2>2, <2>3 DEF GateInv, InFlight, CurrentStep
<1> QED BY <1>1, <1>3, <1>4, <1>5, <1>6, <1>7, <1>8, <1>9, <1>10 DEF Start

\* Every step keeps GateInv.
LEMMA GateStep ==
  ASSUME TypeOK, Coherent, Fresh, GateInv, [Next]_vars
  PROVE  GateInv'
<1>r. rec \in RecType /\ (rec.pc # "idle" => rec.cr \in Rollout)
  BY DEF TypeOK
<1>i. ASSUME rec' = Idle PROVE GateInv'
  BY <1>i DEF GateInv, InFlight, Idle
<1>1. CASE Start \/ ReadinessError \/ WaitForPods
  BY <1>1, GateStart
<1>2. CASE AnalysisError \/ UpdateStatus \/ UpdateFails \/ Crash
  BY <1>2, <1>i DEF AnalysisError, UpdateStatus, UpdateFails, Crash
<1>3. CASE Wake \/ PodsChange \/ DeliverEvent \/ UNCHANGED vars
  BY <1>3 DEF Wake, PodsChange, DeliverEvent, vars, GateInv, InFlight, Earned
<1>4. ASSUME NEW outcome \in Outcomes, AnalysisRollsBack(outcome)
      PROVE  GateInv'
  <2>1. rec.cr \in Rollout
    BY <1>4, <1>r DEF AnalysisRollsBack
  <2>2. /\ rec'.pc = "vs" /\ rec'.cr.step = rec.cr.step /\ rec.pc = "analyze"
        /\ rec'.stale = rec.stale /\ obj' = obj
    BY <1>4, <1>r, <2>1 DEF AnalysisRollsBack, RecType, SetStatus, Rollout
  <2> QED BY <2>2 DEF GateInv, InFlight
<1>5. ASSUME NEW outcome \in Outcomes, AnalysisContinues(outcome)
      PROVE  GateInv'
  <2> DEFINE new == UpdatedState(rec.cr.plan.metrics, rec.cr.analysis, outcome)
  <2>1. rec.cr \in Rollout
    BY <1>5, <1>r DEF AnalysisContinues
  <2>2. \A i \in DOMAIN rec.cr.plan.metrics : new[rec.cr.plan.metrics[i]] # "none"
    BY <1>5, <2>1, ContinuesWithEntries DEF AnalysisContinues
  <2>3. /\ rec'.pc = "gate" /\ rec.pc = "analyze" /\ rec'.stale = rec.stale
        /\ rec'.timerUp = rec.timerUp /\ rec'.cr.analysis = new
        /\ rec'.cr.step = rec.cr.step /\ rec'.cr.plan = rec.cr.plan
        /\ obj' = obj
    BY <1>5, <1>r, <2>1 DEF AnalysisContinues, RecType, Rollout
  <2> HIDE DEF new
  <2> QED BY <2>2, <2>3 DEF GateInv, InFlight
<1>6. CASE Hold
  <2>1. /\ rec'.pc = "update" /\ rec.pc = "gate" /\ rec'.stale = rec.stale
        /\ rec'.cr = rec.cr /\ obj' = obj
    BY <1>6, <1>r DEF Hold, RecType
  <2> QED BY <2>1 DEF GateInv, InFlight
<1>7. CASE Advance
  <2>1. /\ rec.pc = "gate" /\ rec.timerUp /\ GateOpen(rec.cr) /\ obj' = obj
        /\ rec'.pc = "update" /\ rec'.stale = rec.stale
        /\ rec'.verdict = rec.cr.analysis /\ rec'.cr.analysis = NoAnalysis
    BY <1>7, <1>r DEF Advance, RecType, SetStatus, Rollout
  <2>2. SUFFICES ASSUME InFlight PROVE Earned'
    BY <2>1, <2>2 DEF GateInv, InFlight
  <2>3. /\ rec.cr.step = obj.step /\ rec.cr.plan = obj.plan
        /\ obj.step < Len(obj.plan.steps)
        /\ obj.weight = CurrentStep(obj).weight
        /\ obj.age >= CurrentStep(obj).pause
    BY <2>1, <2>2 DEF GateInv
  <2>4. CurrentStep(rec.cr) = CurrentStep(obj)
    BY <2>3 DEF CurrentStep
  <2>5. ASSUME CurrentStep(obj).pause > 0, AnalysisRuns(obj.plan),
               NEW i \in DOMAIN obj.plan.metrics
        PROVE  rec.cr.analysis[obj.plan.metrics[i]] = "promote"
    <3>1. AllPromote(rec.cr.analysis)
      BY <2>1, <2>3, <2>4, <2>5 DEF GateOpen, AnalysisRuns
    <3>2. obj.plan.metrics[i] \in Metrics
      <4>1. rec.cr.plan.metrics \in Seq(Metrics)
        BY <1>r, <2>1, PlansAssumption DEF Rollout, PlanType
      <4> QED BY <4>1, <2>3, <2>5
    <3>3. rec.cr.analysis[obj.plan.metrics[i]] # "none"
      BY <2>1, <2>3, <2>5 DEF GateInv
    <3> QED BY <3>1, <3>2, <3>3 DEF AllPromote
  <2> QED BY <2>1, <2>3, <2>5 DEF Earned, CurrentStep
<1>8. CASE SetWeights \/ SetWeightsFails
  <2>1. CASE rec' = Idle
    BY <2>1, <1>i
  <2>2. CASE rec' = [rec EXCEPT !.pc = "update"]
    <3>1. /\ rec'.pc = "update" /\ rec.pc = "vs" /\ rec'.stale = rec.stale
          /\ rec'.cr = rec.cr /\ rec'.verdict = rec.verdict /\ obj' = obj
      BY <1>8, <1>r, <2>2 DEF SetWeights, SetWeightsFails, RecType
    <3> QED BY <3>1 DEF GateInv, InFlight, Earned, CurrentStep
  <2> QED BY <1>8, <2>1, <2>2 DEF SetWeights, SetWeightsFails
<1>9. CASE Users
  <2>1. rec' = [rec EXCEPT !.stale = rec.pc # "idle"]
    BY <1>9 DEF Users, UserPause, UserResume, UserAbort, UserDelete,
                UserApply, UserWrites
  <2>2. /\ rec'.pc = rec.pc /\ rec'.cr = rec.cr /\ ~InFlight'
    BY <2>1, <1>r DEF RecType, InFlight
  <2> QED BY <2>2 DEF GateInv
<1>10. CASE Tick
  <2>1. /\ rec'.pc = rec.pc /\ rec'.stale = rec.stale /\ obj' = Aged(obj)
        /\ rec.pc # "idle" => SameButAge(rec'.cr, rec.cr)
    BY <1>10, TickFields DEF Tick
  <2>2. rec'.timerUp = rec.timerUp /\ rec'.verdict = rec.verdict
    BY <1>10, <1>r DEF Tick, RecType
  <2>3. InFlight => obj \in Rollout
    BY DEF Fresh, TypeOK, MaybeRollout
  <2>4. InFlight => SameButAge(obj', obj) /\ CurrentStep(obj') = CurrentStep(obj)
    BY <2>1, <2>3, AgedSame DEF SameButAge, CurrentStep
  <2>5. InFlight /\ obj.step < Len(obj.plan.steps)
          /\ obj.age >= CurrentStep(obj).pause
          => obj'.age >= CurrentStep(obj').pause
    BY <2>1, <2>3, AgeGrows
  <2>6. InFlight /\ Earned => Earned'
    BY <2>1, <2>2, <2>4, <2>5 DEF Earned, SameButAge, CurrentStep, InFlight
  <2>7. InFlight' = InFlight
    BY <2>1 DEF InFlight
  <2>8. rec.pc # "idle" => SameButAge(rec'.cr, rec.cr)
    BY <2>1
  <2>9. CASE InFlight
    BY <2>1, <2>2, <2>4, <2>5, <2>6, <2>7, <2>8, <2>9
       DEF GateInv, SameButAge, CurrentStep
  <2>10. CASE ~InFlight
    BY <2>1, <2>7, <2>8, <2>10 DEF GateInv, SameButAge
  <2> QED BY <2>9, <2>10
<1> QED BY <1>1, <1>2, <1>3, <1>4, <1>5, <1>6, <1>7, <1>8, <1>9, <1>10
        DEF Next, Reconcile, Analysis, Start, Runtime, Environment

\* A rollout leaves a step only after its weight was reported for its pause and
\* with every analysed metric promoting, under the plan stored at that moment,
\* and takes no verdict along.
THEOREM StepsAreEarned == Spec => StepEarned
<1>1. Init => GateInv
  BY IdleType DEF Init, GateInv, InFlight
<1>2. Inv /\ GateInv /\ [Next]_vars => GateInv'
  BY GateStep DEF Inv
<1>3. Inv /\ GateInv /\ [Next]_vars =>
        [Edited /\ obj'.step # obj.step /\ obj.phase \notin {"", "Pending"} =>
           /\ obj.weight = CurrentStep(obj).weight
           /\ obj.age >= CurrentStep(obj).pause
           /\ CurrentStep(obj).pause > 0 /\ AnalysisRuns(obj.plan) =>
                \A i \in DOMAIN obj.plan.metrics :
                  rec.verdict[obj.plan.metrics[i]] = "promote"
           /\ obj'.analysis = NoAnalysis]_vars
  <2> SUFFICES ASSUME Inv, GateInv, [Next]_vars, Edited, obj'.step # obj.step,
                      obj.phase \notin {"", "Pending"}
               PROVE  Earned /\ obj'.analysis = NoAnalysis
    BY DEF Earned
  <2>1. UpdateStatus /\ InFlight
    BY StatusChange DEF Inv
  <2>2. Earned /\ obj' = rec.cr
    BY <2>1 DEF GateInv, UpdateStatus
  <2> QED BY <2>2 DEF Earned
<1> QED BY <1>1, <1>2, <1>3, InvHolds, PTL DEF Spec, StepEarned

=============================================================================
