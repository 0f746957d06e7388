----------------------------- MODULE LoopProofs ----------------------------
(***************************************************************************)
(* What the reconcile loop promises to others, for every set of plans and  *)
(* metrics, every lag, fault and mix of commands: the phases follow        *)
(* Lifecycle, the rollout is shared as a RolloutStore, the stored verdicts *)
(* follow Verdicts, and the VirtualService follows the rollout: aborts and *)
(* weights are reported after they were carried out, a reported weight     *)
(* stays in force unless it is rolled back, and no outdated copy gives the *)
(* canary more than the steps reached allow.                               *)
(***************************************************************************)
EXTENDS ReconcilerProofs

-----------------------------------------------------------------------------
(* What the steps inside a reconcile do, field by field. *)

\* The analysis, the timer and the gate decide on the copy in memory.
LEMMA DecisionFields ==
  ASSUME TypeOK, Analysis \/ Hold \/ Advance
  PROVE  LET old == rec.cr
             new == rec'.cr IN
         /\ rec.pc \in {"analyze", "gate"} /\ old \in Rollout
         /\ rec'.stale = rec.stale /\ new.plan = old.plan
         /\ SpecOf(new) = SpecOf(old)
         /\ UNCHANGED <<obj, cache, events, vs>>
         /\ \/ /\ rec'.pc \in {"gate", "update"}
               /\ new.phase = old.phase /\ new.step = old.step
               /\ new.weight = old.weight
            \/ /\ rec'.pc = "vs"
               /\ new.phase = "Aborted" /\ new.step = old.step
               /\ new.weight = 0
            \/ /\ rec.pc = "gate" /\ rec'.pc = "update"
               /\ new.step = old.step + 1
               /\ \/ /\ new.phase = "Promoted" /\ new.weight = 100
                     /\ new.step >= Len(new.plan.steps)
                  \/ new.phase = "Running" /\ new.weight = old.weight
<1>r. rec \in RecType /\ (rec.pc # "idle" => rec.cr \in Rollout)
  BY DEF TypeOK
<1>1. ASSUME NEW outcome \in Outcomes, AnalysisRollsBack(outcome)
      PROVE  /\ rec.pc = "analyze" /\ rec'.pc = "vs" /\ rec'.stale = rec.stale
             /\ rec'.cr.plan = rec.cr.plan /\ rec'.cr.phase = "Aborted"
             /\ rec'.cr.step = rec.cr.step /\ rec'.cr.weight = 0
             /\ SpecOf(rec'.cr) = SpecOf(rec.cr)
             /\ UNCHANGED <<obj, cache, events, vs>>
  <2>1. rec.cr \in Rollout
    BY <1>1, <1>r DEF AnalysisRollsBack
  <2> QED BY <1>1, <1>r, <2>1 DEF AnalysisRollsBack, RecType, SetStatus, Rollout,
                              SpecOf
<1>2. ASSUME NEW outcome \in Outcomes, AnalysisContinues(outcome)
      PROVE  /\ rec.pc = "analyze" /\ rec'.pc = "gate" /\ rec'.stale = rec.stale
             /\ rec'.cr.plan = rec.cr.plan /\ rec'.cr.phase = rec.cr.phase
             /\ rec'.cr.step = rec.cr.step /\ rec'.cr.weight = rec.cr.weight
             /\ SpecOf(rec'.cr) = SpecOf(rec.cr)
             /\ UNCHANGED <<obj, cache, events, vs>>
  <2>1. rec.cr \in Rollout
    BY <1>2, <1>r DEF AnalysisContinues
  <2> QED BY <1>2, <1>r, <2>1 DEF AnalysisContinues, RecType, Rollout, SpecOf
<1>3. CASE Hold
  <2>1. /\ rec.pc = "gate" /\ rec'.pc = "update" /\ rec'.stale = rec.stale
        /\ rec'.cr = rec.cr /\ UNCHANGED <<obj, cache, events, vs>>
    BY <1>3, <1>r DEF Hold, RecType
  <2> QED BY <1>r, <2>1
<1>4. CASE Advance
  <2>1. rec.cr \in Rollout /\ rec.pc = "gate"
    BY <1>4, <1>r DEF Advance
  <2>2. /\ rec'.pc = "update" /\ rec'.stale = rec.stale
        /\ rec'.cr.plan = rec.cr.plan /\ SpecOf(rec'.cr) = SpecOf(rec.cr)
        /\ rec'.cr.step = rec.cr.step + 1
        /\ \/ /\ rec'.cr.phase = "Promoted" /\ rec'.cr.weight = 100
              /\ rec'.cr.step >= Len(rec'.cr.plan.steps)
           \/ rec'.cr.phase = "Running" /\ rec'.cr.weight = rec.cr.weight
        /\ UNCHANGED <<obj, cache, events, vs>>
    BY <1>4, <1>r, <2>1 DEF Advance, RecType, SetStatus, Rollout, SpecOf
  <2> QED BY <2>1, <2>2
<1> QED BY <1>r, <1>1, <1>2, <1>3, <1>4 DEF Analysis

\* A write to the VirtualService, successful or not.
LEMMA WriteFields ==
  ASSUME TypeOK, SetWeights \/ SetWeightsFails
  PROVE  /\ rec.pc = "vs" /\ rec.cr \in Rollout
         /\ UNCHANGED <<obj, cache, events>>
         /\ \/ rec' = Idle /\ vs' \in {vs, Weights(rec.cr.weight)}
            \/ /\ rec'.pc = "update" /\ rec'.stale = rec.stale
               /\ rec'.cr = rec.cr
               /\ \/ vs' = Weights(rec.cr.weight)
                  \/ ~rec.strict /\ vs' = vs
<1>r. rec \in RecType /\ (rec.pc # "idle" => rec.cr \in Rollout)
  BY DEF TypeOK
<1>1. CASE SetWeights
  BY <1>1, <1>r DEF SetWeights, RecType
<1>2. CASE SetWeightsFails
  BY <1>2, <1>r DEF SetWeightsFails, RecType
<1> QED BY <1>1, <1>2

\* A command outdates the reconcile in flight and changes nothing else of it.
LEMMA UserFields ==
  ASSUME TypeOK, Users
  PROVE  /\ rec'.pc = rec.pc /\ rec'.cr = rec.cr /\ ~InFlight'
         /\ obj' \in MaybeRollout
         /\ events' = Append(events, obj') /\ UNCHANGED <<cache, vs>>
<1>1. rec' = [rec EXCEPT !.stale = rec.pc # "idle"]
      /\ events' = Append(events, obj') /\ UNCHANGED <<cache, vs>>
  BY DEF Users, UserPause, UserResume, UserAbort, UserDelete, UserApply,
         UserWrites
<1>2. rec \in RecType
  BY DEF TypeOK
<1>3. rec'.pc = rec.pc /\ rec'.cr = rec.cr /\ ~InFlight'
  BY <1>1, <1>2 DEF RecType, InFlight
<1>4. obj' \in MaybeRollout
  BY UsersType DEF TypeOK
<1> QED BY <1>1, <1>3, <1>4

\* Without apply and delete a command changes the two flags at most.
LEMMA FlagsOnly ==
  ASSUME TypeOK, obj # NotFound, Users, {"apply", "delete"} \cap UserOps = {}
  PROVE  /\ obj' \in Rollout /\ obj' # NotFound
         /\ obj'.plan = obj.plan /\ obj'.step = obj.step
         /\ obj'.weight = obj.weight
<1>1. obj \in Rollout
  BY DEF TypeOK, MaybeRollout
<1>2. /\ obj'.plan = obj.plan /\ obj'.step = obj.step
      /\ obj'.weight = obj.weight /\ obj' \in Rollout
  BY <1>1 DEF Users, UserPause, UserResume, UserAbort, UserDelete,
              UserApply, UserWrites, Rollout
<1> QED BY <1>2, NotFoundAssumption

\* A reconcile that begins takes the spec and the verdicts as it reads them, and
\* comes to the gate at once only where no analysis runs.
LEMMA StartCopies ==
  ASSUME TypeOK, Start \/ ReadinessError \/ WaitForPods
  PROVE  \/ UNCHANGED <<obj, cache, events, rec, vs>>
         \/ /\ SpecOf(rec'.cr) = SpecOf(cache)
            /\ rec'.cr.analysis = cache.analysis
            /\ rec'.pc \in {"analyze", "gate"} => InSteps(cache)
            /\ rec'.pc = "gate" => ~AnalysisRuns(cache.plan)
            /\ \/ rec'.cr.weight \in {cache.weight, 0, 100}
               \/ InSteps(cache) /\ rec'.cr.weight = CurrentStep(cache).weight
<1> USE DEF StartsWhen, Starts
<1>1. CASE RolloutGone \/ StayTerminal \/ StayPaused
            \/ ReadinessError \/ WaitForPods
  BY <1>1 DEF RolloutGone, StayTerminal, StayPaused, Done, ReadinessError,
              WaitForPods, vars
<1>2. ASSUME cache # NotFound, NEW pc \in {"vs", "update"}, NEW strict,
             NEW phase, NEW step, NEW weight, NEW requeue,
             Transition(pc, strict, phase, step, weight, requeue)
      PROVE  /\ SpecOf(rec'.cr) = SpecOf(cache)
             /\ rec'.cr.analysis = cache.analysis
             /\ rec'.pc \notin {"analyze", "gate"}
             /\ rec'.cr.weight = weight
  <2>1. cache \in Rollout
    BY <1>2 DEF TypeOK, MaybeRollout
  <2> QED BY <1>2, <2>1, SetStatusFields, TransitionFields DEF SpecOf
<1>3. CASE HandleAbort \/ HandlePause \/ HandleResume \/ Initialize
             \/ CompleteRollout \/ ReadinessTimedOut \/ ApplyWeight
  BY <1>3, <1>2 DEF HandleAbort, HandlePause, HandleResume, Initialize,
                    CompleteRollout, ReadinessTimedOut, ApplyWeight
<1>4. CASE CheckStep
  BY <1>4, ContinueFields DEF CheckStep
<1> QED BY <1>1, <1>3, <1>4 DEF Start

\* The beginning of a reconcile: the early returns, the branches that end in a
\* setStatus, and the one that goes on to the analysis.
LEMMA StartKinds ==
  ASSUME TypeOK, Start \/ ReadinessError \/ WaitForPods
  PROVE  \/ UNCHANGED <<obj, cache, events, rec, vs>>
         \/ /\ cache \in Rollout /\ rec.pc = "idle"
            /\ UNCHANGED <<obj, cache, events, vs>>
            /\ rec'.stale = (events # <<>>) /\ rec'.cr.plan = cache.plan
            /\ rec'.cr.step \in {cache.step, 0}
            /\ \/ /\ cache.abort /\ rec'.pc = "vs" /\ rec'.strict
                  /\ rec'.cr.weight = 0 /\ rec'.cr.phase = "Aborted"
               \/ /\ ~cache.abort /\ rec'.pc = "update"
                  /\ rec'.cr.phase \in {"Paused", "Running"}
                  /\ rec'.cr.weight = cache.weight
                  /\ rec'.cr.step = cache.step
               \/ /\ ~cache.abort /\ rec'.pc = "update"
                  /\ cache.phase \in {"", "Pending"}
                  /\ rec'.cr.phase = "Running" /\ rec'.cr.weight = 0
               \/ /\ ~cache.abort /\ rec'.pc = "update"
                  /\ rec'.cr.phase = "Promoted" /\ rec'.cr.step = cache.step
                  /\ ~ (cache.step < Len(cache.plan.steps))
               \/ /\ ~cache.abort /\ rec'.pc = "vs" /\ rec'.cr.weight = 0
                  /\ rec'.cr.phase = "Failed"
               \/ /\ ~cache.abort /\ rec'.pc = "vs" /\ rec'.strict
                  /\ InSteps(cache) /\ rec'.cr.step = cache.step
                  /\ rec'.cr.weight = CurrentStep(cache).weight
                  /\ cache.weight # CurrentStep(cache).weight
                  /\ rec'.cr.phase = "Running"
               \/ /\ ~cache.abort /\ rec'.pc \in {"analyze", "gate"}
                  /\ rec'.cr = cache
<1> USE DEF StartsWhen, Starts
<1>1. CASE RolloutGone \/ StayTerminal \/ StayPaused
            \/ ReadinessError \/ WaitForPods
  BY <1>1 DEF RolloutGone, StayTerminal, StayPaused, Done, ReadinessError,
              WaitForPods, vars
<1>2. ASSUME cache # NotFound, NEW pc, NEW strict, NEW phase, NEW step,
             NEW weight, NEW requeue,
             Transition(pc, strict, phase, step, weight, requeue)
      PROVE  /\ cache \in Rollout
             /\ UNCHANGED <<obj, cache, events, vs>>
             /\ rec'.stale = (events # <<>>) /\ rec'.cr.plan = cache.plan
             /\ rec'.pc = pc /\ rec'.strict = strict /\ rec'.cr.phase = phase
             /\ rec'.cr.step = step /\ rec'.cr.weight = weight
  <2>1. cache \in Rollout
    BY <1>2 DEF TypeOK, MaybeRollout
  <2>2. rec'.strict = strict
    BY <1>2 DEF Transition, Idle
  <2>3. SetStatus(cache, phase, step, weight).plan = cache.plan
    BY <2>1, SetStatusFields
  <2> QED BY <1>2, <2>1, <2>2, <2>3, TransitionFields
<1>3. CASE HandleAbort
  BY <1>3, <1>2 DEF HandleAbort, MustAbort
<1>4. CASE HandlePause
  <2>1. /\ cache # NotFound /\ ~cache.abort /\ rec.pc = "idle"
        /\ Transition("update", FALSE, "Paused", cache.step, cache.weight, FALSE)
    BY <1>4 DEF HandlePause, MustPause
  <2> QED BY <2>1, <1>2
<1>5. CASE HandleResume
  <2>1. /\ cache # NotFound /\ ~cache.abort /\ rec.pc = "idle"
        /\ Transition("update", FALSE, "Running", cache.step, cache.weight, TRUE)
    BY <1>5 DEF HandleResume, Unpaused
  <2> QED BY <2>1, <1>2
<1>6. CASE Initialize
  BY <1>6, <1>2 DEF Initialize, Unpaused
<1>7. CASE CompleteRollout
  <2> DEFINE weight == 100
  <2>1. /\ cache # NotFound /\ ~cache.abort /\ rec.pc = "idle"
        /\ ~ (cache.step < Len(cache.plan.steps))
        /\ Transition("update", FALSE, "Promoted", cache.step, weight, FALSE)
    BY <1>7 DEF CompleteRollout, Advancing, InSteps
  <2> HIDE DEF weight
  <2> QED BY <2>1, <1>2
<1>8. CASE ReadinessTimedOut
  BY <1>8, <1>2 DEF ReadinessTimedOut, InSteps, Advancing
<1>9. CASE ApplyWeight
  <2> DEFINE weight == CurrentStep(cache).weight
             requeue == CurrentStep(cache).pause > 0
  <2>1. /\ cache # NotFound /\ InSteps(cache) /\ rec.pc = "idle"
        /\ cache.weight # CurrentStep(cache).weight
        /\ Transition("vs", TRUE, "Running", cache.step, weight, requeue)
    BY <1>9 DEF ApplyWeight
  <2>2. ~cache.abort
    BY <2>1 DEF InSteps, Advancing
  <2> HIDE DEF weight, requeue
  <2>3. /\ cache \in Rollout /\ UNCHANGED <<obj, cache, events, vs>>
        /\ rec'.stale = (events # <<>>) /\ rec'.cr.plan = cache.plan
        /\ rec'.pc = "vs" /\ rec'.strict /\ rec'.cr.phase = "Running"
        /\ rec'.cr.step = cache.step /\ rec'.cr.weight = weight
    BY <2>1, <1>2
  <2> QED BY <2>1, <2>2, <2>3 DEF weight
<1>10. CASE CheckStep
  <2> DEFINE pc == IF AnalysisRuns(cache.plan) THEN "analyze" ELSE "gate"
  <2>1. Continue(pc, cache) /\ ~cache.abort /\ cache \in Rollout
        /\ rec.pc = "idle"
    BY <1>10 DEF CheckStep, InSteps, Advancing, TypeOK, MaybeRollout
  <2> QED BY <2>1, ContinueFields
<1> QED BY <1>1, <1>3, <1>4, <1>5, <1>6, <1>7, <1>8, <1>9, <1>10 DEF Start

-----------------------------------------------------------------------------
(* What a reconcile that may still succeed is about to do. *)

\* The phases and steps that Lifecycle allows after those of v.
Legal(v, phase, step) ==
  \/ /\ Unpaused(v) /\ v.phase \in {"", "Pending"}
     /\ phase = "Running" /\ step = 0
  \/ MustPause(v) /\ phase = "Paused" /\ step = v.step
  \/ MustAbort(v) /\ phase = "Aborted" /\ step = v.step
  \/ /\ Unpaused(v) /\ v.phase = "Paused"
     /\ phase = "Running" /\ step = v.step
  \/ /\ Advancing(v)
     /\ \/ phase \in {"Running", "Failed", "Aborted"} /\ step = v.step
        \/ phase = "Running" /\ step = v.step + 1
        \/ phase = "Promoted" /\ step \in {v.step, v.step + 1}

SameFlags(v, w) == v.paused = w.paused /\ v.abort = w.abort

\* A fresh reconcile at the analysis or the gate holds the stored phase and
\* step, and the rollout is at work; one that is about to store something has a
\* legal successor of what is stored.
LifeInv ==
  /\ InFlight /\ rec.pc \in {"analyze", "gate"} =>
       /\ SameFlags(rec.cr, obj)
       /\ rec.cr.phase = obj.phase /\ rec.cr.step = obj.step
       /\ Advancing(obj)
  /\ InFlight /\ rec.pc \in {"vs", "update"} =>
       /\ SameFlags(rec.cr, obj)
       /\ Legal(obj, rec.cr.phase, rec.cr.step)

\* The conditions do not depend on the age.
LEMMA LegalAged ==
  ASSUME NEW v, NEW w, SameButAge(w, v)
  PROVE  /\ Advancing(w) = Advancing(v)
         /\ \A phase, step : Legal(w, phase, step) = Legal(v, phase, step)
BY DEF SameButAge, Advancing, Legal, Unpaused, MustPause, MustAbort, Terminal

\* A rollout at work is Running or Failed.
LEMMA AdvancingPhases ==
  ASSUME NEW v \in Rollout, Advancing(v)
  PROVE  v.phase \in {"Running", "Failed"}
BY DEF Advancing, Terminal, Rollout, Phases

\* A reconcile that starts on an up-to-date cache keeps LifeInv.
LEMMA LifeStart ==
  ASSUME TypeOK, Coherent, LifeInv, Start \/ ReadinessError \/ WaitForPods
  PROVE  LifeInv'
<1> USE DEF StartsWhen, Starts
<1>c. events = <<>> => cache = obj
  BY DEF Coherent
<1>t. cache # NotFound => cache \in Rollout
  BY DEF TypeOK, MaybeRollout
<1>1. CASE RolloutGone \/ StayTerminal \/ StayPaused
            \/ ReadinessError \/ WaitForPods
  BY <1>1 DEF RolloutGone, StayTerminal, StayPaused, Done, ReadinessError,
              WaitForPods, vars, LifeInv, InFlight
<1>2. ASSUME cache # NotFound, NEW pc \in {"vs", "update"}, NEW strict,
             NEW phase, NEW step, NEW weight, NEW requeue,
             Legal(cache, phase, step),
             Transition(pc, strict, phase, step, weight, requeue)
      PROVE  LifeInv'
  <2>1. /\ rec'.pc = pc /\ rec'.stale = (events # <<>>)
        /\ rec'.cr.phase = phase /\ rec'.cr.step = step
        /\ rec'.cr = SetStatus(cache, phase, step, weight)
        /\ UNCHANGED <<obj, cache, events>>
    BY <1>2, TransitionFields
  <2>2. SameFlags(rec'.cr, cache)
    BY <1>2, <1>t, <2>1, SetStatusFields DEF SameFlags
  <2> QED BY <1>2, <1>c, <2>1, <2>2 DEF LifeInv, InFlight, SameFlags
<1>3. CASE HandleAbort
  BY <1>3, <1>2 DEF HandleAbort, Legal
<1>4. CASE HandlePause
  BY <1>4, <1>2 DEF HandlePause, Legal
<1>5. CASE HandleResume
  BY <1>5, <1>2 DEF HandleResume, Legal
<1>6. CASE Initialize
  BY <1>6, <1>2 DEF Initialize, Legal
<1>7. CASE CompleteRollout
  BY <1>7, <1>2 DEF CompleteRollout, Legal
<1>8. CASE ReadinessTimedOut
  BY <1>8, <1>2 DEF ReadinessTimedOut, Legal, InSteps
<1>9. CASE ApplyWeight
  BY <1>9, <1>2 DEF ApplyWeight, Legal, InSteps
<1>10. CASE CheckStep
  <2> DEFINE pc == IF AnalysisRuns(cache.plan) THEN "analyze" ELSE "gate"
  <2>1. Continue(pc, cache) /\ Advancing(cache)
    BY <1>10 DEF CheckStep, InSteps
  <2>2. /\ rec'.pc = pc /\ rec'.stale = (events # <<>>) /\ rec'.cr = cache
        /\ UNCHANGED <<obj, cache, events>>
    BY <2>1, ContinueFields
  <2> QED BY <1>c, <2>1, <2>2 DEF LifeInv, InFlight, SameFlags
<1> QED BY <1>1, <1>3, <1>4, <1>5, <1>6, <1>7, <1>8, <1>9, <1>10 DEF Start

\* Every step keeps LifeInv.
LEMMA LifeStep ==
  ASSUME TypeOK, Coherent, Fresh, LifeInv, [Next]_vars
  PROVE  LifeInv'
<1>r. rec \in RecType /\ (rec.pc # "idle" => rec.cr \in Rollout)
  BY DEF TypeOK
<1>i. ASSUME rec' = Idle PROVE LifeInv'
  BY <1>i DEF LifeInv, InFlight, Idle
<1>1. CASE Start \/ ReadinessError \/ WaitForPods
  BY <1>1, LifeStart
<1>2. CASE AnalysisError \/ UpdateStatus \/ UpdateFails \/ Crash
  BY <1>2, <1>i DEF AnalysisError, UpdateStatus, UpdateFails, Crash
<1>3. CASE Wake \/ PodsChange \/ DeliverEvent \/ UNCHANGED vars
  BY <1>3 DEF Wake, PodsChange, DeliverEvent, vars, LifeInv, InFlight
<1>4. ASSUME NEW outcome \in Outcomes, AnalysisRollsBack(outcome)
      PROVE  LifeInv'
  <2>1. rec.cr \in Rollout
    BY <1>4, <1>r DEF AnalysisRollsBack
  <2>2. /\ rec'.pc = "vs" /\ rec.pc = "analyze"
        /\ rec'.cr.step = rec.cr.step /\ rec'.cr.phase = "Aborted"
        /\ SameFlags(rec'.cr, rec.cr)
        /\ rec'.stale = rec.stale /\ obj' = obj
    BY <1>4, <1>r, <2>1
       DEF AnalysisRollsBack, RecType, SetStatus, Rollout, SameFlags
  <2> QED BY <2>2 DEF LifeInv, InFlight, Legal, SameFlags
<1>5. ASSUME NEW outcome \in Outcomes, AnalysisContinues(outcome)
      PROVE  LifeInv'
  <2>1. rec.cr \in Rollout
    BY <1>5, <1>r DEF AnalysisContinues
  <2>2. /\ rec'.pc = "gate" /\ rec.pc = "analyze" /\ rec'.stale = rec.stale
        /\ rec'.cr.step = rec.cr.step /\ rec'.cr.phase = rec.cr.phase
        /\ SameFlags(rec'.cr, rec.cr)
        /\ obj' = obj
    BY <1>5, <1>r, <2>1 DEF AnalysisContinues, RecType, Rollout, SameFlags
  <2> QED BY <2>2 DEF LifeInv, InFlight, SameFlags
<1>6. CASE Hold
  <2>1. /\ rec'.pc = "update" /\ rec.pc = "gate" /\ rec'.stale = rec.stale
        /\ rec'.cr = rec.cr /\ obj' = obj
    BY <1>6, <1>r DEF Hold, RecType
  <2>2. SUFFICES ASSUME InFlight
                 PROVE  /\ SameFlags(rec.cr, obj)
                        /\ Legal(obj, rec.cr.phase, rec.cr.step)
    BY <2>1 DEF LifeInv, InFlight
  <2>3. Advancing(obj) /\ obj \in Rollout
    BY <2>1, <2>2 DEF LifeInv, Fresh, TypeOK, MaybeRollout
  <2> QED BY <2>1, <2>2, <2>3, AdvancingPhases DEF LifeInv, Legal
<1>7. CASE Advance
  <2>1. rec.cr \in Rollout /\ rec.pc = "gate"
    BY <1>7, <1>r DEF Advance
  <2>2. /\ rec'.pc = "update" /\ rec'.stale = rec.stale /\ obj' = obj
        /\ SameFlags(rec'.cr, rec.cr)
        /\ rec'.cr.step = rec.cr.step + 1
        /\ rec'.cr.phase \in {"Promoted", "Running"}
    BY <1>7, <1>r, <2>1 DEF Advance, RecType, SetStatus, Rollout, SameFlags
  <2> QED BY <2>1, <2>2 DEF LifeInv, InFlight, Legal, SameFlags
<1>8. CASE SetWeights \/ SetWeightsFails
  <2>1. CASE rec' = Idle
    BY <2>1, <1>i
  <2>2. CASE rec' = [rec EXCEPT !.pc = "update"]
    <3>1. /\ rec'.pc = "update" /\ rec.pc = "vs" /\ rec'.stale = rec.stale
          /\ rec'.cr = rec.cr /\ obj' = obj
      BY <1>8, <1>r, <2>2 DEF SetWeights, SetWeightsFails, RecType
    <3> QED BY <3>1 DEF LifeInv, InFlight
  <2> QED BY <1>8, <2>1, <2>2 DEF SetWeights, SetWeightsFails
<1>9. CASE Users
  <2>1. rec' = [rec EXCEPT !.stale = rec.pc # "idle"]
    BY <1>9 DEF Users, UserPause, UserResume, UserAbort, UserDelete,
                UserApply, UserWrites
  <2>2. ~InFlight'
    BY <2>1, <1>r DEF RecType, InFlight
  <2> QED BY <2>2 DEF LifeInv
<1>10. CASE Tick
  <2>1. /\ rec'.pc = rec.pc /\ rec'.stale = rec.stale /\ obj' = Aged(obj)
        /\ rec.pc # "idle" => SameButAge(rec'.cr, rec.cr)
    BY <1>10, TickFields DEF Tick
  <2>2. InFlight' = InFlight
    BY <2>1 DEF InFlight
  <2>3. CASE InFlight
    <3>1. SameButAge(obj', obj)
      BY <2>1, <2>3, AgedSame DEF Fresh, TypeOK, MaybeRollout
    <3>2. SameButAge(rec'.cr, rec.cr)
      BY <2>1, <2>3 DEF InFlight
    <3> QED BY <2>1, <2>2, <2>3, <3>1, <3>2, LegalAged
            DEF LifeInv, SameButAge, SameFlags
  <2> QED BY <2>2, <2>3 DEF LifeInv
<1> QED BY <1>1, <1>2, <1>3, <1>4, <1>5, <1>6, <1>7, <1>8, <1>9, <1>10
        DEF Next, Reconcile, Analysis, Start, Runtime, Environment

-----------------------------------------------------------------------------
(* The refinement. *)

LifeOf(v) == [phase |-> v.phase, step |-> v.step,
              paused |-> v.paused, abort |-> v.abort]

\* What users see of a rollout that exists, and that they can tell.
LEMMA SeenExists ==
  ASSUME obj \in Rollout
  PROVE  obj # NotFound /\ Seen = LifeOf(obj) /\ Seen # Gone
<1>1. obj # NotFound
  BY NotFoundAssumption
<1>2. Seen = LifeOf(obj)
  BY <1>1 DEF Seen, LifeOf
<1>3. obj.phase # "none"
  BY DEF Rollout, Phases
<1> QED BY <1>1, <1>2, <1>3 DEF LifeOf, Gone

\* The same of the next state.
LEMMA SeenExistsNext ==
  ASSUME obj' \in Rollout
  PROVE  obj' # NotFound /\ Seen' = LifeOf(obj') /\ Seen' # Gone
<1>1. obj' # NotFound
  BY NotFoundAssumption
<1>2. Seen' = LifeOf(obj')
  BY <1>1 DEF Seen, LifeOf
<1>3. obj'.phase # "none"
  BY DEF Rollout, Phases
<1> QED BY <1>1, <1>2, <1>3 DEF LifeOf, Gone

\* Whatever leaves what users set and read as it is, leaves their view.
LEMMA SeenSame ==
  ASSUME obj \in Rollout, obj' \in Rollout, SameButAge(obj', obj)
  PROVE  Seen' = Seen
BY SeenExists, SeenExistsNext DEF SameButAge, LifeOf

\* The status update of a fresh reconcile is a step of Lifecycle.
LEMMA UpdateMaps ==
  ASSUME TypeOK, Fresh, LifeInv, UpdateStatus, InFlight
  PROVE  View!Next \/ Seen' = Seen
<1>1. /\ obj \in Rollout /\ obj' \in Rollout
      /\ obj' = rec.cr /\ rec.pc = "update"
  BY DEF Fresh, TypeOK, MaybeRollout, UpdateStatus
<1>2. Seen = LifeOf(obj) /\ Seen # Gone /\ Seen' = LifeOf(obj')
  BY <1>1, SeenExists, SeenExistsNext
<1>3. View!Becomes(obj'.phase, obj'.step)
  <2>1. SameFlags(obj', obj)
    BY <1>1 DEF LifeInv
  <2> QED BY <1>2, <2>1 DEF View!Becomes, View!Life, LifeOf, SameFlags
<1>4. Legal(obj, obj'.phase, obj'.step)
  BY <1>1 DEF LifeInv
<1>f. /\ Seen.phase = obj.phase /\ Seen.step = obj.step
      /\ Seen.paused = obj.paused /\ Seen.abort = obj.abort
  BY <1>2 DEF LifeOf
<1>a. Advancing(obj) => View!Working
  <2>1. Advancing(obj) => obj.phase \in {"Running", "Failed"}
    BY <1>1, AdvancingPhases
  <2> QED BY <1>2, <1>f, <2>1
      DEF View!Working, View!Free, View!Over, Advancing
<1>5. CASE /\ Unpaused(obj) /\ obj.phase \in {"", "Pending"}
           /\ obj'.phase = "Running" /\ obj'.step = 0
  <2>1. View!Begin
    BY <1>2, <1>3, <1>5, <1>f
       DEF View!Begin, View!Free, View!Over, Unpaused
  <2> QED BY <2>1 DEF View!Next, View!Controller
<1>6. CASE MustPause(obj) /\ obj'.phase = "Paused" /\ obj'.step = obj.step
  <2>1. View!Pause
    BY <1>2, <1>3, <1>6, <1>f DEF View!Pause, View!Over, MustPause, Terminal
  <2> QED BY <2>1 DEF View!Next, View!Controller
<1>7. CASE MustAbort(obj) /\ obj'.phase = "Aborted" /\ obj'.step = obj.step
  <2>1. View!Abort
    BY <1>2, <1>3, <1>7, <1>f DEF View!Abort, MustAbort, Terminal
  <2> QED BY <2>1 DEF View!Next, View!Controller
<1>8. CASE /\ Unpaused(obj) /\ obj.phase = "Paused"
           /\ obj'.phase = "Running" /\ obj'.step = obj.step
  <2>1. View!Resume
    BY <1>2, <1>3, <1>8, <1>f
       DEF View!Resume, View!Free, View!Over, Unpaused
  <2> QED BY <2>1 DEF View!Next, View!Controller
<1>9. CASE Advancing(obj) /\ obj'.step = obj.step
             /\ obj'.phase \in {"Running", "Failed", "Aborted"}
  <2>1. View!Work \/ View!Fail \/ View!Abort
    BY <1>2, <1>3, <1>9, <1>a, <1>f
       DEF View!Work, View!Fail, View!Abort, Advancing, Terminal
  <2> QED BY <2>1 DEF View!Next, View!Controller
<1>10. CASE Advancing(obj) /\ obj'.phase = "Running"
              /\ obj'.step = obj.step + 1
  <2>1. View!Advance
    BY <1>3, <1>10, <1>a, <1>f DEF View!Advance
  <2> QED BY <2>1 DEF View!Next, View!Controller
<1>11. CASE Advancing(obj) /\ obj'.phase = "Promoted"
              /\ obj'.step \in {obj.step, obj.step + 1}
  <2>1. View!Promote
    BY <1>3, <1>11, <1>a, <1>f DEF View!Promote
  <2> QED BY <2>1 DEF View!Next, View!Controller
<1> QED BY <1>4, <1>5, <1>6, <1>7, <1>8, <1>9, <1>10, <1>11 DEF Legal

\* An edit of an existing rollout is a step of Lifecycle.
LEMMA EditMaps ==
  ASSUME obj \in Rollout, NEW plan \in Plans,
         NEW paused \in BOOLEAN, NEW abort \in BOOLEAN,
         obj' = [obj EXCEPT !.plan = plan, !.paused = paused, !.abort = abort]
  PROVE  View!Next
<1>1. obj' \in Rollout
  BY DEF Rollout
<1>2. Seen = LifeOf(obj) /\ Seen # Gone /\ Seen' = LifeOf(obj')
  BY <1>1, SeenExists, SeenExistsNext
<1>3. View!Edit(paused, abort)
  <2>1. /\ obj'.phase = obj.phase /\ obj'.step = obj.step
        /\ obj'.paused = paused /\ obj'.abort = abort
    BY DEF Rollout
  <2> QED BY <1>2, <2>1 DEF View!Edit, View!Life, LifeOf
<1> QED BY <1>3 DEF View!Next, View!Users

\* A command of a user is a step of Lifecycle.
LEMMA UsersMap ==
  ASSUME TypeOK, Users
  PROVE  View!Next
<1>o. obj # NotFound => obj \in Rollout
  BY DEF TypeOK, MaybeRollout
<1>e. ASSUME obj # NotFound, NEW paused \in BOOLEAN, NEW abort \in BOOLEAN,
             obj' = [obj EXCEPT !.paused = paused, !.abort = abort]
      PROVE  View!Next
  <2>1. obj.plan \in Plans
    BY <1>o, <1>e DEF Rollout
  <2>2. obj' = [obj EXCEPT !.plan = obj.plan, !.paused = paused,
                           !.abort = abort]
    BY <1>o, <1>e DEF Rollout
  <2> QED BY <1>o, <1>e, <2>1, <2>2, EditMaps
<1>1. CASE UserPause
  <2>1. obj' = [obj EXCEPT !.paused = TRUE, !.abort = obj.abort]
    BY <1>1, <1>o DEF UserPause, UserWrites, Rollout
  <2> QED BY <1>1, <1>e, <1>o, <2>1 DEF UserPause, Rollout
<1>2. CASE UserResume
  BY <1>2, <1>e DEF UserResume, UserWrites
<1>3. CASE UserAbort
  <2>1. obj' = [obj EXCEPT !.paused = obj.paused, !.abort = TRUE]
    BY <1>3, <1>o DEF UserAbort, UserWrites, Rollout
  <2> QED BY <1>3, <1>e, <1>o, <2>1 DEF UserAbort, Rollout
<1>4. CASE UserDelete
  <2>1. obj # NotFound /\ obj' = NotFound
    BY <1>4 DEF UserDelete, UserWrites
  <2>2. Seen # Gone /\ Seen' = Gone
    BY <1>o, <2>1, SeenExists DEF Seen
  <2> QED BY <2>2 DEF View!Next, View!Users, View!Delete
<1>5. ASSUME NEW plan \in Plans, NEW paused \in BOOLEAN,
             NEW abort \in BOOLEAN, UserApply(plan, paused, abort)
      PROVE  View!Next
  <2>1. CASE obj = NotFound
    <3>1. obj' = NewRollout(plan, paused, abort)
      BY <1>5, <2>1 DEF UserApply, UserWrites
    <3>2. obj' \in Rollout
      BY <3>1, NewRolloutType
    <3>3. Seen = Gone /\ Seen' = LifeOf(obj')
      BY <2>1, <3>2, SeenExistsNext DEF Seen
    <3>4. View!Create(paused, abort)
      BY <3>1, <3>3 DEF View!Create, View!Created, View!Life, LifeOf, NewRollout
    <3> QED BY <3>4 DEF View!Next, View!Users
  <2>2. CASE obj # NotFound
    BY <1>5, <1>o, <2>2, EditMaps DEF UserApply, UserWrites
  <2> QED BY <2>1, <2>2
<1> QED BY <1>1, <1>2, <1>3, <1>4, <1>5 DEF Users

\* Every step of the loop is a step of Lifecycle or does not show.
LEMMA StepMaps ==
  ASSUME TypeOK, Coherent, Fresh, LifeInv, [Next]_vars
  PROVE  View!Next \/ Seen' = Seen
<1>u. ASSUME obj' = obj PROVE Seen' = Seen
  BY <1>u DEF Seen
<1>1. CASE Reconcile /\ ~UpdateStatus
  BY <1>1, <1>u, ReadsKeepStore
<1>2. CASE UpdateStatus
  BY <1>2, UpdateMaps DEF UpdateStatus, InFlight
<1>3. CASE Users
  BY <1>3, UsersMap
<1>4. CASE Tick
  <2>1. CASE obj = NotFound
    BY <1>4, <1>u, <2>1, AgedSame DEF Tick
  <2>2. CASE obj # NotFound
    <3>1. obj \in Rollout /\ obj' = Aged(obj)
      BY <1>4, <2>2 DEF TypeOK, MaybeRollout, Tick
    <3>2. obj' \in Rollout /\ SameButAge(obj', obj)
      BY <3>1, AgedSame, AgedType
    <3> QED BY <3>1, <3>2, SeenSame
  <2> QED BY <2>1, <2>2
<1>5. CASE Runtime \/ PodsChange \/ UNCHANGED vars
  BY <1>5, <1>u DEF Runtime, DeliverEvent, Wake, Crash, PodsChange, vars
<1> QED BY <1>1, <1>2, <1>3, <1>4, <1>5 DEF Next, Environment

\* The phases and steps users read change as if every reconcile saw the stored
\* rollout and acted on it at once.
THEOREM ImplementsLifecycle == Spec => IsLifecycle
<1>1. Init => View!Init /\ LifeInv
  <2> SUFFICES ASSUME Init PROVE View!Init /\ LifeInv
    OBVIOUS
  <2>1. PICK plan \in Plans : obj = NewRollout(plan, FALSE, FALSE)
    BY DEF Init
  <2>2. obj \in Rollout
    BY <2>1, NewRolloutType
  <2>3. Seen = LifeOf(obj)
    BY <2>2, SeenExists
  <2>4. View!Init
    BY <2>1, <2>3 DEF View!Init, View!Created, View!Life, LifeOf, NewRollout
  <2> QED BY <2>4, IdleType DEF Init, LifeInv, InFlight
<1>2. Inv /\ LifeInv /\ [Next]_vars => LifeInv'
  BY LifeStep DEF Inv
<1>3. Inv /\ LifeInv /\ [Next]_vars => [View!Next]_Seen
  BY StepMaps DEF Inv
<1> QED BY <1>1, <1>2, <1>3, InvHolds, PTL DEF Spec, IsLifecycle, View!Spec

-----------------------------------------------------------------------------
(* The rollout as one register. *)

\* A status that the plans can bring about.
Fits(v) == v # NotFound => v.step \in Reached /\ v.weight \in Shown

\* Every copy shows such a status, the walk stays within the steps of the plan
\* it was begun with, and a fresh reconcile holds the stored spec: what it is
\* about to store changes the status only.
RegisterInv ==
  /\ Fits(obj) /\ Fits(cache) /\ \A i \in DOMAIN events : Fits(events[i])
  /\ rec.pc # "idle" => Fits(rec.cr)
  /\ rec.pc \in {"analyze", "gate"} => rec.cr.step < Len(rec.cr.plan.steps)
  /\ InFlight => SpecOf(rec.cr) = SpecOf(obj)

\* A step of the plan can be reached, the one after it too, and its weight shown.
LEMMA StepFits ==
  ASSUME NEW v \in Rollout, v.step < Len(v.plan.steps)
  PROVE  /\ v.step \in Reached /\ v.step + 1 \in Reached
         /\ CurrentStep(v).weight \in Shown
<1>1. /\ v.plan \in Plans /\ v.step \in Nat
      /\ v.plan.steps \in Seq(CanaryStep)
  BY PlansAssumption DEF Rollout, PlanType
<1>2. v.step \in 0..Len(v.plan.steps) /\ v.step + 1 \in 0..Len(v.plan.steps)
  BY <1>1
<1>3. v.step + 1 \in DOMAIN v.plan.steps
  BY <1>1
<1> QED BY <1>1, <1>2, <1>3 DEF Reached, Shown, CurrentStep

\* Nothing, everything and the first step need no plan.
LEMMA ZeroFits ==
  /\ 0 \in Shown /\ 100 \in Shown
  /\ \A plan \in Plans : 0 \in Reached
<1>1. ASSUME NEW plan \in Plans PROVE 0 \in 0..Len(plan.steps)
  BY PlansAssumption DEF PlanType
<1> QED BY <1>1 DEF Shown, Reached

\* The age is not shown.
LEMMA AgedFits == \A v \in MaybeRollout : Fits(v) => Fits(Aged(v))
BY AgedSame DEF Fits, SameButAge, MaybeRollout

\* A command writes a status it has found, or the zero status.
LEMMA UsersFit ==
  ASSUME TypeOK, Fits(obj), Users
  PROVE  Fits(obj')
<1>1. CASE obj' = NotFound
  BY <1>1 DEF Fits
<1>2. ASSUME NEW plan \in Plans, NEW paused, NEW abort,
             obj' = NewRollout(plan, paused, abort)
      PROVE  Fits(obj')
  BY <1>2, ZeroFits DEF NewRollout, Fits
<1>3. CASE obj # NotFound /\ obj' # NotFound
  <2>1. obj \in Rollout
    BY <1>3 DEF TypeOK, MaybeRollout
  <2>2. obj'.step = obj.step /\ obj'.weight = obj.weight
    BY <1>3, <2>1 DEF Users, UserPause, UserResume, UserAbort, UserDelete,
                      UserApply, UserWrites, Rollout
  <2> QED BY <1>3, <2>2 DEF Fits
<1>4. CASE obj = NotFound /\ obj' # NotFound
  BY <1>2, <1>4 DEF Users, UserPause, UserResume, UserAbort, UserDelete,
                    UserApply, UserWrites
<1> QED BY <1>1, <1>3, <1>4

\* Every step keeps RegisterInv.
LEMMA RegisterStep ==
  ASSUME TypeOK, Coherent, Fresh, RegisterInv, [Next]_vars
  PROVE  RegisterInv'
<1>r. rec \in RecType /\ events \in Seq(MaybeRollout)
      /\ obj \in MaybeRollout /\ cache \in MaybeRollout
      /\ (rec.pc # "idle" => rec.cr \in Rollout)
  BY DEF TypeOK
<1>i. Idle.pc = "idle"
  BY IdleType
<1>1. CASE Start \/ ReadinessError \/ WaitForPods
  <2>1. CASE UNCHANGED <<obj, cache, events, rec, vs>>
    BY <2>1 DEF RegisterInv, InFlight
  <2>2. CASE ~UNCHANGED <<obj, cache, events, rec, vs>>
    <3>1. /\ cache \in Rollout /\ cache # NotFound /\ Fits(cache)
          /\ UNCHANGED <<obj, cache, events>>
          /\ rec'.stale = (events # <<>>)
          /\ rec'.cr.plan = cache.plan /\ SpecOf(rec'.cr) = SpecOf(cache)
      BY <1>1, <2>2, StartKinds, StartCopies, NotFoundAssumption
         DEF RegisterInv
    <3>2. rec'.cr.step \in Reached
      <4>1. rec'.cr.step \in {cache.step, 0} /\ cache.plan \in Plans
        BY <1>1, <2>2, <3>1, StartKinds DEF Rollout
      <4> QED BY <3>1, <4>1, ZeroFits DEF Fits
    <3>3. rec'.cr.weight \in Shown
      <4>1. \/ rec'.cr.weight \in {cache.weight, 0, 100}
            \/ InSteps(cache) /\ rec'.cr.weight = CurrentStep(cache).weight
        BY <1>1, <2>2, StartCopies
      <4>2. InSteps(cache) => CurrentStep(cache).weight \in Shown
        BY <3>1, StepFits DEF InSteps
      <4> QED BY <3>1, <4>1, <4>2, ZeroFits DEF Fits
    <3>4. rec'.pc \in {"analyze", "gate"} =>
            rec'.cr.step < Len(rec'.cr.plan.steps)
      <4>1. rec'.pc \in {"analyze", "gate"} => rec'.cr = cache /\ InSteps(cache)
        BY <1>1, <2>2, StartKinds, StartCopies
      <4> QED BY <4>1 DEF InSteps
    <3>5. InFlight' => SpecOf(rec'.cr) = SpecOf(obj')
      BY <3>1 DEF Coherent, InFlight
    <3> QED BY <3>1, <3>2, <3>3, <3>4, <3>5 DEF RegisterInv, Fits
  <2> QED BY <2>1, <2>2
<1>2. CASE Analysis \/ Hold \/ Advance
  <2>1. /\ rec.pc \in {"analyze", "gate"} /\ rec.cr \in Rollout
        /\ rec'.stale = rec.stale /\ rec'.cr.plan = rec.cr.plan
        /\ SpecOf(rec'.cr) = SpecOf(rec.cr) /\ UNCHANGED <<obj, cache, events>>
    BY <1>2, DecisionFields
  <2>2. rec.cr # NotFound /\ Fits(rec.cr) /\ rec.cr.step < Len(rec.cr.plan.steps)
    BY <2>1, NotFoundAssumption DEF RegisterInv
  <2>3. Fits(rec'.cr)
    <3>1. rec'.cr.step \in {rec.cr.step, rec.cr.step + 1}
          /\ rec'.cr.weight \in {rec.cr.weight, 0, 100}
      BY <1>2, DecisionFields
    <3> QED BY <2>1, <2>2, <3>1, StepFits, ZeroFits DEF Fits
  <2>4. rec'.pc \in {"analyze", "gate"} => rec'.cr.step = rec.cr.step
    BY <1>2, DecisionFields
  <2>5. InFlight' => InFlight
    BY <2>1 DEF InFlight
  <2> QED BY <2>1, <2>2, <2>3, <2>4, <2>5 DEF RegisterInv
<1>3. CASE SetWeights \/ SetWeightsFails
  <2>1. CASE rec' = Idle
    BY <1>3, <1>i, <2>1, WriteFields DEF RegisterInv, InFlight
  <2>2. CASE rec' # Idle
    BY <1>3, <2>2, WriteFields DEF RegisterInv, InFlight
  <2> QED BY <2>1, <2>2
<1>4. CASE UpdateStatus
  <2>1. /\ obj' = rec.cr /\ Fits(rec.cr) /\ rec' = Idle /\ cache' = cache
        /\ events' \in {events, Append(events, rec.cr)}
    BY <1>4 DEF UpdateStatus, RegisterInv
  <2> QED BY <1>r, <1>i, <2>1 DEF RegisterInv, InFlight
<1>5. CASE AnalysisError \/ UpdateFails
  BY <1>5, <1>i DEF AnalysisError, UpdateFails, RegisterInv, InFlight
<1>6. CASE DeliverEvent
  <2>1. Fits(cache') /\ \A i \in DOMAIN events' : Fits(events'[i])
    BY <1>6, <1>r DEF DeliverEvent, RegisterInv
  <2> QED BY <1>6, <2>1 DEF DeliverEvent, RegisterInv, InFlight
<1>7. CASE Crash
  BY <1>7, <1>i DEF Crash, RegisterInv, InFlight
<1>8. CASE Wake \/ PodsChange \/ UNCHANGED vars
  BY <1>8 DEF Wake, PodsChange, vars, RegisterInv, InFlight
<1>9. CASE Users
  <2>1. Fits(obj')
    BY <1>9, UsersFit DEF RegisterInv
  <2> QED BY <1>9, <1>r, <2>1, UserFields DEF RegisterInv
<1>10. CASE Tick
  <2>1. obj' = Aged(obj) /\ cache' = Aged(cache)
    BY <1>10 DEF Tick
  <2>2. Fits(obj') /\ Fits(cache') /\ \A i \in DOMAIN events' : Fits(events'[i])
    BY <1>10, <1>r, <2>1, AgedFits, TickFields DEF RegisterInv
  <2>3. rec'.pc # "idle" => SameButAge(rec'.cr, rec.cr) /\ Fits(rec'.cr)
    BY <1>10, <1>r, TickFields, NotFoundAssumption
       DEF RegisterInv, Fits, SameButAge
  <2>4. InFlight' => InFlight /\ SameButAge(obj', obj)
    BY <1>10, <1>r, <2>1, TickFields, AgedSame DEF InFlight, Fresh, MaybeRollout
  <2> QED BY <1>10, <2>2, <2>3, <2>4, TickFields
          DEF RegisterInv, SameButAge, SpecOf, InFlight
<1> QED BY <1>1, <1>2, <1>3, <1>4, <1>5, <1>6, <1>7, <1>8, <1>9, <1>10
        DEF Next, Reconcile, Start, Runtime, Environment

RegisterOf(v) == [spec |-> SpecOf(v), status |-> StatusOf(v)]

\* A rollout that exists is told from none.
LEMMA RegisterOfRollout ==
  ASSUME NEW v \in Rollout, Fits(v)
  PROVE  v # NotFound /\ RegisterOf(v) # NotFound
<1>1. v # NotFound
  BY NotFoundAssumption
<1>2. SpecOf(v) \in SpecsApplied
  BY DEF SpecOf, SpecsApplied, Rollout
<1>3. StatusOf(v) \in StatusesShown
  BY <1>1 DEF StatusOf, StatusesShown, Rollout, Fits
<1> QED BY <1>1, <1>2, <1>3, RegisterAssumption DEF RegisterOf

LEMMA RegisterExists ==
  ASSUME obj \in Rollout, Fits(obj)
  PROVE  Register = RegisterOf(obj) /\ Register # NotFound
BY RegisterOfRollout DEF Register, RegisterOf

\* The same of the next state.
LEMMA RegisterExistsNext ==
  ASSUME obj' \in Rollout, Fits(obj')
  PROVE  Register' = RegisterOf(obj') /\ Register' # NotFound
BY RegisterOfRollout DEF Register, RegisterOf

\* The status update of a fresh reconcile writes the status.
LEMMA UpdateWritesStatus ==
  ASSUME TypeOK, Fresh, RegisterInv, RegisterInv', UpdateStatus
  PROVE  Store!Next
<1>1. /\ InFlight /\ obj' = rec.cr
      /\ obj \in Rollout /\ obj' \in Rollout
  BY DEF UpdateStatus, InFlight, Fresh, TypeOK, MaybeRollout
<1>2. Fits(obj) /\ Fits(obj') /\ obj' # NotFound
  BY <1>1, NotFoundAssumption DEF RegisterInv
<1>3. /\ Register = RegisterOf(obj) /\ Register # NotFound
      /\ Register' = RegisterOf(obj')
  BY <1>1, <1>2, RegisterExists, RegisterExistsNext
<1>4. SpecOf(obj') = SpecOf(obj)
  BY <1>1 DEF RegisterInv
<1>5. StatusOf(obj') \in StatusesShown
  BY <1>1, <1>2 DEF StatusOf, StatusesShown, Rollout, Fits
<1>6. Store!WriteStatus(StatusOf(obj'))
  BY <1>3, <1>4 DEF Store!WriteStatus, Store!Exists, RegisterOf
<1> QED BY <1>5, <1>6 DEF Store!Next

\* A command is the operation of the register that has its name.
LEMMA UsersShare ==
  ASSUME TypeOK, RegisterInv, RegisterInv', Users
  PROVE  Store!Next
<1>o. obj # NotFound => obj \in Rollout /\ Fits(obj)
  BY DEF TypeOK, MaybeRollout, RegisterInv
<1>n. obj' # NotFound => obj' \in Rollout /\ Fits(obj')
  BY UserFields DEF MaybeRollout, RegisterInv
<1>e. ASSUME obj # NotFound, obj' # NotFound, StatusOf(obj') = StatusOf(obj)
      PROVE  /\ Register # NotFound /\ Register.spec = SpecOf(obj)
             /\ Register' = [Register EXCEPT !.spec = SpecOf(obj')]
  BY <1>e, <1>o, <1>n, RegisterExists, RegisterExistsNext
     DEF RegisterOf
<1>1. CASE UserPause
  <2>1. /\ obj # NotFound /\ obj' # NotFound
        /\ StatusOf(obj') = StatusOf(obj)
        /\ SpecOf(obj') = [SpecOf(obj) EXCEPT !.paused = TRUE]
    <3>1. obj \in Rollout /\ obj # NotFound /\ obj' = [obj EXCEPT !.paused = TRUE]
      BY <1>1, <1>o DEF UserPause, UserWrites
    <3>2. obj' \in Rollout
      BY <3>1 DEF Rollout
    <3>3. StatusOf(obj') = StatusOf(obj)
      BY <3>1 DEF Rollout, StatusOf
    <3>4. obj'.plan = obj.plan /\ obj'.paused = TRUE /\ obj'.abort = obj.abort
      BY <3>1 DEF Rollout
    <3>5. SpecOf(obj') = [SpecOf(obj) EXCEPT !.paused = obj'.paused]
      BY <3>4 DEF SpecOf
    <3>6. SpecOf(obj') = [SpecOf(obj) EXCEPT !.paused = TRUE]
      BY <3>4, <3>5, Zenon
    <3> QED BY <3>1, <3>2, <3>3, <3>6, NotFoundAssumption
  <2>2. Store!Pause
    BY <1>e, <2>1 DEF Store!Pause, Store!Exists
  <2> QED BY <2>2 DEF Store!Next
<1>2. CASE UserResume
  <2>1. /\ obj # NotFound /\ obj' # NotFound
        /\ StatusOf(obj') = StatusOf(obj)
        /\ SpecOf(obj') = [SpecOf(obj) EXCEPT !.paused = FALSE, !.abort = FALSE]
    <3>1. obj \in Rollout /\ obj # NotFound /\ obj' = [obj EXCEPT !.paused = FALSE, !.abort = FALSE]
      BY <1>2, <1>o DEF UserResume, UserWrites
    <3>2. obj' \in Rollout
      BY <3>1 DEF Rollout
    <3>3. StatusOf(obj') = StatusOf(obj)
      BY <3>1 DEF Rollout, StatusOf
    <3>4. obj'.plan = obj.plan /\ obj'.paused = FALSE /\ obj'.abort = FALSE
      BY <3>1 DEF Rollout
    <3>5. SpecOf(obj') = [SpecOf(obj) EXCEPT !.paused = obj'.paused,
                                             !.abort = obj'.abort]
      <4> DEFINE mid == [SpecOf(obj) EXCEPT !.paused = obj'.paused]
      <4>1. mid = [plan |-> obj.plan, paused |-> obj'.paused, abort |-> obj.abort]
        BY DEF SpecOf
      <4>2. obj'.plan = obj.plan
        BY <3>4
      <4> HIDE DEF mid
      <4>3. SpecOf(obj') = [mid EXCEPT !.abort = obj'.abort]
        BY <4>1, <4>2 DEF SpecOf
      <4> QED BY <4>3 DEF mid
    <3>6. SpecOf(obj') = [SpecOf(obj) EXCEPT !.paused = FALSE, !.abort = FALSE]
      BY <3>4, <3>5, Zenon
    <3> QED BY <3>1, <3>2, <3>3, <3>6, NotFoundAssumption
  <2>2. Store!Resume
    BY <1>e, <2>1 DEF Store!Resume, Store!Exists
  <2> QED BY <2>2 DEF Store!Next
<1>3. CASE UserAbort
  <2>1. /\ obj # NotFound /\ obj' # NotFound
        /\ StatusOf(obj') = StatusOf(obj)
        /\ SpecOf(obj') = [SpecOf(obj) EXCEPT !.abort = TRUE]
    <3>1. obj \in Rollout /\ obj # NotFound /\ obj' = [obj EXCEPT !.abort = TRUE]
      BY <1>3, <1>o DEF UserAbort, UserWrites
    <3>2. obj' \in Rollout
      BY <3>1 DEF Rollout
    <3>3. StatusOf(obj') = StatusOf(obj)
      BY <3>1 DEF Rollout, StatusOf
    <3>4. obj'.plan = obj.plan /\ obj'.paused = obj.paused /\ obj'.abort = TRUE
      BY <3>1 DEF Rollout
    <3>5. SpecOf(obj') = [SpecOf(obj) EXCEPT !.abort = obj'.abort]
      BY <3>4 DEF SpecOf
    <3>6. SpecOf(obj') = [SpecOf(obj) EXCEPT !.abort = TRUE]
      BY <3>4, <3>5, Zenon
    <3> QED BY <3>1, <3>2, <3>3, <3>6, NotFoundAssumption
  <2>2. Store!Abort
    BY <1>e, <2>1 DEF Store!Abort, Store!Exists
  <2> QED BY <2>2 DEF Store!Next
<1>4. CASE UserDelete
  <2>1. Register # NotFound /\ Register' = NotFound
    BY <1>4, <1>o, RegisterExists DEF UserDelete, UserWrites, Register
  <2> QED BY <2>1 DEF Store!Next, Store!Delete, Store!Exists
<1>5. ASSUME NEW plan \in Plans, NEW paused \in BOOLEAN,
             NEW abort \in BOOLEAN, UserApply(plan, paused, abort)
      PROVE  Store!Next
  <2> DEFINE spec == [plan |-> plan, paused |-> paused, abort |-> abort]
  <2>1. spec \in SpecsApplied
    BY DEF SpecsApplied
  <2>2. CASE obj = NotFound
    <3>1. obj' = NewRollout(plan, paused, abort) /\ obj' \in Rollout
      BY <1>5, <2>2, NewRolloutType DEF UserApply, UserWrites
    <3>2. SpecOf(obj') = spec /\ StatusOf(obj') = ZeroStatus
      BY <3>1 DEF NewRollout, SpecOf, StatusOf, ZeroStatus
    <3>3. Register = NotFound /\ Register' = RegisterOf(obj')
      BY <1>n, <2>2, <3>1, NotFoundAssumption, RegisterExistsNext
         DEF Register
    <3>4. Store!Create(spec)
      BY <3>2, <3>3 DEF Store!Create, Store!Exists, RegisterOf
    <3> QED BY <2>1, <3>4 DEF Store!Next
  <2>3. CASE obj # NotFound
    <3>1. /\ obj' # NotFound /\ StatusOf(obj') = StatusOf(obj)
          /\ SpecOf(obj') = spec
      BY <1>5, <1>o, <2>3, NotFoundAssumption
         DEF UserApply, UserWrites, Rollout, StatusOf, SpecOf
    <3>2. Store!Apply(spec)
      BY <1>e, <2>3, <3>1 DEF Store!Apply, Store!Exists
    <3> QED BY <2>1, <3>2 DEF Store!Next
  <2> QED BY <2>2, <2>3
<1> QED BY <1>1, <1>2, <1>3, <1>4, <1>5 DEF Users

\* Every step of the loop is an operation of the register or does not show.
LEMMA StoreMaps ==
  ASSUME TypeOK, Fresh, RegisterInv, RegisterInv', [Next]_vars
  PROVE  [Store!Next]_Register
<1>u. ASSUME obj' = obj PROVE Register' = Register
  BY <1>u DEF Register
<1>1. CASE Reconcile /\ ~UpdateStatus
  BY <1>1, <1>u, ReadsKeepStore
<1>2. CASE UpdateStatus
  BY <1>2, UpdateWritesStatus
<1>3. CASE Users
  BY <1>3, UsersShare
<1>4. CASE Tick
  <2>1. CASE obj = NotFound
    BY <1>4, <1>u, <2>1, AgedSame DEF Tick
  <2>2. CASE obj # NotFound
    <3>1. SameButAge(obj', obj) /\ obj' # NotFound
      BY <1>4, <2>2, AgedSame DEF Tick, TypeOK, MaybeRollout
    <3> QED BY <2>2, <3>1 DEF SameButAge, Register, SpecOf, StatusOf
  <2> QED BY <2>1, <2>2
<1>5. CASE Runtime \/ PodsChange \/ UNCHANGED vars
  BY <1>5, <1>u DEF Runtime, DeliverEvent, Wake, Crash, PodsChange, vars
<1> QED BY <1>1, <1>2, <1>3, <1>4, <1>5 DEF Next, Environment

\* The invariant holds from the start.
LEMMA RegisterHolds == Spec => [](Inv /\ RegisterInv)
<1>1. Init => RegisterInv
  <2> SUFFICES ASSUME Init PROVE RegisterInv
    OBVIOUS
  <2>1. rec.pc = "idle" /\ events = <<obj>> /\ cache = NotFound
    BY IdleType DEF Init
  <2>2. PICK plan \in Plans : obj = NewRollout(plan, FALSE, FALSE)
    BY DEF Init
  <2>3. Fits(obj) /\ Fits(NotFound)
    BY <2>2, ZeroFits DEF NewRollout, Fits
  <2>4. \A i \in DOMAIN events : events[i] = obj
    BY <2>1
  <2> QED BY <2>1, <2>3, <2>4 DEF RegisterInv, InFlight
<1>2. Inv /\ RegisterInv /\ [Next]_vars => RegisterInv'
  BY RegisterStep DEF Inv
<1> QED BY <1>1, <1>2, InvHolds, PTL DEF Spec

\* The controller and the commands share the rollout as one register: a status
\* update changes nothing of the spec, even if it was computed from a copy that
\* was read long before, and no command puts back a status.
THEOREM SharesTheRegister == Spec => SharesStore
<1>1. Init => Store!Init
  <2> SUFFICES ASSUME Init PROVE Store!Init
    OBVIOUS
  <2>1. PICK plan \in Plans : obj = NewRollout(plan, FALSE, FALSE)
    BY DEF Init
  <2>2. obj \in Rollout /\ obj # NotFound
    BY <2>1, NewRolloutType, NotFoundAssumption
  <2>3. SpecOf(obj) \in SpecsApplied /\ StatusOf(obj) = ZeroStatus
    BY <2>1 DEF NewRollout, SpecOf, StatusOf, ZeroStatus, SpecsApplied
  <2> QED BY <2>2, <2>3 DEF Store!Init, Register
<1>2. Inv /\ RegisterInv /\ RegisterInv' /\ [Next]_vars =>
        [Store!Next]_Register
  BY StoreMaps DEF Inv
<1> QED BY <1>1, <1>2, RegisterHolds, PTL DEF Spec, SharesStore, Store!Spec

-----------------------------------------------------------------------------
(* The stored verdicts. *)

\* What a fresh reconcile may make of the stored verdicts, old: nothing, those of
\* one cycle, or none after a cycle that lets the step end.
Follows(new, old) ==
  \/ new = old
  \/ \E outcome \in Outcomes : new = UpdatedState(Analysed, old, outcome)
  \/ /\ new = NoAnalysis
     /\ \E outcome \in Outcomes :
          AllPromote(UpdatedState(Analysed, old, outcome))

\* A fresh reconcile analyses the stored verdicts, comes to the gate with those
\* of one cycle, and stores what may follow.
VerdictInv ==
  /\ obj # NotFound
  /\ InFlight =>
       /\ rec.pc = "analyze" => rec.cr.analysis = obj.analysis
       /\ rec.pc = "gate" =>
            \E outcome \in Outcomes :
              rec.cr.analysis = UpdatedState(Analysed, obj.analysis, outcome)
       /\ rec.pc \in {"vs", "update"} =>
            Follows(rec.cr.analysis, obj.analysis)

\* With fully gated plans the gate of a copy within its steps opens only when all
\* promote.
LEMMA GateHolds ==
  ASSUME \A p \in Plans : FullyGated(p), NEW cr \in Rollout,
         cr.step < Len(cr.plan.steps), GateOpen(cr)
  PROVE  AllPromote(cr.analysis)
<1>1. /\ cr.plan \in Plans /\ cr.step \in Nat
      /\ cr.plan.steps \in Seq(CanaryStep)
  BY PlansAssumption DEF Rollout, PlanType
<1>2. cr.step + 1 \in DOMAIN cr.plan.steps
  BY <1>1
<1>3. CurrentStep(cr).pause > 0 /\ HasAnalysis(cr.plan)
  BY <1>1, <1>2 DEF FullyGated, AnalysisRuns, CurrentStep
<1> QED BY <1>3 DEF GateOpen

\* The analysis runs one cycle; the timer keeps its verdicts; an advance forgets
\* them when all promote.
LEMMA DecisionVerdicts ==
  ASSUME TypeOK, RegisterInv, \A p \in Plans : FullyGated(p),
         Analysis \/ Hold \/ Advance
  PROVE  \/ /\ rec.pc = "analyze" /\ rec'.pc \in {"vs", "gate"}
            /\ \E outcome \in Outcomes :
                 rec'.cr.analysis = UpdatedState(Analysed, rec.cr.analysis, outcome)
         \/ /\ rec.pc = "gate" /\ rec'.pc = "update"
            /\ \/ rec'.cr.analysis = rec.cr.analysis
               \/ /\ rec'.cr.analysis = NoAnalysis
                  /\ AllPromote(rec.cr.analysis)
<1>r. rec \in RecType /\ (rec.pc # "idle" => rec.cr \in Rollout)
  BY DEF TypeOK
<1>m. rec.pc # "idle" => rec.cr.plan.metrics = Analysed
  BY <1>r DEF Rollout, FullyGated
<1>1. ASSUME NEW outcome \in Outcomes, AnalysisRollsBack(outcome)
      PROVE  /\ rec.pc = "analyze" /\ rec'.pc = "vs"
             /\ rec'.cr.analysis = UpdatedState(Analysed, rec.cr.analysis, outcome)
  <2>1. rec.cr \in Rollout /\ rec.cr.plan.metrics = Analysed
    BY <1>1, <1>r, <1>m DEF AnalysisRollsBack
  <2> QED BY <1>1, <1>r, <2>1 DEF AnalysisRollsBack, RecType, SetStatus, Rollout
<1>2. ASSUME NEW outcome \in Outcomes, AnalysisContinues(outcome)
      PROVE  /\ rec.pc = "analyze" /\ rec'.pc = "gate"
             /\ rec'.cr.analysis = UpdatedState(Analysed, rec.cr.analysis, outcome)
  <2>1. rec.cr \in Rollout /\ rec.cr.plan.metrics = Analysed
    BY <1>2, <1>r, <1>m DEF AnalysisContinues
  <2> QED BY <1>2, <1>r, <2>1 DEF AnalysisContinues, RecType, Rollout
<1>3. CASE Hold
  BY <1>3, <1>r DEF Hold, RecType
<1>4. CASE Advance
  <2>1. rec.cr \in Rollout /\ rec.pc = "gate" /\ GateOpen(rec.cr)
    BY <1>4, <1>r DEF Advance
  <2>2. AllPromote(rec.cr.analysis)
    BY <2>1, GateHolds DEF RegisterInv
  <2>3. rec'.pc = "update" /\ rec'.cr.analysis = NoAnalysis
    BY <1>4, <1>r, <2>1 DEF Advance, RecType, SetStatus, Rollout
  <2> QED BY <2>1, <2>2, <2>3
<1> QED BY <1>1, <1>2, <1>3, <1>4 DEF Analysis

\* What follows depends on the verdicts alone, and time leaves them.
LEMMA VerdictTick ==
  ASSUME TypeOK, VerdictInv, Tick
  PROVE  VerdictInv'
<1>1. obj \in Rollout /\ obj' = Aged(obj)
  BY DEF Tick, VerdictInv, TypeOK, MaybeRollout
<1>2. obj' # NotFound /\ obj'.analysis = obj.analysis
  BY <1>1, AgedSame DEF SameButAge
<1>3. /\ rec'.pc = rec.pc /\ rec'.stale = rec.stale
      /\ rec.pc # "idle" => rec'.cr.analysis = rec.cr.analysis
  BY TickFields DEF SameButAge
<1> QED BY <1>2, <1>3 DEF VerdictInv, InFlight

\* Every step keeps VerdictInv.
LEMMA VerdictStep ==
  ASSUME TypeOK, Coherent, RegisterInv, VerdictInv, [Next]_vars,
         \A p \in Plans : FullyGated(p), {"apply", "delete"} \cap UserOps = {}
  PROVE  VerdictInv'
<1>i. Idle.pc = "idle"
  BY IdleType
<1>1. CASE Start \/ ReadinessError \/ WaitForPods
  <2>1. CASE UNCHANGED <<obj, cache, events, rec, vs>>
    BY <2>1 DEF VerdictInv, InFlight
  <2>2. CASE ~UNCHANGED <<obj, cache, events, rec, vs>>
    <3>1. /\ cache \in Rollout /\ UNCHANGED <<obj, cache, events>>
          /\ rec'.stale = (events # <<>>)
          /\ rec'.cr.analysis = cache.analysis /\ rec'.pc # "gate"
      BY <1>1, <2>2, StartKinds, StartCopies DEF Rollout, FullyGated
    <3>2. InFlight' => rec'.cr.analysis = obj'.analysis
      BY <3>1 DEF Coherent, InFlight
    <3> QED BY <3>1, <3>2 DEF VerdictInv, Follows
  <2> QED BY <2>1, <2>2
<1>2. CASE Analysis \/ Hold \/ Advance
  <2>1. rec'.stale = rec.stale /\ UNCHANGED obj /\ rec.pc \in {"analyze", "gate"}
    BY <1>2, DecisionFields
  <2>2. SUFFICES ASSUME InFlight' PROVE VerdictInv'
    BY <2>1 DEF VerdictInv
  <2>3. InFlight
    BY <2>1, <2>2 DEF InFlight
  <2> QED BY <1>2, <2>1, <2>3, DecisionVerdicts DEF VerdictInv, Follows
<1>3. CASE SetWeights \/ SetWeightsFails
  BY <1>3, <1>i, WriteFields DEF VerdictInv, InFlight
<1>4. CASE UpdateStatus
  <2>1. obj' = rec.cr /\ rec' = Idle /\ rec.cr \in Rollout
    BY <1>4 DEF UpdateStatus, TypeOK
  <2> QED BY <1>i, <2>1, NotFoundAssumption DEF VerdictInv, InFlight
<1>5. CASE AnalysisError \/ UpdateFails \/ Crash
  BY <1>5, <1>i DEF AnalysisError, UpdateFails, Crash, VerdictInv, InFlight
<1>6. CASE DeliverEvent \/ Wake \/ PodsChange \/ UNCHANGED vars
  BY <1>6 DEF DeliverEvent, Wake, PodsChange, vars, VerdictInv, InFlight
<1>7. CASE Users
  BY <1>7, UserFields, FlagsOnly DEF VerdictInv
<1>8. CASE Tick
  BY <1>8, VerdictTick
<1> QED BY <1>1, <1>2, <1>3, <1>4, <1>5, <1>6, <1>7, <1>8
        DEF Next, Reconcile, Start, Runtime, Environment

\* Only the status update of a fresh reconcile changes the stored verdicts, and
\* by a step of Verdicts: a decision that is stored with the abort is followed by
\* nothing.
LEMMA AnalyserStep ==
  ASSUME TypeOK, Fresh, RollbackInv, VerdictInv, VerdictInv', [Next]_vars
  PROVE  [Analyser!Next]_(obj.analysis)
<1> SUFFICES ASSUME obj'.analysis # obj.analysis PROVE Analyser!Next
  OBVIOUS
<1>1. UpdateStatus /\ InFlight
  BY StatusChange DEF VerdictInv, Edited
<1>2. obj'.analysis = rec.cr.analysis /\ rec.pc = "update"
  BY <1>1 DEF UpdateStatus
<1>3. Follows(obj'.analysis, obj.analysis)
  BY <1>1, <1>2 DEF VerdictInv
<1>4. ~HasRollback(obj.analysis)
  BY <1>1 DEF Fresh, RollbackInv, Recorded, Terminal
<1>5. /\ Analyser!Outcomes = Outcomes /\ Analyser!NoAnalysis = NoAnalysis
      /\ \A old, outcome :
           Analyser!UpdatedState(Analysed, old, outcome)
             = UpdatedState(Analysed, old, outcome)
      /\ \A analysis : /\ Analyser!AllPromote(analysis) = AllPromote(analysis)
                       /\ Analyser!HasRollback(analysis) = HasRollback(analysis)
  BY DEF Analyser!Outcomes, Outcomes, Analyser!NoAnalysis, NoAnalysis,
         Analyser!UpdatedState, UpdatedState, Analyser!RollbackAt, RollbackAt,
         Analyser!NextDecision, NextDecision, Analyser!Decided, Decided,
         Analyser!AllPromote, AllPromote, Analyser!HasRollback, HasRollback
<1> QED BY <1>3, <1>4, <1>5
        DEF Follows, Analyser!Next, Analyser!Cycle, Analyser!Advance

\* Where every step is held for the analysis and the rollout is not created
\* anew, the stored verdicts of the loop are the abstract analyser's, whatever
\* users, faults, the lag and restarts do in between.
THEOREM LoopFollowsAnalyser ==
  ASSUME \A p \in Plans : FullyGated(p), {"apply", "delete"} \cap UserOps = {}
  PROVE  Spec => FollowsAnalyser
<1>1. Init => VerdictInv /\ Analyser!Init
  <2> SUFFICES ASSUME Init PROVE VerdictInv /\ Analyser!Init
    OBVIOUS
  <2>1. PICK plan \in Plans : obj = NewRollout(plan, FALSE, FALSE)
    BY DEF Init
  <2>2. obj # NotFound /\ obj.analysis = NoAnalysis
    BY <2>1, NewRolloutType, NotFoundAssumption DEF NewRollout
  <2>3. rec.pc = "idle"
    BY IdleType DEF Init
  <2> QED BY <2>2, <2>3 DEF VerdictInv, InFlight, Analyser!Init,
                            Analyser!NoAnalysis, NoAnalysis
<1>2. Inv /\ RegisterInv /\ VerdictInv /\ [Next]_vars => VerdictInv'
  BY VerdictStep DEF Inv
<1>3. Inv /\ VerdictInv /\ VerdictInv' /\ [Next]_vars =>
        [Analyser!Next]_(obj.analysis)
  BY AnalyserStep DEF Inv
<1> QED BY <1>1, <1>2, <1>3, RegisterHolds, PTL
        DEF Spec, FollowsAnalyser, Analyser!Spec

-----------------------------------------------------------------------------
(* Aborts and weights are carried out before they are reported. *)

\* A rollout that was never taken up has no weight and no step.
Zeroed(v) ==
  v # NotFound /\ v.phase \in {"", "Pending"} => v.weight = 0 /\ v.step = 0

ZeroInv ==
  /\ Zeroed(obj) /\ Zeroed(cache) /\ \A i \in DOMAIN events : Zeroed(events[i])
  /\ rec.pc # "idle" => Zeroed(rec.cr)

\* A fresh reconcile carries a requested abort out with a write that must
\* succeed; one about to report a running rollout has its weight in force.
ReportInv ==
  InFlight =>
    /\ rec.pc \in {"analyze", "gate"} => rec.cr.weight = obj.weight
    /\ rec.pc = "vs" /\ (obj.abort \/ rec.cr.phase = "Running") => rec.strict
    /\ rec.pc = "vs" /\ obj.abort => rec.cr.weight = 0
    /\ rec.pc = "update" /\ obj.abort => vs.canary = 0
    /\ rec.pc = "update" /\ rec.cr.phase = "Running" =>
         rec.cr.weight = obj.weight \/ vs = Weights(rec.cr.weight)

\* Every step keeps ZeroInv.
LEMMA ZeroStep ==
  ASSUME TypeOK, Coherent, ZeroInv, [Next]_vars
  PROVE  ZeroInv'
<1>r. rec \in RecType /\ events \in Seq(MaybeRollout)
      /\ obj \in MaybeRollout /\ cache \in MaybeRollout
      /\ (rec.pc # "idle" => rec.cr \in Rollout)
  BY DEF TypeOK
<1>a. ASSUME NEW v \in MaybeRollout, Zeroed(v) PROVE Zeroed(Aged(v))
  BY <1>a, AgedSame DEF Zeroed, SameButAge, MaybeRollout
<1>i. Idle.pc = "idle"
  BY IdleType
<1>1. CASE Start \/ ReadinessError \/ WaitForPods
  <2>1. CASE UNCHANGED <<obj, cache, events, rec, vs>>
    BY <2>1 DEF ZeroInv
  <2>2. CASE rec'.cr = cache \/ rec'.cr.phase \notin {"", "Pending"}
    BY <1>1, <2>2, StartKinds DEF ZeroInv, Zeroed
  <2> QED BY <1>1, <2>1, <2>2, StartKinds
<1>2. CASE Analysis \/ Hold \/ Advance
  BY <1>2, DecisionFields, NotFoundAssumption DEF ZeroInv, Zeroed
<1>3. CASE SetWeights \/ SetWeightsFails
  BY <1>3, <1>i, WriteFields DEF ZeroInv
<1>4. CASE UpdateStatus
  <2>1. /\ obj' = rec.cr /\ Zeroed(rec.cr) /\ rec' = Idle /\ cache' = cache
        /\ events' \in {events, Append(events, rec.cr)}
    BY <1>4 DEF UpdateStatus, ZeroInv
  <2> QED BY <1>r, <1>i, <2>1 DEF ZeroInv
<1>5. CASE AnalysisError \/ UpdateFails
  BY <1>5, <1>i DEF AnalysisError, UpdateFails, ZeroInv
<1>6. CASE DeliverEvent
  <2>1. Zeroed(cache')
    BY <1>6, <1>r DEF DeliverEvent, ZeroInv
  <2>2. \A i \in DOMAIN events' : Zeroed(events'[i])
    BY <1>6, <1>r DEF DeliverEvent, ZeroInv
  <2> QED BY <1>6, <2>1, <2>2 DEF DeliverEvent, ZeroInv
<1>7. CASE Crash
  BY <1>7, <1>i DEF Crash, ZeroInv
<1>8. CASE Wake \/ PodsChange \/ UNCHANGED vars
  BY <1>8 DEF Wake, PodsChange, vars, ZeroInv
<1>9. CASE Users
  <2>1. Zeroed(obj')
    <3>1. ASSUME NEW plan, NEW paused, NEW abort,
                 obj' = NewRollout(plan, paused, abort)
          PROVE  Zeroed(obj')
      BY <3>1 DEF NewRollout, Zeroed
    <3>2. CASE obj # NotFound /\ obj' # NotFound
      <4>1. obj \in Rollout
        BY <1>r, <3>2 DEF MaybeRollout
      <4>2. /\ obj'.phase = obj.phase /\ obj'.step = obj.step
            /\ obj'.weight = obj.weight
        BY <1>9, <3>2, <4>1 DEF Users, UserPause, UserResume, UserAbort,
              UserDelete, UserApply, UserWrites, Rollout
      <4> QED BY <3>2, <4>2 DEF ZeroInv, Zeroed
    <3>3. CASE obj = NotFound /\ obj' # NotFound
      BY <1>9, <3>1, <3>3 DEF Users, UserPause, UserResume, UserAbort,
            UserDelete, UserApply, UserWrites
    <3>4. CASE obj' = NotFound
      BY <3>4 DEF Zeroed
    <3> QED BY <3>2, <3>3, <3>4
  <2> QED BY <1>9, <1>r, <2>1, UserFields DEF ZeroInv
<1>10. CASE Tick
  <2>1. rec'.pc # "idle" => Zeroed(rec'.cr)
    BY <1>10, <1>r, TickFields, NotFoundAssumption
       DEF ZeroInv, Zeroed, SameButAge
  <2>2. \A i \in DOMAIN events' : Zeroed(events'[i])
    BY <1>10, <1>a, <1>r, TickFields DEF ZeroInv
  <2> QED BY <1>10, <1>a, <1>r, <2>1, <2>2 DEF Tick, ZeroInv
<1> QED BY <1>1, <1>2, <1>3, <1>4, <1>5, <1>6, <1>7, <1>8, <1>9, <1>10
        DEF Next, Reconcile, Start, Runtime, Environment

\* Every step keeps ReportInv.
LEMMA ReportStep ==
  ASSUME TypeOK, Coherent, Fresh, ZeroInv, ReportInv, [Next]_vars
  PROVE  ReportInv'
<1>r. rec \in RecType
  BY DEF TypeOK
<1>i. ASSUME rec' = Idle PROVE ReportInv'
  BY <1>i DEF ReportInv, InFlight, Idle
<1>1. CASE Start \/ ReadinessError \/ WaitForPods
  <2>1. CASE UNCHANGED <<obj, cache, events, rec, vs>>
    BY <2>1 DEF ReportInv, InFlight
  <2>2. CASE events # <<>>
    BY <1>1, <2>1, <2>2, StartKinds DEF ReportInv, InFlight
  <2>3. CASE events = <<>>
    <3>1. cache = obj
      BY <2>3 DEF Coherent
    <3> QED BY <1>1, <2>1, <3>1, StartKinds, NotFoundAssumption
            DEF ReportInv, ZeroInv, Zeroed
  <2> QED BY <2>2, <2>3
<1>2. CASE Analysis \/ Hold \/ Advance
  <2>1. InFlight' => InFlight /\ ~obj.abort
    BY <1>2, DecisionFields DEF InFlight, Fresh
  <2> QED BY <1>2, <2>1, DecisionFields DEF ReportInv, InFlight
<1>3. CASE SetWeights \/ SetWeightsFails
  <2>1. rec'.pc = "update" /\ rec'.stale = rec.stale => InFlight' = InFlight
    BY <1>3, WriteFields DEF InFlight
  <2>2. Weights(0).canary = 0
    BY DEF Weights
  <2> QED BY <1>3, <1>i, <2>1, <2>2, WriteFields DEF ReportInv
<1>4. CASE UpdateStatus \/ AnalysisError \/ UpdateFails \/ Crash
  BY <1>4, <1>i DEF UpdateStatus, AnalysisError, UpdateFails, Crash
<1>5. CASE DeliverEvent \/ Wake \/ PodsChange \/ UNCHANGED vars
  BY <1>5 DEF DeliverEvent, Wake, PodsChange, vars, ReportInv, InFlight
<1>6. CASE Users
  BY <1>6, UserFields DEF ReportInv
<1>7. CASE Tick
  <2>1. rec'.strict = rec.strict
    BY <1>7, <1>r DEF Tick, RecType
  <2>2. InFlight' = InFlight
    BY <1>7, TickFields DEF InFlight
  <2>3. InFlight => SameButAge(obj', obj) /\ SameButAge(rec'.cr, rec.cr)
    BY <1>7, TickFields, AgedSame DEF Tick, Fresh, InFlight, TypeOK, MaybeRollout
  <2> QED BY <1>7, <2>1, <2>2, <2>3, TickFields DEF ReportInv, SameButAge
<1> QED BY <1>1, <1>2, <1>3, <1>4, <1>5, <1>6, <1>7
        DEF Next, Reconcile, Start, Runtime, Environment

LEMMA ReportHolds == Spec => [](Inv /\ ZeroInv /\ ReportInv)
<1>1. Init => ZeroInv /\ ReportInv
  <2> SUFFICES ASSUME Init PROVE ZeroInv /\ ReportInv
    OBVIOUS
  <2>1. rec.pc = "idle" /\ events = <<obj>> /\ cache = NotFound
    BY IdleType DEF Init
  <2>2. PICK plan \in Plans : obj = NewRollout(plan, FALSE, FALSE)
    BY DEF Init
  <2>3. Zeroed(obj) /\ Zeroed(NotFound)
    BY <2>2 DEF NewRollout, Zeroed
  <2>4. \A i \in DOMAIN events : events[i] = obj
    BY <2>1
  <2> QED BY <2>1, <2>3, <2>4 DEF ZeroInv, ReportInv, InFlight
<1>2. Inv /\ ZeroInv /\ ReportInv /\ [Next]_vars => ZeroInv' /\ ReportInv'
  BY ZeroStep, ReportStep DEF Inv
<1> QED BY <1>1, <1>2, InvHolds, PTL DEF Spec

\* A requested abort is reported after the traffic is back on stable, for a
\* failed write ends the reconcile and is tried again.
THEOREM AbortsAreComplete == Spec => UserAbortComplete
<1>1. Inv /\ ReportInv /\ [Next]_vars =>
        [Edited /\ obj.abort /\ obj.phase # "Aborted" /\ obj'.phase = "Aborted"
           => vs.canary = 0]_vars
  <2> SUFFICES ASSUME Inv, ReportInv, [Next]_vars, Edited, obj.abort,
                      obj.phase # "Aborted", obj'.phase = "Aborted"
               PROVE  vs.canary = 0
    OBVIOUS
  <2>1. UpdateStatus /\ InFlight
    BY StatusChange DEF Inv
  <2> QED BY <2>1 DEF ReportInv, UpdateStatus
<1> QED BY <1>1, ReportHolds, PTL DEF Spec, UserAbortComplete

\* A running rollout reports a new weight after the VirtualService has it.
THEOREM WeightsAreApplied == Spec => AppliedBeforeReported
<1>1. Inv /\ ReportInv /\ [Next]_vars =>
        [Edited /\ obj'.weight # obj.weight /\ obj'.phase = "Running"
           => vs = Weights(obj'.weight)]_vars
  <2> SUFFICES ASSUME Inv, ReportInv, [Next]_vars, Edited,
                      obj'.weight # obj.weight, obj'.phase = "Running"
               PROVE  vs = Weights(obj'.weight)
    OBVIOUS
  <2>1. UpdateStatus /\ InFlight
    BY StatusChange DEF Inv
  <2> QED BY <2>1 DEF ReportInv, UpdateStatus
<1> QED BY <1>1, ReportHolds, PTL DEF Spec, AppliedBeforeReported

-----------------------------------------------------------------------------
(* Exposure. *)

\* A weight that the steps up to `step' allow.
Allowed(weight, plan, step) ==
  \/ weight = 0
  \/ \E i \in DOMAIN plan.steps : i <= step + 1 /\ weight = plan.steps[i].weight

\* The copy v is of the plan of w and not ahead of its step.
Behind(v, w) == v # NotFound => v.plan = w.plan /\ v.step <= w.step

\* As long as nobody replaces or deletes the rollout, every copy is an earlier
\* one, so the weight that an outdated reconcile writes belongs to a step that
\* was reached.
ExposureInv ==
  /\ obj # NotFound
  /\ Behind(cache, obj) /\ \A i \in DOMAIN events : Behind(events[i], obj)
  /\ rec.pc # "idle" => rec.cr.plan = obj.plan
  /\ rec.pc \in {"vs", "analyze", "gate"} => rec.cr.step <= obj.step
  /\ rec.pc = "vs" => Allowed(rec.cr.weight, obj.plan, rec.cr.step)
  /\ Allowed(vs.canary, obj.plan, obj.step)

\* What was allowed at a step is allowed at later ones.
LEMMA AllowedLater ==
  ASSUME NEW weight, NEW plan \in Plans, NEW step \in Nat, NEW later \in Nat,
         step <= later, Allowed(weight, plan, step)
  PROVE  Allowed(weight, plan, later)
<1>1. DOMAIN plan.steps \subseteq Int
  BY PlansAssumption DEF PlanType
<1> QED BY <1>1 DEF Allowed

\* The weight of a copy's own step is allowed at it.
LEMMA CurrentAllowed ==
  ASSUME NEW v \in Rollout, InSteps(v)
  PROVE  Allowed(CurrentStep(v).weight, v.plan, v.step)
<1>1. v.step + 1 \in DOMAIN v.plan.steps
  <2>1. v.plan.steps \in Seq(CanaryStep) /\ v.step \in Nat
    BY PlansAssumption DEF Rollout, PlanType
  <2> QED BY <2>1 DEF InSteps
<1>2. v.step \in Nat
  BY DEF Rollout
<1> QED BY <1>1, <1>2 DEF Allowed, CurrentStep

\* A fresh update never goes back.
LEMMA UpdateForward ==
  ASSUME TypeOK, Fresh, ZeroInv, LifeInv, UpdateStatus
  PROVE  obj.step <= rec.cr.step
<1>1. InFlight /\ rec.pc = "update"
  BY DEF UpdateStatus, InFlight
<1>2. /\ Legal(obj, rec.cr.phase, rec.cr.step)
      /\ obj \in Rollout /\ Zeroed(obj) /\ obj # NotFound
  BY <1>1 DEF LifeInv, Fresh, ZeroInv, TypeOK, MaybeRollout
<1>3. obj.step \in Nat
  BY <1>2 DEF Rollout
<1>4. \/ obj.step = 0 /\ rec.cr.step = 0
      \/ rec.cr.step = obj.step \/ rec.cr.step = obj.step + 1
  BY <1>2 DEF Legal, Zeroed
<1> QED BY <1>3, <1>4

\* Every step keeps ExposureInv.
LEMMA ExposureStep ==
  ASSUME TypeOK, Coherent, Fresh, ZeroInv, LifeInv, ExposureInv, [Next]_vars,
         {"apply", "delete"} \cap UserOps = {}
  PROVE  ExposureInv'
<1>o. /\ obj \in Rollout /\ obj.plan \in Plans /\ obj.step \in Nat
  BY DEF TypeOK, MaybeRollout, ExposureInv, Rollout
<1>r. rec \in RecType /\ (rec.pc # "idle" => rec.cr \in Rollout)
      /\ events \in Seq(MaybeRollout)
  BY DEF TypeOK
<1>z. \A plan, step : Allowed(0, plan, step)
  BY DEF Allowed
<1>i. Idle.pc = "idle"
  BY IdleType
<1>1. CASE Start \/ ReadinessError \/ WaitForPods
  <2>1. CASE UNCHANGED <<obj, cache, events, rec, vs>>
    BY <2>1 DEF ExposureInv, Behind
  <2>2. CASE ~UNCHANGED <<obj, cache, events, rec, vs>>
    <3>1. /\ cache \in Rollout /\ UNCHANGED <<obj, cache, events, vs>>
          /\ rec'.cr.plan = obj.plan /\ cache.plan = obj.plan
          /\ cache.step <= obj.step /\ cache.step \in Nat
      BY <1>1, <2>2, StartKinds, NotFoundAssumption
         DEF ExposureInv, Behind, Rollout
    <3>2. rec'.pc \in {"vs", "analyze", "gate"} => rec'.cr.step <= obj.step
      <4>1. rec'.cr.step \in {cache.step, 0}
        BY <1>1, <2>2, StartKinds
      <4> QED BY <1>o, <3>1, <4>1
    <3>3. rec'.pc = "vs" => Allowed(rec'.cr.weight, obj.plan, rec'.cr.step)
      BY <1>1, <1>z, <2>2, <3>1, StartKinds, CurrentAllowed
    <3> QED BY <3>1, <3>2, <3>3 DEF ExposureInv, Behind
  <2> QED BY <2>1, <2>2
<1>2. CASE Analysis \/ Hold \/ Advance
  <2>1. rec'.pc = "vs" => rec'.cr.weight = 0
    BY <1>2, DecisionFields
  <2>2. rec'.pc \in {"vs", "analyze", "gate"} => rec'.cr.step = rec.cr.step
    BY <1>2, DecisionFields
  <2> QED BY <1>2, <1>z, <2>1, <2>2, DecisionFields DEF ExposureInv, Behind
<1>3. CASE SetWeights \/ SetWeightsFails
  <2>1. Allowed(Weights(rec.cr.weight).canary, obj.plan, obj.step)
    <3>1. rec.cr.step \in Nat /\ rec.pc = "vs"
      BY <1>3, WriteFields DEF Rollout
    <3> QED BY <1>o, <3>1, AllowedLater DEF ExposureInv, Weights
  <2>2. Allowed(vs'.canary, obj.plan, obj.step)
    BY <1>3, <2>1, WriteFields DEF ExposureInv
  <2> QED BY <1>3, <1>i, <2>2, WriteFields DEF ExposureInv, Behind
<1>4. CASE UpdateStatus
  <2>1. /\ obj' = rec.cr /\ rec.cr \in Rollout /\ rec' = Idle
        /\ cache' = cache /\ vs' = vs /\ obj'.plan = obj.plan
        /\ events' \in {events, Append(events, rec.cr)}
    BY <1>4, <1>r DEF UpdateStatus, ExposureInv
  <2>2. obj.step <= obj'.step /\ obj'.step \in Nat
    BY <1>4, <2>1, UpdateForward DEF Rollout
  <2>3. ASSUME NEW v \in MaybeRollout, Behind(v, obj)
        PROVE  Behind(v, obj')
    BY <1>o, <2>1, <2>2, <2>3 DEF Behind, MaybeRollout, Rollout
  <2>4. /\ Behind(cache', obj') /\ Allowed(vs.canary, obj.plan, obj'.step)
    BY <1>o, <2>1, <2>2, <2>3, AllowedLater DEF ExposureInv, Behind, TypeOK
  <2>5. \A i \in DOMAIN events' : Behind(events'[i], obj')
    <3>1. \A i \in DOMAIN events : events[i] \in MaybeRollout
      BY <1>r
    <3>2. \A i \in DOMAIN events : Behind(events[i], obj')
      BY <2>3, <3>1 DEF ExposureInv
    <3>3. Behind(rec.cr, obj')
      BY <2>1, <2>2 DEF Behind
    <3> QED BY <1>r, <2>1, <3>2, <3>3
  <2> QED BY <1>i, <2>1, <2>4, <2>5, NotFoundAssumption DEF ExposureInv
<1>5. CASE AnalysisError \/ UpdateFails
  BY <1>5, <1>i DEF AnalysisError, UpdateFails, ExposureInv, Behind
<1>6. CASE DeliverEvent
  <2>1. Behind(cache', obj) /\ \A i \in DOMAIN events' : Behind(events'[i], obj)
    BY <1>6, <1>r DEF DeliverEvent, ExposureInv
  <2> QED BY <1>6, <2>1 DEF DeliverEvent, ExposureInv, Behind
<1>7. CASE Crash
  BY <1>7, <1>i, <1>o DEF Crash, ExposureInv, Behind
<1>8. CASE Wake \/ PodsChange \/ UNCHANGED vars
  BY <1>8 DEF Wake, PodsChange, vars, ExposureInv, Behind
<1>9. CASE Users
  <2>1. /\ obj' \in Rollout /\ obj' # NotFound
        /\ obj'.plan = obj.plan /\ obj'.step = obj.step
    BY <1>9, FlagsOnly DEF ExposureInv
  <2>2. \A v : Behind(v, obj) => Behind(v, obj')
    BY <2>1 DEF Behind
  <2>3. Behind(obj', obj')
    BY <1>o, <2>1 DEF Behind
  <2>4. Behind(cache', obj') /\ \A i \in DOMAIN events' : Behind(events'[i], obj')
    BY <1>9, <1>r, <2>2, <2>3, UserFields DEF ExposureInv
  <2> QED BY <1>9, <2>1, <2>4, UserFields DEF ExposureInv
<1>10. CASE Tick
  <2>1. obj' = Aged(obj) /\ cache' = Aged(cache) /\ obj' # NotFound
        /\ SameButAge(obj', obj)
    BY <1>10, <1>o, AgedSame DEF Tick
  <2>2. \A v \in MaybeRollout : Behind(v, obj) => Behind(Aged(v), obj')
    BY <2>1, AgedSame DEF Behind, SameButAge, MaybeRollout
  <2>3. Behind(cache', obj') /\ \A i \in DOMAIN events' : Behind(events'[i], obj')
    BY <1>10, <1>r, <2>1, <2>2, TickFields DEF ExposureInv, TypeOK
  <2> QED BY <1>10, <2>1, <2>3, TickFields DEF ExposureInv, SameButAge
<1> QED BY <1>1, <1>2, <1>3, <1>4, <1>5, <1>6, <1>7, <1>8, <1>9, <1>10
        DEF Next, Reconcile, Start, Runtime, Environment

\* It holds at the start.
LEMMA ExposureInit == Init => ExposureInv
<1> SUFFICES ASSUME Init PROVE ExposureInv
  OBVIOUS
<1>1. /\ rec.pc = "idle" /\ events = <<obj>> /\ cache = NotFound
      /\ vs.canary = 0
  BY IdleType DEF Init
<1>2. obj \in Rollout
  BY TypeInit, NotFoundAssumption, NewRolloutType DEF Init
<1>3. \A i \in DOMAIN events : Behind(events[i], obj)
  BY <1>1, <1>2 DEF Behind, Rollout
<1> QED BY <1>1, <1>2, <1>3, NotFoundAssumption
        DEF ExposureInv, Behind, Allowed

\* Unless users replace or delete the rollout meanwhile, the canary never gets
\* more traffic than the steps reached allow, although reconciles of outdated
\* copies write the VirtualService before their update is refused.
THEOREM ExposureIsBounded ==
  ASSUME {"apply", "delete"} \cap UserOps = {}
  PROVE  Spec => []ExposureBounded
<1>1. Init => LifeInv /\ ExposureInv
  BY IdleType, ExposureInit DEF Init, LifeInv, InFlight
<1>2. Inv /\ LifeInv /\ [Next]_vars => LifeInv'
  BY LifeStep DEF Inv
<1>3. Inv /\ ZeroInv /\ LifeInv /\ ExposureInv /\ [Next]_vars => ExposureInv'
  BY ExposureStep DEF Inv
<1>4. ExposureInv => ExposureBounded
  BY DEF ExposureInv, Allowed, ExposureBounded
<1> QED BY <1>1, <1>2, <1>3, <1>4, ReportHolds, PTL DEF Spec

-----------------------------------------------------------------------------
(* The weight of the step. *)

\* No step sends nothing to the canary.
StepsSend == \A p \in Plans : \A i \in DOMAIN p.steps : p.steps[i].weight # 0

\* The copy v has its step's weight.
AtWeight(v) ==
  v.step < Len(v.plan.steps) /\ v.weight = CurrentStep(v).weight

\* What is stored is in force, or rolled back.
InForce == AtWeight(obj) => vs.canary \in {0, obj.weight}

\* A copy of an earlier step was left with its weight, so no reconcile of it
\* writes that weight again.
Left(v) == v # NotFound => v.step = obj.step \/ AtWeight(v)

CopiesLeft == Left(cache) /\ \A i \in DOMAIN events : Left(events[i])

\* A write under way is a rollback's, or that of the stored step, which must
\* succeed.
WritesOwn ==
  rec.pc = "vs" /\ rec.cr.weight # 0 =>
    rec.strict /\ AtWeight(rec.cr) /\ rec.cr.step = obj.step

\* What is about to be stored is in force, or rolled back.
ReportsOwn ==
  InFlight /\ rec.pc = "update" /\ AtWeight(rec.cr) =>
    vs.canary \in {0, rec.cr.weight}

ForceInv == InForce /\ CopiesLeft /\ WritesOwn /\ ReportsOwn

\* It depends on the plan, the step and the weight.
LEMMA AtWeightSame ==
  ASSUME NEW v, NEW w, v.plan = w.plan, v.step = w.step, v.weight = w.weight
  PROVE  AtWeight(v) = AtWeight(w)
BY DEF AtWeight, CurrentStep

\* A weight of zero is no step's.
LEMMA ZeroIsNoStep ==
  ASSUME StepsSend, NEW v \in Rollout, AtWeight(v)
  PROVE  v.weight # 0
<1>1. v.step + 1 \in DOMAIN v.plan.steps
  <2>1. v.plan.steps \in Seq(CanaryStep) /\ v.step \in Nat
    BY PlansAssumption DEF Rollout, PlanType
  <2> QED BY <2>1 DEF AtWeight
<1>2. v.plan \in Plans
  BY DEF Rollout
<1> QED BY <1>1, <1>2 DEF StepsSend, AtWeight, CurrentStep

\* A reconcile that begins keeps ForceInv: it writes the weight of a copy that
\* does not have its own, and so of the stored step.
LEMMA ForceStart ==
  ASSUME TypeOK, TypeOK', Coherent, ForceInv, StepsSend,
         Start \/ ReadinessError \/ WaitForPods
  PROVE  ForceInv'
<1>1. CASE UNCHANGED <<obj, cache, events, rec, vs>>
  BY <1>1 DEF ForceInv, InForce, CopiesLeft, Left, WritesOwn, ReportsOwn,
              InFlight, AtWeight, CurrentStep
<1>2. CASE ~UNCHANGED <<obj, cache, events, rec, vs>>
  <2>1. /\ cache \in Rollout /\ UNCHANGED <<obj, cache, events, vs>>
        /\ rec'.stale = (events # <<>>) /\ rec'.cr.plan = cache.plan
    BY <1>2, StartKinds
  <2>2. InForce' /\ CopiesLeft'
    BY <2>1 DEF ForceInv, InForce, CopiesLeft, Left, AtWeight, CurrentStep
  <2>3. WritesOwn'
    <3>1. SUFFICES ASSUME rec'.pc = "vs", rec'.cr.weight # 0
                   PROVE  /\ rec'.strict /\ AtWeight(rec'.cr)
                          /\ rec'.cr.step = obj'.step
      BY DEF WritesOwn, AtWeight, CurrentStep
    <3>2. /\ rec'.strict /\ InSteps(cache) /\ rec'.cr.step = cache.step
          /\ rec'.cr.weight = CurrentStep(cache).weight
          /\ cache.weight # CurrentStep(cache).weight
      BY <1>2, <3>1, StartKinds
    <3>3. cache.step = obj.step
      BY <2>1, <3>2, NotFoundAssumption DEF ForceInv, CopiesLeft, Left, AtWeight
    <3> QED BY <2>1, <3>2, <3>3 DEF AtWeight, CurrentStep, InSteps
  <2>4. ReportsOwn'
    <3>1. SUFFICES ASSUME InFlight', rec'.pc = "update", AtWeight(rec'.cr)
                   PROVE  vs'.canary \in {0, rec'.cr.weight}
      BY DEF ReportsOwn, AtWeight, CurrentStep
    <3>2. cache = obj
      BY <2>1, <3>1 DEF Coherent, InFlight
    <3>3. rec'.cr.weight # 0
      BY <3>1, ZeroIsNoStep DEF TypeOK
    <3>4. rec'.cr.step < Len(cache.plan.steps)
      BY <2>1, <3>1 DEF AtWeight
    <3>5. rec'.cr.weight = cache.weight /\ rec'.cr.step = cache.step
      BY <1>2, <3>1, <3>3, <3>4, StartKinds
    <3>6. AtWeight(obj)
      BY <2>1, <3>1, <3>2, <3>5, AtWeightSame
    <3> QED BY <2>1, <3>2, <3>5, <3>6 DEF ForceInv, InForce
  <2> QED BY <2>2, <2>3, <2>4 DEF ForceInv
<1> QED BY <1>1, <1>2

\* So does the end of the analysis, the timer and the gate: the next step may
\* have the same weight.
LEMMA ForceDecision ==
  ASSUME TypeOK, TypeOK', GateInv, ReportInv, ForceInv, StepsSend,
         Analysis \/ Hold \/ Advance
  PROVE  ForceInv'
<1>1. InForce' /\ CopiesLeft'
  BY DecisionFields DEF ForceInv, InForce, CopiesLeft, Left, AtWeight, CurrentStep
<1>2. WritesOwn'
  BY DecisionFields DEF WritesOwn
<1>3. ReportsOwn'
  <2>1. SUFFICES ASSUME InFlight', rec'.pc = "update", AtWeight(rec'.cr)
                 PROVE  vs'.canary \in {0, rec'.cr.weight}
    BY DEF ReportsOwn, AtWeight, CurrentStep
  <2>2. InFlight /\ rec.pc \in {"analyze", "gate"}
    BY <2>1, DecisionFields DEF InFlight
  <2>3. obj.weight = rec.cr.weight /\ AtWeight(obj)
    BY <2>2 DEF GateInv, ReportInv, AtWeight
  <2>4. rec'.cr \in Rollout /\ rec'.cr.step < Len(rec'.cr.plan.steps)
    BY <2>1 DEF TypeOK, AtWeight
  <2>5. rec'.cr.weight = rec.cr.weight
    <3>1. Len(rec'.cr.plan.steps) \in Nat /\ rec'.cr.step \in Nat
      BY <2>4, PlansAssumption DEF Rollout, PlanType
    <3> QED BY <2>1, <2>4, <3>1, DecisionFields
  <2> QED BY <2>3, <2>5, DecisionFields DEF ForceInv, InForce
<1> QED BY <1>1, <1>2, <1>3 DEF ForceInv

\* A write changes the weight to the step's, or to 0.
LEMMA ForceWrite ==
  ASSUME TypeOK, ExposureInv, ForceInv, StepsSend, SetWeights \/ SetWeightsFails
  PROVE  ForceInv'
<1>1. /\ rec.pc = "vs" /\ rec.cr \in Rollout /\ rec.cr.plan = obj.plan
      /\ obj \in Rollout /\ UNCHANGED <<obj, cache, events>>
  BY WriteFields DEF ExposureInv, TypeOK, MaybeRollout
<1>2. Weights(rec.cr.weight).canary = rec.cr.weight
  BY DEF Weights
<1>3. rec.cr.weight = 0 \/ (/\ rec.strict /\ AtWeight(rec.cr)
                            /\ rec.cr.step = obj.step)
  BY <1>1 DEF ForceInv, WritesOwn
<1>4. InForce'
  <2>1. SUFFICES ASSUME AtWeight(obj) PROVE vs'.canary \in {0, obj.weight}
    BY <1>1 DEF InForce, AtWeight, CurrentStep
  <2>2. vs.canary \in {0, obj.weight}
    BY <2>1 DEF ForceInv, InForce
  <2>3. rec.cr.weight \in {0, obj.weight}
    BY <1>1, <1>3, <2>1 DEF AtWeight, CurrentStep
  <2> QED BY <1>2, <2>2, <2>3, WriteFields
<1>5. CopiesLeft'
  BY <1>1 DEF ForceInv, CopiesLeft, Left, AtWeight, CurrentStep
<1>6. WritesOwn'
  BY IdleType, WriteFields DEF WritesOwn
<1>7. ReportsOwn'
  <2>1. SUFFICES ASSUME rec'.pc = "update", AtWeight(rec'.cr)
                 PROVE  vs'.canary \in {0, rec'.cr.weight}
    BY DEF ReportsOwn, AtWeight, CurrentStep
  <2>2. rec'.cr = rec.cr
    BY <2>1, IdleType, WriteFields
  <2>3. rec.cr.weight # 0
    BY <1>1, <2>1, <2>2, ZeroIsNoStep
  <2>4. vs' = Weights(rec.cr.weight)
    BY <1>3, <2>1, <2>3, IdleType, WriteFields
  <2> QED BY <1>2, <2>2, <2>4
<1> QED BY <1>4, <1>5, <1>6, <1>7 DEF ForceInv

\* A fresh report leaves a step with its weight, and the cache is up to date.
LEMMA ForceUpdate ==
  ASSUME TypeOK, Coherent, Fresh, ZeroInv, LifeInv, GateInv, ExposureInv,
         ForceInv, UpdateStatus
  PROVE  ForceInv'
<1>1. /\ InFlight /\ rec.pc = "update" /\ obj' = rec.cr /\ rec' = Idle
      /\ cache' = cache /\ vs' = vs
      /\ events' \in {events, Append(events, rec.cr)}
      /\ rec.cr \in Rollout
  BY DEF UpdateStatus, InFlight, TypeOK
<1>2. events = <<>> /\ cache = obj /\ obj \in Rollout
  BY <1>1, NotFoundAssumption DEF Fresh, Coherent, TypeOK, MaybeRollout
<1>3. obj.step = rec.cr.step \/ AtWeight(obj)
  <2>1. CASE obj.phase \in {"", "Pending"}
    <3>1. obj.step = 0 /\ Legal(obj, rec.cr.phase, rec.cr.step)
      BY <1>1, <1>2, <2>1, NotFoundAssumption DEF ZeroInv, Zeroed, LifeInv
    <3> QED BY <2>1, <3>1 DEF Legal, Advancing
  <2>2. CASE obj.phase \notin {"", "Pending"}
    BY <1>1, <2>2 DEF GateInv, Earned, AtWeight
  <2> QED BY <2>1, <2>2
<1>4. InForce'
  <2>1. AtWeight(rec.cr) => vs.canary \in {0, rec.cr.weight}
    BY <1>1 DEF ForceInv, ReportsOwn
  <2> QED BY <1>1, <2>1 DEF InForce, AtWeight, CurrentStep
<1>5. CopiesLeft'
  <2>1. events' \in {<<>>, <<rec.cr>>}
    BY <1>1, <1>2
  <2> QED BY <1>1, <1>2, <1>3, <2>1 DEF CopiesLeft, Left, AtWeight, CurrentStep
<1>6. WritesOwn' /\ ReportsOwn'
  BY <1>1, IdleType DEF WritesOwn, ReportsOwn
<1> QED BY <1>4, <1>5, <1>6 DEF ForceInv

\* Every step keeps ForceInv.
LEMMA ForceStep ==
  ASSUME Inv, Inv', ZeroInv, LifeInv, GateInv, ReportInv, ExposureInv, ForceInv,
         StepsSend, {"apply", "delete"} \cap UserOps = {}, [Next]_vars
  PROVE  ForceInv'
<1> USE DEF Inv
<1>r. /\ rec \in RecType /\ (rec.pc # "idle" => rec.cr \in Rollout)
      /\ events \in Seq(MaybeRollout) /\ obj \in Rollout
      /\ cache \in MaybeRollout
  BY DEF TypeOK, ExposureInv, MaybeRollout
<1>i. Idle.pc = "idle"
  BY IdleType
<1>1. CASE Start \/ ReadinessError \/ WaitForPods
  BY <1>1, ForceStart
<1>2. CASE Analysis \/ Hold \/ Advance
  BY <1>2, ForceDecision
<1>3. CASE SetWeights \/ SetWeightsFails
  BY <1>3, ForceWrite
<1>4. CASE UpdateStatus
  BY <1>4, ForceUpdate
<1>5. CASE AnalysisError \/ UpdateFails
  BY <1>5, <1>i DEF AnalysisError, UpdateFails, ForceInv, InForce, CopiesLeft,
     Left, WritesOwn, ReportsOwn, AtWeight, CurrentStep
<1>6. CASE DeliverEvent
  <2>1. cache' = Head(events) /\ events' = Tail(events) /\ events # <<>>
        /\ UNCHANGED <<obj, rec, vs>>
    BY <1>6 DEF DeliverEvent
  <2>2. CopiesLeft'
    BY <1>r, <2>1 DEF ForceInv, CopiesLeft, Left, AtWeight, CurrentStep
  <2>3. InForce' /\ WritesOwn' /\ ReportsOwn'
    BY <2>1 DEF ForceInv, InForce, WritesOwn, ReportsOwn, InFlight, AtWeight,
                CurrentStep
  <2> QED BY <2>2, <2>3 DEF ForceInv
<1>7. CASE Crash
  BY <1>7, <1>i DEF Crash, ForceInv, InForce, CopiesLeft, Left, WritesOwn,
     ReportsOwn, AtWeight, CurrentStep
<1>8. CASE Wake \/ PodsChange \/ UNCHANGED vars
  BY <1>8 DEF Wake, PodsChange, vars, ForceInv, InForce, CopiesLeft, Left,
     WritesOwn, ReportsOwn, InFlight, AtWeight, CurrentStep
<1>9. CASE Users
  <2>1. /\ obj' \in Rollout /\ obj'.plan = obj.plan /\ obj'.step = obj.step
        /\ obj'.weight = obj.weight
    BY <1>9, FlagsOnly DEF ExposureInv
  <2>2. /\ rec'.pc = rec.pc /\ rec'.cr = rec.cr /\ ~InFlight'
        /\ events' = Append(events, obj') /\ UNCHANGED <<cache, vs>>
    BY <1>9, UserFields
  <2>3. rec'.strict = rec.strict
    BY <1>9, <1>r DEF Users, UserPause, UserResume, UserAbort, UserDelete,
       UserApply, UserWrites, RecType
  <2>4. InForce'
    BY <2>1, <2>2, AtWeightSame DEF ForceInv, InForce, AtWeight, CurrentStep
  <2>5. CopiesLeft'
    BY <1>r, <2>1, <2>2 DEF ForceInv, CopiesLeft, Left, AtWeight, CurrentStep
  <2>6. WritesOwn' /\ ReportsOwn'
    BY <2>1, <2>2, <2>3
       DEF ForceInv, WritesOwn, ReportsOwn, AtWeight, CurrentStep
  <2> QED BY <2>4, <2>5, <2>6 DEF ForceInv
<1>10. CASE Tick
  <2>1. /\ SameButAge(obj', obj) /\ vs' = vs
        /\ rec'.pc = rec.pc /\ rec'.stale = rec.stale
        /\ rec.pc # "idle" => SameButAge(rec'.cr, rec.cr)
    BY <1>10, <1>r, TickFields, AgedSame DEF Tick
  <2>2. rec'.strict = rec.strict
    BY <1>10, <1>r DEF Tick, RecType
  <2>3. InForce'
    BY <2>1 DEF ForceInv, InForce, AtWeight, CurrentStep, SameButAge
  <2>4. ASSUME NEW v \in MaybeRollout, Left(v) PROVE Left(Aged(v))'
    BY <2>1, <2>4, AgedSame DEF Left, AtWeight, CurrentStep, SameButAge,
                                MaybeRollout
  <2>5. CopiesLeft'
    BY <1>10, <1>r, <2>4, TickFields DEF Tick, ForceInv, CopiesLeft
  <2>6. WritesOwn' /\ ReportsOwn'
    BY <2>1, <2>2 DEF ForceInv, WritesOwn, ReportsOwn, InFlight, AtWeight,
       CurrentStep, SameButAge
  <2> QED BY <2>3, <2>5, <2>6 DEF ForceInv
<1> QED BY <1>1, <1>2, <1>3, <1>4, <1>5, <1>6, <1>7, <1>8, <1>9, <1>10
        DEF Next, Reconcile, Start, Runtime, Environment

\* Unless users replace or delete the rollout, and if every step sends the canary
\* something, a step's weight that is reported is in the VirtualService or was
\* rolled back: no failed write is taken for one, and no reconcile of an outdated
\* copy puts another weight back.
THEOREM WeightsStayInForce ==
  ASSUME {"apply", "delete"} \cap UserOps = {}, StepsSend
  PROVE  Spec => []WeightInForce
<1>1. Init => LifeInv /\ GateInv /\ ExposureInv /\ ForceInv
  <2> SUFFICES ASSUME Init PROVE LifeInv /\ GateInv /\ ExposureInv /\ ForceInv
    OBVIOUS
  <2>1. /\ rec.pc = "idle" /\ events = <<obj>> /\ cache = NotFound
        /\ vs.canary = 0
    BY IdleType DEF Init
  <2>2. LifeInv /\ GateInv
    BY <2>1 DEF LifeInv, GateInv, InFlight
  <2>3. ForceInv
    BY <2>1 DEF ForceInv, InForce, CopiesLeft, Left, WritesOwn, ReportsOwn
  <2> QED BY <2>2, <2>3, ExposureInit
<1>2. Inv /\ LifeInv /\ GateInv /\ [Next]_vars => LifeInv' /\ GateInv'
  BY LifeStep, GateStep DEF Inv
<1>3. Inv /\ ZeroInv /\ LifeInv /\ ExposureInv /\ [Next]_vars => ExposureInv'
  BY ExposureStep DEF Inv
<1>4. Inv /\ Inv' /\ ZeroInv /\ LifeInv /\ GateInv /\ ReportInv /\ ExposureInv
        /\ ForceInv /\ [Next]_vars => ForceInv'
  BY ForceStep
<1>5. ForceInv => WeightInForce
  BY DEF ForceInv, InForce, WeightInForce, AtWeight
<1> QED BY <1>1, <1>2, <1>3, <1>4, <1>5, ReportHolds, PTL DEF Spec

=============================================================================
