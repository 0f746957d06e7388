----------------------------- MODULE SPRTProofs -----------------------------
(***************************************************************************)
(* The sequential test, for every list of metrics, all rates, weights and  *)
(* bounds, any number of requests, restarts and steps: evidence is counted *)
(* once, verdicts follow from it and are final, and the analyser keeps the *)
(* promise of Verdicts.                                                    *)
(***************************************************************************)
EXTENDS SPRT, TLAPS

-----------------------------------------------------------------------------
(* Types. *)

\* What an empty slice and an idle cycle are made of.
LEMMA InitialTypes ==
  /\ FreshState \in MetricState /\ Absent \in MetricState
  /\ NoStates \in [Metrics -> MetricState]
  /\ ZeroOrigins \in [Metrics -> Origins]
  /\ \A m \in Metrics : NoStates[m] = Absent /\ ZeroOrigins[m] = ZeroOrigin
<1>0. FreshState \in MetricState
  BY DEF FreshState, MetricState, Decisions
<1>1. Absent \in MetricState
  BY <1>0 DEF Absent, MetricState, Decisions
<1>2. ZeroOrigin \in Origins
  BY DEF ZeroOrigin, Origins
<1> QED BY <1>0, <1>1, <1>2 DEF NoStates, ZeroOrigins

\* The list is not empty, and its members are metrics.
LEMMA ListFacts ==
  /\ Len(List) \in Nat /\ DOMAIN List = 1 .. Len(List) /\ 1 \in DOMAIN List
  /\ \A i \in DOMAIN List : List[i] \in Metrics
BY ListAssumption

CycleType ==
  [pc : {"idle", "total", "failure", "done"}, at : DOMAIN List,
   total : Nat, slice : [Metrics -> MetricState],
   origin : [Metrics -> Origins], storable : BOOLEAN]

LEMMA NoCycleType == NoCycle \in CycleType
BY InitialTypes, ListFacts DEF NoCycle, CycleType

\* The metric a cycle has reached and its old entry.
LEMMA CurrentType ==
  ASSUME TypeOK
  PROVE  /\ Current \in Metrics /\ Old \in MetricState
         /\ origin[Current] \in Origins
BY ListFacts, InitialTypes DEF TypeOK, Current, Old, Find

\* The entry ends the cycle.
Ends(new) == new.decision = "rollback" \/ cycle.at = Len(List)

\* What Appended does to the cycle, field by field.
LEMMA AppendedFields ==
  ASSUME TypeOK, NEW new \in MetricState, NEW base \in Origins,
         NEW storable \in BOOLEAN, Appended(new, base, storable)
  PROVE  /\ cycle' \in CycleType
         /\ cycle'.pc = IF Ends(new) THEN "done" ELSE "total"
         /\ cycle'.at = IF Ends(new) THEN 1 ELSE cycle.at + 1
         /\ cycle'.slice[Current] = new /\ cycle'.origin[Current] = base
         /\ \A m \in Metrics \ {Current} :
              /\ cycle'.slice[m] = cycle.slice[m]
              /\ cycle'.origin[m] = cycle.origin[m]
         /\ cycle'.storable => cycle.storable /\ storable
<1>t. cycle \in CycleType
  BY DEF TypeOK, CycleType
<1>1. cycle' = [cycle EXCEPT
    !.pc = IF Ends(new) THEN "done" ELSE "total",
    !.at = IF Ends(new) THEN 1 ELSE @ + 1,
    !.total = 0,
    !.slice = [cycle.slice EXCEPT ![Current] = new],
    !.origin = [cycle.origin EXCEPT ![Current] = base],
    !.storable = @ /\ storable]
  BY <1>t DEF Appended, CycleType, Ends
<1>2. (IF Ends(new) THEN 1 ELSE cycle.at + 1) \in DOMAIN List
  BY <1>t, ListFacts DEF CycleType, Ends
<1>3. [cycle.slice EXCEPT ![Current] = new] \in [Metrics -> MetricState]
  BY <1>t DEF CycleType
<1>4. [cycle.origin EXCEPT ![Current] = base] \in [Metrics -> Origins]
  BY <1>t DEF CycleType
<1>5. cycle' \in CycleType
  BY <1>t, <1>1, <1>2, <1>3, <1>4 DEF CycleType
<1>6. /\ cycle'.pc = IF Ends(new) THEN "done" ELSE "total"
      /\ cycle'.at = IF Ends(new) THEN 1 ELSE cycle.at + 1
      /\ cycle'.slice = [cycle.slice EXCEPT ![Current] = new]
      /\ cycle'.origin = [cycle.origin EXCEPT ![Current] = base]
      /\ cycle'.storable => cycle.storable /\ storable
  BY <1>t, <1>1 DEF CycleType
<1>7. /\ cycle.slice \in [Metrics -> MetricState]
      /\ cycle.origin \in [Metrics -> Origins]
  BY <1>t DEF CycleType
<1> QED BY <1>5, <1>6, <1>7, CurrentType

LEMMA VerdictType == \A x : Verdict(x) \in {"pending", "promote", "rollback"}
BY DEF Verdict

\* A ratio is linear in the counts it is made of.
LEMMA Linear ==
  ASSUME NEW a \in Int, NEW b \in Int, NEW f \in Int, NEW n \in Int,
         NEW g \in Int, NEW k \in Int
  PROVE  /\ f * a + (n - f) * b \in Int
         /\ (f * a + (n - f) * b) + (g * a + (k - g) * b)
              = (f + g) * a + ((n + k) - (f + g)) * b
OBVIOUS

LEMMA LLRFacts ==
  ASSUME NEW m \in Metrics, NEW rate \in Rates, NEW f \in Int, NEW n \in Int,
         NEW g \in Int, NEW k \in Int
  PROVE  /\ LLR(m, rate, n, f) \in Int
         /\ LLR(m, rate, n, f) + LLR(m, rate, k, g) = LLR(m, rate, n + k, f + g)
         /\ LLR(m, rate, 0, 0) = 0
<1> DEFINE a == Gain[m, rate]
           b == Loss[m, rate]
<1>1. a \in Int /\ b \in Int
  BY RatesAssumption
<1>2. \A n1, f1 : LLR(m, rate, n1, f1) = f1 * a + (n1 - f1) * b
  BY DEF LLR
<1> HIDE DEF a, b
<1>3. 0 * a + (0 - 0) * b = 0
  BY <1>1
<1> QED BY <1>1, <1>2, <1>3, Linear

\* The ratio and the counts of an observation are integers.
LEMMA EvidenceType ==
  ASSUME TypeOK, NEW rate \in Rates
  PROVE  /\ NewTotal \in Int /\ NewFailures \in Int
         /\ NewLLR(rate) \in Int /\ NewFailed \in Int
<1>1. Current \in Metrics /\ Old \in MetricState
  BY CurrentType
<1>2. NewTotal \in Int /\ NewFailures \in Int
  BY <1>1 DEF TypeOK, NewTotal, NewFailures, MetricState, Counters
<1>3. LLR(Current, rate, NewTotal, NewFailures) \in Int
  BY <1>1, <1>2, LLRFacts
<1> QED BY <1>1, <1>2, <1>3 DEF NewLLR, NewFailed, MetricState

\* An observed entry is well typed and has a verdict.
LEMMA ObservedType ==
  ASSUME TypeOK, NEW llr \in Int, NEW failed \in Int
  PROVE  /\ Observed(llr, failed) \in MetricState
         /\ Observed(llr, failed).decision = Verdict(llr)
<1>1. Old \in MetricState /\ NewTotal \in Int
  BY CurrentType DEF TypeOK, NewTotal, MetricState
<1>2. cycle.total \in Nat /\ failures[Current] \in Nat
  BY CurrentType DEF TypeOK, Counters
<1>3. Verdict(llr) \in Decisions
  BY VerdictType DEF Decisions
<1> QED BY <1>1, <1>2, <1>3 DEF Observed, MetricState

\* A cycle appends the entry `new' with its origin.  A metric that is not
\* queried keeps its entry.
AppendsEntry(new, base, storable) ==
  /\ new \in MetricState /\ base \in Origins /\ storable \in BOOLEAN
  /\ new.decision # "none"
  /\ cycle.pc \in {"total", "failure"}
  /\ cycle.pc = "total" => new = Old
  /\ Appended(new, base, storable)

Observing ==
  \E rate \in Rates : ObserveFinite(rate) \/ ObserveInfinite(rate)

Appending == KeepDecided \/ SkipMetric \/ ResetMetric \/ Observing

\* The old entry of a metric is never absent.
LEMMA OldPresent == ASSUME TypeOK PROVE Old.decision # "none"
BY InitialTypes DEF Old, Find, FreshState

\* The accumulator restarts well typed.
LEMMA RestartedType ==
  ASSUME TypeOK
  PROVE  /\ Restarted \in MetricState
         /\ Restarted.decision = "pending"
         /\ Restarted.llr = 0 /\ Restarted.obs = 0 /\ Restarted.failed = 0
         /\ Restarted.lastTotal = cycle.total
         /\ Restarted.lastFailure = failures[Current]
<1>1. cycle.total \in Nat /\ failures[Current] \in Nat
  BY CurrentType DEF TypeOK, Counters
<1>2. /\ FreshState \in MetricState /\ FreshState.decision = "pending"
      /\ FreshState.llr = 0 /\ FreshState.obs = 0 /\ FreshState.failed = 0
  BY InitialTypes DEF FreshState
<1> QED BY <1>1, <1>2 DEF Restarted, MetricState

LEMMA RestartedAtType ==
  ASSUME TypeOK
  PROVE  /\ RestartedAt \in Origins
         /\ RestartedAt.total = cycle.total
         /\ RestartedAt.failures = failures[Current]
         /\ RestartedAt.rates = {}
<1>1. cycle.total \in Nat /\ failures[Current] \in Nat
  BY CurrentType DEF TypeOK, Counters
<1> QED BY <1>1 DEF RestartedAt, Origins

\* What the two kinds of observation append.
LEMMA FiniteAppends ==
  ASSUME TypeOK, NEW rate \in Rates, ObserveFinite(rate)
  PROVE  LET base == [origin[Current] EXCEPT !.rates = @ \cup {rate}] IN
         AppendsEntry(Accumulated(rate), base, TRUE)
<1>1. [origin[Current] EXCEPT !.rates = @ \cup {rate}] \in Origins
  BY CurrentType DEF Origins
<1>2. /\ Accumulated(rate) \in MetricState
      /\ Accumulated(rate).decision = Verdict(NewLLR(rate))
  BY EvidenceType, ObservedType DEF Accumulated
<1> QED BY <1>1, <1>2, VerdictType DEF AppendsEntry, ObserveFinite, Observe

LEMMA InfiniteAppends ==
  ASSUME TypeOK, NEW rate \in Rates, ObserveInfinite(rate)
  PROVE  \E new, base : AppendsEntry(new, base, FALSE)
<1>1. [origin[Current] EXCEPT !.rates = @ \cup {rate}] \in Origins
  BY CurrentType DEF Origins
<1>2. PICK decision \in {InfiniteVerdict, "pending"} :
        Observe([Observed(Old.llr, Old.failed + NewFailures)
                   EXCEPT !.decision = decision], rate, FALSE)
  BY DEF ObserveInfinite
<1>3. decision \in {"pending", "promote", "rollback"}
  BY <1>2 DEF InfiniteVerdict
<1>4. Observed(Old.llr, Old.failed + NewFailures) \in MetricState
  <2>1. Old.llr \in Int /\ Old.failed + NewFailures \in Int
    BY CurrentType, EvidenceType DEF MetricState
  <2> QED BY <2>1, ObservedType
<1> DEFINE new == [Observed(Old.llr, Old.failed + NewFailures)
                     EXCEPT !.decision = decision]
<1>5. new \in MetricState /\ new.decision = decision
  BY <1>3, <1>4 DEF MetricState, Decisions
<1>6. cycle.pc = "failure"
      /\ Appended(new, [origin[Current] EXCEPT !.rates = @ \cup {rate}], FALSE)
  BY <1>2 DEF Observe
<1> HIDE DEF new
<1> QED BY <1>1, <1>3, <1>5, <1>6 DEF AppendsEntry

\* Whatever a cycle appends is an entry, and nothing else changes.
LEMMA Appends ==
  ASSUME TypeOK, Appending
  PROVE  /\ \E new, base, storable : AppendsEntry(new, base, storable)
         /\ UNCHANGED <<total, failures, restarts, step, state, origin>>
<1>1. CASE KeepDecided \/ SkipMetric
  BY <1>1, CurrentType, OldPresent DEF KeepDecided, SkipMetric, AppendsEntry
<1>2. CASE ResetMetric
  BY <1>2, RestartedAtType, RestartedType DEF ResetMetric, AppendsEntry
<1>3. CASE Observing
  BY <1>3, FiniteAppends, InfiniteAppends
     DEF Observing, ObserveFinite, ObserveInfinite, Observe
<1> QED BY <1>1, <1>2, <1>3 DEF Appending

\* The steps that store nothing and append nothing.
Dropping == QueryFails \/ Lose \/ ControllerRestart

Canary == Restart \/ \E m \in Metrics, fails \in BOOLEAN : Request(m, fails)

LEMMA StepKinds ==
  Next => \/ Canary \/ StartCycle \/ QueryTotal \/ Appending
          \/ Dropping \/ Persist \/ AdvanceStep
BY DEF Next, Canary, Appending, Observing, Dropping

\* Canary and dropped cycles leave what is stored alone.
LEMMA CanaryLeaves == Canary => UNCHANGED <<step, state, cycle, origin>>
BY DEF Canary, Request, Restart

LEMMA DroppingLeaves ==
  Dropping => /\ cycle' = NoCycle
              /\ UNCHANGED <<total, failures, restarts, step, state, origin>>
BY DEF Dropping, QueryFails, Lose, ControllerRestart

\* Every step keeps the types.
LEMMA TypeStep == ASSUME TypeOK, [Next]_vars PROVE TypeOK'
<1> USE DEF CycleType
<1>1. CASE Canary
  <2>1. total' \in Counters /\ failures' \in Counters /\ restarts' \in Nat
    BY <1>1 DEF Canary, Request, Restart, TypeOK, Counters
  <2> QED BY <1>1, <2>1, CanaryLeaves DEF TypeOK
<1>2. CASE StartCycle
  <2>1. cycle' \in CycleType
    BY <1>2, NoCycleType DEF StartCycle
  <2> QED BY <1>2, <2>1 DEF TypeOK, StartCycle
<1>3. CASE QueryTotal
  <2>1. total[Current] \in Nat
    BY CurrentType DEF TypeOK, Counters
  <2>2. cycle' \in CycleType
    BY <1>3, <2>1 DEF QueryTotal, TypeOK
  <2> QED BY <1>3, <2>2 DEF TypeOK, QueryTotal
<1>4. CASE Appending
  <2>1. cycle' \in CycleType
    BY <1>4, Appends, AppendedFields DEF AppendsEntry
  <2> QED BY <1>4, <2>1, Appends DEF TypeOK
<1>5. CASE Dropping
  BY <1>5, NoCycleType, DroppingLeaves DEF TypeOK
<1>6. CASE Persist
  BY <1>6, NoCycleType DEF Persist, TypeOK
<1>7. CASE AdvanceStep
  BY <1>7, NoCycleType, InitialTypes DEF AdvanceStep, TypeOK
<1>8. CASE UNCHANGED vars
  BY <1>8 DEF vars, TypeOK
<1> QED BY <1>1, <1>2, <1>3, <1>4, <1>5, <1>6, <1>7, <1>8, StepKinds

\* Type correctness: stored counters are never negative, and a cycle never
\* leaves the list of metrics.
THEOREM TypeCorrect == Spec => []TypeOK
<1>1. Init => TypeOK
  BY NoCycleType, InitialTypes DEF Init, TypeOK, CycleType, Counters
<1>2. TypeOK /\ [Next]_vars => TypeOK'
  BY TypeStep
<1> QED BY <1>1, <1>2, PTL DEF Spec

-----------------------------------------------------------------------------
(* Evidence. *)

\* What makes one accumulator right: its counts are those since its origin (of
\* the failures, some may be missed), its ratio is the one of its counts, its verdict is that of its ratio.  The extra
\* conjuncts are those the next observation builds on.
Sound(m, s, o) ==
  /\ s.obs = s.lastTotal - o.total
  /\ s.obs >= 0
  /\ s.failed >= 0 /\ s.failed <= s.lastFailure - o.failures
  /\ o.rates = {} => s.llr = 0 /\ s.obs = 0 /\ s.failed = 0
  /\ \A r \in Rates : o.rates = {r} => s.llr = LLR(m, r, s.obs, s.failed)
  /\ s.decision = "none" => s = Absent /\ o = ZeroOrigin
  /\ s.decision # "none" => s.decision = Verdict(s.llr)
  /\ Decided(s.decision) => s.obs > 0

\* The stored accumulators are sound, those in memory as long as they can be
\* stored, and only an open metric is queried a second time.
EvidenceInv ==
  /\ \A m \in Metrics : Sound(m, state[m], origin[m])
  /\ cycle.storable =>
       \A m \in Metrics : Sound(m, cycle.slice[m], cycle.origin[m])
  /\ cycle.pc = "failure" => ~Decided(Old.decision)

\* Entries that hold no evidence are sound.
LEMMA EmptySound ==
  ASSUME NEW m \in Metrics, NEW s \in MetricState, NEW o \in Origins,
         o.rates = {}, s.llr = 0, s.obs = 0, s.failed = 0,
         s.lastTotal = o.total, s.lastFailure = o.failures,
         \/ s.decision = "pending"
         \/ s = Absent /\ o = ZeroOrigin
  PROVE  Sound(m, s, o)
<1>1. Verdict(0) = "pending"
  BY BoundsOrdered DEF Verdict
<1>2. Absent.decision = "none"
  BY InitialTypes DEF Absent, MetricState, FreshState
<1>3. s.obs = s.lastTotal - o.total /\ s.failed <= s.lastFailure - o.failures
  BY DEF MetricState
<1> QED BY <1>1, <1>2, <1>3 DEF Sound, Decided

LEMMA AbsentSound == \A m \in Metrics : Sound(m, Absent, ZeroOrigin)
<1>1. /\ Absent.llr = 0 /\ Absent.obs = 0 /\ Absent.failed = 0
      /\ Absent.lastTotal = 0 /\ Absent.lastFailure = 0
  BY InitialTypes DEF Absent, FreshState
<1>2. /\ ZeroOrigin.rates = {} /\ ZeroOrigin.total = 0
      /\ ZeroOrigin.failures = 0 /\ ZeroOrigin \in Origins
  BY DEF ZeroOrigin, Origins
<1> QED BY <1>1, <1>2, InitialTypes, EmptySound

LEMMA NoCycleSound ==
  \A m \in Metrics : Sound(m, NoCycle.slice[m], NoCycle.origin[m])
BY AbsentSound, InitialTypes DEF NoCycle

\* The entry a cycle goes on from is sound, also when there is none stored.
LEMMA OldSound ==
  ASSUME TypeOK, EvidenceInv
  PROVE  Sound(Current, Old, origin[Current])
<1>1. CASE state[Current].decision = "none"
  <2>1. Old = FreshState /\ origin[Current] = ZeroOrigin
    BY <1>1, CurrentType DEF EvidenceInv, Sound, Old, Find
  <2>2. /\ FreshState.llr = 0 /\ FreshState.obs = 0 /\ FreshState.failed = 0
        /\ FreshState.lastTotal = 0 /\ FreshState.lastFailure = 0
        /\ FreshState.decision = "pending"
    BY DEF FreshState
  <2>3. ZeroOrigin.rates = {} /\ ZeroOrigin.total = 0 /\ ZeroOrigin.failures = 0
    BY DEF ZeroOrigin
  <2> QED BY <2>1, <2>2, <2>3, CurrentType, EmptySound
<1>2. CASE state[Current].decision # "none"
  BY <1>2, CurrentType DEF EvidenceInv, Old, Find
<1> QED BY <1>1, <1>2

\* An observation at a baseline with a ratio keeps the accumulator sound: the
\* new requests extend the old ones, and their evidence adds up.
LEMMA AccumulatedSound ==
  ASSUME TypeOK, EvidenceInv, NEW rate \in Rates, ObserveFinite(rate)
  PROVE  LET base == [origin[Current] EXCEPT !.rates = @ \cup {rate}] IN
         Sound(Current, Accumulated(rate), base)
<1> DEFINE new == Accumulated(rate)
           base == [origin[Current] EXCEPT !.rates = @ \cup {rate}]
<1>c. /\ Current \in Metrics /\ Old \in MetricState
      /\ origin[Current] \in Origins
  BY CurrentType
<1>o. /\ Old.llr \in Int /\ Old.obs \in Int /\ Old.failed \in Int
      /\ Old.lastTotal \in Nat /\ Old.lastFailure \in Nat
      /\ origin[Current].total \in Nat /\ origin[Current].failures \in Nat
  BY <1>c DEF MetricState, Origins
<1>s. Sound(Current, Old, origin[Current])
  BY OldSound
<1>e. /\ NewTotal \in Int /\ NewFailures \in Int
      /\ NewTotal >= 0 /\ NewFailures >= 0
      /\ NewLLR(rate) \in Int /\ NewFailed \in Int
  BY EvidenceType DEF ObserveFinite, Observe, WentBack
<1>p. ~Decided(Old.decision) /\ Old.decision # "none"
  BY OldPresent DEF EvidenceInv, ObserveFinite, Observe
<1>n. /\ new.obs = Old.obs + NewTotal /\ new.llr = NewLLR(rate)
      /\ new.failed = NewFailed
      /\ new.lastTotal = cycle.total /\ new.lastFailure = failures[Current]
      /\ new.decision = Verdict(NewLLR(rate))
  BY DEF Accumulated, Observed
<1>b. /\ base.rates = origin[Current].rates \cup {rate}
      /\ base.total = origin[Current].total
      /\ base.failures = origin[Current].failures
  BY <1>c DEF Origins
<1>1. new.obs = new.lastTotal - base.total
  <2>1. Old.obs = Old.lastTotal - origin[Current].total
    BY <1>s DEF Sound
  <2>2. cycle.total \in Nat
    BY DEF TypeOK
  <2> QED BY <1>o, <1>n, <1>b, <2>1, <2>2 DEF NewTotal
<1>2. new.obs >= 0
  BY <1>o, <1>e, <1>n, <1>s DEF Sound
<1>3. ASSUME NEW r \in Rates, base.rates = {r}
      PROVE  new.llr = LLR(Current, r, new.obs, new.failed)
  <2>1. r = rate /\ origin[Current].rates \in {{}, {rate}}
    BY <1>3, <1>b
  <2>2. Old.llr = LLR(Current, rate, Old.obs, Old.failed)
    <3>1. CASE origin[Current].rates = {}
      BY <1>c, <1>s, <3>1, LLRFacts DEF Sound
    <3>2. CASE origin[Current].rates = {rate}
      BY <1>s, <3>2 DEF Sound
    <3> QED BY <2>1, <3>1, <3>2
  <2>3. CASE NewTotal > 0
    <3>1. LLR(Current, rate, Old.obs, Old.failed)
            + LLR(Current, rate, NewTotal, NewFailures)
          = LLR(Current, rate, Old.obs + NewTotal, Old.failed + NewFailures)
      <4> DEFINE n == Old.obs
                 f == Old.failed
      <4>1. n \in Int /\ f \in Int /\ NewTotal \in Int /\ NewFailures \in Int
        BY <1>o, <1>e
      <4> HIDE DEF n, f
      <4>2. LLR(Current, rate, n, f) + LLR(Current, rate, NewTotal, NewFailures)
              = LLR(Current, rate, n + NewTotal, f + NewFailures)
        BY <1>c, <4>1, LLRFacts
      <4> QED BY <4>2 DEF n, f
    <3> QED BY <1>n, <2>1, <2>2, <2>3, <3>1 DEF NewLLR, NewFailed
  <2>4. CASE NewTotal = 0
    BY <1>o, <1>n, <2>1, <2>2, <2>4 DEF NewLLR, NewFailed
  <2> QED BY <1>e, <2>3, <2>4
<1>4. ASSUME Decided(new.decision) PROVE new.obs > 0
  <2>1. CASE NewTotal > 0
    BY <1>o, <1>n, <1>s, <1>e, <2>1 DEF Sound
  <2>2. CASE NewTotal = 0
    BY <1>n, <1>s, <1>p, <1>4, <2>2 DEF NewLLR, Sound
  <2> QED BY <1>e, <2>1, <2>2
<1>5. new.decision # "none" /\ base.rates # {}
  BY <1>n, <1>b, VerdictType
<1>6. new.failed >= 0 /\ new.failed <= new.lastFailure - base.failures
  <2>1. /\ Old.failed >= 0
        /\ Old.failed <= Old.lastFailure - origin[Current].failures
    BY <1>s DEF Sound
  <2>2. failures[Current] \in Nat
    BY <1>c DEF TypeOK, Counters
  <2> QED BY <1>o, <1>e, <1>n, <1>b, <2>1, <2>2 DEF NewFailures, NewFailed
<1> HIDE DEF new, base
<1>7. Sound(Current, new, base)
  BY <1>1, <1>2, <1>3, <1>4, <1>5, <1>6, <1>n DEF Sound
<1> QED BY <1>7 DEF new, base

\* Whatever is appended to a slice that can be stored is sound.
LEMMA AppendedSound ==
  ASSUME TypeOK, EvidenceInv, Appending, cycle'.storable
  PROVE  \A m \in Metrics : Sound(m, cycle'.slice[m], cycle'.origin[m])
<1>1. ASSUME NEW new, NEW base, NEW storable,
             AppendsEntry(new, base, storable), Sound(Current, new, base)
      PROVE  \A m \in Metrics : Sound(m, cycle'.slice[m], cycle'.origin[m])
  <2>1. /\ cycle'.slice[Current] = new /\ cycle'.origin[Current] = base
        /\ \A m \in Metrics \ {Current} :
             /\ cycle'.slice[m] = cycle.slice[m]
             /\ cycle'.origin[m] = cycle.origin[m]
        /\ cycle'.storable => cycle.storable /\ storable
    BY <1>1, AppendedFields DEF AppendsEntry
  <2>s. cycle.storable
    BY <2>1
  <2> QED BY <1>1, <2>1, <2>s DEF EvidenceInv
<1>2. CASE KeepDecided \/ SkipMetric
  BY <1>1, <1>2, CurrentType, OldPresent, OldSound
     DEF KeepDecided, SkipMetric, AppendsEntry
<1>3. CASE ResetMetric
  <2>1. Sound(Current, Restarted, RestartedAt)
    BY CurrentType, RestartedType, RestartedAtType, EmptySound
  <2> QED BY <1>1, <1>3, <2>1, RestartedType, RestartedAtType
          DEF ResetMetric, AppendsEntry
<1>4. ASSUME NEW rate \in Rates, ObserveFinite(rate)
      PROVE  \A m \in Metrics : Sound(m, cycle'.slice[m], cycle'.origin[m])
  BY <1>1, <1>4, FiniteAppends, AccumulatedSound
<1>5. ASSUME NEW rate \in Rates, ObserveInfinite(rate) PROVE FALSE
  BY <1>5, InfiniteAppends, AppendedFields DEF AppendsEntry
<1> QED BY <1>2, <1>3, <1>4, <1>5 DEF Appending, Observing

\* Every step keeps the accumulators sound.
LEMMA EvidenceStep ==
  ASSUME TypeOK, EvidenceInv, [Next]_vars PROVE EvidenceInv'
<1>n. ASSUME cycle' = NoCycle PROVE cycle'.pc = "idle" /\ cycle'.storable
  BY <1>n DEF NoCycle
<1>d. ASSUME cycle' = NoCycle,
             \A m \in Metrics : Sound(m, state'[m], origin'[m])
      PROVE  EvidenceInv'
  BY <1>d, <1>n, NoCycleSound DEF EvidenceInv
<1>1. CASE Canary \/ UNCHANGED vars
  BY <1>1, CanaryLeaves
     DEF vars, EvidenceInv, Old, Find, Current
<1>2. CASE StartCycle
  <2>1. cycle'.slice = NoCycle.slice /\ cycle'.origin = NoCycle.origin
        /\ cycle'.pc = "total"
    BY <1>2 DEF StartCycle, NoCycle
  <2> QED BY <1>2, <2>1, NoCycleSound DEF StartCycle, EvidenceInv
<1>3. CASE QueryTotal
  <2>1. /\ cycle'.slice = cycle.slice /\ cycle'.origin = cycle.origin
        /\ cycle'.storable = cycle.storable /\ cycle'.at = cycle.at
    BY <1>3 DEF QueryTotal, TypeOK
  <2> QED BY <1>3, <2>1 DEF QueryTotal, EvidenceInv, Old, Find, Current
<1>4. CASE Appending
  <2>1. cycle'.pc \in {"total", "done"}
    BY <1>4, Appends, AppendedFields DEF AppendsEntry
  <2> QED BY <1>4, <2>1, Appends, AppendedSound DEF EvidenceInv
<1>5. CASE Dropping
  BY <1>5, <1>d, DroppingLeaves DEF EvidenceInv
<1>6. CASE Persist
  BY <1>6, <1>d DEF Persist, EvidenceInv
<1>7. CASE AdvanceStep
  BY <1>7, <1>d, AbsentSound, InitialTypes DEF AdvanceStep
<1> QED BY <1>1, <1>2, <1>3, <1>4, <1>5, <1>6, <1>7, StepKinds

LEMMA EvidenceHolds == Spec => [](TypeOK /\ EvidenceInv)
<1>1. Init => EvidenceInv
  <2> SUFFICES ASSUME Init PROVE EvidenceInv
    OBVIOUS
  <2>1. cycle.pc = "idle"
    BY DEF Init, NoCycle
  <2> QED BY <2>1, NoCycleSound, AbsentSound, InitialTypes DEF Init, EvidenceInv
<1>2. TypeOK /\ EvidenceInv /\ [Next]_vars => EvidenceInv'
  BY EvidenceStep
<1> QED BY <1>1, <1>2, TypeCorrect, PTL DEF Spec

\* Every request since an accumulator began is counted once and no failure
\* twice, through skipped, dropped and lost cycles of RunSPRT and restarts of the
\* controller and the canary.
THEOREM EvidenceCountedOnce == Spec => []CountedOnce
<1>1. TypeOK /\ EvidenceInv => CountedOnce
  <2> SUFFICES ASSUME TypeOK, EvidenceInv, NEW m \in Metrics
               PROVE  /\ state[m].obs = state[m].lastTotal - origin[m].total
                      /\ state[m].failed
                           \in 0 .. (state[m].lastFailure - origin[m].failures)
    BY DEF CountedOnce
  <2>1. state[m] \in MetricState /\ origin[m] \in Origins
    BY DEF TypeOK
  <2>2. Sound(m, state[m], origin[m])
    BY DEF EvidenceInv
  <2> QED BY <2>1, <2>2 DEF Sound, MetricState, Origins
<1> QED BY <1>1, EvidenceHolds, PTL

\* At a steady baseline the stored ratio is that of the stored counts, whatever
\* cycles of RunSPRT were dropped, lost or brought failures without requests.
THEOREM RatiosAreOfCounts == Spec => []RatioOfCounts
<1>1. EvidenceInv => RatioOfCounts
  BY DEF EvidenceInv, Sound, RatioOfCounts
<1> QED BY <1>1, EvidenceHolds, PTL

\* A stored verdict is the one of the stored ratio, and no verdict is reached
\* without an observed request.
THEOREM VerdictsJustified == Spec => []VerdictJustified
<1>1. EvidenceInv => VerdictJustified
  BY DEF EvidenceInv, Sound, VerdictJustified
<1> QED BY <1>1, EvidenceHolds, PTL

-----------------------------------------------------------------------------
(* The walk over the list. *)

Listed(m) == \E i \in DOMAIN List : List[i] = m

Only(s) == \A m \in Metrics : s[m].decision # "none" => Listed(m)

\* The slice before the position at which the cycle stands: all entries so far,
\* none of them a rollback.
Walked(s, at) ==
  \A i \in DOMAIN List :
    /\ i < at => s[List[i]].decision \in {"pending", "promote"}
    /\ i >= at => s[List[i]].decision = "none"

\* The slice of a cycle that came to its end misses just what follows a
\* rollback.
Complete(s) ==
  \A i \in DOMAIN List :
    s[List[i]].decision = "none"
      <=> \E j \in DOMAIN List : j < i /\ s[List[j]].decision = "rollback"

\* Decided entries pass from the stored slice into the new one as they are.
Kept(s) ==
  \A m \in Metrics :
    s[m].decision # "none" /\ Decided(state[m].decision) => s[m] = state[m]

WalkInv ==
  /\ Only(state)
  /\ cycle.pc # "idle" =>
       /\ ~HasRollback(Decision(state))
       /\ Only(cycle.slice) /\ Kept(cycle.slice)
  /\ cycle.pc \in {"total", "failure"} => Walked(cycle.slice, cycle.at)
  /\ cycle.pc = "done" => Complete(cycle.slice)

LEMMA RollbackEntry ==
  \A s : HasRollback(Decision(s))
           <=> \E m \in Metrics : s[m].decision = "rollback"
BY DEF HasRollback, Decision

\* A slice without entries is the start of a walk.
LEMMA EmptyWalk ==
  /\ Only(NoStates) /\ Kept(NoStates) /\ Walked(NoStates, 1)
<1>1. Absent.decision = "none"
  BY InitialTypes DEF Absent, MetricState
<1> QED BY <1>1, InitialTypes, ListFacts DEF Only, Kept, Walked

\* An appended entry extends the walk by one position, or ends it.
LEMMA WalkAppends ==
  ASSUME TypeOK, EvidenceInv, WalkInv, Appending
  PROVE  WalkInv'
<1>1. PICK new, base, storable : AppendsEntry(new, base, storable)
  BY Appends
<1>2. /\ cycle'.pc = IF Ends(new) THEN "done" ELSE "total"
      /\ cycle'.at = IF Ends(new) THEN 1 ELSE cycle.at + 1
      /\ cycle'.slice[Current] = new
      /\ \A m \in Metrics \ {Current} : cycle'.slice[m] = cycle.slice[m]
  BY <1>1, AppendedFields DEF AppendsEntry
<1>3. /\ cycle.slice \in [Metrics -> MetricState]
      /\ cycle.at \in 1 .. Len(List) /\ Len(List) \in Nat
      /\ Current \in Metrics /\ Current = List[cycle.at]
  BY CurrentType, ListFacts DEF TypeOK, Current
<1>5. /\ new.decision \in {"pending", "promote", "rollback"}
      /\ cycle.pc \in {"total", "failure"}
      /\ state' = state
  BY <1>1, Appends DEF AppendsEntry, MetricState, Decisions
<1>6. Only(cycle'.slice)
  BY <1>2, <1>3, <1>5, ListFacts DEF WalkInv, Only, Listed
<1>7. Decided(state[Current].decision) => new = state[Current]
  BY <1>1 DEF AppendsEntry, EvidenceInv, Old, Find, Decided
<1>8. Kept(cycle'.slice)
  BY <1>2, <1>5, <1>7 DEF WalkInv, Kept
<1>9. \A i \in DOMAIN List :
        /\ List[i] \in Metrics
        /\ List[i] = Current <=> i = cycle.at
        /\ i < cycle.at => cycle'.slice[List[i]].decision
                             \in {"pending", "promote"}
        /\ i > cycle.at => cycle'.slice[List[i]].decision = "none"
  BY <1>2, <1>3, <1>5, ListFacts, ListAssumption DEF WalkInv, Walked
<1>10. cycle'.slice[List[cycle.at]].decision = new.decision
  BY <1>2, <1>3
<1>11. CASE Ends(new)
  <2>1. Complete(cycle'.slice)
    BY <1>3, <1>5, <1>9, <1>10, <1>11, ListFacts DEF Complete, Ends
  <2> QED BY <1>2, <1>5, <1>6, <1>8, <1>11, <2>1
          DEF WalkInv, Only, Kept, Decision
<1>12. CASE ~Ends(new)
  <2>1. Walked(cycle'.slice, cycle'.at)
    BY <1>2, <1>3, <1>5, <1>9, <1>10, <1>12, ListFacts DEF Walked, Ends
  <2> QED BY <1>2, <1>5, <1>6, <1>8, <1>12, <2>1
          DEF WalkInv, Only, Kept, Decision
<1> QED BY <1>11, <1>12

\* Every step keeps WalkInv.
LEMMA WalkStep ==
  ASSUME TypeOK, EvidenceInv, WalkInv, [Next]_vars PROVE WalkInv'
<1>d. ASSUME cycle' = NoCycle, Only(state') PROVE WalkInv'
  <2>1. cycle'.pc = "idle"
    BY <1>d DEF NoCycle
  <2> QED BY <1>d, <2>1 DEF WalkInv, Only
<1>1. CASE Canary \/ UNCHANGED vars
  BY <1>1, CanaryLeaves DEF vars, WalkInv, Only, Kept, Decision
<1>2. CASE StartCycle
  <2>1. cycle'.pc = "total" /\ cycle'.at = 1 /\ cycle'.slice = NoStates
        /\ state' = state
    BY <1>2 DEF StartCycle, NoCycle
  <2> QED BY <1>2, <2>1, EmptyWalk DEF StartCycle, WalkInv, Only, Kept, Decision
<1>3. CASE QueryTotal
  <2>1. /\ cycle'.slice = cycle.slice /\ cycle'.at = cycle.at
        /\ cycle.pc = "total" /\ cycle'.pc = "failure" /\ state' = state
    BY <1>3 DEF QueryTotal, TypeOK
  <2> QED BY <2>1 DEF WalkInv, Only, Kept, Walked, Decision
<1>4. CASE Appending
  BY <1>4, WalkAppends
<1>5. CASE Dropping
  BY <1>5, <1>d, DroppingLeaves DEF WalkInv, Only
<1>6. CASE Persist
  BY <1>6, <1>d DEF Persist, WalkInv, Only
<1>7. CASE AdvanceStep
  BY <1>7, <1>d, EmptyWalk DEF AdvanceStep, Only
<1> QED BY <1>1, <1>2, <1>3, <1>4, <1>5, <1>6, <1>7, StepKinds

LEMMA WalkHolds == Spec => [](TypeOK /\ EvidenceInv /\ WalkInv)
<1>1. Init => WalkInv
  <2> SUFFICES ASSUME Init PROVE WalkInv
    OBVIOUS
  <2>1. cycle.pc = "idle"
    BY DEF Init, NoCycle
  <2> QED BY <2>1, EmptyWalk DEF Init, WalkInv
<1>2. TypeOK /\ EvidenceInv /\ WalkInv /\ [Next]_vars => WalkInv'
  BY WalkStep
<1> QED BY <1>1, <1>2, EvidenceHolds, PTL DEF Spec

-----------------------------------------------------------------------------
(* What follows for the verdicts. *)

\* The steps that change no stored entry.
LEMMA QuietSteps ==
  ASSUME TypeOK, [Next]_vars, ~Persist, ~AdvanceStep
  PROVE  state' = state
BY StepKinds, CanaryLeaves, DroppingLeaves, Appends
   DEF StartCycle, QueryTotal, vars

LEMMA FinalStep ==
  ASSUME TypeOK, EvidenceInv, WalkInv, [Next]_vars,
         NEW m \in Metrics, Decided(state[m].decision)
  PROVE  \/ state'[m] = state[m]
         \/ step' # step
         \/ state'[m] = Absent /\ HasRollback(Decision(state'))
<1>1. CASE Persist
  <2>1. /\ state' = cycle.slice /\ cycle.pc = "done" /\ cycle.storable
        /\ Kept(cycle.slice) /\ Complete(cycle.slice)
        /\ Sound(m, cycle.slice[m], cycle.origin[m])
    BY <1>1 DEF Persist, WalkInv, EvidenceInv
  <2>2. CASE cycle.slice[m].decision = "none"
    <3>1. PICK i \in DOMAIN List : List[i] = m
      BY DEF WalkInv, Only, Listed, Decided
    <3>2. \E j \in DOMAIN List : cycle.slice[List[j]].decision = "rollback"
      BY <2>1, <2>2, <3>1 DEF Complete
    <3> QED BY <2>1, <2>2, <3>2, ListFacts, RollbackEntry DEF Sound
  <2>3. CASE cycle.slice[m].decision # "none"
    BY <2>1, <2>3 DEF Kept
  <2> QED BY <2>2, <2>3
<1>2. CASE AdvanceStep
  BY <1>2 DEF AdvanceStep, TypeOK
<1> QED BY <1>1, <1>2, QuietSteps

\* A decided metric is not tested again: its entry stays to the end of the
\* step, and only another metric's rollback drops it.
THEOREM VerdictsAreFinal == Spec => VerdictFinal
<1>1. TypeOK /\ EvidenceInv /\ WalkInv /\ [Next]_vars =>
        \A m \in Metrics :
          Decided(state[m].decision) =>
            \/ state'[m] = state[m]
            \/ step' # step
            \/ state'[m] = Absent /\ HasRollback(Decision(state'))
  BY FinalStep
<1> QED BY <1>1, WalkHolds, PTL DEF Spec, VerdictFinal

\* What a complete cycle said of each metric; of those it did not reach,
\* anything will do.
Said(s) ==
  [m \in Metrics |->
     IF s[m].decision = "none" THEN "pending" ELSE s[m].decision]

\* A complete slice is what UpdatedState makes of the stored one.
LEMMA CompleteIsUpdated ==
  ASSUME TypeOK, WalkInv, cycle.pc = "done"
  PROVE  /\ Said(cycle.slice) \in Promise!Outcomes
         /\ Decision(cycle.slice)
              = Promise!UpdatedState(List, Decision(state), Said(cycle.slice))
<1> DEFINE s == cycle.slice
           said == Said(s)
           old == Decision(state)
           at == Promise!RollbackAt(List, old, said)
<1>1. /\ s \in [Metrics -> MetricState] /\ state \in [Metrics -> MetricState]
      /\ Only(s) /\ Kept(s) /\ Complete(s)
      /\ \A m \in Metrics : state[m].decision # "rollback"
  BY RollbackEntry DEF TypeOK, WalkInv
<1>2. \A m \in Metrics : s[m].decision \in Decisions
  BY <1>1 DEF MetricState
<1>3. said \in Promise!Outcomes
  BY <1>2 DEF Said, Promise!Outcomes, Decisions
<1>4. \A m \in Metrics :
        /\ said[m] = IF s[m].decision = "none" THEN "pending" ELSE s[m].decision
        /\ old[m] = state[m].decision
        /\ Decision(s)[m] = s[m].decision
  BY DEF Said, Decision
<1>5. \A i \in DOMAIN List :
        i \in at <=> s[List[i]].decision = "rollback"
  BY <1>1, <1>4, ListFacts
     DEF Kept, Decided, Promise!RollbackAt, Promise!Decided
<1>a. at \subseteq DOMAIN List
  BY DEF Promise!RollbackAt
<1>6. ASSUME NEW m \in Metrics
      PROVE  s[m].decision
               = Promise!UpdatedState(List, old, said)[m]
  <2>1. ASSUME NEW i \in DOMAIN List, List[i] = m
        PROVE  s[m].decision = "none" <=> ~(\A j \in at : i <= j)
    BY <1>1, <1>5, <1>a, <2>1, ListFacts DEF Complete
  <2>2. s[m].decision # "none"
          <=> \E i \in DOMAIN List : List[i] = m /\ \A j \in at : i <= j
    BY <1>1, <2>1 DEF Only, Listed
  <2>3. s[m].decision # "none"
          => Promise!NextDecision(old[m], said[m]) = s[m].decision
    BY <1>1, <1>4 DEF Kept, Decided, Promise!NextDecision, Promise!Decided
  <2> HIDE DEF s, said, old
  <2> QED BY <2>2, <2>3 DEF Promise!UpdatedState
<1>7. Decision(s) = Promise!UpdatedState(List, old, said)
  <2> HIDE DEF s, said, old
  <2>1. Decision(s) = [m \in Metrics |-> s[m].decision]
    BY DEF Decision
  <2>2. Promise!UpdatedState(List, old, said)
          = [m \in Metrics |-> Promise!UpdatedState(List, old, said)[m]]
    BY DEF Promise!UpdatedState
  <2> QED BY <1>6, <2>1, <2>2
<1> QED BY <1>3, <1>7

\* Storing a cycle and leaving a step are steps of Verdicts.
LEMMA VerdictsStep ==
  ASSUME TypeOK, WalkInv, [Next]_vars
  PROVE  Promise!Next \/ Decision(state)' = Decision(state)
<1>1. CASE Persist
  <2>1. /\ Decision(state)' = Decision(cycle.slice)
        /\ cycle.pc = "done" /\ ~HasRollback(Decision(state))
    BY <1>1 DEF Persist, WalkInv, Decision
  <2> QED BY <2>1, CompleteIsUpdated
          DEF Promise!Next, Promise!Cycle, HasRollback, Promise!HasRollback
<1>2. CASE AdvanceStep
  <2>1. /\ Decision(state)' = Promise!NoAnalysis
        /\ cycle.pc = "done" /\ AllPromote(Decision(cycle.slice))
    <3>1. Decision(NoStates) = Promise!NoAnalysis
      <4>1. \A m \in Metrics : NoStates[m].decision = "none"
        BY InitialTypes DEF Absent, MetricState
      <4> QED BY <4>1 DEF Decision, Promise!NoAnalysis
    <3> QED BY <1>2, <3>1 DEF AdvanceStep, Promotable, Decision
  <2> QED BY <2>1, CompleteIsUpdated
          DEF Promise!Next, Promise!Advance, AllPromote, Promise!AllPromote
<1> QED BY <1>1, <1>2, QuietSteps DEF Decision

\* RunSPRT, its cycle in memory and the update that stores it or does not,
\* implement what the reconcile loop relies on.
THEOREM ImplementsVerdicts == Spec => IsVerdicts
<1>1. Init => Promise!Init
  <2>1. \A m \in Metrics : NoStates[m].decision = "none"
    BY InitialTypes DEF Absent, MetricState
  <2> QED BY <2>1 DEF Init, Decision, Promise!Init, Promise!NoAnalysis
<1>2. TypeOK /\ WalkInv /\ [Next]_vars => [Promise!Next]_(Decision(state))
  BY VerdictsStep
<1> QED BY <1>1, <1>2, WalkHolds, PTL DEF Spec, IsVerdicts, Promise!Spec

=============================================================================
