---------------------------- MODULE WatchProofs ----------------------------
(***************************************************************************)
(* The dashboard of statctl watch: the marker on each bar tells the        *)
(* analyser's verdict, for every manifest, plan and status.                *)
(***************************************************************************)
EXTENDS Watch, TLAPS

-----------------------------------------------------------------------------
(* What is stored and shown. *)

Answers == [spec : SpecType, status : StatusType] \cup {Absent}

\* The answers are what the API server stores.
Inv == rollout \in Answers /\ shown \in Answers

\* The store keeps its type.
LEMMA StoreType ==
  ASSUME rollout \in Answers, Store!Next
  PROVE  rollout' \in Answers
<1>r. rollout # Absent =>
        /\ rollout \in [spec : SpecType, status : StatusType]
        /\ rollout.spec \in SpecType
  BY DEF Answers
<1>1. ASSUME NEW spec \in Manifests, Store!Create(spec) \/ Store!Apply(spec)
      PROVE  rollout' \in Answers
  <2>1. spec \in SpecType /\ NewStatus \in StatusType
    BY WatchAssumption
  <2> QED BY <1>1, <1>r, <2>1
          DEF Store!Create, Store!Apply, Store!Exists, Answers
<1>2. ASSUME NEW status \in Statuses, Store!WriteStatus(status)
      PROVE  rollout' \in Answers
  <2>1. status \in StatusType
    BY WatchAssumption
  <2> QED BY <1>2, <1>r, <2>1 DEF Store!WriteStatus, Store!Exists, Answers
<1>3. CASE Store!Delete
  BY <1>3 DEF Store!Delete, Answers
<1>4. ASSUME NEW spec \in SpecType, rollout # Absent,
             rollout' = [rollout EXCEPT !.spec = spec]
      PROVE  rollout' \in Answers
  BY <1>4, <1>r DEF Answers
<1>5. CASE Store!Pause
  <2>1. [rollout.spec EXCEPT !.paused = TRUE] \in SpecType
    BY <1>5, <1>r DEF Store!Pause, Store!Exists, SpecType
  <2>2. rollout' = [rollout EXCEPT !.spec = [rollout.spec EXCEPT !.paused = TRUE]]
    BY <1>5 DEF Store!Pause
  <2> QED BY <1>4, <1>5, <2>1, <2>2 DEF Store!Pause, Store!Exists
<1>6. CASE Store!Abort
  <2>1. [rollout.spec EXCEPT !.abort = TRUE] \in SpecType
    BY <1>6, <1>r DEF Store!Abort, Store!Exists, SpecType
  <2>2. rollout' = [rollout EXCEPT !.spec = [rollout.spec EXCEPT !.abort = TRUE]]
    BY <1>6 DEF Store!Abort
  <2> QED BY <1>4, <1>6, <2>1, <2>2 DEF Store!Abort, Store!Exists
<1>7. CASE Store!Resume
  <2> DEFINE mid == [rollout EXCEPT !.spec.paused = FALSE]
  <2>1. /\ mid \in [spec : SpecType, status : StatusType]
        /\ rollout' = [mid EXCEPT !.spec.abort = FALSE]
    BY <1>7, <1>r DEF Store!Resume, Store!Exists, SpecType
  <2> HIDE DEF mid
  <2> QED BY <2>1 DEF Answers, SpecType
<1> QED BY <1>1, <1>2, <1>3, <1>5, <1>6, <1>7 DEF Store!Next

\* It holds from the start.
LEMMA InvInit == Init => Inv
<1> SUFFICES ASSUME Init PROVE Inv
  OBVIOUS
<1>1. rollout \in Answers
  BY WatchAssumption DEF Init, Store!Init, Answers
<1> QED BY <1>1 DEF Init, Inv, Answers

\* Every step keeps it.
LEMMA InvStep == Inv /\ [Next]_vars => Inv'
<1> SUFFICES ASSUME Inv, [Next]_vars PROVE Inv'
  OBVIOUS
<1>1. ASSUME NEW answer \in Answers, Render(answer) PROVE Inv'
  BY <1>1 DEF Render, Inv
<1>2. CASE Changes
  BY <1>2, StoreType DEF Changes, Inv
<1>3. CASE Refresh
  BY <1>1, <1>3 DEF Refresh, Inv
<1>4. CASE RefreshFails
  BY <1>1, <1>4 DEF RefreshFails, Answers
<1>5. CASE Interrupt \/ End \/ UNCHANGED vars
  BY <1>5 DEF Interrupt, End, vars, Inv
<1> QED BY <1>2, <1>3, <1>4, <1>5 DEF Next

\* It holds for ever.
LEMMA InvHolds == Spec => []Inv
BY InvInit, InvStep, PTL DEF Spec

-----------------------------------------------------------------------------
(* The bar. *)

\* Division by a positive number keeps the order.
LEMMA DivMonotonic ==
  ASSUME NEW a \in Int, NEW b \in Int, a <= b, NEW c \in Int, c > 0
  PROVE  a \div c \in Int /\ a \div c <= b \div c
OBVIOUS

\* The cells of the two bounds are the two ends of the bar; between them the
\* cell grows with the value.
LEMMA CellFacts ==
  ASSUME NEW lo \in Int, NEW hi \in Int, lo < hi
  PROVE  /\ Cell(lo, lo, hi) = 0 /\ Cell(hi, lo, hi) = Width - 1
         /\ \A a, b \in Int : a <= b =>
              Cell(a, lo, hi) \in Int /\ Cell(a, lo, hi) <= Cell(b, lo, hi)
<1> DEFINE d == hi - lo
           up(a) == 98 * (a - lo) + d
<1>1. \A a \in Int : Cell(a, lo, hi) = up(a) \div (2 * d) /\ up(a) \in Int
  BY DEF Cell, Width
<1>2. d \in Int /\ d > 0 /\ 2 * d \in Int /\ 2 * d > 0
  OBVIOUS
<1>3. up(lo) = d /\ up(hi) = 99 * d
  OBVIOUS
<1>4. \A a, b \in Int : a <= b => up(a) <= up(b)
  OBVIOUS
<1> HIDE DEF d, up
<1>5. d \div (2 * d) = 0 /\ (99 * d) \div (2 * d) = 49
  BY <1>2
<1>6. ASSUME NEW a \in Int, NEW b \in Int, a <= b
      PROVE  Cell(a, lo, hi) \in Int /\ Cell(a, lo, hi) <= Cell(b, lo, hi)
  <2> DEFINE c == 2 * d
  <2>1. c \in Int /\ c > 0
    BY <1>2
  <2>2. up(a) \in Int /\ up(b) \in Int /\ up(a) <= up(b)
    BY <1>1, <1>4, <1>6
  <2>3. Cell(a, lo, hi) = up(a) \div c /\ Cell(b, lo, hi) = up(b) \div c
    BY <1>1
  <2> HIDE DEF c
  <2> QED BY <2>1, <2>2, <2>3, DivMonotonic
<1> QED BY <1>1, <1>3, <1>5, <1>6 DEF Width

\* What the marker tells.
LEMMA MarkerFacts ==
  ASSUME NEW value \in Int, NEW lo \in Int, NEW hi \in Int, lo < 0, hi > 0
  PROVE  LET marker == Marker(value, lo, hi) IN
         /\ marker \in 0..Width - 1
         /\ value <= lo => marker = 0
         /\ value >= hi => marker = Width - 1
         /\ value <= 0 => marker <= Zero(lo, hi)
         /\ value >= 0 => marker >= Zero(lo, hi)
<1> DEFINE c == Clamped(value, lo, hi)
<1>1. /\ c \in Int /\ lo <= c /\ c <= hi
      /\ value <= lo => c = lo
      /\ value >= hi => c = hi
      /\ value <= 0 => c <= 0
      /\ value >= 0 => c >= 0
  BY DEF Clamped
<1> HIDE DEF c
<1>2. /\ Cell(lo, lo, hi) = 0 /\ Cell(hi, lo, hi) = Width - 1
      /\ \A a, b \in Int : a <= b =>
           Cell(a, lo, hi) \in Int /\ Cell(a, lo, hi) <= Cell(b, lo, hi)
  BY CellFacts
<1>3. Cell(c, lo, hi) \in Int /\ 0 <= Cell(c, lo, hi)
      /\ Cell(c, lo, hi) <= Width - 1
  BY <1>1, <1>2
<1>4. Width - 1 = 49
  BY DEF Width
<1>5. Marker(value, lo, hi) = Cell(c, lo, hi) /\ Zero(lo, hi) = Cell(0, lo, hi)
  <2>1. \A cell \in 0..Width - 1 : Clamped(cell, 0, Width - 1) = cell
    BY <1>4 DEF Clamped
  <2>2. Cell(c, lo, hi) \in 0..Width - 1
    BY <1>3, <1>4
  <2> QED BY <2>1, <2>2 DEF Marker, Zero, c
<1>6. /\ Marker(value, lo, hi) \in 0..Width - 1
      /\ value <= 0 => Marker(value, lo, hi) <= Zero(lo, hi)
      /\ value >= 0 => Marker(value, lo, hi) >= Zero(lo, hi)
  <2> HIDE DEF Width
  <2> QED BY <1>1, <1>2, <1>3, <1>4, <1>5
<1>7. /\ value <= lo => Marker(value, lo, hi) = 0
      /\ value >= hi => Marker(value, lo, hi) = Width - 1
  BY <1>1, <1>2, <1>5
<1> QED BY <1>6, <1>7

\* The bar tells what the analyser makes of a ratio, for every pair of bounds
\* around zero and every ratio.
THEOREM BarIsTrue == Spec => []BarTellsVerdict
<1>1. Inv => BarTellsVerdict
  <2> SUFFICES ASSUME Inv, shown # Absent,
                      NEW i \in DOMAIN shown.spec.plan.metrics,
                      shown.status.analysis[shown.spec.plan.metrics[i].name]
                        # Absent,
                      shown.spec.plan.lower < 0, shown.spec.plan.upper > 0
               PROVE
        LET plan == shown.spec.plan
            entry == shown.status.analysis[plan.metrics[i].name]
            marker == Marker(entry.llr, plan.lower, plan.upper)
            zero == Zero(plan.lower, plan.upper) IN
        /\ marker \in 0..Width - 1
        /\ Verdict(entry.llr, plan) = entry.decision =>
             /\ Badge(entry) = "promote" => marker = 0
             /\ Badge(entry) = "rollback" => marker = Width - 1
        /\ entry.llr <= 0 => marker <= zero
        /\ entry.llr >= 0 => marker >= zero
    BY Zenon DEF BarTellsVerdict
  <2> DEFINE plan == shown.spec.plan
             entry == shown.status.analysis[plan.metrics[i].name]
  <2>1. /\ plan \in PlanType
        /\ shown.status.analysis \in [Metrics -> EntryType \cup {Absent}]
    BY DEF Inv, Answers, SpecType, StatusType
  <2>2. plan.metrics[i].name \in Metrics
    <3>1. plan.metrics \in Seq([name : Metrics, delta : Int])
      BY <2>1 DEF PlanType
    <3>2. i \in DOMAIN plan.metrics
      OBVIOUS
    <3> DEFINE list == plan.metrics
               T == [name : Metrics, delta : Int]
    <3>3. list[i] \in T
      <4>1. list \in Seq(T) /\ i \in DOMAIN list
        BY <3>1, <3>2
      <4> HIDE DEF list, T
      <4> QED BY <4>1
    <3> HIDE DEF plan
    <3> QED BY <3>3
  <2>3. entry \in EntryType
    BY <2>1, <2>2
  <2>4. entry.llr \in Int /\ plan.lower \in Int /\ plan.upper \in Int
    BY <2>1, <2>3 DEF EntryType, PlanType
  <2>5. /\ Badge(entry) = "promote" => entry.decision = "promote"
        /\ Badge(entry) = "rollback" => entry.decision = "rollback"
    BY DEF Badge
  <2>6. /\ Verdict(entry.llr, plan) = "promote" => entry.llr <= plan.lower
        /\ Verdict(entry.llr, plan) = "rollback" => entry.llr >= plan.upper
    BY DEF Verdict
  <2>7. plan.lower < 0 /\ plan.upper > 0
    OBVIOUS
  <2> HIDE DEF plan, entry
  <2>8. LET marker == Marker(entry.llr, plan.lower, plan.upper) IN
        /\ marker \in 0..Width - 1
        /\ entry.llr <= plan.lower => marker = 0
        /\ entry.llr >= plan.upper => marker = Width - 1
        /\ entry.llr <= 0 => marker <= Zero(plan.lower, plan.upper)
        /\ entry.llr >= 0 => marker >= Zero(plan.lower, plan.upper)
    BY <2>4, <2>7, MarkerFacts
  <2>9. /\ Marker(entry.llr, plan.lower, plan.upper) \in 0..Width - 1
        /\ Verdict(entry.llr, plan) = entry.decision =>
             /\ Badge(entry) = "promote" =>
                  Marker(entry.llr, plan.lower, plan.upper) = 0
             /\ Badge(entry) = "rollback" =>
                  Marker(entry.llr, plan.lower, plan.upper) = Width - 1
        /\ entry.llr <= 0 => Marker(entry.llr, plan.lower, plan.upper)
                               <= Zero(plan.lower, plan.upper)
        /\ entry.llr >= 0 => Marker(entry.llr, plan.lower, plan.upper)
                               >= Zero(plan.lower, plan.upper)
    BY <2>5, <2>6, <2>8
  <2> QED BY <2>9, Zenon DEF plan, entry
<1> QED BY <1>1, InvHolds, PTL

=============================================================================
