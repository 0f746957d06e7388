----------------------------- MODULE Dashboard -----------------------------
(***************************************************************************)
(* What statctl's get and watch print for a rollout                        *)
(* (cmd/statctl/render.go), as a sequence of rows.  A row says which line  *)
(* it is and what the line tells; its wording and its columns are left     *)
(* out.  Rates are percentages and likelihood ratios integers; `lower' and *)
(* `upper' of a plan are the bounds renderSPRT computes from its alpha and *)
(* beta.                                                                   *)
(***************************************************************************)
EXTENDS Integers, Sequences, SequencesExt

CONSTANT Absent    \* no such rollout; a metric without an entry

Blank == <<"blank">>

\* humanDuration, hostnames and the configured intervals are not rows' content.
Heading(cr) ==
  << <<"title">>, <<"rule">>,
     <<"phase", cr.status.phase,
       IF cr.spec.plan.steps = <<>> THEN <<>>
       ELSE <<cr.status.step + 1, Len(cr.spec.plan.steps)>> >>,
     <<"weight", cr.status.weight, cr.spec.paused>>,
     <<"abort", cr.spec.abort>>, <<"target">> >>
  \o (IF cr.status.message = "" THEN <<>>
      ELSE << <<"message", cr.status.message>> >>)
  \o <<Blank>>

-----------------------------------------------------------------------------
(* llrBar *)

Width == 50

Clamped(value, lo, hi) ==
  LET raised == IF value < lo THEN lo ELSE value
  IN IF raised > hi THEN hi ELSE raised

\* The cell of a value between the bounds: int(frac * 49 + 0.5).
Cell(value, lo, hi) ==
  IF hi <= lo THEN 0
  ELSE (2 * (Width - 1) * (value - lo) + (hi - lo)) \div (2 * (hi - lo))

\* The cell of the marker, 0 at the promote edge and Width - 1 at the rollback
\* edge; the value is clamped, and then the cell.
Marker(value, lo, hi) ==
  Clamped(Cell(Clamped(value, lo, hi), lo, hi), 0, Width - 1)

\* Mutant: the neutral point is the middle of the bar.
ZeroCentered(lo, hi) == IF lo < 0 /\ hi > 0 THEN Width \div 2 ELSE -1

\* The cell of the neutral point, -1 if it is not between the bounds.
Zero(lo, hi) == IF lo < 0 /\ hi > 0 THEN Cell(0, lo, hi) ELSE -1

-----------------------------------------------------------------------------
(* renderSPRT and renderSteps *)

Badge(entry) ==
  IF entry # Absent /\ entry.decision \in {"promote", "rollback"}
  THEN entry.decision ELSE "pending"

Alternative(baseline, delta) ==
  IF baseline + delta > 100 THEN 100 ELSE baseline + delta

\* The rows of one metric; Absent is a metric without an entry.
MetricRows(plan, metric, entry) ==
  << <<"metric", metric.name, Badge(entry)>> >>
  \o (IF entry = Absent THEN << <<"no observations">> >>
      ELSE << <<"ratio", entry.llr>>,
              <<"bar", Marker(entry.llr, plan.lower, plan.upper),
                Zero(plan.lower, plan.upper)>>,
              <<"boundaries", plan.lower, plan.upper>>,
              <<"baseline", entry.baseline>>,
              <<"alternative", Alternative(entry.baseline, metric.delta)>>,
              <<"observed", entry.obs, entry.failed>> >>)
  \o <<Blank>>

\* Without spec.analysis (metrics is <<>>) there is one row to say so.
SPRTRows(plan, analysis) ==
  IF plan.metrics = <<>> THEN << <<"not configured">>, Blank >>
  ELSE << <<"configuration">>, <<"alpha", plan.upper>>, <<"beta", plan.lower>>,
          <<"interval">>, <<"prometheus", plan.prom>>, Blank >>
       \o FlattenSeq([i \in DOMAIN plan.metrics |->
            MetricRows(plan, plan.metrics[i], analysis[plan.metrics[i].name])])

Over(phase) == phase \in {"Promoted", "Aborted", "Failed"}

\* Steps are numbered from 0.
StepMark(status, i) ==
  IF status.phase = "Promoted" \/ i < status.step THEN "done"
  ELSE IF i > status.step THEN "open"
  ELSE IF Over(status.phase) THEN "stopped" ELSE "current"

StepRows(plan, status) ==
  << <<"steps">> >> \o
  [i \in DOMAIN plan.steps |->
     <<"step", StepMark(status, i - 1), plan.steps[i].weight>>]

Rollout(cr) ==
  Heading(cr) \o SPRTRows(cr.spec.plan, cr.status.analysis)
    \o StepRows(cr.spec.plan, cr.status)

\* A frame of watch: the rollout, or why there is none, and a footer.
Frame(answer) ==
  (IF answer = Absent THEN << <<"error">> >> ELSE Rollout(answer))
    \o << Blank, <<"refreshing">> >>

=============================================================================
