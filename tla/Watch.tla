------------------------------- MODULE Watch -------------------------------
(***************************************************************************)
(* statctl watch (cmd/statctl/watch.go): a loop that reads a rollout at    *)
(* every tick and draws its dashboard over the previous one.  The rollout  *)
(* changes as RolloutStore lets it change, which is all that the other     *)
(* commands (Statctl) and the controller (Reconciler) do to it.            *)
(*                                                                         *)
(* The screen is what its lines begin with, on a terminal at least as tall *)
(* as the frames and as wide as the rows.  The code erases below a frame,  *)
(* but no line to its end: beyond the end of a row the tail of a longer    *)
(* one that was drawn there before stays visible.  The tails are left out, *)
(* and no property is about them.                                          *)
(***************************************************************************)
EXTENDS Dashboard

CONSTANTS
  Metrics,                          \* the names of the metrics
  Manifests, Statuses, NewStatus    \* see RolloutStore

\* What the dashboard draws of the API types.
PlanType ==
  [steps : Seq([weight : Int]), metrics : Seq([name : Metrics, delta : Int]),
   prom : BOOLEAN, lower : Int, upper : Int]

SpecType == [plan : PlanType, paused : BOOLEAN, abort : BOOLEAN]

EntryType == [llr : Int, obs : Int, failed : Int, baseline : Int,
              decision : {"pending", "promote", "rollback"}]

StatusType ==
  [phase : STRING, step : Int, weight : Int, message : STRING,
   analysis : [Metrics -> EntryType \cup {Absent}]]

ASSUME WatchAssumption ==
  /\ Manifests \subseteq SpecType
  /\ Statuses \subseteq StatusType /\ NewStatus \in Statuses

VARIABLES
  rollout,    \* what the API server stores
  screen,     \* the rows that the lines of the terminal begin with
  first,      \* firstRender: no frame is drawn yet
  cancelled,  \* Ctrl-C was pressed
  ended,      \* cmdWatch has returned
  shown       \* (history) the answer the last frame was made from

vars == <<rollout, screen, first, cancelled, ended, shown>>

Store == INSTANCE RolloutStore

\* What the shell left on the terminal is cleared by the first frame.
Init ==
  /\ Store!Init
  /\ screen = <<>>
  /\ first = TRUE /\ cancelled = FALSE /\ ended = FALSE
  /\ shown = Absent

-----------------------------------------------------------------------------

Changes == Store!Next /\ UNCHANGED <<screen, first, cancelled, ended, shown>>

\* render: an answer becomes a frame.  The cursor goes home, the frame is written
\* row over row, and the lines below it are erased.
Render(answer) ==
  /\ ~ended
  /\ screen' = Frame(answer)
  /\ shown' = answer
  /\ first' = FALSE
  /\ UNCHANGED <<rollout, cancelled, ended>>

\* Get finds the rollout, or that there is none.
Refresh == ~cancelled /\ Render(rollout)

\* Mutant: an error ends the loop.
RefreshFailsForGood ==
  /\ ~ended /\ ended' = TRUE
  /\ UNCHANGED <<rollout, screen, first, cancelled, shown>>

\* Get fails, always so after Ctrl-C: the frame says it, and the loop goes on.
RefreshFails == Render(Absent)

Interrupt ==
  /\ ~cancelled /\ cancelled' = TRUE
  /\ UNCHANGED <<rollout, screen, first, ended, shown>>

\* select sees the cancelled context; a tick that is due too may come first.
End ==
  /\ cancelled /\ ~first /\ ~ended
  /\ ended' = TRUE
  /\ UNCHANGED <<rollout, screen, first, cancelled, shown>>

Next == Changes \/ Refresh \/ RefreshFails \/ Interrupt \/ End

Spec == Init /\ [][Next]_vars

\* The ticker does not stop, and Get does not fail for ever.
FairSpec == Spec /\ WF_vars(Refresh)

-----------------------------------------------------------------------------
(* Properties. *)

\* A dashboard that is not cancelled comes up to date again and again, also
\* after a Get that failed and after the rollout was deleted and created anew:
\* its lines begin with the rows of the rollout.  (cmdWatch's loop.)
Fresh == []<>(cancelled \/ screen = Frame(rollout))

\* The verdict the analyser draws from a ratio.
Verdict(llr, plan) ==
  IF llr >= plan.upper THEN "rollback"
  ELSE IF llr <= plan.lower THEN "promote" ELSE "pending"

\* The bar tells what the analyser makes of the ratio: if the bounds are in
\* order and not edited since, a promotion stands at the promote edge and a
\* rollback at the rollback edge, at any distance beyond the bounds, and the
\* marker is on the side of the neutral point that the evidence is on.
\* (llrBar against the decision of RunSPRT.)
BarTellsVerdict ==
  shown # Absent =>
    LET plan == shown.spec.plan IN
    \A i \in DOMAIN plan.metrics :
      LET entry == shown.status.analysis[plan.metrics[i].name] IN
      entry # Absent /\ plan.lower < 0 /\ plan.upper > 0 =>
        LET marker == Marker(entry.llr, plan.lower, plan.upper)
            zero == Zero(plan.lower, plan.upper) IN
        /\ marker \in 0..Width - 1
        /\ Verdict(entry.llr, plan) = entry.decision =>
             /\ Badge(entry) = "promote" => marker = 0
             /\ Badge(entry) = "rollback" => marker = Width - 1
        /\ entry.llr <= 0 => marker <= zero
        /\ entry.llr >= 0 => marker >= zero

=============================================================================
