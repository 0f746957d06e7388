---------------------------- MODULE TrafficSplit ----------------------------
(***************************************************************************)
(* What the reconcile loop takes the VirtualService for: one register that *)
(* holds the shares of stable and canary.  A write sets both at once, to   *)
(* shares that add up to 100, and only where there is something to set.    *)
(* Whoever else configures the mesh puts in one of the splits of Others.   *)
(***************************************************************************)
EXTENDS Integers

CONSTANTS
  Targets,   \* the canary weights the controller writes
  Others,    \* the splits others may configure
  NoSplit    \* there is no VirtualService, or none with routes

VARIABLE split

Share(canary) == [stable |-> 100 - canary, canary |-> canary]

Init == split \in Others

Write(canary) ==
  /\ split # NoSplit
  /\ split' = Share(canary)

Configure == split' \in Others

Next == (\E canary \in Targets : Write(canary)) \/ Configure

Spec == Init /\ [][Next]_split
=============================================================================
