----------------------------- MODULE MCDemoApp -----------------------------
(***************************************************************************)
(* DemoApp for TLC.  The injector has a rate of 0 at the start, a spike of *)
(* 100 at time 1 and ramps up to 50 at time 2, so every guard of a create  *)
(* sees a rate that never, always and sometimes fails it.                  *)
(***************************************************************************)
EXTENDS DemoApp

CONSTANTS r1, r2, o1

SpikeAndRamp ==
  [rateStart |-> 0, rateEnd |-> 50, ramp |-> 2,
   spikeAt |-> 1, spikeDuration |-> 1, spikeRate |-> 100]
=============================================================================
