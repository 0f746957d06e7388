---------------------------- MODULE MCSPRTGauges ----------------------------
(* The instances of MCSPRT, with the exported series. *)
EXTENDS MCSPRT, SPRTGauges
=============================================================================
