-------------------------- MODULE MCTrafficReport --------------------------
(***************************************************************************)
(* Instances of TrafficReport: Xray is started twice, the user moves three *)
(* bytes, two connections or requests fail, the master asks once, and      *)
(* there are two ping rounds.                                              *)
(***************************************************************************)
EXTENDS TrafficReport
=============================================================================
