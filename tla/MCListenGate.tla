--------------------------- MODULE MCListenGate -----------------------------
(***************************************************************************)
(* Instances of ListenGate differ only in their constants.                 *)
(***************************************************************************)
EXTENDS ListenGate
=============================================================================
