---------------------------- MODULE MCMasterLink ----------------------------
(***************************************************************************)
(* MasterLink with an HTTPS master, the plain-HTTP address to fall back    *)
(* to, and five conditions of the network.                                 *)
(***************************************************************************)
EXTENDS MasterLink

CONSTANTS home, spare

Answering(first, second) == [u \in Urls |-> IF u = Home THEN first ELSE second]
FiveConditions ==
  {Answering("full", "full"), Answering("down", "full"), Answering("http", "down"),
   Answering("deny", "down"), Answering("down", "down")}
=============================================================================
