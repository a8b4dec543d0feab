---------------------------- MODULE MCReverseRpc ----------------------------
(***************************************************************************)
(* ReverseRpc with two calls, each of any kind, and two connections.       *)
(***************************************************************************)
EXTENDS ReverseRpc
=============================================================================
