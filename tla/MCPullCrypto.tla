---------------------------- MODULE MCPullCrypto ----------------------------
(***************************************************************************)
(* Instances of PullCrypto differ only in their constants.                 *)
(***************************************************************************)
EXTENDS PullCrypto
=============================================================================
