--------------------------- MODULE MCXrayLifecycle ---------------------------
(***************************************************************************)
(* XrayLifecycle with two requests besides the pushes of the master.       *)
(***************************************************************************)
EXTENDS XrayLifecycle
=============================================================================
