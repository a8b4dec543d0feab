---------------------------- MODULE MCSpeedLimit ----------------------------
(***************************************************************************)
(* Two inbounds and a connection to the first of them.  A push sets no     *)
(* limit, or one of each kind.                                             *)
(***************************************************************************)
EXTENDS SpeedLimit

CONSTANTS c1, t1, t2

MCTagOf == [c \in Connections |-> t1]
MCPushes == {[node |-> 0, user |-> 0], [node |-> 2, user |-> 1]}
=============================================================================
