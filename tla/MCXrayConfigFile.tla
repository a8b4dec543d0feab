-------------------------- MODULE MCXrayConfigFile --------------------------
(***************************************************************************)
(* One inbound with a rule for it, one client, one more outbound, and a   *)
(* rule with which Xray does not start.                                    *)
(***************************************************************************)
EXTENDS XrayConfigFile, TLC

CONSTANTS h1, h2, t1, c1, o1, m1, bad, u1

MCInitial ==
    [clients |-> [t \in {t1} |-> {}], outs |-> {},
     rules |-> {[mark |-> m1, users |-> {}, tags |-> {t1}]}]

MCBroken ==
    [MCInitial EXCEPT !.rules = @ \cup {[mark |-> bad, users |-> {u1}, tags |-> {t1}]}]

\* An outbound, and the rule with which Xray does not start
MCFragments ==
    [clients |-> [t \in {t1} |-> None], outs |-> {o1}, rules |-> MCBroken.rules]

\* The fields a request does not use have these values.
MCRequest(op) ==
    [op |-> op, tag |-> t1, client |-> c1, out |-> o1, mark |-> m1, user |-> u1,
     whole |-> IF op = "takeover" THEN MCFragments ELSE MCBroken, restart |-> TRUE]

MCRequests ==
    {MCRequest(op) : op \in LockedOps \cup UnlockedOps}
        \cup {[MCRequest("add_rule") EXCEPT !.mark = bad],
              [MCRequest("batch") EXCEPT !.restart = FALSE],
              [MCRequest("add_user") EXCEPT !.restart = FALSE]}

\* Requests that overlap
MCRaces ==
    {MCRequest(op) : op \in {"remove", "add-client", "batch", "set", "add-out"}}

SameHandlers == Permutations({h1, h2})
=============================================================================
