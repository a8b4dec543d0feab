---------------------------- MODULE MCConfigTxn -----------------------------
(***************************************************************************)
(* Instances of ConfigTxn.  The config starts as A; the master sends Raw,  *)
(* which prepare turns into Cooked, and B, which is in its normal form.    *)
(***************************************************************************)
EXTENDS ConfigTxn, TLC

CONSTANTS op1, op2, A, B, Raw, Cooked

MCContents == {A, B, Raw, Cooked}
MCNorm == [x \in MCContents |-> IF x = Raw THEN Cooked ELSE x]
OnlyB == {B}
RawAndB == {Raw, B}

\* Faults and writes without the lock, but not in one behaviour.
OneKind == {{"fault"}, {"unlocked"}}

SameOps == Permutations({op1, op2})
=============================================================================
