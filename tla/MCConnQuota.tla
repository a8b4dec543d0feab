---------------------------- MODULE MCConnQuota -----------------------------
(***************************************************************************)
(* Instances of ConnQuota: two connections of one or two users at one      *)
(* inbound.                                                                *)
(***************************************************************************)
EXTENDS ConnQuota

CONSTANTS c1, c2, t1, alice, bob, gA, gB

User(g, s, l) == [group |-> g, stat |-> s, limit |-> l]

Users(a, b) == [e \in {alice, bob} |-> IF e = alice THEN a ELSE b]

\* alice and bob are accounts of one person: they share group gA, of which
\* alice may have one connection and bob two; a push may give alice bob's
\* limit and remove bob, or remove both.
SharedRecords == {User(gA, gA, 1), User(gA, gB, 2)}
SharedPushes == {Users(User(gA, gA, 1), User(gA, gB, 2)),
                 Users(User(gA, gB, 2), None),
                 Users(None, None)}

\* A push over HTTP keeps alice and drops bob, or drops both.
HttpOnly == {Users(User(gA, gA, 1), None), Users(None, None)}
NoPushes == {}

OneInbound == [c \in Conns |-> t1]
AllAlice == [c \in Conns |-> alice]
AliceAndBob == [c \in Conns |-> IF c = c2 THEN bob ELSE alice]
=============================================================================
