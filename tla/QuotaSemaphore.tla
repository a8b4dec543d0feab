--------------------------- MODULE QuotaSemaphore ---------------------------
(***************************************************************************)
(* What the connection limiter of internal/limiter promises, without its   *)
(* counters: a connection asks for a slot of its quota group with the      *)
(* limit its user had when it was looked up, and is admitted only while    *)
(* fewer connections than that hold a slot of the group.  Limit 0 admits   *)
(* always.  A connection may be refused at any time: the promise is about  *)
(* who is let in.  A slot is given back once, by the connection that has   *)
(* it.                                                                     *)
(***************************************************************************)
EXTENDS Naturals, FiniteSets

CONSTANTS
    Conns,      \* connections
    Groups,     \* quota groups
    Limits,     \* connection limits a user can have; 0 is unlimited
    None        \* no request, no slot

VARIABLES
    ask,        \* ask[c]: the group and the limit c was looked up with, or None
    held        \* held[c]: the group c holds a slot of, or None

svars == <<ask, held>>

Requests == [group : Groups, limit : Limits]

HeldBy(g) == {c \in Conns : held[c] = g}

SInit ==
    /\ ask = [c \in Conns |-> None]
    /\ held = [c \in Conns |-> None]

Request(c) ==
    /\ ask[c] = None
    /\ \E r \in Requests : ask' = [ask EXCEPT ![c] = r]
    /\ UNCHANGED held

Admit(c) ==
    /\ ask[c] # None
    /\ held[c] = None
    /\ ask[c].limit > 0 => Cardinality(HeldBy(ask[c].group)) < ask[c].limit
    /\ held' = [held EXCEPT ![c] = ask[c].group]
    /\ UNCHANGED ask

Leave(c) ==
    /\ held[c] # None
    /\ ask' = [ask EXCEPT ![c] = None]
    /\ held' = [held EXCEPT ![c] = None]

SNext == \E c \in Conns : Request(c) \/ Admit(c) \/ Leave(c)

SemaphoreSpec == SInit /\ [][SNext]_svars
=============================================================================
