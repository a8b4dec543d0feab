--------------------------- MODULE MCAgentSettings ---------------------------
(***************************************************************************)
(* AgentSettings with a bounded number of changes, in an environment that  *)
(* sets nothing and in one that sets what a container is usually given.    *)
(***************************************************************************)
EXTENDS AgentSettings

Bare == [Installed EXCEPT !.token = Absent, !.url = Absent, !.mode = Absent, !.whole = "yes"]
Container == [Bare EXCEPT !.token = "old", !.url = "home", !.mode = "embedded"]
Both == {Bare, Container}
=============================================================================
