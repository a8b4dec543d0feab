----------------------------- MODULE ListenGate -----------------------------
(***************************************************************************)
(* The gate of the agent's inbound port (cmd/mmw-agent/main.go, listenGate) *)
(* and the goroutine of the WebSocket client that drives it                *)
(* (internal/agent/client.go, connectAndRun): while the WebSocket is up    *)
(* the port is closed, after a grace period; when it drops the port is     *)
(* opened again for the HTTP and pull fallback.                            *)
(*                                                                         *)
(* The methods of the gate run under mu.  Only onWSDisconnected keeps mu   *)
(* while it sleeps, between two calls of net.Listen, so that mu is held    *)
(* exactly while pc is "reopening".                                        *)
(*                                                                         *)
(* The timer of session n is timer n.  A timer that fired runs its         *)
(* callback in a goroutine of its own, which must wait for mu: timer.Stop  *)
(* does not take it back.  late records that a disconnect has overtaken    *)
(* such a callback.                                                        *)
(***************************************************************************)
EXTENDS Naturals

CONSTANTS
    MaxSessions,    \* bound on the connections the master accepts
    MaxTries,       \* calls of net.Listen in onWSDisconnected (5)
    CanFail         \* whether net.Listen may fail

ASSUME GateBoundsTyped == MaxSessions \in Nat /\ MaxTries \in Nat \ {0}
ASSUME ChoiceTyped == CanFail \in BOOLEAN

VARIABLES
    pc,         \* where the client goroutine is
    sessions,   \* number of connections so far
    clock,      \* clock[n]: the timer of session n
    timer,      \* g.timer: the session whose timer it is, 0 for nil
    ln,         \* g.ln # nil
    listening,  \* the port accepts connections
    tries,      \* failed calls of net.Listen in this onWSDisconnected
    main,       \* where the shutdown in main() is
    failed,     \* history: the last reopening failed
    late        \* history: onWSDisconnected has overtaken a callback

client == <<pc, sessions>>
gate == <<clock, timer, ln, listening>>
gateVars == <<client, gate, tries, main, failed, late>>

Sessions == 1 .. MaxSessions
stopped == main \in {"stopped", "shutdown"}
MuFree == pc # "reopening"

GateInit ==
    /\ pc = "down"
    /\ sessions = 0
    /\ clock = [n \in Sessions |-> "off"]
    /\ timer = 0
    /\ ln = TRUE
    /\ listening = TRUE
    /\ tries = 0
    /\ main = "running"
    /\ failed = FALSE
    /\ late = FALSE

(***************************************************************************)
(* connectAndRun: dial, authenticate, onWSConnected, message loop, and the *)
(* deferred onWSDisconnected of every connection that was dialled.         *)
(***************************************************************************)
Dial ==
    /\ pc = "down"
    /\ main = "running"
    /\ sessions < MaxSessions
    /\ pc' = "dialed"
    /\ sessions' = sessions + 1
    /\ UNCHANGED <<gate, tries, main, failed, late>>

Authenticate ==
    /\ pc = "dialed"
    /\ pc' \in {"authed", "lost"}
    /\ UNCHANGED <<sessions, gate, tries, main, failed, late>>

\* timer.Stop of the timer g.timer refers to.
Halted == [n \in Sessions |-> IF n = timer /\ clock[n] = "armed" THEN "off" ELSE clock[n]]

\* Mutant: only the first connection hides the port.
ConnectedOnce ==
    /\ pc = "authed"
    /\ pc' = "live"
    /\ IF stopped \/ sessions > 1
       THEN UNCHANGED <<clock, timer>>
       ELSE /\ clock' = [Halted EXCEPT ![sessions] = "armed"]
            /\ timer' = sessions
    /\ UNCHANGED <<sessions, ln, listening, tries, main, failed, late>>

\* onWSConnected
Connected ==
    /\ pc = "authed"
    /\ pc' = "live"
    /\ IF stopped
       THEN UNCHANGED <<clock, timer>>
       ELSE /\ clock' = [Halted EXCEPT ![sessions] = "armed"]
            /\ timer' = sessions
    /\ UNCHANGED <<sessions, ln, listening, tries, main, failed, late>>

Lose ==
    /\ pc = "live"
    /\ pc' = "lost"
    /\ UNCHANGED <<sessions, gate, tries, main, failed, late>>

Overtakes == late' = (late \/ \E n \in Sessions : clock[n] = "fired")

\* Mutants: the timer is left running; the check for the exit is missing.
DisconnectedUnhalted ==
    /\ pc = "lost"
    /\ pc' = IF stopped \/ ln THEN "down" ELSE "reopening"
    /\ Overtakes
    /\ UNCHANGED <<sessions, clock, timer, ln, listening, tries, main, failed>>

\* onWSDisconnected, as far as its first net.Listen
Disconnected ==
    /\ pc = "lost"
    /\ IF stopped
       THEN UNCHANGED <<clock, timer>>
       ELSE clock' = Halted /\ timer' = 0
    /\ pc' = IF stopped \/ ln THEN "down" ELSE "reopening"
    /\ Overtakes
    /\ UNCHANGED <<sessions, ln, listening, tries, main, failed>>

Reopen ==
    /\ pc = "reopening"
    /\ ln' = TRUE
    /\ listening' = TRUE
    /\ tries' = 0
    /\ failed' = FALSE
    /\ pc' = "down"
    /\ UNCHANGED <<sessions, clock, timer, main, late>>

ListenFails ==
    /\ CanFail
    /\ pc = "reopening"
    /\ IF tries + 1 < MaxTries
       THEN tries' = tries + 1 /\ UNCHANGED <<pc, failed>>
       ELSE tries' = 0 /\ failed' = TRUE /\ pc' = "down"
    /\ UNCHANGED <<sessions, gate, main, late>>

\* The context was cancelled.
Quit ==
    /\ pc = "down"
    /\ main # "running"
    /\ pc' = "gone"
    /\ UNCHANGED <<sessions, gate, tries, main, failed, late>>

(***************************************************************************)
(* The callback of a timer.                                                *)
(***************************************************************************)

Close(n) ==
    /\ MuFree
    /\ clock' = [clock EXCEPT ![n] = "off"]
    /\ timer' = 0
    /\ ln' = (ln /\ stopped)
    /\ listening' = (listening /\ (stopped \/ ~ln))

Fire(n) ==
    /\ clock[n] = "armed"
    /\ clock' = [clock EXCEPT ![n] = "fired"]
    /\ UNCHANGED <<client, timer, ln, listening, tries, main, failed, late>>

Callback(n) ==
    /\ clock[n] = "fired"
    /\ Close(n)
    /\ UNCHANGED <<client, tries, main, failed, late>>

(***************************************************************************)
(* main(): cancel, gate.stop, and server.Shutdown, which closes the        *)
(* listener.                                                               *)
(***************************************************************************)
Cancel ==
    /\ main = "running"
    /\ main' = "cancelled"
    /\ UNCHANGED <<client, gate, tries, failed, late>>

StopGate ==
    /\ main = "cancelled"
    /\ MuFree
    /\ main' = "stopped"
    /\ clock' = Halted
    /\ timer' = 0
    /\ UNCHANGED <<client, ln, listening, tries, failed, late>>

Shutdown ==
    /\ main = "stopped"
    /\ main' = "shutdown"
    /\ listening' = FALSE
    /\ UNCHANGED <<client, clock, timer, ln, tries, failed, late>>

GateStep == Connected \/ Disconnected \/ Reopen \/ ListenFails

GateNext ==
    \/ Dial \/ Authenticate \/ Lose \/ Quit
    \/ GateStep
    \/ \E n \in Sessions : Fire(n) \/ Callback(n)
    \/ Cancel \/ StopGate \/ Shutdown

GateSpec == GateInit /\ [][GateNext]_gateVars

\* Goroutines run on and timers fire; nothing makes the master accept or
\* keep a connection, or the process end.
GateFairness ==
    /\ WF_gateVars(GateStep)
    /\ \A n \in Sessions : WF_gateVars(Fire(n)) /\ WF_gateVars(Callback(n))

GateFairSpec == GateSpec /\ GateFairness

-----------------------------------------------------------------------------
(***************************************************************************)
(* Properties                                                              *)
(***************************************************************************)

GateTypeOK ==
    /\ pc \in {"down", "dialed", "authed", "live", "lost", "reopening", "gone"}
    /\ sessions \in 0 .. MaxSessions
    /\ clock \in [Sessions -> {"off", "armed", "fired"}]
    /\ timer \in 0 .. MaxSessions
    /\ ln \in BOOLEAN
    /\ listening \in BOOLEAN
    /\ tries \in 0 .. MaxTries - 1
    /\ main \in {"running", "cancelled", "stopped", "shutdown"}
    /\ failed \in BOOLEAN
    /\ late \in BOOLEAN

\* g.ln is the open listener: none is open that the gate does not know of, and
\* the gate never takes a closed one for open, which would keep onWSDisconnected
\* from opening the port again.
SocketOwned ==
    /\ listening => ln
    /\ ln /\ main # "shutdown" => listening

\* main.go: stop keeps the port from being opened again during the exit, even
\* by an onWSDisconnected that is running.
NoReopenAfterStop ==
    [][stopped /\ ~listening => ~listening']_gateVars

\* main.go, onWSDisconnected: when the WebSocket is down the port is open at
\* once, so that the HTTP and pull fallback reaches the agent, unless
\* net.Listen failed every time.
DownIsReachable ==
    pc \in {"down", "dialed", "authed"} /\ ~stopped /\ ~failed => listening

\* A callback that waited for mu during a disconnect is the only way to lose it.
ReachableUnlessLate == ~late => DownIsReachable

\* main.go, onWSConnected: a connection that stays up hides the port.
LiveIsHidden == pc = "live" ~> ~listening \/ pc # "live" \/ stopped
=============================================================================
