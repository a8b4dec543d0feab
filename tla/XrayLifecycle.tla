---------------------------- MODULE XrayLifecycle ----------------------------
(***************************************************************************)
(* The embedded Xray and the port 443 it takes from nginx: start, stop and *)
(* restart, asked for by the pushes of the master (which follow the        *)
(* licence quota), by the service handler and by every handler that edits  *)
(* the config.  A restart holds embeddedMu; a stop holds nothing.  In      *)
(* tunnel mode Xray listens on 443, and nginx does so while Xray is        *)
(* stopped, by the fallback file.                                          *)
(*                                                                         *)
(* Instances of Xray listen with SO_REUSEPORT and do not exclude each      *)
(* other; nginx and Xray do.  The instances die with the agent, nginx and  *)
(* the fallback file outlive it.  The config keeps its inbounds.           *)
(***************************************************************************)
EXTENDS Naturals, FiniteSets

CONSTANTS
  Admins,      \* requests that may be in progress at once
  Tunnels,     \* whether the config may have an inbound on 443
  MaxOrders,   \* bound: orders
  MaxCrashes,  \* bound: deaths of the agent
  MaxTries,    \* attempts of Restart (3 in the code)
  CanFail      \* whether Xray may fail to start

\* The goroutine of the messages of the master, and that of main at the start.
Procs == Admins \cup {"push", "main"}
None == "none"

ASSUME LifecycleAssumption ==
  /\ Admins \cap {"push", "main", None} = {} /\ Tunnels \subseteq BOOLEAN
  /\ MaxOrders \in Nat /\ MaxCrashes \in Nat /\ MaxTries \in Nat \ {0} /\ CanFail \in BOOLEAN

Orders == {"start", "stop", "restart"}
\* What may happen that spoils the order of things.
Harms == {"clash", "undone", "failed", "died", "linger"}

VARIABLES
  running,    \* the agent: "down", "boot", "up"
  auth,       \* xray_authorized, in memory and in config.yaml
  tunnel,     \* the config has an inbound on 443
  handle,     \* h.embeddedXray is set
  published,  \* its instance is set
  live,       \* instances that run
  lock,       \* embeddedMu
  pc, op,     \* where each goroutine is, in which order
  stopped,    \* it has stopped nginx
  tries,      \* starts of Xray that failed
  nginx,      \* "down", "up", "serving" (443 too), "quitting"
  reload,     \* nginx has been told to read its config
  fallback,   \* the file that makes nginx serve 443
  wanted,     \* history: the order given last
  harm,       \* history: what has happened
  orders, crashes

proc == <<pc, op, stopped, tries>>
xray == <<handle, published, live>>
web == <<nginx, reload, fallback>>
count == <<orders, crashes>>
vars == <<running, auth, tunnel, xray, lock, proc, web, wanted, harm, count>>

TypeOK ==
  /\ running \in {"down", "boot", "up"} /\ auth \in BOOLEAN /\ tunnel \in Tunnels
  /\ handle \in BOOLEAN /\ published \in BOOLEAN /\ live \in Nat
  /\ lock \in Procs \cup {None}
  /\ pc \in [Procs -> {"idle", "lock", "clear", "close", "bind", "publish", "handle",
                       "release", "deploy", "remove", "signal", "stop"}]
  /\ op \in [Procs -> Orders]
  /\ stopped \in [Procs -> BOOLEAN] /\ tries \in [Procs -> 0 .. MaxTries]
  /\ nginx \in {"down", "up", "serving", "quitting"}
  /\ reload \in BOOLEAN /\ fallback \in BOOLEAN
  /\ wanted \in BOOLEAN /\ harm \subseteq Harms
  /\ orders \in 0 .. MaxOrders /\ crashes \in 0 .. MaxCrashes

Quiet == running = "up" /\ ~reload /\ \A p \in Procs : pc[p] = "idle"
NeedsPort443 == tunnel
Holds443 == NeedsPort443 /\ live > 0

-----------------------------------------------------------------------------
\* A machine where the agent was installed and the config was completed.
Init ==
  /\ running = "down" /\ auth = TRUE /\ tunnel \in Tunnels
  /\ handle = FALSE /\ published = FALSE /\ live = 0 /\ lock = None
  /\ pc = [p \in Procs |-> "idle"] /\ op = [p \in Procs |-> "start"]
  /\ stopped = [p \in Procs |-> FALSE] /\ tries = [p \in Procs |-> 0]
  /\ nginx = "up" /\ reload = FALSE /\ fallback = FALSE
  /\ wanted = TRUE /\ harm = {} /\ orders = 0 /\ crashes = 0

\* Where an order begins: the tunnel mode changes nginx first.
First(o) ==
  CASE o = "restart" -> "lock"
    [] o = "start" -> IF NeedsPort443 THEN "remove" ELSE "lock"
    [] o = "stop" -> IF NeedsPort443 THEN "deploy" ELSE "stop"

\* A stop that overlaps anything else is noted, and a restart that finds the
\* fallback of a stop in place.
Begin(p, o) ==
  /\ running = "up" /\ orders < MaxOrders /\ orders' = orders + 1
  /\ pc[p] = "idle"
  /\ pc' = [pc EXCEPT ![p] = First(o)] /\ op' = [op EXCEPT ![p] = o]
  /\ tries' = [tries EXCEPT ![p] = 0]
  /\ wanted' = (o # "stop")
  /\ harm' = harm \cup
       (IF \E q \in Procs : pc[q] # "idle" /\ "stop" \in {o, op[q]} THEN {"clash"} ELSE {}) \cup
       (IF o = "restart" /\ fallback THEN {"undone"} ELSE {})

-----------------------------------------------------------------------------
(***************************************************************************)
(* Orders.                                                                 *)
(***************************************************************************)
\* handleConfigUpdate: nothing when the authorization has not changed.  It is
\* written down before Xray is started or stopped.
Push ==
  /\ Begin("push", IF auth THEN "stop" ELSE "start")
  /\ auth' = ~auth
  /\ UNCHANGED <<running, tunnel, xray, lock, stopped, web, crashes>>

\* HandleServiceControl and the handlers that end with a restart.  The stop is
\* done half a second after the answer, by the goroutine modelled here as the
\* rest of the request.
Ask(p, o) ==
  /\ p \in Admins /\ Begin(p, o)
  /\ UNCHANGED <<running, auth, tunnel, xray, lock, stopped, web, crashes>>

(***************************************************************************)
(* nginx, around a start and a stop.                                       *)
(***************************************************************************)
Goto(p, l) == pc' = [pc EXCEPT ![p] = l]

DeployWithoutFile(p) ==
  /\ pc[p] = "deploy" /\ Goto(p, "signal")
  /\ UNCHANGED <<running, auth, tunnel, xray, lock, op, stopped, tries, web, wanted, harm, count>>

Deploy(p) ==
  /\ pc[p] = "deploy" /\ fallback' = TRUE /\ Goto(p, "signal")
  /\ UNCHANGED <<running, auth, tunnel, xray, lock, op, stopped, tries, nginx, reload, wanted,
                 harm, count>>

Remove(p) ==
  /\ pc[p] = "remove" /\ fallback' = FALSE /\ Goto(p, "signal")
  /\ UNCHANGED <<running, auth, tunnel, xray, lock, op, stopped, tries, nginx, reload, wanted,
                 harm, count>>

\* reloadNginx only sends the signal.
Signal(p) ==
  /\ pc[p] = "signal"
  /\ reload' = (reload \/ nginx \in {"up", "serving"})
  /\ Goto(p, IF op[p] = "stop" THEN "stop"
             ELSE IF tries[p] > 0 THEN "idle" ELSE "lock")
  /\ UNCHANGED <<running, auth, tunnel, xray, lock, op, stopped, tries, nginx, fallback, wanted,
                 harm, count>>

(***************************************************************************)
(* StopXray.  It takes the instance that is set, under the lock of the     *)
(* fields only.                                                            *)
(***************************************************************************)

Stop(p) ==
  /\ pc[p] = "stop"
  /\ IF handle /\ published THEN published' = FALSE /\ live' = live - 1
     ELSE UNCHANGED <<published, live>>
  /\ Goto(p, "idle")
  /\ running' = IF p = "main" THEN "up" ELSE running
  /\ UNCHANGED <<auth, tunnel, handle, lock, op, stopped, tries, web, wanted, harm, count>>

(***************************************************************************)
(* RestartXray: restartEmbeddedXray, or lazyStartEmbeddedXray when there   *)
(* is no EmbeddedXray yet.                                                 *)
(***************************************************************************)
LockUnguarded(p) ==
  /\ pc[p] = "lock" /\ lock' = p /\ Goto(p, "clear")
  /\ UNCHANGED <<running, auth, tunnel, xray, op, stopped, tries, web, wanted, harm, count>>

Lock(p) ==
  /\ pc[p] = "lock" /\ lock = None /\ lock' = p /\ Goto(p, "clear")
  /\ UNCHANGED <<running, auth, tunnel, xray, op, stopped, tries, web, wanted, harm, count>>

NginxActive == nginx # "down"

\* nginx -s quit closes the ports and waits for the connections.
NginxStop == nginx' = "quitting" /\ reload' = FALSE

\* Nothing happens when an nginx is there, be it one that quits; the start
\* fails when its config wants a port Xray has.
NginxStart ==
  IF NginxActive \/ (fallback /\ Holds443) THEN UNCHANGED nginx
  ELSE nginx' = IF fallback THEN "serving" ELSE "up"

\* nginx makes room for Xray.
Clear(p) ==
  /\ pc[p] = "clear"
  /\ IF NginxActive /\ (NeedsPort443 \/ ~handle)
     THEN NginxStop /\ stopped' = [stopped EXCEPT ![p] = TRUE]
     ELSE UNCHANGED <<nginx, reload, stopped>>
  /\ Goto(p, IF handle THEN "close" ELSE "bind")
  /\ UNCHANGED <<running, auth, tunnel, xray, lock, op, tries, fallback, wanted, harm, count>>

\* The Stop in Restart.
Close(p) ==
  /\ pc[p] = "close" /\ Goto(p, "bind")
  /\ published' = FALSE /\ live' = IF published THEN live - 1 ELSE live
  /\ UNCHANGED <<running, auth, tunnel, handle, lock, op, stopped, tries, web, wanted, harm,
                 count>>

\* core.New and its Start, which fail when nginx has the port.
Taken == NeedsPort443 /\ nginx = "serving"

Bind(p) ==
  /\ pc[p] = "bind" /\ ~Taken
  /\ live' = live + 1 /\ tries' = [tries EXCEPT ![p] = 0] /\ Goto(p, "publish")
  /\ UNCHANGED <<running, auth, tunnel, handle, published, lock, op, stopped, web, wanted, harm,
                 count>>

\* Restart tries again, the first start does not.
BindFails(p) ==
  /\ pc[p] = "bind" /\ (CanFail \/ Taken)
  /\ tries' = [tries EXCEPT ![p] = tries[p] + 1]
  /\ IF handle /\ tries[p] + 1 < MaxTries THEN UNCHANGED <<pc, harm>>
     ELSE Goto(p, "release") /\ harm' = harm \cup {"failed"}
  /\ UNCHANGED <<running, auth, tunnel, xray, lock, op, stopped, web, wanted, count>>

\* Start sets the fields.
Publish(p) ==
  /\ pc[p] = "publish" /\ published' = TRUE
  /\ Goto(p, IF handle THEN "release" ELSE "handle")
  /\ UNCHANGED <<running, auth, tunnel, handle, live, lock, op, stopped, tries, web, wanted, harm,
                 count>>

\* The first start sets h.embeddedXray.
Handle(p) ==
  /\ pc[p] = "handle" /\ handle' = TRUE /\ Goto(p, "release")
  /\ UNCHANGED <<running, auth, tunnel, published, live, lock, op, stopped, tries, web, wanted,
                 harm, count>>

\* nginx is started if it was stopped, and the lock given back.
ReleaseOnSuccess(p) ==
  /\ pc[p] = "release"
  /\ IF stopped[p] THEN NginxStart ELSE UNCHANGED nginx
  /\ stopped' = [stopped EXCEPT ![p] = FALSE]
  /\ lock' = IF lock = p /\ tries[p] = 0 THEN None ELSE lock
  /\ Goto(p, IF tries[p] > 0 /\ op[p] = "start" /\ NeedsPort443 /\ p # "main" THEN "deploy" ELSE "idle")
  /\ running' = IF p = "main" THEN "up" ELSE running
  /\ harm' = harm \cup (IF stopped[p] /\ nginx = "quitting" THEN {"linger"} ELSE {})
  /\ UNCHANGED <<auth, tunnel, xray, op, tries, reload, fallback, wanted, count>>

Release(p) ==
  /\ pc[p] = "release"
  /\ IF stopped[p] THEN NginxStart ELSE UNCHANGED nginx
  /\ stopped' = [stopped EXCEPT ![p] = FALSE]
  /\ lock' = IF lock = p THEN None ELSE lock
  /\ Goto(p, IF tries[p] > 0 /\ op[p] = "start" /\ NeedsPort443 /\ p # "main" THEN "deploy" ELSE "idle")
  /\ running' = IF p = "main" THEN "up" ELSE running
  /\ harm' = harm \cup (IF stopped[p] /\ nginx = "quitting" THEN {"linger"} ELSE {})
  /\ UNCHANGED <<auth, tunnel, xray, op, tries, reload, fallback, wanted, count>>

(***************************************************************************)
(* nginx itself.                                                           *)
(***************************************************************************)
\* It reads its config; it retries for a while when the port is taken, which
\* outlasts the half second until a stop.
Reloaded ==
  /\ reload /\ reload' = FALSE
  /\ IF fallback /\ Holds443
     THEN (\A p \in Procs : pc[p] # "stop") /\ UNCHANGED nginx
     ELSE nginx' = IF fallback THEN "serving" ELSE "up"
  /\ UNCHANGED <<running, auth, tunnel, xray, lock, proc, fallback, wanted, harm, count>>

\* Its last connection has ended.
Quit ==
  /\ nginx = "quitting" /\ nginx' = "down"
  /\ UNCHANGED <<running, auth, tunnel, xray, lock, proc, reload, fallback, wanted, harm, count>>

(***************************************************************************)
(* The agent.                                                              *)
(***************************************************************************)
Die ==
  /\ running # "down" /\ crashes < MaxCrashes /\ crashes' = crashes + 1
  /\ running' = "down" /\ handle' = FALSE /\ published' = FALSE /\ live' = 0 /\ lock' = None
  /\ pc' = [p \in Procs |-> "idle"] /\ stopped' = [p \in Procs |-> FALSE]
  /\ tries' = [p \in Procs |-> 0]
  /\ harm' = harm \cup (IF \E p \in Procs : pc[p] # "idle" THEN {"died"} ELSE {})
  /\ UNCHANGED <<auth, tunnel, op, web, wanted, orders>>

BootRegardless ==
  /\ running = "down" /\ running' = "boot"
  /\ wanted' = auth /\ harm' = harm \cup (IF auth /\ fallback THEN {"undone"} ELSE {})
  /\ op' = [op EXCEPT !["main"] = "start"]
  /\ Goto("main", "bind")
  /\ UNCHANGED <<auth, tunnel, xray, lock, stopped, tries, web, count>>

\* main: an Xray that is authorized is started, without regard to nginx;
\* otherwise StopXray puts nginx in its place.
Boot ==
  /\ running = "down" /\ running' = "boot"
  /\ wanted' = auth /\ harm' = harm \cup (IF auth /\ fallback THEN {"undone"} ELSE {})
  /\ op' = [op EXCEPT !["main"] = IF auth THEN "start" ELSE "stop"]
  /\ Goto("main", IF auth THEN "bind" ELSE First("stop"))
  /\ UNCHANGED <<auth, tunnel, xray, lock, stopped, tries, web, count>>

-----------------------------------------------------------------------------
Step(p) ==
  \/ Deploy(p) \/ Remove(p) \/ Signal(p) \/ Stop(p)
  \/ Lock(p) \/ Clear(p) \/ Close(p) \/ Bind(p) \/ BindFails(p) \/ Publish(p) \/ Handle(p)
  \/ Release(p)

Next ==
  \/ Push \/ Boot \/ Die \/ Reloaded \/ Quit
  \/ \E p \in Admins, o \in Orders : Ask(p, o)
  \/ \E p \in Procs : Step(p)

\* Goroutines go on (orders are few, so one that waits for the mutex gets it),
\* systemd starts the agent, nginx obeys its signals.
Fairness ==
  /\ \A p \in Procs : WF_vars(Step(p))
  /\ WF_vars(Boot) /\ WF_vars(Reloaded) /\ WF_vars(Quit)

Spec == Init /\ [][Next]_vars /\ Fairness

-----------------------------------------------------------------------------
\* Never two Xrays, and none that Stop could not reach once its start is over:
\* the restarts of all handlers, the start at boot and the stops that hold no
\* lock do not lose an instance.
OneXray ==
  live = IF published \/ \E p \in Procs : pc[p] = "publish" THEN 1 ELSE 0

\* When everything has come to rest, Xray runs if the last order was to run and
\* is stopped if it was a stop, unless a start failed, a stop overlapped
\* another order or the agent died in the middle of one.
LastOrderDecides ==
  Quiet /\ harm \cap {"clash", "failed", "died"} = {} => (live > 0 <=> wanted)

\* In tunnel mode someone serves 443 then, and nginx runs behind it: who makes
\* room for the other comes back.  Excepted are also a restart of what was
\* stopped and an nginx whose connections kept it from quitting in time.
PortServed ==
  Quiet /\ tunnel /\ harm = {} => nginx \in {"up", "serving"} /\ (live > 0 <=> nginx # "serving")

\* Every order is carried out and everything comes to rest: embeddedMu is given
\* back after failures too.
OrdersEnd == (\E p \in Procs : pc[p] # "idle") ~> Quiet
=============================================================================
