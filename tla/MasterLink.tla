----------------------------- MODULE MasterLink -----------------------------
(***************************************************************************)
(* The agent's connection to its master (internal/agent/client.go): the    *)
(* main goroutine with its WebSocket loop, the automatic fallback to HTTP  *)
(* and pull, the waits between attempts and the signal that cuts them; the *)
(* goroutine that falls back to a plain-HTTP master address; the handler   *)
(* that gives the agent a new address; the end of the process.             *)
(*                                                                         *)
(* Lengths of waits are not modelled, hence neither are the counters that  *)
(* only set them (reconnects, authFailures, autoRetries): a wait may end   *)
(* at any time.  Writes of the address and of the signal by one function   *)
(* are one step where nothing the others do in between can be told apart.  *)
(***************************************************************************)
EXTENDS Naturals, FiniteSets

CONSTANTS
  Urls,           \* addresses of masters
  Https,          \* those with the scheme https
  Home,           \* the address in config.yaml at the start
  Spare,          \* recovery_url, a plain-HTTP address
  Modes,          \* the connection modes to start in
  Conditions,     \* what the masters may do: functions from Urls to Answers
  MaxFailures,    \* WebSocketMaxConsecutiveFailures
  MaxErrors,      \* maxErrors of the HTTP reporter
  MaxUpdates,     \* bound: new addresses the administrator gives
  None

\* A master takes agents over both protocols, over HTTP only, refuses the
\* agent's token, or cannot be reached.
Answers == {"full", "http", "deny", "down"}

ASSUME UrlAssumption ==
  /\ Https \subseteq Urls /\ Home \in Urls /\ Spare \in Urls \ Https
  /\ None \notin Urls
  /\ Conditions \subseteq [Urls -> Answers] /\ Conditions # {}
  /\ Modes \subseteq {"websocket", "auto", "http"}
ASSUME BoundAssumption ==
  MaxFailures \in Nat \ {0} /\ MaxErrors \in Nat \ {0} /\ MaxUpdates \in Nat

VARIABLES
  loop,       \* the loop the main goroutine runs: a mode
  pc,         \* where it is
  dialed,     \* the address of its connection, or of the one it dials
  conn,       \* the published connection: wsConn
  denied,     \* whether the connection ended with an AuthError
  failures,   \* consecutiveFailures of the WebSocket loop
  errors,     \* consecutiveErrors of the HTTP reporter
  signal,     \* reconnectSignal, a channel of capacity 1
  url,        \* c.config.MasterURL
  disk,       \* master_url in config.yaml
  pending,    \* addresses written to disk and not applied yet
  updates,    \* updates so far
  rec,        \* where the recovery goroutine is
  target,     \* the address it switches to
  activated,  \* recoveryActivated
  silent,     \* lastMasterContact is five minutes old
  cond,       \* what the masters do now
  stopped,    \* the context is cancelled and stopCh is closed
  owed        \* history: a reconnection was asked for since url was read

main == <<loop, pc, dialed, conn, denied, failures, errors>>
recovery == <<rec, target, activated>>
admin == <<pending, updates>>
linkVars == <<main, signal, url, disk, admin, recovery, silent, cond, stopped, owed>>

MainTyped ==
  /\ loop \in {"websocket", "auto", "http"}
  /\ pc \in {"top", "connect", "dial", "auth", "run", "close", "wait", "pull",
             "report", "done"}
  /\ dialed \in Urls \cup {None} /\ conn \in {"none", "open", "closed"}
  /\ denied \in BOOLEAN
  /\ failures \in 0 .. MaxFailures - 1 /\ errors \in 0 .. MaxErrors - 1

AddressTyped ==
  /\ signal \in BOOLEAN /\ url \in Urls /\ disk \in Urls
  /\ pending \subseteq Urls /\ updates \in 0 .. MaxUpdates
  /\ cond \in Conditions /\ stopped \in BOOLEAN /\ owed \in BOOLEAN

RecoveryTyped ==
  /\ rec \in {"idle", "probe", "persist", "switch"} /\ target \in Urls \cup {None}
  /\ rec \in {"persist", "switch"} => target \in Urls
  /\ activated \in BOOLEAN /\ silent \in BOOLEAN

LinkTypeOK == MainTyped /\ AddressTyped /\ RecoveryTyped

-----------------------------------------------------------------------------
LinkInit ==
  /\ loop \in Modes
  /\ pc = IF loop = "http" THEN "report" ELSE "top"
  /\ dialed = None /\ conn = "none" /\ denied = FALSE /\ failures = 0 /\ errors = 0
  /\ signal = FALSE /\ url = Home /\ disk = Home
  /\ pending = {} /\ updates = 0
  /\ rec = "idle" /\ target = None /\ activated = FALSE
  /\ silent = FALSE /\ cond \in Conditions /\ stopped = FALSE /\ owed = FALSE

Dials(u) == cond[u] \in {"full", "deny"}
Reports(u) == cond[u] \in {"full", "http"}

(***************************************************************************)
(* The main goroutine.                                                     *)
(***************************************************************************)
\* The head of the WebSocket loop; connectAndRun reads the address next.
WebSocketTop ==
  /\ pc = "top" /\ loop = "websocket"
  /\ pc' = IF stopped THEN "done" ELSE "connect"
  /\ UNCHANGED <<loop, dialed, conn, denied, failures, errors, signal, url, disk,
                 admin, recovery, silent, cond, stopped, owed>>

\* The head of the automatic loop: tryWebSocketOnce, tryHTTPOnce, or a wait in
\* pull mode.  There is no wait before a new attempt.
AutoTop ==
  /\ pc = "top" /\ loop = "auto"
  /\ \/ stopped /\ pc' = "done" /\ UNCHANGED <<errors, silent, owed>>
     \/ /\ ~stopped /\ Dials(url)
        /\ pc' = "connect" /\ UNCHANGED <<errors, silent, owed>>
     \/ /\ ~stopped /\ cond[url] = "http"
        /\ pc' = "report" /\ errors' = 0 /\ silent' = FALSE /\ owed' = FALSE
     \/ /\ ~stopped /\ cond[url] = "down"
        /\ pc' = "pull" /\ owed' = FALSE /\ UNCHANGED <<errors, silent>>
  /\ UNCHANGED <<loop, dialed, conn, denied, failures, signal, url, disk, admin,
                 recovery, cond, stopped>>

Connect ==
  /\ pc = "connect"
  /\ pc' = "dial" /\ dialed' = url /\ owed' = FALSE
  /\ UNCHANGED <<loop, conn, denied, failures, errors, signal, url, disk, admin,
                 recovery, silent, cond, stopped>>

\* The connection is published only now.  A cancelled context ends a dial,
\* unless it has just succeeded.
DialDone ==
  /\ pc = "dial" /\ Dials(dialed)
  /\ pc' = "auth" /\ conn' = "open" /\ denied' = FALSE
  /\ UNCHANGED <<loop, dialed, failures, errors, signal, url, disk, admin, recovery,
                 silent, cond, stopped, owed>>

\* What the loops do when connectAndRun has returned an error.  Only stopCh
\* makes it return nil: a connection that worked does not reset failures.
Return(auth) ==
  LET count == IF auth THEN failures ELSE failures + 1 IN
  /\ dialed' = None /\ conn' = "none" /\ denied' = FALSE
  /\ IF stopped THEN pc' = "done" /\ UNCHANGED <<loop, failures>>
     ELSE IF loop = "auto" THEN pc' = "top" /\ UNCHANGED <<loop, failures>>
     ELSE IF count = MaxFailures THEN pc' = "top" /\ loop' = "auto" /\ failures' = 0
     ELSE pc' = "wait" /\ failures' = count /\ UNCHANGED loop
  /\ UNCHANGED <<errors, signal, url, disk, admin, recovery, silent, cond, stopped, owed>>

DialFails == pc = "dial" /\ (stopped \/ ~Dials(dialed)) /\ Return(FALSE)

\* Key exchange and authentication; success counts as contact and calls
\* onWSConnected.
Authenticated ==
  /\ pc = "auth" /\ conn = "open" /\ cond[dialed] = "full"
  /\ pc' = "run" /\ silent' = FALSE
  /\ UNCHANGED <<loop, dialed, conn, denied, failures, errors, signal, url, disk,
                 admin, recovery, cond, stopped, owed>>

AuthFails ==
  /\ pc = "auth" /\ (conn = "closed" \/ cond[dialed] # "full")
  /\ pc' = "close" /\ denied' = (conn = "open" /\ cond[dialed] = "deny")
  /\ UNCHANGED <<loop, dialed, conn, failures, errors, signal, url, disk, admin,
                 recovery, silent, cond, stopped, owed>>

\* The message loop ends with the connection, or when the agent stops.
\* Nothing it sends or receives counts as contact.
RunEnds ==
  /\ pc = "run" /\ (stopped \/ conn = "closed")
  /\ pc' = "close"
  /\ UNCHANGED <<loop, dialed, conn, denied, failures, errors, signal, url, disk,
                 admin, recovery, silent, cond, stopped, owed>>

\* The deferred cleanup of connectAndRun, and the hook onWSDisconnected.
Close == pc = "close" /\ Return(denied)

\* waitWithTrafficReport and runPullModeWithTrafficReport.
WaitEnds ==
  /\ pc \in {"wait", "pull"}
  /\ pc' = "top"
  /\ UNCHANGED <<loop, dialed, conn, denied, failures, errors, signal, url, disk,
                 admin, recovery, silent, cond, stopped, owed>>

Wake ==
  /\ pc \in {"wait", "pull"} /\ signal
  /\ signal' = FALSE /\ pc' = "top"
  /\ UNCHANGED <<loop, dialed, conn, denied, failures, errors, url, disk, admin,
                 recovery, silent, cond, stopped, owed>>

\* A heartbeat in a wait of the WebSocket loop.
WaitReport ==
  /\ pc = "wait" /\ Reports(url) /\ silent
  /\ silent' = FALSE
  /\ UNCHANGED <<main, signal, url, disk, admin, recovery, cond, stopped, owed>>

\* A report of the HTTP reporter: maxErrors failures in a row end it, and a
\* probe that finds the WebSocket working.  It reads url anew and does not
\* look at reconnectSignal.
Report ==
  /\ pc = "report" /\ ~stopped
  /\ IF Reports(url) THEN errors' = 0 /\ silent' = FALSE
                     ELSE errors' = errors + 1 /\ UNCHANGED silent
  /\ owed' = FALSE
  /\ errors' < MaxErrors
  /\ UNCHANGED <<loop, pc, dialed, conn, denied, failures, signal, url, disk, admin,
                 recovery, cond, stopped>>

NeverUpgrades ==
  /\ pc = "report"
  /\ stopped \/ (~Reports(url) /\ errors + 1 = MaxErrors)
  /\ pc' = IF loop = "http" THEN "done" ELSE "top"
  /\ errors' = 0
  /\ UNCHANGED <<loop, dialed, conn, denied, failures, signal, url, disk, admin,
                 recovery, silent, cond, stopped, owed>>

\* In mode http nothing runs after the reporter.
ReporterEnds ==
  /\ pc = "report"
  /\ \/ stopped
     \/ ~Reports(url) /\ errors + 1 = MaxErrors
     \/ Dials(url)
  /\ pc' = IF loop = "http" THEN "done" ELSE "top"
  /\ errors' = 0
  /\ UNCHANGED <<loop, dialed, conn, denied, failures, signal, url, disk, admin,
                 recovery, silent, cond, stopped, owed>>

(***************************************************************************)
(* The fallback to recovery_url.                                           *)
(***************************************************************************)
\* Five minutes pass without contact.  Heartbeats over HTTP are far more
\* frequent; in mode pull, and on a WebSocket, there are none that count.
Silence ==
  /\ ~silent
  /\ ~(pc \in {"wait", "report"} /\ Reports(url))
  /\ silent' = TRUE
  /\ UNCHANGED <<main, signal, url, disk, admin, recovery, cond, stopped, owed>>

RecoveryTick ==
  /\ rec = "idle" /\ ~stopped
  /\ url \in Https /\ silent /\ ~activated
  /\ rec' = "probe"
  /\ UNCHANGED <<main, signal, url, disk, admin, target, activated, silent, cond,
                 stopped, owed>>

\* The master's answer names the address to use: a plain one when the home
\* master is down.
Advertised == IF cond[Home] = "down" THEN Urls \ Https ELSE Urls

RecoveryAnswer ==
  /\ rec = "probe"
  /\ \/ /\ Reports(Spare) /\ ~stopped
        /\ silent' = FALSE
        /\ \E new \in Advertised :
             IF new \in Https \/ activated
             THEN rec' = "idle" /\ UNCHANGED <<target, activated>>
             ELSE rec' = "persist" /\ target' = new /\ activated' = TRUE
     \/ /\ ~Reports(Spare) \/ stopped
        /\ rec' = "idle" /\ UNCHANGED <<target, activated, silent>>
  /\ UNCHANGED <<main, signal, url, disk, admin, cond, stopped, owed>>

RecoveryPersist ==
  /\ rec = "persist"
  /\ disk' = target /\ rec' = "switch"
  /\ UNCHANGED <<main, signal, url, admin, target, activated, silent, cond, stopped, owed>>

StaysActivated ==
  /\ rec = "persist"
  /\ rec' = "idle" /\ target' = None
  /\ UNCHANGED <<main, signal, url, disk, admin, activated, silent, cond, stopped, owed>>

RecoveryPersistFails ==
  /\ rec = "persist"
  /\ activated' = FALSE /\ rec' = "idle" /\ target' = None
  /\ UNCHANGED <<main, signal, url, disk, admin, silent, cond, stopped, owed>>

TriggerUnbuffered ==
  signal' = (signal \/ pc \in {"wait", "pull"}) /\ owed' = TRUE

\* The send of triggerReconnect: dropped when the channel is full.
Trigger == signal' = TRUE /\ owed' = TRUE

RecoverySwitch ==
  /\ rec = "switch"
  /\ url' = target /\ silent' = FALSE
  /\ Trigger
  /\ rec' = "idle" /\ target' = None
  /\ UNCHANGED <<main, disk, admin, activated, cond, stopped>>

(***************************************************************************)
(* The administrator, the network and the end.                             *)
(***************************************************************************)
\* HandleUpdateMasterURL: an address that is on disk already is not applied.
UpdateMasterURL(u) ==
  /\ ~stopped /\ updates < MaxUpdates /\ disk # u
  /\ disk' = u /\ pending' = pending \cup {u} /\ updates' = updates + 1
  /\ UNCHANGED <<main, signal, url, recovery, silent, cond, stopped, owed>>

\* ApplyMasterURL, 300 ms later: it closes the connection that is published.
ApplyMasterURL(u) ==
  /\ u \in pending
  /\ pending' = pending \ {u}
  /\ url' = u /\ activated' = FALSE
  /\ conn' = IF conn = "open" THEN "closed" ELSE conn
  /\ Trigger
  /\ UNCHANGED <<loop, pc, dialed, denied, failures, errors, disk, updates, rec, target,
                 silent, cond, stopped>>

\* ipProbeLoop sees another public address.
AddressChanges ==
  /\ ~stopped /\ Trigger
  /\ UNCHANGED <<main, url, disk, admin, recovery, silent, cond, stopped>>

\* Masters come and go; a connection whose master no longer takes it breaks.
NetworkChanges ==
  /\ cond' \in Conditions \ {cond}
  /\ conn' = IF conn = "open" /\ cond'[dialed] # "full" /\ pc = "run"
             THEN "closed" ELSE conn
  /\ UNCHANGED <<loop, pc, dialed, denied, failures, errors, signal, url, disk, admin,
                 recovery, silent, stopped, owed>>

\* The signal handler of main: cancel, then Client.Stop.
Stop ==
  /\ ~stopped /\ stopped' = TRUE
  /\ conn' = IF conn = "open" THEN "closed" ELSE conn
  /\ UNCHANGED <<loop, pc, dialed, denied, failures, errors, signal, url, disk, admin,
                 recovery, silent, cond, owed>>

-----------------------------------------------------------------------------
MainStep ==
  \/ WebSocketTop \/ AutoTop \/ Connect \/ DialDone \/ DialFails
  \/ Authenticated \/ AuthFails \/ RunEnds \/ Close
  \/ WaitEnds \/ Wake \/ ReporterEnds

RecoveryStep ==
  RecoveryTick \/ RecoveryAnswer \/ RecoverySwitch

LinkNext ==
  \/ MainStep \/ WaitReport \/ Report
  \/ Silence \/ RecoveryStep \/ RecoveryPersist \/ RecoveryPersistFails
  \/ \E u \in Urls : UpdateMasterURL(u) \/ ApplyMasterURL(u)
  \/ AddressChanges \/ NetworkChanges \/ Stop

\* Goroutines run, timers fire and time passes; every call on the network
\* has a deadline; the disk does not fail each time.
LinkFairness ==
  /\ WF_linkVars(MainStep) /\ WF_linkVars(Report) /\ WF_linkVars(WaitReport)
  /\ WF_linkVars(Silence) /\ WF_linkVars(RecoveryStep) /\ SF_linkVars(RecoveryPersist)
  /\ WF_linkVars(\E u \in Urls : ApplyMasterURL(u))

LinkSpec == LinkInit /\ [][LinkNext]_linkVars /\ LinkFairness

-----------------------------------------------------------------------------
\* Whenever a reconnection was asked for since the agent last read its
\* master's address, and it waits, the signal is there: triggerReconnect is
\* non-blocking, and the channel keeps what comes while nobody waits.
NoLostWake == pc \in {"wait", "pull"} /\ owed => signal

Connected == pc = "run" /\ conn = "open"

\* From when on the agent's master takes it, it gets a connection and keeps
\* it: through the fallbacks to HTTP and pull, a wait of any length, a dial
\* of an old address, and a recovery on its way.
Reconnects ==
  <>[](~stopped /\ pending = {} /\ cond[url] = "full") => <>[]Connected

\* From when on only the recovery address can be reached, and the master
\* there says so, the agent ends up connected to it, although each persist
\* of the address may fail and the main goroutine may be anywhere.
RecoveryReaches ==
  <>[](/\ ~stopped /\ pending = {} /\ cond[Home] = "down" /\ cond[Spare] = "full"
       /\ url \in {Home, Spare})
    => <>[](Connected /\ dialed = Spare)
=============================================================================
