---------------------------- MODULE ClientProofs ----------------------------
(***************************************************************************)
(* Proofs about what hangs on the connection of the client.                *)
(*   ListenGate, for any number of sessions and of attempts.  GateInv      *)
(*     holds however late callbacks run.  ClockInv adds what Stop achieves *)
(*     until a disconnect overtakes a callback: the only timer that may    *)
(*     still close the port is the one of the connection that is up.       *)
(*   TrafficReport, for any number of lives of Xray, of reports and of     *)
(*     losses: its type invariant, that nothing is counted twice and       *)
(*     nothing is missed, what the speed rules are told, and that a ping   *)
(*     round is reported once.                                             *)
(***************************************************************************)
EXTENDS ListenGate, TrafficReport, SequenceTheorems, FiniteSetTheorems, TLAPS

\* onWSDisconnected opens the port only when it is closed, and not in the exit.
ReopenInv == pc = "reopening" => ~ln /\ ~stopped

GateInv == GateTypeOK /\ SocketOwned /\ ReopenInv

ClockInv ==
    ~late /\ ~stopped =>
        \A n \in Sessions : clock[n] # "off" =>
            /\ pc \in {"live", "lost"}
            /\ n = sessions
            /\ clock[n] = "armed" => timer = n

-----------------------------------------------------------------------------
LEMMA TriesType == MaxTries \in Nat /\ MaxTries > 0 /\ 0 \in 0 .. MaxTries - 1
  BY GateBoundsTyped

\* Every method of the gate, and every callback, keeps the invariant.
LEMMA GateNextInv == GateInv /\ [GateNext]_gateVars => GateInv'
  <1> SUFFICES ASSUME GateInv, [GateNext]_gateVars PROVE GateInv'  OBVIOUS
  <1> USE GateBoundsTyped, TriesType DEF GateInv
  <1>1. CASE Dial
    BY <1>1 DEF Dial, GateTypeOK, SocketOwned, ReopenInv, stopped,
                Sessions, MuFree, client, gate, gateVars
  <1>2. CASE Authenticate
    BY <1>2 DEF Authenticate, GateTypeOK, SocketOwned, ReopenInv, stopped,
                Sessions, MuFree, client, gate, gateVars
  <1>3. CASE Connected
    BY <1>3 DEF Connected, Halted, GateTypeOK, SocketOwned, ReopenInv, stopped,
                Sessions, MuFree, client, gate, gateVars
  <1>4. CASE Lose
    BY <1>4 DEF Lose, GateTypeOK, SocketOwned, ReopenInv, stopped,
                Sessions, MuFree, client, gate, gateVars
  <1>5. CASE Disconnected
    BY <1>5 DEF Disconnected, Overtakes, Halted, GateTypeOK, SocketOwned, ReopenInv, stopped,
                Sessions, MuFree, client, gate, gateVars
  <1>6. CASE Reopen
    BY <1>6 DEF Reopen, GateTypeOK, SocketOwned, ReopenInv, stopped,
                Sessions, MuFree, client, gate, gateVars
  <1>7. CASE ListenFails
    <2>1. tries' \in 0 .. MaxTries - 1
      BY <1>7 DEF ListenFails, GateTypeOK
    <2>2. UNCHANGED gate /\ UNCHANGED <<sessions, main, late>> /\ failed' \in BOOLEAN
      BY <1>7 DEF ListenFails, GateTypeOK
    <2>3. pc = "reopening" /\ pc' \in {"down", "reopening"}
      BY <1>7 DEF ListenFails
    <2> QED
      BY <2>1, <2>2, <2>3 DEF GateTypeOK, SocketOwned, ReopenInv, stopped, gate
  <1>8. CASE Quit
    BY <1>8 DEF Quit, GateTypeOK, SocketOwned, ReopenInv, stopped,
                Sessions, MuFree, client, gate, gateVars
  <1>9. CASE Cancel
    BY <1>9 DEF Cancel, GateTypeOK, SocketOwned, ReopenInv, stopped,
                Sessions, MuFree, client, gate, gateVars
  <1>10. CASE StopGate
    BY <1>10 DEF StopGate, Halted, GateTypeOK, SocketOwned, ReopenInv, stopped,
                Sessions, MuFree, client, gate, gateVars
  <1>11. CASE Shutdown
    BY <1>11 DEF Shutdown, GateTypeOK, SocketOwned, ReopenInv, stopped,
                Sessions, MuFree, client, gate, gateVars
  <1>12. ASSUME NEW n \in Sessions, Fire(n) PROVE GateInv'
    BY <1>12 DEF Fire, GateTypeOK, SocketOwned, ReopenInv, stopped,
                Sessions, MuFree, client, gate, gateVars
  <1>13. ASSUME NEW n \in Sessions, Callback(n) PROVE GateInv'
    BY <1>13 DEF Callback, Close, GateTypeOK, SocketOwned, ReopenInv, stopped,
                Sessions, MuFree, client, gate, gateVars
  <1>14. CASE UNCHANGED gateVars
    BY <1>14 DEF GateTypeOK, SocketOwned, ReopenInv, stopped,
                Sessions, MuFree, client, gate, gateVars
  <1> QED
    BY <1>1, <1>2, <1>3, <1>4, <1>5, <1>6, <1>7, <1>8, <1>9, <1>10, <1>11, <1>12, <1>13, <1>14
       DEF GateNext, GateStep

\* GateInv is inductive, so the gate keeps it.
THEOREM GateInvariance == GateSpec => []GateInv
  <1>1. GateInit => GateInv
    <2> SUFFICES ASSUME GateInit PROVE GateInv  OBVIOUS
    <2>1. GateTypeOK
      <3>1. clock \in [Sessions -> {"off", "armed", "fired"}]
        BY DEF GateInit
      <3>2. /\ sessions \in 0 .. MaxSessions
            /\ timer \in 0 .. MaxSessions
            /\ tries \in 0 .. MaxTries - 1
        BY GateBoundsTyped, TriesType DEF GateInit
      <3>3. ln \in BOOLEAN /\ listening \in BOOLEAN /\ failed \in BOOLEAN /\ late \in BOOLEAN
        BY DEF GateInit
      <3> QED  BY <3>1, <3>2, <3>3 DEF GateInit, GateTypeOK
    <2>2. SocketOwned /\ ReopenInv
      BY DEF GateInit, SocketOwned, ReopenInv
    <2> QED  BY <2>1, <2>2 DEF GateInv
  <1>2. GateInv /\ [GateNext]_gateVars => GateInv'
    BY GateNextInv
  <1> QED  BY <1>1, <1>2, PTL DEF GateSpec

\* The variables of the gate keep their types.
THEOREM GateTypeCorrect == GateSpec => []GateTypeOK
  <1>1. GateInv => GateTypeOK
    BY DEF GateInv
  <1> QED  BY <1>1, GateInvariance, PTL

\* The gate knows the open listener and no other, whenever callbacks run.
THEOREM SocketIsOwned == GateSpec => []SocketOwned
  <1>1. GateInv => SocketOwned
    BY DEF GateInv
  <1> QED  BY <1>1, GateInvariance, PTL

\* Once stop has returned the port is never opened again.
THEOREM StopIsFinal == GateSpec => NoReopenAfterStop
  <1>1. GateInv /\ [GateNext]_gateVars => [stopped /\ ~listening => ~listening']_gateVars
    <2> SUFFICES ASSUME GateInv, [GateNext]_gateVars, stopped, ~listening PROVE ~listening'
      OBVIOUS
    <2>1. ~Reopen
      BY DEF Reopen, GateInv, ReopenInv
    <2> QED
      BY <2>1 DEF GateNext, GateStep, Dial, Authenticate, Lose, Quit, Connected,
                  Disconnected, Overtakes, ListenFails, Fire, Callback, Close, Cancel,
                  StopGate, Shutdown, client, gate, gateVars
  <1> QED  BY <1>1, GateInvariance, PTL DEF GateSpec, NoReopenAfterStop

-----------------------------------------------------------------------------
\* As long as no disconnect overtakes a callback, only the timer of the
\* connection that is up runs, and the port is open when there is none.
LEMMA NextClock ==
    GateInv /\ ClockInv /\ ReachableUnlessLate /\ [GateNext]_gateVars =>
        (ClockInv /\ ReachableUnlessLate)'
  <1> SUFFICES ASSUME GateInv, ClockInv, ReachableUnlessLate, [GateNext]_gateVars
               PROVE  ClockInv' /\ ReachableUnlessLate'
    OBVIOUS
  <1> USE GateBoundsTyped, TriesType DEF GateInv
  <1>1. CASE Dial
    BY <1>1 DEF Dial, GateTypeOK, SocketOwned, ReopenInv, ClockInv,
                ReachableUnlessLate, DownIsReachable, stopped, Sessions, MuFree, client, gate, gateVars
  <1>2. CASE Authenticate
    BY <1>2 DEF Authenticate, GateTypeOK, SocketOwned, ReopenInv, ClockInv,
                ReachableUnlessLate, DownIsReachable, stopped, Sessions, MuFree, client, gate, gateVars
  <1>3. CASE Connected
    BY <1>3 DEF Connected, Halted, GateTypeOK, SocketOwned, ReopenInv, ClockInv,
                ReachableUnlessLate, DownIsReachable, stopped, Sessions, MuFree, client, gate, gateVars
  <1>4. CASE Lose
    BY <1>4 DEF Lose, GateTypeOK, SocketOwned, ReopenInv, ClockInv,
                ReachableUnlessLate, DownIsReachable, stopped, Sessions, MuFree, client, gate, gateVars
  <1>5. CASE Disconnected
    BY <1>5 DEF Disconnected, Overtakes, Halted, GateTypeOK, SocketOwned, ReopenInv, ClockInv,
                ReachableUnlessLate, DownIsReachable, stopped, Sessions, MuFree, client, gate, gateVars
  <1>6. CASE Reopen
    BY <1>6 DEF Reopen, GateTypeOK, SocketOwned, ReopenInv, ClockInv,
                ReachableUnlessLate, DownIsReachable, stopped, Sessions, MuFree, client, gate, gateVars
  <1>7. CASE ListenFails
    BY <1>7 DEF ListenFails, GateTypeOK, SocketOwned, ReopenInv, ClockInv,
                ReachableUnlessLate, DownIsReachable, stopped, Sessions, MuFree, client, gate, gateVars
  <1>8. CASE Quit
    BY <1>8 DEF Quit, GateTypeOK, SocketOwned, ReopenInv, ClockInv,
                ReachableUnlessLate, DownIsReachable, stopped, Sessions, MuFree, client, gate, gateVars
  <1>9. CASE Cancel
    BY <1>9 DEF Cancel, GateTypeOK, SocketOwned, ReopenInv, ClockInv,
                ReachableUnlessLate, DownIsReachable, stopped, Sessions, MuFree, client, gate, gateVars
  <1>10. CASE StopGate
    BY <1>10 DEF StopGate, Halted, GateTypeOK, SocketOwned, ReopenInv, ClockInv,
                ReachableUnlessLate, DownIsReachable, stopped, Sessions, MuFree, client, gate, gateVars
  <1>11. CASE Shutdown
    BY <1>11 DEF Shutdown, GateTypeOK, SocketOwned, ReopenInv, ClockInv,
                ReachableUnlessLate, DownIsReachable, stopped, Sessions, MuFree, client, gate, gateVars
  <1>12. ASSUME NEW n \in Sessions, Fire(n) PROVE ClockInv' /\ ReachableUnlessLate'
    BY <1>12 DEF Fire, GateTypeOK, SocketOwned, ReopenInv, ClockInv,
                ReachableUnlessLate, DownIsReachable, stopped, Sessions, MuFree, client, gate, gateVars
  <1>13. ASSUME NEW n \in Sessions, Callback(n) PROVE ClockInv' /\ ReachableUnlessLate'
    BY <1>13 DEF Callback, Close, GateTypeOK, SocketOwned, ReopenInv, ClockInv,
                ReachableUnlessLate, DownIsReachable, stopped, Sessions, MuFree, client, gate, gateVars
  <1>14. CASE UNCHANGED gateVars
    BY <1>14 DEF GateTypeOK, SocketOwned, ReopenInv, ClockInv,
                ReachableUnlessLate, DownIsReachable, stopped, Sessions, MuFree, client, gate, gateVars
  <1> QED
    BY <1>1, <1>2, <1>3, <1>4, <1>5, <1>6, <1>7, <1>8, <1>9, <1>10, <1>11, <1>12, <1>13, <1>14
       DEF GateNext, GateStep

\* The port is open whenever the WebSocket is not, until a disconnect overtakes
\* the callback of a timer.
THEOREM ReachableBeforeLate == GateSpec => []ReachableUnlessLate
  <1>1. GateInit => ClockInv /\ ReachableUnlessLate
    BY DEF GateInit, ClockInv, ReachableUnlessLate, DownIsReachable
  <1>2. GateInv /\ ClockInv /\ ReachableUnlessLate /\ [GateNext]_gateVars =>
            (ClockInv /\ ReachableUnlessLate)'
    BY NextClock
  <1> QED  BY <1>1, <1>2, GateInvariance, PTL DEF GateSpec

-----------------------------------------------------------------------------
(***************************************************************************)
(* TrafficReport.  A counter that was read is judged by when it was read:  *)
(* its stamp is the counter with the life of Xray and what the user had    *)
(* moved by then, so that used - n is where that life began.  The master's *)
(* last counter has the stamp of the report it came with.  StampInv says   *)
(* that any two stamps, however their reports travel, lie in the same life *)
(* or in lives one after the other.                                        *)
(***************************************************************************)
Pending == ToSet(flight) \cup astray
Stamp(r) == [n |-> r.n, life |-> r.life, used |-> r.used]
LastStamp == [n |-> last, life |-> seen.life, used |-> seen.used]
Stamps == {Stamp(r) : r \in {p \in Pending : p.n # None}} \cup {LastStamp}
StampType == [n : Amounts, life : 0 .. MaxLives, used : Amounts]

\* Where a stamp stands to what Xray counts now ...
Past(c) ==
    /\ c.n <= c.used /\ c.used <= used /\ c.life <= life
    /\ c.life = life /\ running => c.used - c.n = used - counter
    /\ c.life < life \/ ~running => c.used <= used - counter

\* ... and two stamps to each other.
Fits(c, d) ==
    /\ c.life = d.life => c.used - c.n = d.used - d.n
    /\ c.life < d.life => c.used <= d.used - d.n

CounterInv ==
    /\ counter <= used
    /\ ~running => counter = 0 /\ life < MaxLives

\* The counter never grew by more than the user moved since the snapshot.
SnapInv ==
    snap # None => counter - snap.n <= used - snap.used /\ snap.used <= used

StampInv ==
    /\ \A c \in Stamps : Past(c)
    /\ \A c, d \in Stamps : Fits(c, d)
    /\ \A r \in Pending : r.n # None => r.n > 0
    /\ last = 0 => seen.life = 0

\* The reports of a connection are in order, and behind what the master has
\* seen unless a report astray was applied before them.
OrderInv ==
    /\ \A i, j \in 1 .. Len(flight) : i < j => flight[i].used <= flight[j].used
    /\ \A i \in 1 .. Len(flight) : flight[i].used <= used
    /\ ~overtaken => \A i \in 1 .. Len(flight) : seen.used <= flight[i].used

\* Rounds are numbered in the order they are taken for a report.
RoundInv ==
    /\ pinging # 0 => pinging = latest + 1
    /\ sent <= latest
    /\ shown \subseteq 1 .. sent
    /\ \A r \in Pending : r.round <= sent

UserTyped ==
    /\ used \in Amounts /\ running \in BOOLEAN /\ life \in 1 .. MaxLives
    /\ counter \in Amounts
SnapTyped == snap \in [n : Amounts, used : Amounts] \cup {None}
NetworkTyped ==
    /\ mode \in {"ws", "http"} /\ breaks \in 0 .. MaxBreaks
    /\ flight \in Seq(Reports) /\ Len(flight) <= MaxFlight
    /\ astray \subseteq Reports /\ IsFiniteSet(astray) /\ Cardinality(astray) <= MaxAstray
MasterTyped ==
    /\ last \in Amounts /\ total \in Nat
    /\ seen \in [life : 0 .. MaxLives, used : Amounts] /\ overtaken \in BOOLEAN
ProbeTyped ==
    /\ collect \in BOOLEAN /\ shown \subseteq 1 .. MaxRounds
    /\ pinging \in 0 .. MaxRounds /\ latest \in 0 .. MaxRounds /\ sent \in 0 .. MaxRounds
Typed == UserTyped /\ SnapTyped /\ NetworkTyped /\ MasterTyped /\ ProbeTyped

Inv == Typed /\ CounterInv /\ SnapInv /\ StampInv /\ OrderInv /\ RoundInv

\* What the connection carries after an append, and behind its head.
LEMMA Appended ==
  ASSUME NEW s \in Seq(Reports), NEW r \in Reports
  PROVE  /\ Append(s, r) \in Seq(Reports) /\ Len(Append(s, r)) = Len(s) + 1
         /\ \A i \in 1 .. Len(s) : Append(s, r)[i] = s[i]
         /\ Append(s, r)[Len(s) + 1] = r
         /\ ToSet(Append(s, r)) = ToSet(s) \cup {r}
  <1>1. /\ Append(s, r) \in Seq(Reports) /\ Len(Append(s, r)) = Len(s) + 1
        /\ \A i \in 1 .. Len(s) : Append(s, r)[i] = s[i]
        /\ Append(s, r)[Len(s) + 1] = r
    BY AppendProperties
  <1>2. /\ DOMAIN s = 1 .. Len(s) /\ DOMAIN Append(s, r) = 1 .. Len(s) + 1 /\ Len(s) \in Nat
    BY <1>1, LenProperties
  <1>3. 1 .. Len(s) + 1 = (1 .. Len(s)) \cup {Len(s) + 1}
    BY <1>2
  <1> QED
    BY <1>1, <1>2, <1>3 DEF ToSet

LEMMA Popped ==
  ASSUME NEW s \in Seq(Reports), s # <<>>
  PROVE  /\ Head(s) \in ToSet(s) /\ Head(s) = s[1] /\ Len(s) \in Nat /\ Len(s) > 0
         /\ Tail(s) \in Seq(Reports) /\ Len(Tail(s)) = Len(s) - 1
         /\ \A i \in 1 .. Len(Tail(s)) : Tail(s)[i] = s[i + 1]
         /\ ToSet(Tail(s)) \subseteq ToSet(s)
  <1>1. /\ Tail(s) \in Seq(Reports) /\ Len(Tail(s)) = Len(s) - 1 /\ Head(s) = s[1]
        /\ \A i \in 1 .. Len(Tail(s)) : Tail(s)[i] = s[i + 1]
    BY HeadTailProperties
  <1>2. /\ DOMAIN s = 1 .. Len(s) /\ DOMAIN Tail(s) = 1 .. Len(Tail(s)) /\ Len(s) \in Nat
        /\ Len(s) > 0
    BY <1>1, LenProperties, EmptySeq
  <1>3. \A i \in 1 .. Len(Tail(s)) : i + 1 \in 1 .. Len(s)
    BY <1>1, <1>2
  <1>4. ToSet(Tail(s)) \subseteq ToSet(s)
    BY <1>1, <1>2, <1>3 DEF ToSet
  <1>5. Head(s) \in ToSet(s)
    BY <1>1, <1>2 DEF ToSet
  <1> QED
    BY <1>1, <1>2, <1>4, <1>5

LEMMA FlightElements ==
  ASSUME NEW s \in Seq(Reports)
  PROVE  /\ ToSet(s) = {s[i] : i \in 1 .. Len(s)} /\ ToSet(s) \subseteq Reports
         /\ IsFiniteSet(ToSet(s)) /\ Len(s) \in Nat
  <1>1. DOMAIN s = 1 .. Len(s) /\ Len(s) \in Nat
    BY LenProperties
  <1>2. ToSet(s) = {s[i] : i \in 1 .. Len(s)}
    BY <1>1 DEF ToSet
  <1>3. \A i \in 1 .. Len(s) : s[i] \in Reports
    BY ElementOfSeq
  <1>4. IsFiniteSet(1 .. Len(s))
    BY <1>1, FS_Interval
  <1>5. IsFiniteSet(ToSet(s))
    <2>1. s \in [1 .. Len(s) -> ToSet(s)]
      BY <1>1, <1>2
    <2>2. s \in Surjection(1 .. Len(s), ToSet(s))
      BY <2>1, <1>2 DEF Surjection
    <2> QED
      BY <2>2, <1>4, FS_Surjection
  <1> QED
    BY <1>1, <1>2, <1>3, <1>5

-----------------------------------------------------------------------------
\* Both senders put one reading behind what is on its way.
LEMMA SendAppends ==
  ASSUME Typed, sendTrafficData \/ sendTrafficHTTP
  PROVE  /\ flight' = Append(flight, Reading(Round))
         /\ Len(flight) < MaxFlight \/ flight = <<>>
         /\ Collect /\ UNCHANGED <<mode, astray, breaks>>
  <1>1. CASE sendTrafficData
    BY <1>1 DEF sendTrafficData
  <1>2. CASE sendTrafficHTTP
    <2>1. Append(<<>>, Reading(Round)) = <<Reading(Round)>>
      OBVIOUS
    <2> QED
      BY <1>2, <2>1 DEF sendTrafficHTTP
  <1> QED
    BY <1>1, <1>2

\* A reading of the running Xray, none of the stopped one.
LEMMA ReadingTyped ==
  ASSUME Typed, CounterInv, RoundInv, NEW round \in {0, Round}
  PROVE  /\ Reading(round) \in Reports
         /\ Reading(round).round = round /\ Reading(round).used = used
         /\ Reading(round).life = life
         /\ Reading(round).n # None =>
              running /\ Reading(round).n = counter /\ counter > 0
  <1>1. round \in 0 .. MaxRounds
    BY BoundsTyped DEF Round, Typed, ProbeTyped
  <1>2. Counter \in Amounts \cup {None}
    BY DEF Counter, CollectStats, Typed, UserTyped
  <1>3. Counter # None => running /\ Counter = counter /\ counter > 0
    BY DEF Counter, CollectStats
  <1>4. life \in 0 .. MaxLives /\ used \in Amounts
    BY BoundsTyped DEF Typed, UserTyped
  <1> QED
    BY <1>1, <1>2, <1>3, <1>4 DEF Reading, Reports

\* None is not a number: a stamp has numbers.
LEMMA StampsTyped == Typed => Stamps \subseteq StampType /\ Pending \subseteq Reports
  <1> SUFFICES ASSUME Typed PROVE Stamps \subseteq StampType /\ Pending \subseteq Reports
    OBVIOUS
  <1>1. Pending \subseteq Reports
    BY FlightElements DEF Pending, Typed, NetworkTyped
  <1>2. \A r \in Pending : r.n # None => Stamp(r) \in StampType
    BY <1>1 DEF Stamp, StampType, Reports
  <1>3. LastStamp \in StampType
    BY DEF LastStamp, StampType, Typed, MasterTyped
  <1> QED
    BY <1>1, <1>2, <1>3 DEF Stamps

LEMMA SendPending ==
  ASSUME Typed, CounterInv, RoundInv, sendTrafficData \/ sendTrafficHTTP
  PROVE  Pending' = Pending \cup {Reading(Round)}
  <1>1. /\ flight' = Append(flight, Reading(Round)) /\ astray' = astray
    BY SendAppends
  <1>2. Reading(Round) \in Reports
    BY ReadingTyped
  <1> QED
    BY <1>1, <1>2, Appended DEF Pending, Typed, NetworkTyped

\* What is lost or goes astray was on its way before.
LEMMA FailsPending == Fails => Pending' \subseteq Pending
  <1> SUFFICES ASSUME Fails PROVE Pending' \subseteq Pending
    OBVIOUS
  <1>1. PICK S \in SUBSET {r \in ToSet(flight) : r.n # None \/ r.round # 0} :
          astray' = astray \cup S
    BY DEF Fails
  <1>2. flight' = <<>>
    BY DEF Fails
  <1>3. ToSet(<<>>) = {}
    BY DEF ToSet
  <1> QED
    BY <1>1, <1>2, <1>3 DEF Pending

\* The network as the lemmas below see it: what a step may add to the reports
\* on their way, and that nothing else about the user changes with it.
LEMMA NetworkStep ==
  ASSUME Typed, CounterInv, RoundInv, [Next]_vars, ~Arrives, ~ArrivesAstray
  PROVE  /\ UNCHANGED master
         /\ \/ Pending' \subseteq Pending
            \/ /\ UNCHANGED traffic
               /\ \E round \in {0, Round} :
                    /\ Pending' \subseteq Pending \cup {Reading(round)}
                    /\ sent' = IF round # 0 THEN round ELSE sent
               /\ UNCHANGED <<collect, pinging, latest>>
  <1>1. CASE Move \/ XrayStops \/ XrayStarts \/ evaluateSpeedLimits \/ WebSocketUp
    BY <1>1 DEF Move, XrayStops, XrayStarts, evaluateSpeedLimits, WebSocketUp, Pending,
                network, master
  <1>2. CASE handleProbeConfigUpdate \/ PingBegins \/ PingEnds \/ UNCHANGED vars
    BY <1>2 DEF handleProbeConfigUpdate, PingBegins, PingEnds, vars, Pending, network, master
  <1>3. CASE sendTrafficData \/ sendTrafficHTTP
    <2>1. Pending' = Pending \cup {Reading(Round)} /\ Collect
      BY <1>3, SendPending, SendAppends
    <2> QED
      BY <2>1 DEF Collect, master
  <1>4. CASE Fails
    BY <1>4, FailsPending DEF Fails
  <1>5. CASE ServeHTTP
    <2>1. Pending' = Pending \cup {Reading(0)}
      BY <1>5 DEF ServeHTTP, Pending
    <2> QED
      BY <2>1, <1>5 DEF ServeHTTP, master, probe
  <1> QED
    BY <1>1, <1>2, <1>3, <1>4, <1>5 DEF Next

\* A report is applied when it arrives; nothing else happens with it.
LEMMA ArrivalStep ==
  ASSUME Typed, Arrives \/ ArrivesAstray
  PROVE  /\ Pending' \subseteq Pending /\ UNCHANGED <<traffic, snap, probe>>
         /\ \E r \in Pending : Apply(r)
  <1>1. CASE Arrives
    <2>1. /\ Head(flight) \in ToSet(flight) /\ ToSet(Tail(flight)) \subseteq ToSet(flight)
      BY <1>1, Popped DEF Arrives, Typed, NetworkTyped
    <2> QED
      BY <1>1, <2>1 DEF Arrives, Pending
  <1>2. CASE ArrivesAstray
    BY <1>2 DEF ArrivesAstray, Pending
  <1> QED
    BY <1>1, <1>2

-----------------------------------------------------------------------------
LEMMA UserStep ==
  ASSUME Typed, CounterInv, SnapInv, [Next]_vars
  PROVE  UserTyped' /\ SnapTyped' /\ CounterInv' /\ SnapInv'
  <1> USE DEF Typed, UserTyped, SnapTyped, CounterInv, SnapInv, Amounts
  <1>1. snap # None => snap.n \in Nat /\ snap.used \in Nat
    BY BoundsTyped, NoneIsNew
  <1>2. CASE Move
    <2>1. used' \in 0 .. MaxUsed /\ counter' \in 0 .. MaxUsed /\ counter' <= used'
      BY <1>2, BoundsTyped DEF Move
    <2>2. UNCHANGED <<running, life, snap>> /\ running
      BY <1>2 DEF Move
    <2>3. snap # None => counter' - snap.n <= used' - snap.used /\ snap.used <= used'
      BY <1>1, <1>2, BoundsTyped DEF Move
    <2> QED
      BY <2>1, <2>2, <2>3
  <1>3. CASE XrayStops
    <2>1. UNCHANGED <<used, life, snap>> /\ ~running' /\ running' \in BOOLEAN /\ counter' = 0
      BY <1>3 DEF XrayStops
    <2>2. life' < MaxLives /\ 0 <= used /\ 0 \in 0 .. MaxUsed
      BY <1>3, BoundsTyped DEF XrayStops
    <2>3. snap # None => 0 - snap.n <= used - snap.used
      BY <1>1, BoundsTyped
    <2> QED
      BY <2>1, <2>2, <2>3
  <1>4. CASE XrayStarts
    BY <1>4, BoundsTyped DEF XrayStarts
  <1>5. CASE evaluateSpeedLimits
    <2>1. snap' = [n |-> counter, used |-> used] /\ UNCHANGED traffic
      BY <1>5 DEF evaluateSpeedLimits, SnapshotUserTraffic
    <2>2. counter - counter <= used - used /\ used <= used
      BY BoundsTyped
    <2> QED
      BY <2>1, <2>2 DEF traffic
  <1>6. CASE Collect
    BY <1>6 DEF Collect, traffic
  <1>7. CASE UNCHANGED <<traffic, snap>>
    BY <1>7 DEF traffic
  <1>8. \/ Collect
        \/ Move \/ XrayStops \/ XrayStarts \/ evaluateSpeedLimits
        \/ UNCHANGED <<traffic, snap>>
    BY SendAppends, ArrivalStep
       DEF Next, WebSocketUp, Fails, ServeHTTP, handleProbeConfigUpdate, PingBegins,
           PingEnds, vars
  <1> QED
    BY <1>2, <1>3, <1>4, <1>5, <1>6, <1>7, <1>8

LEMMA NetworkTypedStep ==
  ASSUME Typed, CounterInv, RoundInv, [Next]_vars
  PROVE  NetworkTyped'
  <1> USE DEF Typed, NetworkTyped
  <1>1. CASE sendTrafficData \/ sendTrafficHTTP
    <2>1. /\ flight' = Append(flight, Reading(Round)) /\ UNCHANGED <<mode, astray, breaks>>
          /\ Len(flight) < MaxFlight \/ flight = <<>>
      BY <1>1, SendAppends
    <2>2. flight' \in Seq(Reports) /\ Len(flight') = Len(flight) + 1 /\ Len(flight) \in Nat
      BY <2>1, ReadingTyped, Appended, LenProperties
    <2>3. Len(flight') <= MaxFlight
      <3>1. CASE Len(flight) < MaxFlight
        BY <3>1, <2>2, BoundsTyped
      <3>2. CASE flight = <<>>
        BY <3>2, <2>2, BoundsTyped
      <3> QED
        BY <3>1, <3>2, <2>1
    <2> QED
      BY <2>1, <2>2, <2>3
  <1>2. CASE Fails
    <2>1. PICK S \in SUBSET {r \in ToSet(flight) : r.n # None \/ r.round # 0} :
            Cardinality(astray \cup S) <= MaxAstray /\ astray' = astray \cup S
      BY <1>2 DEF Fails
    <2>2. IsFiniteSet(S) /\ S \subseteq Reports
      BY <2>1, FlightElements, FS_Subset
    <2>3. IsFiniteSet(astray \cup S)
      BY <2>2, FS_Union
    <2>4. flight' = <<>> /\ mode' \in {"ws", "http"} /\ breaks' \in 0 .. MaxBreaks
      BY <1>2, BoundsTyped DEF Fails
    <2>5. <<>> \in Seq(Reports) /\ Len(<<>>) <= MaxFlight
      BY BoundsTyped
    <2> QED
      BY <2>1, <2>2, <2>3, <2>4, <2>5
  <1>3. CASE ServeHTTP
    <2>1. astray' = astray \cup {Reading(0)} /\ UNCHANGED <<mode, flight, breaks>>
          /\ Cardinality(astray) < MaxAstray
      BY <1>3 DEF ServeHTTP
    <2>2. Reading(0) \in Reports
      BY ReadingTyped
    <2>3. IsFiniteSet(astray') /\ Cardinality(astray') <= Cardinality(astray) + 1
      <3>1. IsFiniteSet(astray) /\ Cardinality(astray) \in Nat
        BY FS_CardinalityType
      <3> DEFINE new == Reading(0)
      <3> HIDE DEF new
      <3>2. /\ IsFiniteSet(astray \cup {new})
            /\ Cardinality(astray \cup {new}) =
                 IF new \in astray THEN Cardinality(astray) ELSE Cardinality(astray) + 1
        BY <3>1, FS_AddElement
      <3>3. astray' = astray \cup {new}
        BY <2>1 DEF new
      <3> QED
        BY <3>1, <3>2, <3>3
    <2>4. Cardinality(astray) + 1 <= MaxAstray
      BY <2>1, FS_CardinalityType, BoundsTyped
    <2>5. Cardinality(astray') \in Nat /\ Cardinality(astray) \in Nat
      BY <2>3, FS_CardinalityType
    <2>6. Cardinality(astray') <= MaxAstray
      BY <2>3, <2>4, <2>5, BoundsTyped
    <2> QED
      BY <2>1, <2>2, <2>3, <2>6
  <1>4. CASE Arrives
    <2>1. flight' = Tail(flight) /\ flight # <<>> /\ UNCHANGED <<mode, astray, breaks>>
      BY <1>4 DEF Arrives
    <2>2. flight' \in Seq(Reports) /\ Len(flight') <= MaxFlight
      BY <2>1, Popped, BoundsTyped
    <2> QED
      BY <2>1, <2>2
  <1>5. CASE ArrivesAstray
    <2>1. PICK r \in astray : astray' = astray \ {r} /\ UNCHANGED <<mode, flight, breaks>>
      BY <1>5 DEF ArrivesAstray
    <2>2. IsFiniteSet(astray') /\ Cardinality(astray') <= Cardinality(astray)
      <3>1. IsFiniteSet(astray) /\ Cardinality(astray) \in Nat
        BY FS_CardinalityType
      <3>2. /\ IsFiniteSet(astray \ {r})
            /\ Cardinality(astray \ {r}) =
                 IF r \in astray THEN Cardinality(astray) - 1 ELSE Cardinality(astray)
        BY <3>1, FS_RemoveElement
      <3> QED
        BY <2>1, <3>1, <3>2
    <2>3. Cardinality(astray') \in Nat /\ Cardinality(astray) \in Nat
      BY <2>2, FS_CardinalityType
    <2>4. Cardinality(astray') <= MaxAstray
      BY <2>2, <2>3, BoundsTyped
    <2> QED
      BY <2>1, <2>2, <2>4
  <1>6. CASE WebSocketUp
    BY <1>6 DEF WebSocketUp
  <1>7. CASE UNCHANGED network
    BY <1>7 DEF network
  <1> QED
    BY <1>1, <1>2, <1>3, <1>4, <1>5, <1>6, <1>7
       DEF Next, Move, XrayStops, XrayStarts, evaluateSpeedLimits, handleProbeConfigUpdate,
           PingBegins, PingEnds, vars

\* What the master adds up is never less than nothing.
LEMMA MasterTypedStep ==
  ASSUME Typed, CounterInv, RoundInv, [Next]_vars
  PROVE  MasterTyped'
  <1> USE DEF Typed, MasterTyped
  <1>1. CASE UNCHANGED master
    BY <1>1 DEF master
  <1>2. CASE Arrives \/ ArrivesAstray
    <2>1. PICK r \in Pending : Apply(r)
      BY <1>2, ArrivalStep
    <2>2. overtaken' \in BOOLEAN
      BY <1>2 DEF Arrives, ArrivesAstray
    <2>3. r.n # None => r.n \in Amounts
      BY StampsTyped DEF Reports
    <2>4. r.life \in 0 .. MaxLives /\ r.used \in Amounts
      BY StampsTyped DEF Reports
    <2>5. r.n # None => total + (IF r.n < last THEN r.n ELSE r.n - last) \in Nat
      BY <2>3, BoundsTyped DEF Amounts
    <2> QED
      BY <2>1, <2>2, <2>3, <2>4, <2>5 DEF Apply
  <1> QED
    BY <1>1, <1>2, NetworkStep

LEMMA RoundStep ==
  ASSUME Typed, CounterInv, RoundInv, [Next]_vars
  PROVE  ProbeTyped' /\ RoundInv'
  <1>1. sent \in Nat /\ latest \in Nat /\ \A r \in Pending : r.round \in Nat
    BY StampsTyped, BoundsTyped DEF Typed, ProbeTyped, Reports
  <1>2. \A x \in shown : x \in 1 .. sent
    BY DEF RoundInv
  <1>3. CASE Arrives \/ ArrivesAstray
    <2>1. /\ Pending' \subseteq Pending /\ UNCHANGED probe
      BY <1>3, ArrivalStep
    <2>2. PICK r \in Pending : Apply(r)
      BY <1>3, ArrivalStep
    <2>3. r.round # 0 => r.round \in 1 .. sent /\ r.round \in 1 .. MaxRounds
      BY <1>1, BoundsTyped DEF RoundInv, Typed, ProbeTyped
    <2>4. shown' \subseteq 1 .. sent /\ shown' \subseteq 1 .. MaxRounds
      BY <2>2, <2>3 DEF Apply, RoundInv, Typed, ProbeTyped
    <2> QED
      BY <2>1, <2>4 DEF RoundInv, Typed, ProbeTyped, probe
  <1>4. CASE sendTrafficData \/ sendTrafficHTTP
    <2>1. Pending' = Pending \cup {Reading(Round)} /\ Collect
      BY <1>4, SendPending, SendAppends
    <2>2. UNCHANGED <<shown, collect, pinging, latest>>
          /\ sent' = IF Round # 0 THEN Round ELSE sent
      BY <2>1 DEF Collect, master
    <2>3. sent' \in 0 .. MaxRounds /\ sent' <= latest /\ sent <= sent' /\ Round <= sent'
      BY <2>2, <1>1, BoundsTyped DEF Round, RoundInv, Typed, ProbeTyped
    <2>4. shown' \subseteq 1 .. sent'
      BY <1>1, <1>2, <2>2, <2>3
    <2>5. Reading(Round).round = Round
      BY DEF Reading
    <2>6. \A r \in Pending' : r.round <= sent'
      BY <2>1, <2>3, <2>5, <1>1, BoundsTyped DEF RoundInv, Typed, ProbeTyped
    <2> QED
      BY <2>2, <2>3, <2>4, <2>6 DEF RoundInv, Typed, ProbeTyped
  <1>5. CASE ServeHTTP
    <2>1. Pending' = Pending \cup {Reading(0)} /\ UNCHANGED <<shown, probe>>
      BY <1>5 DEF ServeHTTP, Pending, master
    <2>2. Reading(0).round = 0
      BY DEF Reading
    <2>3. \A r \in Pending' : r.round <= sent
      BY <2>1, <2>2, <1>1 DEF RoundInv
    <2> QED
      BY <2>1, <2>3 DEF RoundInv, Typed, ProbeTyped, probe
  <1>6. CASE Fails
    <2>1. Pending' \subseteq Pending /\ UNCHANGED <<shown, probe>>
      BY <1>6, FailsPending DEF Fails, master
    <2> QED
      BY <2>1 DEF RoundInv, Typed, ProbeTyped, probe
  <1>7. CASE PingBegins \/ PingEnds \/ handleProbeConfigUpdate
    <2>1. Pending' = Pending /\ shown' = shown /\ sent' = sent
      BY <1>7 DEF PingBegins, PingEnds, handleProbeConfigUpdate, Pending, network, master
    <2>2. collect' \in BOOLEAN
      BY <1>7 DEF PingBegins, PingEnds, handleProbeConfigUpdate, Typed, ProbeTyped
    <2>3. /\ pinging' \in 0 .. MaxRounds /\ latest' \in 0 .. MaxRounds
          /\ latest <= latest'
          /\ pinging' # 0 => pinging' = latest' + 1
      <3>1. pinging # 0 => pinging = latest + 1
        BY DEF RoundInv
      <3>2. /\ pinging \in 0 .. MaxRounds /\ latest \in 0 .. MaxRounds
        BY DEF Typed, ProbeTyped
      <3>3. CASE PingBegins
        BY <3>3, <3>2, BoundsTyped DEF PingBegins, NextRound
      <3>4. CASE PingEnds
        BY <3>4, <3>1, <3>2, BoundsTyped DEF PingEnds
      <3>5. CASE handleProbeConfigUpdate
        BY <3>5, <3>1, <3>2, BoundsTyped DEF handleProbeConfigUpdate
      <3> QED
        BY <1>7, <3>3, <3>4, <3>5
    <2>4. sent' <= latest'
      BY <1>1, <2>1, <2>3, BoundsTyped DEF RoundInv
    <2> QED
      BY <2>1, <2>2, <2>3, <2>4 DEF RoundInv, Typed, ProbeTyped
  <1>8. CASE Pending' \subseteq Pending /\ UNCHANGED <<shown, probe>>
    BY <1>8 DEF RoundInv, Typed, ProbeTyped, probe
  <1>9. Move \/ XrayStops \/ XrayStarts \/ evaluateSpeedLimits \/ WebSocketUp \/ UNCHANGED vars
          => Pending' \subseteq Pending /\ UNCHANGED <<shown, probe>>
    BY DEF Move, XrayStops, XrayStarts, evaluateSpeedLimits, WebSocketUp, vars, Pending,
           network, master
  <1> QED
    BY <1>3, <1>4, <1>5, <1>6, <1>7, <1>8, <1>9 DEF Next

-----------------------------------------------------------------------------
\* The stamp a report gets that is made now.
Now == [n |-> counter, life |-> life, used |-> used]

LEMMA StampsStep ==
  ASSUME Typed, CounterInv, RoundInv, [Next]_vars
  PROVE  \/ Stamps' \subseteq Stamps
         \/ UNCHANGED traffic /\ running /\ Stamps' \subseteq Stamps \cup {Now}
  <1>1. CASE Arrives \/ ArrivesAstray
    <2>1. Pending' \subseteq Pending
      BY <1>1, ArrivalStep
    <2>2. PICK r \in Pending : Apply(r)
      BY <1>1, ArrivalStep
    <2>3. LastStamp' \in Stamps
      <3>1. CASE r.n # None
        BY <2>2, <3>1 DEF Apply, LastStamp, Stamps, Stamp
      <3>2. CASE r.n = None
        BY <2>2, <3>2 DEF Apply, LastStamp, Stamps
      <3> QED
        BY <3>1, <3>2
    <2> QED
      BY <2>1, <2>3 DEF Stamps, Stamp
  <1>2. CASE ~Arrives /\ ~ArrivesAstray
    <2>1. LastStamp' = LastStamp
      BY <1>2, NetworkStep DEF LastStamp, master
    <2>2. CASE Pending' \subseteq Pending
      BY <2>1, <2>2 DEF Stamps, Stamp
    <2>3. CASE ~(Pending' \subseteq Pending)
      <3>1. PICK round \in {0, Round} : Pending' \subseteq Pending \cup {Reading(round)}
        BY <1>2, <2>3, NetworkStep
      <3>2. UNCHANGED traffic
        BY <1>2, <2>3, NetworkStep
      <3> DEFINE new == Reading(round)
      <3>3. new.n # None => running /\ Stamp(new) = Now
        BY ReadingTyped DEF Stamp, Now
      <3> HIDE DEF new
      <3>4. Pending' \subseteq Pending \cup {new}
        BY <3>1 DEF new
      <3>5. CASE new.n # None
        BY <2>1, <3>2, <3>3, <3>4, <3>5 DEF Stamps, Stamp
      <3>6. CASE new.n = None
        BY <2>1, <3>4, <3>6 DEF Stamps, Stamp
      <3> QED
        BY <3>5, <3>6
    <2> QED
      BY <2>2, <2>3
  <1> QED
    BY <1>1, <1>2

\* What the user and Xray do keeps every stamp in its place.
LEMMA PastStep ==
  ASSUME Typed, CounterInv, NEW c \in StampType, Past(c),
         Move \/ XrayStops \/ XrayStarts \/ UNCHANGED traffic
  PROVE  Past(c)'
  <1> USE BoundsTyped DEF Amounts, StampType, Past, Typed, UserTyped, CounterInv
  <1>1. CASE Move
    BY <1>1 DEF Move
  <1>2. CASE XrayStops
    BY <1>2 DEF XrayStops
  <1>3. CASE XrayStarts
    BY <1>3 DEF XrayStarts
  <1>4. CASE UNCHANGED traffic
    BY <1>4 DEF traffic
  <1> QED
    BY <1>1, <1>2, <1>3, <1>4

LEMMA NowFits ==
  ASSUME Typed, CounterInv, running
  PROVE  /\ Past(Now) /\ Fits(Now, Now)
         /\ \A c \in StampType : Past(c) => Fits(Now, c) /\ Fits(c, Now)
  BY BoundsTyped DEF Now, Fits, Past, StampType, Amounts, Typed, UserTyped, CounterInv

LEMMA StampStep ==
  ASSUME Typed, CounterInv, RoundInv, StampInv, [Next]_vars
  PROVE  StampInv'
  <1>1. Move \/ XrayStops \/ XrayStarts \/ UNCHANGED traffic
    BY SendAppends, ArrivalStep
       DEF Next, Collect, evaluateSpeedLimits, WebSocketUp, Fails, ServeHTTP,
           handleProbeConfigUpdate, PingBegins, PingEnds, vars
  <1>2. \A c \in Stamps : Past(c)'
    BY <1>1, PastStep, StampsTyped DEF StampInv
  <1>3. /\ \A c \in Stamps' : Past(c)'
        /\ \A c, d \in Stamps' : Fits(c, d)
    <2>1. CASE Stamps' \subseteq Stamps
      BY <1>2, <2>1 DEF StampInv
    <2>2. CASE UNCHANGED traffic /\ running /\ Stamps' \subseteq Stamps \cup {Now}
      <3>1. \A c \in Stamps \cup {Now} : Past(c)'
        <4>1. \A c \in StampType : Past(c) => Past(c)'
          BY <2>2, PastStep
        <4>2. Past(Now) /\ Now \in StampType
          BY <2>2, NowFits, BoundsTyped DEF Now, StampType, Typed, UserTyped
        <4> QED
          BY <1>2, <4>1, <4>2
      <3>2. \A c, d \in Stamps \cup {Now} : Fits(c, d)
        BY <2>2, NowFits, StampsTyped DEF StampInv
      <3> QED
        BY <2>2, <3>1, <3>2
    <2> QED
      BY <2>1, <2>2, StampsStep
  <1>4. /\ \A r \in Pending' : r.n # None => r.n > 0
        /\ last' = 0 => seen'.life = 0
    <2>1. CASE Arrives \/ ArrivesAstray
      <3>1. Pending' \subseteq Pending
        BY <2>1, ArrivalStep
      <3>2. PICK r \in Pending : Apply(r)
        BY <2>1, ArrivalStep
      <3>3. r.n # None => last' # 0
        BY <3>2, StampsTyped, BoundsTyped DEF Apply, StampInv, Reports, Amounts
      <3> QED
        BY <3>1, <3>2, <3>3 DEF Apply, StampInv
    <2>2. CASE ~Arrives /\ ~ArrivesAstray
      <3>1. UNCHANGED <<last, seen>>
        BY <2>2, NetworkStep DEF master
      <3>2. CASE Pending' \subseteq Pending
        BY <3>1, <3>2 DEF StampInv
      <3>3. CASE ~(Pending' \subseteq Pending)
        <4>1. PICK round \in {0, Round} : Pending' \subseteq Pending \cup {Reading(round)}
          BY <2>2, <3>3, NetworkStep
        <4>2. Reading(round).n # None => Reading(round).n > 0
          BY ReadingTyped
        <4> QED
          BY <3>1, <4>1, <4>2 DEF StampInv
      <3> QED
        BY <3>2, <3>3
    <2> QED
      BY <2>1, <2>2
  <1> QED
    BY <1>3, <1>4 DEF StampInv

-----------------------------------------------------------------------------
\* Applying a report no older than the last: the total grows by no more than
\* the user has moved between the two, and by just that within one life.
LEMMA ApplyAdds ==
  ASSUME Typed, StampInv, NEW r \in Pending, Apply(r), r.n # None, seen.used <= r.used
  PROVE  /\ seen' = [life |-> r.life, used |-> r.used]
         /\ total' - total <= r.used - seen.used
         /\ r.life = seen.life => total' - total = r.used - seen.used
  <1> DEFINE grown == IF r.n < last THEN r.n ELSE r.n - last
  <1>1. /\ seen' = [life |-> r.life, used |-> r.used] /\ total' = total + grown
    BY DEF Apply
  <1>2. /\ r.n \in Nat /\ r.used \in Nat /\ r.life \in Nat /\ r.n > 0
        /\ last \in Nat /\ seen.used \in Nat /\ seen.life \in Nat /\ total \in Nat
    BY StampsTyped, BoundsTyped, NoneIsNew
       DEF Reports, Amounts, Typed, MasterTyped, StampInv
  <1>3. /\ r.life = seen.life => r.used - r.n = seen.used - last
        /\ seen.life < r.life => seen.used <= r.used - r.n
        /\ r.life < seen.life => r.used <= seen.used - last
    <2>1. Stamp(r) \in Stamps /\ LastStamp \in Stamps
      BY DEF Stamps
    <2>2. Fits(Stamp(r), LastStamp) /\ Fits(LastStamp, Stamp(r))
      BY <2>1 DEF StampInv
    <2> QED
      BY <2>2 DEF Fits, Stamp, LastStamp
  <1>4. last = 0 => seen.life = 0
    BY DEF StampInv
  <1>5. CASE r.life = seen.life
    <2>1. grown = r.used - seen.used
      BY <1>2, <1>3, <1>5
    <2> QED
      BY <1>1, <1>2, <2>1
  <1>6. CASE seen.life < r.life
    <2>1. grown <= r.n /\ r.n <= r.used - seen.used /\ grown \in Int
      BY <1>2, <1>3, <1>6
    <2> QED
      BY <1>1, <1>2, <1>6, <2>1
  <1>7. CASE r.life < seen.life
    BY <1>2, <1>3, <1>4, <1>7
  <1> QED
    BY <1>2, <1>5, <1>6, <1>7

\* Until a report is overtaken, none arrives that is older than the last.
LEMMA ArrivesInOrder ==
  ASSUME Typed, OrderInv, Arrives \/ ArrivesAstray, ~overtaken'
  PROVE  /\ ~overtaken
         /\ \E r \in Pending : Apply(r) /\ seen.used <= r.used
  <1>1. CASE Arrives
    <2>1. /\ Head(flight) \in Pending /\ Head(flight) = flight[1] /\ 1 \in 1 .. Len(flight)
      BY <1>1, Popped DEF Arrives, Pending, Typed, NetworkTyped
    <2> QED
      BY <1>1, <2>1 DEF Arrives, OrderInv
  <1>2. CASE ArrivesAstray
    <2>1. PICK r \in astray :
            /\ Apply(r)
            /\ overtaken' = \/ overtaken
                            \/ r.used < seen.used
                            \/ \E q \in ToSet(flight) : q.used < r.used
      BY <1>2 DEF ArrivesAstray
    <2>2. ~overtaken /\ ~(r.used < seen.used)
      BY <2>1
    <2>3. r.used \in Nat /\ seen.used \in Nat /\ r \in Pending
      BY BoundsTyped DEF Pending, Typed, NetworkTyped, MasterTyped, Reports, Amounts
    <2>4. seen.used <= r.used
      BY <2>2, <2>3
    <2> QED
      BY <2>1, <2>2, <2>3, <2>4
  <1> QED
    BY <1>1, <1>2

LEMMA OrderStep ==
  ASSUME Typed, CounterInv, RoundInv, StampInv, OrderInv, [Next]_vars
  PROVE  OrderInv'
  <1>1. /\ used \in Nat /\ seen.used \in Nat /\ Len(flight) \in Nat /\ overtaken \in BOOLEAN
        /\ \A i \in 1 .. Len(flight) : flight[i].used \in Nat
    <2>1. flight \in Seq(Reports) /\ Len(flight) \in Nat
      BY LenProperties DEF Typed, NetworkTyped
    <2>2. \A i \in 1 .. Len(flight) : flight[i] \in Reports
      BY <2>1, ElementOfSeq
    <2>3. used \in Nat /\ seen.used \in Nat
      BY BoundsTyped DEF Typed, UserTyped, MasterTyped, Amounts
    <2>4. overtaken \in BOOLEAN
      BY DEF Typed, MasterTyped
    <2>5. \A i \in 1 .. Len(flight) : flight[i].used \in Nat
      BY <2>2, BoundsTyped DEF Amounts, Reports
    <2> QED
      BY <2>1, <2>3, <2>4, <2>5
  <1>2. used' \in Nat /\ used <= used'
    BY <1>1, SendAppends, ArrivalStep
       DEF Next, Move, XrayStops, XrayStarts, Collect, evaluateSpeedLimits, WebSocketUp,
           Fails, ServeHTTP, handleProbeConfigUpdate, PingBegins, PingEnds, vars, traffic
  <1>3. CASE sendTrafficData \/ sendTrafficHTTP
    <2> DEFINE new == Reading(Round)
    <2>1. /\ flight' = Append(flight, new) /\ Collect
      BY <1>3, SendAppends
    <2>2. new \in Reports /\ new.used = used
      BY ReadingTyped
    <2>3. UNCHANGED <<used, seen>>
      BY <2>1 DEF Collect, traffic, master
    <2>4. overtaken' = overtaken
      BY <2>1 DEF Collect, master
    <2>5. seen.used <= used
      <3>1. LastStamp \in Stamps
        BY DEF Stamps
      <3>2. LastStamp.used <= used
        BY <3>1 DEF StampInv, Past
      <3> QED
        BY <3>2 DEF LastStamp
    <2> HIDE DEF new
    <2>6. /\ Len(flight') = Len(flight) + 1 /\ flight'[Len(flight) + 1] = new
          /\ \A i \in 1 .. Len(flight) : flight'[i] = flight[i]
      BY <2>1, <2>2, Appended DEF Typed, NetworkTyped
    <2>7. \A i \in 1 .. Len(flight') : i \in 1 .. Len(flight) \/ i = Len(flight) + 1
      BY <1>1, <2>6
    <2>8. \A i \in 1 .. Len(flight') : flight'[i].used <= used
      BY <1>1, <2>2, <2>6, <2>7 DEF OrderInv
    <2>9. \A i, j \in 1 .. Len(flight') : i < j => flight'[i].used <= flight'[j].used
      <3> SUFFICES ASSUME NEW i \in 1 .. Len(flight'), NEW j \in 1 .. Len(flight'), i < j
                   PROVE  flight'[i].used <= flight'[j].used
        OBVIOUS
      <3>1. i \in 1 .. Len(flight)
        BY <1>1, <2>6
      <3>2. CASE j = Len(flight) + 1
        BY <2>2, <2>6, <2>8, <3>2
      <3>3. CASE j \in 1 .. Len(flight)
        BY <2>6, <3>1, <3>3 DEF OrderInv
      <3> QED
        BY <2>7, <3>2, <3>3
    <2>10. ~overtaken => \A i \in 1 .. Len(flight') : seen.used <= flight'[i].used
      BY <2>2, <2>5, <2>6, <2>7 DEF OrderInv
    <2> QED
      BY <2>3, <2>4, <2>8, <2>9, <2>10 DEF OrderInv
  <1>4. CASE Arrives
    <2>1. /\ Len(flight') \in Nat /\ Len(flight') = Len(flight) - 1
          /\ \A i \in 1 .. Len(flight') : flight'[i] = flight[i + 1]
          /\ Head(flight) = flight[1] /\ Len(flight) > 0
      BY <1>1, <1>4, Popped, LenProperties DEF Arrives, Typed, NetworkTyped
    <2>2. \A i \in 1 .. Len(flight') : i + 1 \in 1 .. Len(flight)
      BY <1>1, <2>1
    <2>3. \A i, j \in 1 .. Len(flight') : i < j => flight'[i].used <= flight'[j].used
      BY <2>1, <2>2 DEF OrderInv
    <2>4. \A i \in 1 .. Len(flight') : flight'[i].used <= used
      BY <2>1, <2>2 DEF OrderInv
    <2>5. used' = used /\ overtaken' = overtaken
      BY <1>4 DEF Arrives, traffic
    <2>6. seen'.used \in {seen.used, flight[1].used}
      BY <1>4, <2>1 DEF Arrives, Apply
    <2>7. \A i \in 1 .. Len(flight') : flight[1].used <= flight'[i].used
      <3>1. \A i \in 1 .. Len(flight') : 1 < i + 1 /\ 1 \in 1 .. Len(flight)
        BY <1>1, <2>1
      <3> QED
        BY <2>1, <2>2, <3>1 DEF OrderInv
    <2>8. ~overtaken => \A i \in 1 .. Len(flight') : seen'.used <= flight'[i].used
      BY <2>1, <2>2, <2>6, <2>7 DEF OrderInv
    <2> QED
      BY <2>3, <2>4, <2>5, <2>8 DEF OrderInv
  <1>5. CASE ArrivesAstray
    <2>1. PICK r \in astray :
            /\ Apply(r)
            /\ overtaken' = \/ overtaken
                            \/ r.used < seen.used
                            \/ \E q \in ToSet(flight) : q.used < r.used
      BY <1>5 DEF ArrivesAstray
    <2>2. flight' = flight /\ used' = used
      BY <1>5 DEF ArrivesAstray, traffic
    <2>3. r.used \in Nat
      BY BoundsTyped DEF Typed, NetworkTyped, Reports, Amounts
    <2>4. seen'.used \in {seen.used, r.used}
      BY <2>1 DEF Apply
    <2>5. ~overtaken' => \A i \in 1 .. Len(flight) : r.used <= flight[i].used
      BY <1>1, <2>1, <2>3, FlightElements DEF Typed, NetworkTyped
    <2>6. ~overtaken' => ~overtaken
      BY <2>1
    <2>7. ~overtaken' => \A i \in 1 .. Len(flight) : seen'.used <= flight[i].used
      BY <2>4, <2>5, <2>6 DEF OrderInv
    <2> QED
      BY <2>2, <2>7 DEF OrderInv
  <1>6. CASE Fails
    <2>1. flight' = <<>> /\ Len(<<>>) = 0
      BY <1>6 DEF Fails
    <2>2. 1 .. 0 = {}
      OBVIOUS
    <2> QED
      BY <2>1, <2>2 DEF OrderInv
  <1>7. CASE UNCHANGED <<flight, master>>
    <2>1. \A i \in 1 .. Len(flight) : flight[i].used <= used'
      BY <1>1, <1>2 DEF OrderInv
    <2>2. flight' = flight /\ seen' = seen /\ overtaken' = overtaken
      BY <1>7 DEF master
    <2> QED
      BY <2>1, <2>2 DEF OrderInv
  <1>8. \/ sendTrafficData \/ sendTrafficHTTP \/ Arrives \/ ArrivesAstray \/ Fails
        \/ UNCHANGED <<flight, master>>
    BY DEF Next, Move, XrayStops, XrayStarts, evaluateSpeedLimits, WebSocketUp, ServeHTTP,
           handleProbeConfigUpdate, PingBegins, PingEnds, vars, network, master
  <1> QED
    BY <1>3, <1>4, <1>5, <1>6, <1>7, <1>8

-----------------------------------------------------------------------------
LEMMA InitInv == Init => Inv /\ NeverOverbilled /\ RoundOnce
  <1> SUFFICES ASSUME Init PROVE Inv /\ NeverOverbilled /\ RoundOnce
    OBVIOUS
  <1> USE DEF Init
  <1>1. <<>> \in Seq(Reports) /\ Len(<<>>) = 0 /\ 1 .. 0 = {} /\ ToSet(<<>>) = {}
    BY DEF ToSet
  <1>2. UserTyped /\ SnapTyped
    BY BoundsTyped DEF UserTyped, SnapTyped, Amounts
  <1>3. NetworkTyped
    BY <1>1, BoundsTyped, FS_EmptySet DEF NetworkTyped
  <1>4. MasterTyped
    <2>1. 0 \in Amounts /\ 0 \in 0 .. MaxLives
      BY BoundsTyped DEF Amounts
    <2>2. seen \in [life : 0 .. MaxLives, used : Amounts]
      BY <2>1
    <2>3. overtaken \in BOOLEAN
      OBVIOUS
    <2> QED
      BY <2>1, <2>2, <2>3 DEF MasterTyped
  <1>5. ProbeTyped
    <2>1. 0 \in 0 .. MaxRounds
      BY BoundsTyped
    <2>2. collect \in BOOLEAN
      OBVIOUS
    <2> QED
      BY <2>1, <2>2 DEF ProbeTyped
  <1>6. CounterInv /\ SnapInv
    BY DEF CounterInv, SnapInv
  <1>7. Pending = {} /\ Stamps = {LastStamp} /\ LastStamp = [n |-> 0, life |-> 0, used |-> 0]
    BY <1>1 DEF Pending, Stamps, LastStamp
  <1>8. Past(LastStamp) /\ Fits(LastStamp, LastStamp)
    BY <1>7 DEF Past, Fits
  <1>9. StampInv
    BY <1>7, <1>8 DEF StampInv
  <1>10. OrderInv
    BY <1>1 DEF OrderInv
  <1>11. RoundInv
    BY <1>7 DEF RoundInv
  <1>12. NeverOverbilled /\ RoundOnce
    BY DEF NeverOverbilled, RoundOnce
  <1> QED
    BY <1>2, <1>3, <1>4, <1>5, <1>6, <1>9, <1>10, <1>11, <1>12 DEF Inv, Typed

LEMMA NextInv == Inv /\ [Next]_vars => Inv'
  <1> SUFFICES ASSUME Inv, [Next]_vars PROVE Inv'
    OBVIOUS
  <1>1. UserTyped' /\ SnapTyped' /\ CounterInv' /\ SnapInv'
    BY UserStep DEF Inv
  <1>2. NetworkTyped' /\ MasterTyped'
    BY NetworkTypedStep, MasterTypedStep DEF Inv
  <1>3. ProbeTyped' /\ RoundInv'
    BY RoundStep DEF Inv
  <1>4. StampInv' /\ OrderInv'
    BY StampStep, OrderStep DEF Inv
  <1> QED
    BY <1>1, <1>2, <1>3, <1>4 DEF Inv, Typed

\* Inv is inductive.
THEOREM Invariance == Spec => []Inv
  <1>1. Init => Inv
    BY InitInv
  <1> QED
    BY <1>1, NextInv, PTL DEF Spec

\* The variables of the reports keep their types, and the queues their bounds.
THEOREM TypeCorrect == Spec => []TypeOK
  <1>1. Inv => TypeOK
    BY BoundsTyped DEF Inv, Typed, UserTyped, SnapTyped, NetworkTyped, MasterTyped, ProbeTyped,
       TypeOK
  <1> QED
    BY <1>1, Invariance, PTL

\* The speed rules are told of no more than the user moved since the snapshot,
\* although the counter starts again from nothing with Xray.
THEOREM RulesAreFair == Spec => []JudgedFairly
  <1>1. Inv => JudgedFairly
    BY BoundsTyped, NoneIsNew
       DEF Inv, Typed, UserTyped, SnapTyped, SnapInv, JudgedFairly, SnapshotDelta,
           SnapshotUserTraffic, Amounts
  <1> QED
    BY <1>1, Invariance, PTL

\* Whatever is lost, astray or read twice, and however often Xray starts: the
\* master's total is no more than what the user had moved.
THEOREM NoOverbilling == Spec => []NeverOverbilled
  <1>1. Inv /\ NeverOverbilled /\ [Next]_vars => NeverOverbilled'
    <2> SUFFICES ASSUME Inv, NeverOverbilled, [Next]_vars, ~overtaken'
                 PROVE  total' <= seen'.used
      BY DEF NeverOverbilled
    <2>1. total \in Nat /\ seen.used \in Nat
      BY BoundsTyped DEF Inv, Typed, MasterTyped, Amounts
    <2>2. CASE UNCHANGED master
      BY <2>2 DEF NeverOverbilled, master
    <2>3. CASE Arrives \/ ArrivesAstray
      <3>1. ~overtaken /\ \E r \in Pending : Apply(r) /\ seen.used <= r.used
        BY <2>3, ArrivesInOrder DEF Inv
      <3>2. PICK r \in Pending : Apply(r) /\ seen.used <= r.used
        BY <3>1
      <3>3. total <= seen.used
        BY <3>1 DEF NeverOverbilled
      <3>4. r.used \in Nat /\ total' \in Nat
        BY StampsTyped, MasterTypedStep, BoundsTyped
           DEF Inv, Typed, MasterTyped, Reports, Amounts
      <3>5. CASE r.n # None
        <4>1. seen'.used = r.used /\ total' - total <= r.used - seen.used
          BY <3>2, <3>5, ApplyAdds DEF Inv
        <4> QED
          BY <2>1, <3>3, <3>4, <4>1
      <3>6. CASE r.n = None
        BY <3>2, <3>3, <3>6 DEF Apply
      <3> QED
        BY <3>5, <3>6
    <2> QED
      BY <2>2, <2>3, NetworkStep DEF Inv
  <1>2. Init => NeverOverbilled
    BY InitInv
  <1> QED
    BY <1>1, <1>2, Invariance, PTL DEF Spec

\* Between two reports of one life of Xray the total grows by what was moved,
\* whatever was lost between them.
THEOREM NothingIsMissed == Spec => NothingMissed
  <1>1. Inv /\ [Next]_vars =>
          [seen' # seen /\ seen'.life = seen.life /\ ~overtaken' =>
             total' - total = seen'.used - seen.used]_vars
    <2> SUFFICES ASSUME Inv, [Next]_vars, seen' # seen, seen'.life = seen.life, ~overtaken'
                 PROVE  total' - total = seen'.used - seen.used
      OBVIOUS
    <2>1. Arrives \/ ArrivesAstray
      BY NetworkStep DEF Inv, master
    <2>2. PICK r \in Pending : Apply(r) /\ seen.used <= r.used
      BY <2>1, ArrivesInOrder DEF Inv
    <2>3. r.n # None
      BY <2>2 DEF Apply
    <2> QED
      BY <2>2, <2>3, ApplyAdds DEF Inv
  <1> QED
    BY <1>1, Invariance, PTL DEF Spec, NothingMissed

\* A ping round goes with one report and reaches the master at most once.
THEOREM RoundsGoOnce == Spec => []RoundOnce
  <1>1. Inv /\ RoundOnce /\ [Next]_vars => RoundOnce'
    <2> SUFFICES ASSUME Inv, RoundOnce, [Next]_vars PROVE RoundOnce'
      OBVIOUS
    <2> DEFINE gone == shown \cup {r.round : r \in astray}
    <2>1. /\ flight \in Seq(Reports) /\ Len(flight) \in Nat /\ DOMAIN flight = 1 .. Len(flight)
          /\ sent \in Nat /\ latest \in Nat
      BY LenProperties, BoundsTyped DEF Inv, Typed, NetworkTyped, ProbeTyped
    <2>2. \A i \in 1 .. Len(flight) : flight[i].round \in Nat /\ flight[i].round <= sent
      <3>1. \A i \in 1 .. Len(flight) : flight[i] \in Pending
        BY <2>1, FlightElements DEF Pending
      <3>2. Pending \subseteq Reports
        BY StampsTyped DEF Inv
      <3>3. \A r \in Pending : r.round \in Nat
        BY <3>2, BoundsTyped DEF Reports
      <3> QED
        BY <3>1, <3>3 DEF Inv, RoundInv
    <2>3. \A x \in gone : x \in Nat /\ x <= sent
      BY <2>1, StampsTyped, BoundsTyped DEF Inv, RoundInv, Pending, Reports
    <2>4. CASE sendTrafficData \/ sendTrafficHTTP
      <3> DEFINE new == Reading(Round)
      <3>1. flight' = Append(flight, new) /\ UNCHANGED <<shown, astray>>
        BY <2>4, SendAppends DEF Inv, Collect, master
      <3>2. new \in Reports /\ new.round = Round
        BY ReadingTyped DEF Inv
      <3> HIDE DEF new
      <3>3. /\ Len(flight') = Len(flight) + 1 /\ flight'[Len(flight) + 1] = new
            /\ \A i \in 1 .. Len(flight) : flight'[i] = flight[i]
            /\ flight' \in Seq(Reports)
        BY <2>1, <3>1, <3>2, Appended
      <3>4. \A i \in DOMAIN flight' : i \in 1 .. Len(flight) \/ i = Len(flight) + 1
        BY <2>1, <3>3, LenProperties
      <3>5. new.round \in Nat /\ (new.round # 0 => new.round > sent)
        BY <2>1, <3>2 DEF Round, Inv, RoundInv
      <3>6. \A i, j \in DOMAIN flight' :
              i < j /\ flight'[i].round # 0 /\ flight'[j].round # 0 =>
                flight'[i].round < flight'[j].round
        <4> SUFFICES ASSUME NEW i \in DOMAIN flight', NEW j \in DOMAIN flight', i < j,
                            flight'[i].round # 0, flight'[j].round # 0
                     PROVE  flight'[i].round < flight'[j].round
          OBVIOUS
        <4>1. i \in 1 .. Len(flight)
          BY <2>1, <3>4
        <4>2. CASE j = Len(flight) + 1
          <5>1. flight'[j] = new /\ flight'[i] = flight[i]
            BY <3>3, <4>1, <4>2
          <5>2. flight[i].round \in Nat /\ flight[i].round <= sent
            BY <2>2, <4>1
          <5> QED
            BY <2>1, <3>5, <5>1, <5>2
        <4>3. CASE j \in 1 .. Len(flight)
          BY <2>1, <3>3, <4>1, <4>3 DEF RoundOnce
        <4> QED
          BY <3>4, <4>2, <4>3
      <3>7. \A i \in DOMAIN flight' : flight'[i].round # 0 => flight'[i].round \notin gone
        <4> SUFFICES ASSUME NEW i \in DOMAIN flight', flight'[i].round # 0
                     PROVE  flight'[i].round \notin gone
          OBVIOUS
        <4>1. CASE i = Len(flight) + 1
          <5>1. flight'[i] = new
            BY <3>3, <4>1
          <5>2. new.round > sent
            BY <3>5, <5>1
          <5>3. new.round \notin gone
            BY <2>1, <2>3, <3>5, <5>2
          <5> QED
            BY <5>1, <5>3
        <4>2. CASE i \in 1 .. Len(flight)
          BY <2>1, <3>3, <4>2 DEF RoundOnce
        <4> QED
          BY <3>4, <4>1, <4>2
      <3> QED
        BY <3>1, <3>6, <3>7 DEF RoundOnce
    <2>5. CASE Arrives
      <3>1. flight' = Tail(flight) /\ flight # <<>> /\ astray' = astray /\ Apply(Head(flight))
        BY <2>5 DEF Arrives
      <3>2. /\ flight' \in Seq(Reports) /\ Len(flight') = Len(flight) - 1 /\ Len(flight) > 0
            /\ \A i \in 1 .. Len(flight') : flight'[i] = flight[i + 1]
            /\ Head(flight) = flight[1]
        BY <2>1, <3>1, Popped
      <3>3. /\ DOMAIN flight' = 1 .. Len(flight') /\ 1 \in 1 .. Len(flight)
            /\ \A i \in 1 .. Len(flight') : i + 1 \in 1 .. Len(flight) /\ 1 < i + 1
        BY <2>1, <3>2, LenProperties
      <3>4. shown' = shown \cup ({flight[1].round} \ {0})
        BY <3>1, <3>2 DEF Apply
      <3>5. \A i, j \in DOMAIN flight' :
              i < j /\ flight'[i].round # 0 /\ flight'[j].round # 0 =>
                flight'[i].round < flight'[j].round
        <4> SUFFICES ASSUME NEW i \in DOMAIN flight', NEW j \in DOMAIN flight', i < j,
                            flight'[i].round # 0, flight'[j].round # 0
                     PROVE  flight'[i].round < flight'[j].round
          OBVIOUS
        <4>1. flight'[i] = flight[i + 1] /\ flight'[j] = flight[j + 1]
          BY <3>2, <3>3
        <4>2. i + 1 \in DOMAIN flight /\ j + 1 \in DOMAIN flight
          BY <2>1, <3>3
        <4>3. i + 1 < j + 1
          BY <3>2, <3>3, LenProperties
        <4> QED
          BY <4>1, <4>2, <4>3 DEF RoundOnce
      <3>6. \A i \in DOMAIN flight' : flight'[i].round # 0 =>
              flight'[i].round \notin gone \cup ({flight[1].round} \ {0})
        <4> SUFFICES ASSUME NEW i \in DOMAIN flight', flight'[i].round # 0
                     PROVE  flight'[i].round \notin gone \cup ({flight[1].round} \ {0})
          OBVIOUS
        <4>1. /\ flight'[i] = flight[i + 1] /\ i + 1 \in DOMAIN flight /\ 1 \in DOMAIN flight
              /\ 1 < i + 1
          BY <2>1, <3>2, <3>3
        <4>2. flight[i + 1].round \notin gone
          BY <4>1 DEF RoundOnce
        <4>3. flight[1].round # 0 => flight[1].round < flight[i + 1].round
          BY <4>1 DEF RoundOnce
        <4>4. flight[1].round \in Nat /\ flight[i + 1].round \in Nat
          BY <2>1, <2>2, <4>1
        <4> QED
          BY <4>1, <4>2, <4>3, <4>4
      <3> QED
        BY <3>1, <3>4, <3>5, <3>6 DEF RoundOnce
    <2>6. CASE ArrivesAstray
      <3>1. PICK r \in astray : Apply(r) /\ astray' = astray \ {r} /\ flight' = flight
        BY <2>6 DEF ArrivesAstray
      <3>2. shown' \cup {q.round : q \in astray'} \subseteq gone
        BY <3>1 DEF Apply
      <3> QED
        BY <3>1, <3>2 DEF RoundOnce
    <2>7. CASE ServeHTTP
      <3>1. astray' = astray \cup {Reading(0)} /\ UNCHANGED <<flight, shown>>
        BY <2>7 DEF ServeHTTP, master
      <3>2. Reading(0).round = 0
        BY DEF Reading
      <3>3. shown' \cup {q.round : q \in astray'} \subseteq gone \cup {0}
        BY <3>1, <3>2
      <3> QED
        BY <3>1, <3>3 DEF RoundOnce
    <2>8. CASE Fails
      <3>1. flight' = <<>> /\ DOMAIN <<>> = {}
        BY <2>8 DEF Fails
      <3> QED
        BY <3>1 DEF RoundOnce
    <2>9. CASE UNCHANGED <<flight, astray, shown>>
      BY <2>9 DEF RoundOnce
    <2> QED
      BY <2>4, <2>5, <2>6, <2>7, <2>8, <2>9
         DEF Next, Move, XrayStops, XrayStarts, evaluateSpeedLimits, WebSocketUp,
             handleProbeConfigUpdate, PingBegins, PingEnds, vars, network, master
  <1>2. Init => RoundOnce
    BY InitInv
  <1> QED
    BY <1>1, <1>2, Invariance, PTL DEF Spec

=============================================================================
