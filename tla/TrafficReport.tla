--------------------------- MODULE TrafficReport ---------------------------
(***************************************************************************)
(* What the agent reports of one user's traffic, and of its ping rounds:   *)
(*   internal/agent/client.go      sendTrafficData, sendTrafficHTTP,       *)
(*                                 evaluateSpeedLimits, runProbePingLoop   *)
(*   internal/agent/regionping.go  probeRegions                            *)
(*   internal/embedded/stats.go    CollectStats, SnapshotUserTraffic       *)
(*   internal/handler/pull_api_handler.go   ServeHTTP                      *)
(*                                                                         *)
(* Xray counts the user's bytes and starts from nothing when it starts     *)
(* again.  A report carries the counter as it is; the master computes the  *)
(* total: it adds the difference to the last report, or all of it when it  *)
(* is less than the last ("restart").  Reports of a connection arrive in   *)
(* order.  One may still arrive after its connection broke or its request  *)
(* timed out, and an answer to the master's own request travels on a       *)
(* connection of its own: these are astray, and may be overtaken.          *)
(*                                                                         *)
(* The automatic speed limits are judged by what the counter has grown     *)
(* since it was read last.  Time is abstracted: for the moment the code    *)
(* remembers, the model notes what the user had used by then.              *)
(***************************************************************************)
EXTENDS Integers, Sequences, SequencesExt, FiniteSets

CONSTANTS
    MaxUsed,    \* bound: bytes the user moves
    MaxLives,   \* bound: how often Xray is started
    MaxBreaks,  \* bound: lost connections and failed requests
    MaxFlight,  \* bound: reports on their way on the connection
    MaxAstray,  \* bound: reports astray
    MaxRounds,  \* bound: ping rounds
    None

ASSUME BoundsTyped ==
    /\ {MaxUsed, MaxLives, MaxBreaks, MaxFlight, MaxAstray, MaxRounds} \subseteq Nat
    /\ MaxLives > 0 /\ MaxFlight > 0

ASSUME NoneIsNew == None \notin Int

Amounts == 0 .. MaxUsed

\* n is the counter, None when the report does not name the user; round is the
\* ping round, 0 for none.  life and used say when the counter was read.
Reports == [n : Amounts \cup {None}, round : 0 .. MaxRounds,
            life : 0 .. MaxLives, used : Amounts]

VARIABLES
    used,       \* history: what the user has really moved
    running,    \* Xray runs
    life,       \* history: how often Xray was started
    counter,    \* user>>>email>>>traffic, 0 while there is no such counter
    snap,       \* lastUserTrafficSnap, None for nil, and lastLimitEvalTime,
                \* which is only looked at together with it: n and used
    mode,       \* "ws" while there is a WebSocket, else "http"
    flight,     \* reports on the connection, in order
    astray,     \* reports that may arrive at any time, or never
    breaks,     \* connections lost and requests failed so far
    last, total, \* the master's: the last counter, the traffic of the user
    seen,       \* history: life and used of the last report the master applied
    overtaken,  \* history: a report astray was applied out of order
    collect,    \* probeCollectPing, with targets
    pinging,    \* the round in progress, 0 for none
    latest,     \* probeLatestPing and probeLatestPingAt: the latest round
    sent,       \* probeLatestPingSentAt
    shown       \* the master's: rounds it has got

traffic == <<used, running, life, counter>>
network == <<mode, flight, astray, breaks>>
master == <<last, total, seen, overtaken, shown>>
probe == <<collect, pinging, latest, sent>>
vars == <<traffic, snap, network, master, probe>>

Init ==
    /\ used = 0 /\ running = TRUE /\ life = 1 /\ counter = 0
    /\ snap = None
    /\ mode = "http" /\ flight = <<>> /\ astray = {} /\ breaks = 0
    /\ last = 0 /\ total = 0 /\ seen = [life |-> 0, used |-> 0] /\ overtaken = FALSE
    /\ collect = FALSE /\ pinging = 0 /\ latest = 0 /\ sent = 0 /\ shown = {}

(***************************************************************************)
(* The user and Xray.                                                      *)
(***************************************************************************)
Move ==
    /\ running /\ used < MaxUsed
    /\ used' = used + 1 /\ counter' = counter + 1
    /\ UNCHANGED <<running, life, snap, network, master, probe>>

XrayStops ==
    /\ running /\ life < MaxLives
    /\ running' = FALSE /\ counter' = 0
    /\ UNCHANGED <<used, life, snap, network, master, probe>>

XrayStarts ==
    /\ ~running
    /\ running' = TRUE /\ life' = life + 1
    /\ UNCHANGED <<used, counter, snap, network, master, probe>>

(***************************************************************************)
(* Reading the counters.                                                   *)
(***************************************************************************)
\* Both read the counter and leave it as it is; the report has no entry for a
\* user who has no counter.
CollectStats == IF counter > 0 THEN counter ELSE None
SnapshotUserTraffic == counter

\* collectLocalMetrics: nothing while Xray does not run.
Counter == IF running THEN CollectStats ELSE None

\* Mutant: the latest round goes with every report.
EveryRound == IF collect THEN latest ELSE 0

\* probeLatestPingSnapshot: a round goes with one report.
Round == IF collect /\ latest # sent THEN latest ELSE 0

Reading(round) == [n |-> Counter, round |-> round, life |-> life, used |-> used]

\* Mutant: reading resets the counter.
CollectAndReset ==
    /\ snap' = None
    /\ sent' = IF Round # 0 THEN Round ELSE sent
    /\ counter' = 0
    /\ UNCHANGED <<used, running, life, master, collect, pinging, latest>>

\* Mutant: the snapshot is kept.
CollectAndKeep ==
    /\ snap' = IF snap = None THEN None ELSE [snap EXCEPT !.used = used]
    /\ sent' = IF Round # 0 THEN Round ELSE sent
    /\ UNCHANGED <<traffic, master, collect, pinging, latest>>

\* Both senders: the counters are read, the snapshot of the speed rules is
\* forgotten, the latest round is taken.
Collect ==
    /\ snap' = None
    /\ sent' = IF Round # 0 THEN Round ELSE sent
    /\ UNCHANGED <<traffic, master, collect, pinging, latest>>

\* What the rules are given: the growth of the counter since the snapshot.
SnapshotDelta ==
    IF SnapshotUserTraffic > snap.n THEN SnapshotUserTraffic - snap.n ELSE 0

(***************************************************************************)
(* The loops of the client.                                                *)
(***************************************************************************)
\* Mutant: the report is sent by a goroutine of its own.
SendUnordered ==
    /\ mode = "ws" /\ Len(flight) < MaxFlight
    /\ Collect
    /\ flight' = <<Reading(Round)>> \o flight
    /\ UNCHANGED <<mode, astray, breaks>>

\* Mutant: nothing is sent while the user is idle.
SendIfMoved ==
    /\ mode = "ws" /\ Len(flight) < MaxFlight
    /\ snap # None => SnapshotDelta > 0
    /\ Collect
    /\ flight' = Append(flight, Reading(Round))
    /\ UNCHANGED <<mode, astray, breaks>>

sendTrafficData ==
    /\ mode = "ws" /\ Len(flight) < MaxFlight
    /\ Collect
    /\ flight' = Append(flight, Reading(Round))
    /\ UNCHANGED <<mode, astray, breaks>>

\* The loop waits for the answer.
sendTrafficHTTP ==
    /\ mode = "http" /\ flight = <<>>
    /\ Collect
    /\ flight' = <<Reading(Round)>>
    /\ UNCHANGED <<mode, astray, breaks>>

\* The first call after a report only takes the snapshot.
evaluateSpeedLimits ==
    /\ mode = "http" => flight = <<>>
    /\ running
    /\ snap' = [n |-> SnapshotUserTraffic, used |-> used]
    /\ UNCHANGED <<traffic, network, master, probe>>

\* Without a WebSocket the reports go by HTTP, also while the client waits to
\* connect again.
WebSocketUp ==
    /\ mode = "http" /\ flight = <<>>
    /\ mode' = "ws"
    /\ UNCHANGED <<traffic, snap, flight, astray, breaks, master, probe>>

\* The connection breaks, or the request fails: a report is lost, or is astray.
Fails ==
    /\ breaks < MaxBreaks
    /\ breaks' = breaks + 1
    /\ mode = "http" => flight # <<>>
    /\ mode' = "http"
    /\ flight' = <<>>
    /\ \E S \in SUBSET {r \in ToSet(flight) : r.n # None \/ r.round # 0} :
           /\ Cardinality(astray \cup S) <= MaxAstray
           /\ astray' = astray \cup S
    /\ UNCHANGED <<traffic, snap, master, probe>>

\* The master asks for the counters; its answer has no ping round.
ServeHTTP ==
    /\ Counter # None /\ Cardinality(astray) < MaxAstray
    /\ astray' = astray \cup {Reading(0)}
    /\ UNCHANGED <<traffic, snap, mode, flight, breaks, master, probe>>

(***************************************************************************)
(* The master, as the comment of CollectStats describes it.                *)
(***************************************************************************)
Apply(r) ==
    /\ shown' = shown \cup ({r.round} \ {0})
    /\ IF r.n # None
       THEN /\ total' = total + (IF r.n < last THEN r.n ELSE r.n - last)
            /\ last' = r.n
            /\ seen' = [life |-> r.life, used |-> r.used]
       ELSE UNCHANGED <<last, total, seen>>

Arrives ==
    /\ flight # <<>>
    /\ Apply(Head(flight))
    /\ flight' = Tail(flight)
    /\ UNCHANGED <<traffic, snap, mode, astray, breaks, overtaken, probe>>

ArrivesAstray ==
    \E r \in astray :
        /\ Apply(r)
        /\ astray' = astray \ {r}
        /\ overtaken' = \/ overtaken
                        \/ r.used < seen.used
                        \/ \E q \in ToSet(flight) : q.used < r.used
        /\ UNCHANGED <<traffic, snap, mode, flight, breaks, probe>>

(***************************************************************************)
(* The ping rounds.                                                        *)
(***************************************************************************)
handleProbeConfigUpdate ==
    /\ collect' = ~collect
    /\ UNCHANGED <<traffic, snap, network, master, pinging, latest, sent>>

\* probeRegions gives a round one time, later than that of the last one.
NextRound == latest + 1

\* The loop looks at the settings, and pings outside the lock.
PingBegins ==
    /\ pinging = 0 /\ collect /\ latest < MaxRounds
    /\ pinging' = NextRound
    /\ UNCHANGED <<traffic, snap, network, master, collect, latest, sent>>

PingEnds ==
    /\ pinging # 0
    /\ latest' = pinging
    /\ pinging' = 0
    /\ UNCHANGED <<traffic, snap, network, master, collect, sent>>

Next ==
    \/ Move \/ XrayStops \/ XrayStarts
    \/ sendTrafficData \/ sendTrafficHTTP \/ evaluateSpeedLimits
    \/ WebSocketUp \/ Fails \/ ServeHTTP
    \/ Arrives \/ ArrivesAstray
    \/ handleProbeConfigUpdate \/ PingBegins \/ PingEnds

\* The tickers keep ticking, and a connection that is not lost delivers.
Fairness ==
    /\ WF_vars(sendTrafficData \/ sendTrafficHTTP)
    /\ WF_vars(Arrives)

Spec == Init /\ [][Next]_vars /\ Fairness
-----------------------------------------------------------------------------
(***************************************************************************)
(* Properties                                                              *)
(***************************************************************************)

TypeOK ==
    /\ used \in Amounts /\ running \in BOOLEAN /\ life \in 1 .. MaxLives
    /\ counter \in Amounts /\ last \in Amounts /\ total \in Nat
    /\ snap \in [n : Amounts, used : Amounts] \cup {None}
    /\ mode \in {"ws", "http"} /\ flight \in Seq(Reports) /\ astray \subseteq Reports
    /\ Len(flight) <= MaxFlight /\ Cardinality(astray) <= MaxAstray
    /\ breaks \in 0 .. MaxBreaks
    /\ seen \in [life : 0 .. MaxLives, used : Amounts] /\ overtaken \in BOOLEAN
    /\ collect \in BOOLEAN /\ shown \subseteq 1 .. MaxRounds
    /\ {pinging, latest, sent} \subseteq 0 .. MaxRounds

\* Whatever is lost, and however often Xray starts again, the master never
\* counts more than the user had moved when the report was made, as long as no
\* report overtook another.
NeverOverbilled == ~overtaken => total <= seen.used

\* A lost report loses nothing: while Xray runs on, the next report that
\* arrives brings the total up by all that was moved since the last.
NothingMissed ==
    [][seen' # seen /\ seen'.life = seen.life /\ ~overtaken' =>
           total' - total = seen'.used - seen.used]_vars

\* A ping round is reported once: its points do not fill the master's ring
\* again with the next reports.
RoundOnce ==
    LET Carries(i) == flight[i].round # 0
    IN /\ \A i, j \in DOMAIN flight :
              i < j /\ Carries(i) /\ Carries(j) => flight[i].round < flight[j].round
       /\ \A i \in DOMAIN flight :
              Carries(i) => flight[i].round \notin shown \cup {r.round : r \in astray}

\* The rules are never told of more than the user has moved in the time they
\* divide it by, also after Xray has started again.
JudgedFairly ==
    running /\ snap # None => SnapshotDelta <= used - snap.used

\* What the master knows is up to date in the end.
CaughtUp == <>[](running /\ counter > 0 => last = counter)
=============================================================================
