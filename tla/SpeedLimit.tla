----------------------------- MODULE SpeedLimit -----------------------------
(***************************************************************************)
(* The speed limit of one user of the embedded proxy:                      *)
(*   internal/limiter/limiter.go    GetUserBucket, SyncInboundLimiter,     *)
(*                                  AddInboundLimiter, GetOnlineUsers,     *)
(*                                  SetUserSpeed                           *)
(*   internal/limiter/conn.go       LookupBucketByEmail                    *)
(*   internal/embedded/monitor.go   Evaluate, applyLimit                   *)
(* Users share nothing but the maps, so one stands for all of them.        *)
(*                                                                         *)
(* A connection asks for its token bucket once and keeps it; the limiter   *)
(* changes the limit of a user by changing the bucket in place.  A bucket  *)
(* is in the hub of its inbound, from which it may be dropped while a      *)
(* connection still holds it.  Every inbound has a hub of its own, and a   *)
(* POST to /api/child/limiter gives it a new one.  Buckets and hubs that   *)
(* nobody refers to are garbage and used again.                            *)
(*                                                                         *)
(* Three kinds of goroutines interleave: the connections; the client, which *)
(* evaluates the automatic limits, applies pushes and collects the online  *)
(* users (loop is what it is doing); and the callbacks that lift automatic *)
(* limits (restore).  Time is abstracted: a limit that is in force may end *)
(* at any moment.                                                          *)
(***************************************************************************)
EXTENDS Naturals, FiniteSets

CONSTANTS
    Connections,      \* connections, which come and go
    Inbounds,       \* inbounds
    TagOf,      \* the inbound a connection arrives at
    Pushes,     \* what is pushed: the limit of the node and of the user, 0 for none
    AutoRate,       \* the rate of the automatic limit
    Unlimited,  \* the rate of a bucket without a limit
    HubIds,     \* bound: hubs of an inbound that somebody still holds
    MaxHubs,    \* bound: hubs in use when one more is made
    BucketIds,  \* bound: buckets of a hub that somebody still holds
    MaxRestores, \* bound: callbacks that are due at the same time
    Nil

ASSUME TagOfTyped == TagOf \in [Connections -> Inbounds]
Limits == {0} \cup {p.node : p \in Pushes} \cup {p.user : p \in Pushes}

ASSUME LimitsTyped ==
    /\ Pushes \subseteq [node : Nat, user : Nat]
    /\ AutoRate \notin Limits /\ Unlimited \notin Limits \cup {AutoRate}
\* A name says only where the object was made.
Hubs == Inbounds \X HubIds
Buckets == Hubs \X BucketIds

InboundInfo == [node : Limits, user : Limits, hub : Hubs]

ASSUME NilIsNew ==
    Nil \notin Buckets \cup Hubs \cup Limits \cup {AutoRate, Unlimited} \cup InboundInfo
ASSUME BoundsTyped == MaxRestores \in Nat /\ MaxHubs \in Nat

VARIABLES
    info,       \* InboundInfo: the limits and the hub of an inbound, or Nil
    bucket,     \* BucketHub: the user's bucket in a hub, or Nil
    online,     \* UserOnlineIP: whether the user has an entry
    rate,       \* the limit of a bucket
    conn,       \* connection: where it is, its hub, its bucket, its limit
    marked,     \* autoLimited has the user
    attached,   \* the monitor's limiter is that of the running Xray
    limited,    \* now.Before(limitedUntil)
    restore,    \* restore callbacks: inbounds still to visit, and the visit
    loop,       \* the client goroutine
    undone,     \* history: something has interfered with the limit in force
    stale       \* history: inbounds whose bucket got the rate of an older push

limiter == <<info, bucket, online, rate, marked>>
history == <<undone, stale>>
speedVars == <<limiter, conn, attached, limited, restore, loop, history>>

Callbacks == 1 .. MaxRestores
NoConn == [at |-> "idle", hub |-> Nil, bucket |-> Nil, limit |-> 0]
NoRestore == [at |-> "off", todo |-> {}, hub |-> Nil, limit |-> 0]
NoLoop == [at |-> "idle", todo |-> {}, hub |-> Nil, bucket |-> Nil, drop |-> FALSE]

SpeedInit ==
    /\ info = [t \in Inbounds |-> Nil]
    /\ bucket = [h \in Hubs |-> Nil]
    /\ online = [h \in Hubs |-> FALSE]
    /\ rate = [b \in Buckets |-> Unlimited]
    /\ conn = [c \in Connections |-> NoConn]
    /\ marked = FALSE
    /\ attached = FALSE
    /\ limited = FALSE
    /\ restore = [k \in Callbacks |-> NoRestore]
    /\ loop = NoLoop
    /\ undone = FALSE
    /\ stale = {}

\* determineRate: the smaller of the two limits that are set.
Lower(node, user) ==
    IF node = 0 THEN user
    ELSE IF user = 0 \/ node < user THEN node ELSE user

Static(t) == Lower(info[t].node, info[t].user)
Known == {t \in Inbounds : info[t] # Nil}

\* The user's bucket on inbound t
Current(t) == bucket[info[t].hub]

\* 0 is no limit, which a bucket expresses by a rate.
AsRate(limit) == IF limit = 0 THEN Unlimited ELSE limit

UsedHubs ==
    {info[t].hub : t \in Known} \cup {conn[c].hub : c \in Connections}
        \cup {restore[k].hub : k \in Callbacks} \cup {loop.hub}
FreeHubs(t) == ({t} \X HubIds) \ UsedHubs
FreshHub(t) == CHOOSE h \in FreeHubs(t) : TRUE

UsedBuckets ==
    {bucket[h] : h \in UsedHubs \ {Nil}} \cup {conn[c].bucket : c \in Connections}
        \cup {loop.bucket}
FreeBuckets(h) == ({h} \X BucketIds) \ UsedBuckets
FreshBucket(h) == CHOOSE b \in FreeBuckets(h) : TRUE

\* What a step that drops references leaves of the rates.
RatesLeft == [b \in Buckets |-> IF b \in UsedBuckets' THEN rate[b] ELSE Unlimited]

\* stale after a limit that was read earlier is written to the bucket of hub h.
Written(h, limit) ==
    {t \in stale : info[t].hub # h}
        \cup {t \in Known : info[t].hub = h /\ Static(t) # limit}

\* LoadOrStore: the bucket of the hub, or a new one at the given rate.
LoadOrStore(c, h, limit) ==
    IF bucket[h] # Nil
    THEN /\ conn' = [conn EXCEPT ![c] = [@ EXCEPT !.at = "open", !.bucket = bucket[h], !.hub = Nil]]
         /\ UNCHANGED <<bucket, rate, stale>>
    ELSE /\ FreeBuckets(h) # {}
         /\ conn' = [conn EXCEPT ![c] = [@ EXCEPT !.at = "open", !.bucket = FreshBucket(h), !.hub = Nil]]
         /\ bucket' = [bucket EXCEPT ![h] = FreshBucket(h)]
         /\ rate' = [rate EXCEPT ![FreshBucket(h)] = AsRate(limit)]
         /\ stale' = Written(h, limit)

(***************************************************************************)
(* A connection.  GetUserBucket reads the limits, notes the address of the *)
(* user and then takes the bucket.  A connection that gets none, because   *)
(* its inbound or its user is unknown, is not limited: it has no state.    *)
(***************************************************************************)
Connect(c) ==
    /\ conn[c].at = "idle"
    /\ LET t == TagOf[c]
       IN /\ t \in Known
          /\ online' = [online EXCEPT ![info[t].hub] = TRUE]
          /\ conn' = [conn EXCEPT ![c] =
                [at |-> "store", hub |-> info[t].hub, bucket |-> Nil, limit |-> Static(t)]]
    /\ UNCHANGED <<info, bucket, rate, marked, attached, limited, restore, loop, history>>

TakeBucket(c) ==
    /\ conn[c].at = "store"
    /\ LoadOrStore(c, conn[c].hub, conn[c].limit)
    /\ UNCHANGED <<info, online, marked, attached, limited, restore, loop, undone>>

\* A connection on the vision path -> LookupBucketByEmail: the first inbound on which the user has a limit of his
\* own, in no given order.
Splice(c) ==
    /\ conn[c].at = "idle"
    /\ \E t \in Known : info[t].user # 0 /\ LoadOrStore(c, info[t].hub, Static(t))
    /\ UNCHANGED <<info, online, marked, attached, limited, restore, loop, undone>>

Close(c) ==
    /\ conn[c].at = "open"
    /\ conn' = [conn EXCEPT ![c] = NoConn]
    /\ UNCHANGED <<info, bucket, online, restore, loop>>
    /\ rate' = RatesLeft
    /\ UNCHANGED <<marked, attached, limited, history>>

(***************************************************************************)
(* The pushes of the master.                                               *)
(***************************************************************************)
\* handleLimiterConfig -> SyncInboundLimiter, which keeps the hub and writes
\* the new rate into its bucket, unless there is none.
\* Mutant: the rate is left as it is.
SyncKeepsRate(t, p) ==
    /\ loop.at = "idle"
    /\ t \in Known
    /\ info' = [info EXCEPT ![t].node = p.node, ![t].user = p.user]
    /\ attached' = TRUE
    /\ undone' = limited
    /\ stale' = stale \ {t}
    /\ UNCHANGED <<bucket, online, rate, conn, marked, limited, restore, loop>>

Sync(t, p) ==
    /\ loop.at = "idle"
    /\ t \in Known
    /\ info' = [info EXCEPT ![t].node = p.node, ![t].user = p.user]
    /\ LET b == Current(t)
           limit == Lower(p.node, p.user)
       IN /\ rate' = IF limit > 0 /\ b # Nil THEN [rate EXCEPT ![b] = limit] ELSE rate
          /\ undone' = (undone \/ (limited /\ limit > 0))
    /\ attached' = TRUE
    /\ stale' = stale \ {t}
    /\ UNCHANGED <<bucket, online, conn, marked, limited, restore, loop>>

\* AddInboundLimiter: an empty hub, whatever the old one held.
AddInboundLimiter(t, p) ==
    /\ Cardinality(UsedHubs \ {Nil}) < MaxHubs /\ FreeHubs(t) # {}
    /\ info' = [info EXCEPT ![t] = [node |-> p.node, user |-> p.user, hub |-> FreshHub(t)]]
    /\ UNCHANGED <<conn, restore, loop>>
    /\ bucket' = [h \in Hubs |-> IF h \in UsedHubs' \ {FreshHub(t)} THEN bucket[h] ELSE Nil]
    /\ online' = [h \in Hubs |-> h \in UsedHubs' \ {FreshHub(t)} /\ online[h]]
    /\ rate' = RatesLeft
    /\ undone' = limited
    /\ stale' = stale \ {t}
    /\ UNCHANGED <<marked, limited>>

\* SyncInboundLimiter falls back on it.
SyncNew(t, p) ==
    /\ loop.at = "idle"
    /\ t \notin Known
    /\ AddInboundLimiter(t, p)
    /\ attached' = TRUE

\* HandleLimiter.  The monitor learns of the limiter only if there are rules.
PostLimiter(t, p, rules) ==
    /\ AddInboundLimiter(t, p)
    /\ attached' = (attached \/ rules)

\* EmbeddedXray.Restart: a new limiter, and no connections.  What is under way
\* in the client or a callback goes on with the old one, which is out of use.
RenewLimiter ==
    /\ info' = [t \in Inbounds |-> Nil]
    /\ conn' = [c \in Connections |-> NoConn]
    /\ marked' = FALSE
    /\ attached' = FALSE
    /\ restore' = [k \in Callbacks |-> NoRestore]
    /\ loop' = NoLoop
    /\ bucket' = [h \in Hubs |-> Nil]
    /\ online' = [h \in Hubs |-> FALSE]
    /\ rate' = RatesLeft
    /\ undone' = limited
    /\ stale' = {}
    /\ UNCHANGED limited

(***************************************************************************)
(* Evaluate and applyLimit: SetUserSpeed on every inbound of the limiter.  *)
(***************************************************************************)
\* A rule is met.  The bound leaves room for the callback of this limit.
ApplyLimit ==
    /\ loop.at = "idle"
    /\ ~limited
    /\ \E k \in Callbacks : restore[k].at = "off"
    /\ limited' = TRUE
    /\ loop' = [NoLoop EXCEPT !.at = "apply", !.todo = IF attached THEN Known ELSE {}]
    /\ undone' = ~attached
    /\ UNCHANGED <<limiter, conn, attached, restore, stale>>

LimitInbound(t) ==
    /\ loop.at = "apply" /\ t \in loop.todo
    /\ marked' = TRUE
    /\ loop' = [loop EXCEPT !.at = "set", !.todo = @ \ {t}, !.hub = info[t].hub,
                            !.bucket = bucket[info[t].hub]]
    /\ UNCHANGED <<info, bucket, online, rate, conn, attached, limited, restore, history>>

SetLimit ==
    /\ loop.at = "set"
    /\ IF loop.bucket # Nil
       THEN /\ rate' = [rate EXCEPT ![loop.bucket] = AutoRate]
            /\ UNCHANGED bucket
       ELSE /\ FreeBuckets(loop.hub) # {}
            /\ bucket' = [bucket EXCEPT ![loop.hub] = FreshBucket(loop.hub)]
            /\ rate' = [rate EXCEPT ![FreshBucket(loop.hub)] = AutoRate]
    /\ loop' = [loop EXCEPT !.at = "apply", !.hub = Nil, !.bucket = Nil]
    /\ UNCHANGED <<info, online, marked, conn, attached, limited, restore, history>>

\* time.AfterFunc comes after the last inbound; applyLimit returns.
LimitApplied ==
    /\ loop.at = "apply" /\ loop.todo = {}
    /\ loop' = NoLoop
    /\ UNCHANGED <<limiter, conn, attached, limited, restore, history>>

(***************************************************************************)
(* The time of a limit is over: the client may apply another one, and the  *)
(* callback runs, some time later.                                         *)
(***************************************************************************)
Expire ==
    /\ limited
    /\ loop.at \notin {"apply", "set"}
    /\ limited' = FALSE
    /\ \E k \in Callbacks :
           /\ restore[k].at = "off"
           /\ \A j \in Callbacks : j < k => restore[j].at # "off"
           /\ restore' = [restore EXCEPT ![k] = [NoRestore EXCEPT !.at = "due", !.todo = Inbounds]]
    /\ undone' = FALSE
    /\ UNCHANGED <<limiter, conn, attached, loop, stale>>

\* Mutant: only the first inbound is visited.
RestoreFirst(k, t) ==
    /\ restore[k].at = "due" /\ t \in restore[k].todo /\ t \in Known
    /\ marked' = FALSE
    /\ restore' = [restore EXCEPT ![k] =
           [at |-> "reset", todo |-> {}, hub |-> info[t].hub, limit |-> Static(t)]]
    /\ undone' = limited
    /\ UNCHANGED <<info, bucket, online, rate, conn, attached, limited, loop, stale>>

\* SetUserSpeed(tag, email, 0): the mark goes first, the rate follows.
Restore(k, t) ==
    /\ restore[k].at = "due" /\ t \in restore[k].todo /\ t \in Known
    /\ marked' = FALSE
    /\ restore' = [restore EXCEPT ![k] =
           [at |-> "reset", todo |-> @.todo \ {t}, hub |-> info[t].hub, limit |-> Static(t)]]
    /\ undone' = limited
    /\ UNCHANGED <<info, bucket, online, rate, conn, attached, limited, loop, stale>>

Reset(k) ==
    /\ restore[k].at = "reset"
    /\ LET h == restore[k].hub
       IN IF bucket[h] # Nil
          THEN /\ rate' = [rate EXCEPT ![bucket[h]] = AsRate(restore[k].limit)]
               /\ stale' = Written(h, restore[k].limit)
          ELSE UNCHANGED <<rate, stale>>
    /\ restore' = [restore EXCEPT ![k] = [@ EXCEPT !.at = "due", !.hub = Nil, !.limit = 0]]
    /\ undone' = limited
    /\ UNCHANGED <<info, bucket, online, marked, conn, attached, limited, loop>>

Restored(k) ==
    /\ restore[k].at = "due" /\ restore[k].todo \cap Known = {}
    /\ restore' = [restore EXCEPT ![k] = NoRestore]
    /\ UNCHANGED <<limiter, conn, attached, limited, loop, history>>

(***************************************************************************)
(* sendTrafficData -> GetOnlineUsers: the bucket of a user who has opened  *)
(* no connection since the last report is dropped, unless he is marked.    *)
(***************************************************************************)
\* Mutant: marked users are not spared.
CollectAll(t) ==
    /\ loop.at = "idle" /\ t \in Known
    /\ loop' = [NoLoop EXCEPT !.at = "collect", !.hub = info[t].hub,
                              !.drop = ~online[info[t].hub]]
    /\ UNCHANGED <<limiter, conn, attached, limited, restore, history>>

Collect(t) ==
    /\ loop.at = "idle" /\ t \in Known
    /\ loop' = [NoLoop EXCEPT !.at = "collect", !.hub = info[t].hub,
                              !.drop = ~online[info[t].hub] /\ ~marked]
    /\ UNCHANGED <<limiter, conn, attached, limited, restore, history>>

Drop ==
    /\ loop.at = "collect"
    /\ bucket' = IF loop.drop THEN [bucket EXCEPT ![loop.hub] = Nil] ELSE bucket
    /\ online' = [online EXCEPT ![loop.hub] = FALSE]
    /\ loop' = NoLoop
    /\ UNCHANGED <<info, conn, restore>>
    /\ rate' = RatesLeft
    /\ stale' = {t \in stale : Current(t)' # Nil}
    /\ UNCHANGED <<marked, attached, limited, undone>>

SpeedNext ==
    \/ \E c \in Connections : Connect(c) \/ TakeBucket(c) \/ Splice(c) \/ Close(c)
    \/ \E t \in Inbounds, p \in Pushes : Sync(t, p) \/ SyncNew(t, p)
    \/ \E t \in Inbounds, p \in Pushes, rules \in BOOLEAN : PostLimiter(t, p, rules)
    \/ RenewLimiter
    \/ ApplyLimit
    \/ \E t \in Inbounds : Collect(t)
    \/ \E t \in Inbounds : LimitInbound(t)
    \/ SetLimit
    \/ LimitApplied
    \/ Drop
    \/ Expire
    \/ \E k \in Callbacks : (\E t \in Inbounds : Restore(k, t)) \/ Reset(k) \/ Restored(k)

SpeedSpec == SpeedInit /\ [][SpeedNext]_speedVars

-----------------------------------------------------------------------------
(***************************************************************************)
(* Properties                                                              *)
(***************************************************************************)
Rates == Limits \cup {AutoRate, Unlimited}

SpeedTypeOK ==
    /\ info \in [Inbounds -> {Nil} \cup InboundInfo]
    /\ bucket \in [Hubs -> Buckets \cup {Nil}]
    /\ online \in [Hubs -> BOOLEAN]
    /\ rate \in [Buckets -> Rates \ {0}]
    /\ conn \in [Connections -> [at : {"idle", "store", "open"}, hub : Hubs \cup {Nil},
                           bucket : Buckets \cup {Nil}, limit : Limits]]
    /\ restore \in [Callbacks -> [at : {"off", "due", "reset"}, todo : SUBSET Inbounds,
                                  hub : Hubs \cup {Nil}, limit : Limits]]
    /\ loop \in [at : {"idle", "apply", "set", "collect"}, todo : SUBSET Inbounds,
                 hub : Hubs \cup {Nil}, bucket : Buckets \cup {Nil}, drop : BOOLEAN]
    /\ {marked, attached, limited, undone} \subseteq BOOLEAN
    /\ stale \subseteq Inbounds

\* SyncInboundLimiter: a limit that was pushed is what the bucket of every
\* inbound enforces, however old the bucket is, or an automatic limit does;
\* unless a connection or a callback that had read the limits before the push
\* wrote its rate after it.
StaticEnforced ==
    \A t \in Known \ stale :
        Static(t) > 0 /\ Current(t) # Nil =>
            rate[Current(t)] \in {Static(t), AutoRate}

\* limiter.go, autoLimited: as long as an automatic limit lasts, a connection
\* that is opened gets its bucket, on every inbound, whatever the cleanup drops;
\* unless a push or the callback of an earlier limit has interfered.
AutoCoversNew ==
    limited /\ ~undone /\ loop.at \notin {"apply", "set"} =>
        \A t \in Known : Current(t) # Nil /\ rate[Current(t)] = AutoRate

\* monitor.go, applyLimit: no user is throttled for good.  Whatever is pushed,
\* dropped or restarted, a bucket that is in use at the rate of an automatic
\* limit is still to be visited by the callback that lifts it.
ThrottleEnds ==
    \A t \in Known :
        Current(t) # Nil /\ rate[Current(t)] = AutoRate =>
            \/ limited
            \/ \E k \in Callbacks :
                  \/ t \in restore[k].todo
                  \/ restore[k].at = "reset" /\ restore[k].hub = info[t].hub
=============================================================================
