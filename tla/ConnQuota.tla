----------------------------- MODULE ConnQuota ------------------------------
(***************************************************************************)
(* The concurrent-connection limit of the embedded proxy:                  *)
(*   internal/limiter/limiter.go  AcquireConn, ReleaseConn, TrackConn,     *)
(*                                kickConnGroup, SyncInboundLimiter        *)
(*   internal/dispatcher/default.go  getLink, DispatchLink                 *)
(*                                                                         *)
(* Every connection runs in goroutines of its own, so each atomic operation *)
(* on a shared counter or map is an action of its own.  pc[c] is the next  *)
(* one connection c executes:                                              *)
(*   idle     lookupUserInfo          stat      nodeConnCounter.Add(1)     *)
(*   acquire  c.Add(1)                track     activeConnKickers.LoadOrStore *)
(*   undo     c.Add(-1)               register  set.all[id] = kick         *)
(*   open     the connection runs     untrack   delete(set.all, id)        *)
(*   unmap    CompareAndDelete        release   c.Add(-1)                  *)
(*   statrelease  nodeConnCounter.Add(-1)                                  *)
(*   closed, rejected, uncounted: nothing is left to do                    *)
(*                                                                         *)
(* ReleaseConn stores 0 when its Add(-1) gives a negative number.  That    *)
(* second step is folded into the first (Floor): CounterExact, proved in   *)
(* LimiterProofs, says that the counter is at least 1 before it.         *)
(*                                                                         *)
(* SyncInboundLimiter runs in the goroutine of the client's message loop,  *)
(* one call at a time, interleaved with the connections.                   *)
(***************************************************************************)
EXTENDS Integers, FiniteSets

CONSTANTS
    Conns,          \* connections; each is opened once
    Tags,           \* inbound tags
    Emails,         \* users
    Groups,         \* quota groups and per-node statistics groups
    Records,        \* UserInfo records: quota group, statistics group, limit
    InboundOf,      \* InboundOf[c]: the inbound connection c arrives at
    EmailOf,        \* EmailOf[c]: its authenticated user
    WsPushes,       \* the user lists a limiter_config message carries
    HttpPushes,     \* the user lists POST /api/child/limiter carries
    CanRestart,     \* whether the embedded Xray is restarted
    None            \* no record, no set

Configs == [Emails -> Records \cup {None}]

ASSUME ConnsFinite == IsFiniteSet(Conns)
ASSUME RecordsTyped ==
    Records \subseteq [group : Groups, stat : Groups, limit : Nat]
ASSUME NoneIsNew ==
    None \notin Records \cup Conns \cup Groups \cup [group : Groups, limit : Nat]
ASSUME ConnsTyped ==
    /\ InboundOf \in [Conns -> Tags]
    /\ EmailOf \in [Conns -> Emails]
ASSUME PushesTyped ==
    /\ WsPushes \subseteq Configs
    /\ HttpPushes \subseteq Configs

VARIABLES
    userInfo,   \* InboundInfo: tag -> email -> record, of the live limiter
    connCount,  \* connCount: quota group -> atomic.Int64
    statCount,  \* nodeConnCount: statistics group -> atomic.Int64
    rejects,    \* KickCounter: email -> refused connections
    active,     \* activeConnKickers: quota group -> kicker set, or None
    kickers,    \* a kicker set, named by the connection that created it
    pc,         \* where connection c is
    rec,        \* the record c was looked up with (its lease once admitted)
    ref,        \* the kicker set TrackConn of c loaded
    kicked,     \* the kick function of c was called
    sync        \* SyncInboundLimiter: the call in progress

connVars == <<pc, rec, ref>>
counters == <<connCount, statCount, rejects>>
registry == <<active, kickers, kicked>>
vars == <<userInfo, counters, registry, connVars, sync>>

PCs == {"idle", "acquire", "undo", "stat", "track", "register", "open",
        "untrack", "unmap", "release", "statrelease", "closed",
        "rejected", "uncounted"}

\* Connections whose Add(1) on the quota counter is not yet taken back.
Counted == {"undo", "stat", "track", "register", "open", "untrack", "unmap",
            "release"}

\* Connections that were let in and hold their slot.
Admitted == Counted \ {"undo"}

\* Connections counted in nodeConnCount.
StatCounted == {"track", "register", "open", "untrack", "unmap", "release",
                "statrelease"}

Group(c) == rec[c].group

InGroup(g, pcs) == {c \in Conns : pc[c] \in pcs /\ Group(c) = g}
InStat(g, pcs) == {c \in Conns : pc[c] \in pcs /\ rec[c].stat = g}

\* The quota groups an inbound's users have (userConnGroup over UserInfo).
GroupsIn(users) == {r.group : r \in {users[e] : e \in Emails} \ {None}}

ConfiguredGroups == UNION {GroupsIn(userInfo[t]) : t \in Tags}

NoUsers == [e \in Emails |-> None]
NoCall == [phase |-> "idle", tag |-> None, users |-> NoUsers,
           removed |-> {}, detached |-> None, live |-> FALSE]

Init ==
    /\ userInfo = [t \in Tags |-> NoUsers]
    /\ connCount = [g \in Groups |-> 0]
    /\ statCount = [g \in Groups |-> 0]
    /\ rejects = [e \in Emails |-> 0]
    /\ active = [g \in Groups |-> None]
    /\ kickers = [c \in Conns |-> {}]
    /\ kicked = [c \in Conns |-> FALSE]
    /\ pc = [c \in Conns |-> "idle"]
    /\ rec = [c \in Conns |-> None]
    /\ ref = [c \in Conns |-> None]
    /\ sync = NoCall

Go(c, to) == pc' = [pc EXCEPT ![c] = to]

(***************************************************************************)
(* AcquireConn, called by getLink and DispatchLink for an authenticated    *)
(* user.  A user without a record is let in uncounted.                     *)
(***************************************************************************)
Lookup(c) ==
    /\ pc[c] = "idle"
    /\ LET u == userInfo[InboundOf[c]][EmailOf[c]]
       IN /\ rec' = [rec EXCEPT ![c] = u]
          /\ Go(c, IF u = None THEN "uncounted" ELSE "acquire")
    /\ UNCHANGED <<userInfo, counters, registry, ref, sync>>

\* connLimit > 0 && n > connLimit; its mutant is off by one.
OverLimitOffByOne(limit, n) == limit > 0 /\ n > limit + 1
OverLimit(limit, n) == limit > 0 /\ n > limit

\* n := c.Add(1) and the comparison with the limit that was looked up.
Acquire(c) ==
    /\ pc[c] = "acquire"
    /\ LET n == connCount[Group(c)] + 1
       IN /\ connCount' = [connCount EXCEPT ![Group(c)] = n]
          /\ Go(c, IF OverLimit(rec[c].limit, n) THEN "undo" ELSE "stat")
    /\ UNCHANGED <<userInfo, statCount, rejects, registry, rec, ref, sync>>

\* Mutant: a refusal does not take itself back.
UndoForgotten(c) ==
    /\ pc[c] = "undo"
    /\ rejects' = [rejects EXCEPT ![EmailOf[c]] = @ + 1]
    /\ Go(c, "rejected")
    /\ UNCHANGED <<userInfo, connCount, statCount, registry, rec, ref, sync>>

\* c.Add(-1), incrementKickCounter; the dispatcher closes the links.
Undo(c) ==
    /\ pc[c] = "undo"
    /\ connCount' = [connCount EXCEPT ![Group(c)] = @ - 1]
    /\ rejects' = [rejects EXCEPT ![EmailOf[c]] = @ + 1]
    /\ Go(c, "rejected")
    /\ UNCHANGED <<userInfo, statCount, registry, rec, ref, sync>>

CountStat(c) ==
    /\ pc[c] = "stat"
    /\ statCount' = [statCount EXCEPT ![rec[c].stat] = @ + 1]
    /\ Go(c, "track")
    /\ UNCHANGED <<userInfo, connCount, rejects, registry, rec, ref, sync>>

(***************************************************************************)
(* TrackConn: the map operation and the locked insertion into the set it   *)
(* returned are two steps.                                                 *)
(***************************************************************************)
TrackLoad(c) ==
    /\ pc[c] = "track"
    /\ LET set == IF active[Group(c)] = None THEN c ELSE active[Group(c)]
       IN /\ ref' = [ref EXCEPT ![c] = set]
          /\ active' = [active EXCEPT ![Group(c)] = set]
    /\ Go(c, "register")
    /\ UNCHANGED <<userInfo, counters, kickers, kicked, rec, sync>>

TrackAdd(c) ==
    /\ pc[c] = "register"
    /\ kickers' = [kickers EXCEPT ![ref[c]] = @ \cup {c}]
    /\ Go(c, "open")
    /\ UNCHANGED <<userInfo, counters, active, kicked, rec, ref, sync>>

(***************************************************************************)
(* The context of the connection ends (its peer closed it, or its kick     *)
(* function closed its links): context.AfterFunc calls the cleanup of      *)
(* TrackConn and then ReleaseConn.                                         *)
(***************************************************************************)
ConnEnds(c) ==
    /\ pc[c] = "open"
    /\ Go(c, "untrack")
    /\ UNCHANGED <<userInfo, counters, registry, rec, ref, sync>>

Untrack(c) ==
    /\ pc[c] = "untrack"
    /\ LET rest == kickers[ref[c]] \ {c}
       IN /\ kickers' = [kickers EXCEPT ![ref[c]] = rest]
          /\ Go(c, IF rest = {} THEN "unmap" ELSE "release")
    /\ UNCHANGED <<userInfo, counters, active, kicked, rec, ref, sync>>

\* Mutant: the emptied set stays registered.
UnmapSkipped(c) ==
    /\ pc[c] = "unmap"
    /\ Go(c, "release")
    /\ UNCHANGED <<userInfo, counters, registry, rec, ref, sync>>

\* activeConnKickers.CompareAndDelete(group, set), the set unlocked again.
Unmap(c) ==
    /\ pc[c] = "unmap"
    /\ active' = [active EXCEPT ![Group(c)] = IF @ = ref[c] THEN None ELSE @]
    /\ Go(c, "release")
    /\ UNCHANGED <<userInfo, counters, kickers, kicked, rec, ref, sync>>

Floor(n) == IF n < 0 THEN 0 ELSE n

\* Mutant: a kicked connection is taken to have been released by its kick.
ReleaseUnlessKicked(c) ==
    /\ pc[c] = "release" /\ ~kicked[c]
    /\ connCount' = [connCount EXCEPT ![Group(c)] = Floor(@ - 1)]
    /\ Go(c, "statrelease")
    /\ UNCHANGED <<userInfo, statCount, rejects, registry, rec, ref, sync>>

Release(c) ==
    /\ pc[c] = "release"
    /\ connCount' = [connCount EXCEPT ![Group(c)] = Floor(@ - 1)]
    /\ Go(c, "statrelease")
    /\ UNCHANGED <<userInfo, statCount, rejects, registry, rec, ref, sync>>

ReleaseStat(c) ==
    /\ pc[c] = "statrelease"
    /\ statCount' = [statCount EXCEPT ![rec[c].stat] = Floor(@ - 1)]
    /\ Go(c, "closed")
    /\ UNCHANGED <<userInfo, connCount, rejects, registry, rec, ref, sync>>

(***************************************************************************)
(* handleLimiterConfig -> SyncInboundLimiter.  The groups that disappear   *)
(* are those of this inbound's previous list that its new list lacks.      *)
(***************************************************************************)

SyncLoad(t, users) ==
    /\ sync.phase = "idle"
    /\ sync' = [phase |-> "store", tag |-> t, users |-> users,
                removed |-> GroupsIn(userInfo[t]) \ GroupsIn(users),
                detached |-> None, live |-> TRUE]
    /\ UNCHANGED <<userInfo, counters, registry, connVars>>

\* InboundInfo.Store, in the limiter the call was made on.
SyncStore ==
    /\ sync.phase = "store"
    /\ userInfo' = IF sync.live
                   THEN [userInfo EXCEPT ![sync.tag] = sync.users]
                   ELSE userInfo
    /\ sync' = [sync EXCEPT !.phase = "kick"]
    /\ UNCHANGED <<counters, registry, connVars>>

\* kickConnGroup: activeConnKickers.LoadAndDelete(group).
KickDetach(g) ==
    /\ sync.phase = "kick"
    /\ g \in sync.removed
    /\ active' = [active EXCEPT ![g] = None]
    /\ sync' = [sync EXCEPT !.removed = @ \ {g}, !.detached = active[g],
                            !.phase = IF active[g] = None THEN "kick" ELSE "run"]
    /\ UNCHANGED <<userInfo, counters, kickers, kicked, connVars>>

\* kickConnGroup: empty the detached set and call the functions it held.
KickRun ==
    /\ sync.phase = "run"
    /\ kicked' = [c \in Conns |-> kicked[c] \/ c \in kickers[sync.detached]]
    /\ kickers' = [kickers EXCEPT ![sync.detached] = {}]
    /\ sync' = [sync EXCEPT !.phase = "kick", !.detached = None]
    /\ UNCHANGED <<userInfo, counters, active, connVars>>

SyncReturn ==
    /\ sync.phase = "kick"
    /\ sync.removed = {}
    /\ sync' = NoCall
    /\ UNCHANGED <<userInfo, counters, registry, connVars>>

(***************************************************************************)
(* HandleLimiterConfig (POST /api/child/limiter) -> AddInboundLimiter: a   *)
(* new InboundInfo, nothing else.  Its payload has no groups, so the       *)
(* records of HttpPushes use the user's email as group.                    *)
(***************************************************************************)
HttpPush(t, users) ==
    /\ userInfo' = [userInfo EXCEPT ![t] = users]
    /\ UNCHANGED <<counters, registry, connVars, sync>>

\* EmbeddedXray.Restart: the new dispatcher has a new, empty limiter; the
\* counters and the kicker sets are package variables and stay.
RestartXray ==
    /\ CanRestart
    /\ userInfo' = [t \in Tags |-> NoUsers]
    /\ sync' = [sync EXCEPT !.live = FALSE]
    /\ UNCHANGED <<counters, registry, connVars>>

CleanupStep(c) ==
    \/ Untrack(c) \/ Unmap(c)
    \/ Release(c) \/ ReleaseStat(c)

AdmissionStep(c) ==
    \/ Acquire(c) \/ Undo(c) \/ CountStat(c) \/ TrackLoad(c) \/ TrackAdd(c)

SyncStep ==
    \/ SyncStore
    \/ \E g \in Groups : KickDetach(g)
    \/ KickRun
    \/ SyncReturn

Next ==
    \/ \E c \in Conns : Lookup(c) \/ AdmissionStep(c) \/ ConnEnds(c) \/ CleanupStep(c)
    \/ \E t \in Tags, users \in WsPushes : SyncLoad(t, users)
    \/ SyncStep
    \/ \E t \in Tags, users \in HttpPushes : HttpPush(t, users)
    \/ RestartXray

Spec == Init /\ [][Next]_vars

\* Goroutines run on; a kicked connection has its links closed, so its
\* context ends; nothing makes the other connections end.
Fairness ==
    /\ \A c \in Conns :
        /\ WF_vars(AdmissionStep(c))
        /\ WF_vars(CleanupStep(c))
        /\ WF_vars(kicked[c] /\ ConnEnds(c))
    /\ WF_vars(SyncStep)

FairSpec == Spec /\ Fairness

-----------------------------------------------------------------------------
(***************************************************************************)
(* Properties                                                              *)
(***************************************************************************)

\* Every variable has its type; no counter of a group is ever negative.
TypeOK ==
    /\ userInfo \in [Tags -> Configs]
    /\ connCount \in [Groups -> Nat]
    /\ statCount \in [Groups -> Nat]
    /\ rejects \in [Emails -> Nat]
    /\ active \in [Groups -> Conns \cup {None}]
    /\ kickers \in [Conns -> SUBSET Conns]
    /\ kicked \in [Conns -> BOOLEAN]
    /\ pc \in [Conns -> PCs]
    /\ rec \in [Conns -> Records \cup {None}]
    /\ ref \in [Conns -> Conns \cup {None}]
    /\ sync \in [phase : {"idle", "store", "kick", "run"},
                 tag : Tags \cup {None}, users : Configs,
                 removed : SUBSET Groups, detached : Conns \cup {None},
                 live : BOOLEAN]

\* The counters AcquireConn and ReleaseConn keep are exact at every moment:
\* the quota counter of a group is the number of its connections that added
\* themselves and have not yet taken themselves back (those about to be
\* refused included), and the per-node counter the number of leases.
CounterExact ==
    \A g \in Groups :
        /\ connCount[g] = Cardinality(InGroup(g, Counted))
        /\ statCount[g] = Cardinality(InStat(g, StatCounted))

\* The connections let into group g under a limit of at most l.
LimitedTo(g, l) ==
    {c \in InGroup(g, Admitted) : 0 < rec[c].limit /\ rec[c].limit <= l}

\* AcquireConn's limit: whatever pushes change limits and groups, for every
\* l the connections let into a group under a limit of at most l number at
\* most l, however their admissions and releases interleave.
QuotaRespected ==
    \A g \in Groups : \A l \in {r.limit : r \in Records} :
        Cardinality(LimitedTo(g, l)) <= l

\* TrackConn and kickConnGroup keep no stale entry: a set that is registered
\* for a group belongs to a connection of the group that is still using it,
\* and every function in a set is that of a connection that is running.
NoStaleKicker ==
    /\ \A g \in Groups : active[g] # None =>
           \E c \in InGroup(g, {"register", "open", "untrack", "unmap"}) :
               ref[c] = active[g]
    /\ \A s \in Conns : \A c \in kickers[s] :
           ref[c] = s /\ pc[c] \in {"open", "untrack"}

\* ReleaseConn after a kick: a connection that was interrupted gives back its
\* slot and its place in the statistics.
KickFreesQuota ==
    \A c \in Conns : kicked[c] ~> pc[c] = "closed"

\* The limiter implements the semaphore it promises: a slot is held from the
\* Add(1) that let the connection in to the Add(-1) of its release.
Lease(c) ==
    IF pc[c] \in {"acquire", "undo", "rejected"} \cup Admitted
    THEN [group |-> Group(c), limit |-> rec[c].limit] ELSE None
Slot(c) == IF pc[c] \in Admitted THEN Group(c) ELSE None

Semaphore == INSTANCE QuotaSemaphore WITH
    Limits <- {r.limit : r \in Records},
    ask <- [c \in Conns |-> Lease(c)],
    held <- [c \in Conns |-> Slot(c)]

ImplementsSemaphore == Semaphore!SemaphoreSpec

\* limiter.go:52-54: activeConnKickers holds the interrupt function of every
\* running connection of a group, so that a kick of the group reaches it.
OpenIsKickable ==
    \A c \in Conns :
        pc[c] = "open" /\ ~kicked[c] =>
            \E s \in {active[Group(c)], sync.detached} \ {None} : c \in kickers[s]
=============================================================================
