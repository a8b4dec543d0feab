---------------------------- MODULE LimiterProofs ---------------------------
(***************************************************************************)
(* Proofs about what the limiter keeps of its users.                       *)
(*   ConnQuota, for every set of connections, inbounds, users and records. *)
(*     Inv is the inductive invariant: the types, what a program counter   *)
(*     says of the data its connection carries, and the exactness of the   *)
(*     counters.  The counters cannot be typed (Undo and Release subtract) *)
(*     without their exactness, and the quota needs both.                  *)
(*   SpeedLimit, for every set of connections, inbounds and pushes, and    *)
(*     any number of callbacks: its type invariant, that a push is what a  *)
(*     bucket enforces, that an automatic limit lasts its time, and that   *)
(*     nobody is throttled for good.                                       *)
(***************************************************************************)
EXTENDS ConnQuota, SpeedLimit, FiniteSetTheorems, TLAPS

\* What the program counters say of the data read in the next step.
PcInv ==
    /\ \A c \in Conns : pc[c] \notin {"idle", "uncounted"} => rec[c] \in Records
    /\ \A c \in Conns : pc[c] \in {"register", "open", "untrack", "unmap"} =>
           ref[c] \in Conns
    /\ sync.phase = "store" => sync.tag \in Tags
    /\ sync.phase = "run" => sync.detached \in Conns

Inv == TypeOK /\ PcInv /\ CounterExact

-----------------------------------------------------------------------------
\* Sets of connections are finite; adding and removing one counts by one.
LEMMA ConnSets ==
    ASSUME NEW S \in SUBSET Conns
    PROVE  /\ IsFiniteSet(S)
           /\ Cardinality(S) \in Nat
           /\ \A c \in Conns \ S : Cardinality(S \cup {c}) = Cardinality(S) + 1
           /\ \A c \in S : Cardinality(S \ {c}) = Cardinality(S) - 1
           /\ \A c \in S : Cardinality(S) > 0
  <1>1. IsFiniteSet(S)
    BY ConnsFinite, FS_Subset
  <1>2. Cardinality(S) \in Nat
    BY <1>1, FS_CardinalityType
  <1>3. \A c \in Conns \ S : Cardinality(S \cup {c}) = Cardinality(S) + 1
    BY <1>1, FS_AddElement
  <1>4. \A c \in S : Cardinality(S \ {c}) = Cardinality(S) - 1
    BY <1>1, FS_RemoveElement
  <1>5. \A c \in S : Cardinality(S) > 0
    <2> SUFFICES ASSUME NEW c \in S PROVE Cardinality(S) # 0
      BY <1>2
    <2> QED  BY <1>1, FS_EmptySet
  <1> QED  BY <1>1, <1>2, <1>3, <1>4, <1>5

\* The sets of counted connections are sets of connections.
LEMMA CountedSets ==
    \A g \in Groups : /\ InGroup(g, Counted) \in SUBSET Conns
                      /\ InStat(g, StatCounted) \in SUBSET Conns
  BY DEF InGroup, InStat

-----------------------------------------------------------------------------
\* The invariant holds initially.
LEMMA InitInv == Init => Inv
  <1> SUFFICES ASSUME Init PROVE Inv  OBVIOUS
  <1> USE DEF Init
  <1>1. NoUsers \in Configs
    BY DEF NoUsers, Configs
  <1>2. TypeOK
    BY <1>1 DEF TypeOK, NoCall, PCs
  <1>3. PcInv
    BY DEF PcInv, NoCall
  <1>4. CounterExact
    <2> SUFFICES ASSUME NEW g \in Groups
                 PROVE  InGroup(g, Counted) = {} /\ InStat(g, StatCounted) = {}
      BY FS_EmptySet DEF CounterExact
    <2> QED  BY DEF InGroup, InStat, Counted, StatCounted
  <1> QED  BY <1>2, <1>3, <1>4 DEF Inv

\* Each action keeps the program counters and the data in step.
LEMMA NextPcInv == Inv /\ [Next]_vars => PcInv'
  <1> SUFFICES ASSUME Inv, [Next]_vars PROVE PcInv'  OBVIOUS
  <1> USE DEF Inv, PcInv, TypeOK
  <1>1. CASE UNCHANGED vars
    BY <1>1 DEF vars, connVars
  <1>2. ASSUME NEW c \in Conns, Lookup(c) PROVE PcInv'
    <2>1. userInfo[InboundOf[c]][EmailOf[c]] \in Records \cup {None}
      BY ConnsTyped DEF Configs
    <2> QED  BY <1>2, <2>1 DEF Lookup, Go
  <1>3. ASSUME NEW c \in Conns, AdmissionStep(c) PROVE PcInv'
    <2>1. CASE Acquire(c)    BY <2>1 DEF Acquire, Go
    <2>2. CASE Undo(c)       BY <2>2 DEF Undo, Go
    <2>3. CASE CountStat(c)  BY <2>3 DEF CountStat, Go
    <2>4. CASE TrackLoad(c)
      <3>1. Group(c) \in Groups
        BY <2>4, RecordsTyped DEF TrackLoad, Group
      <3>2. ref'[c] \in Conns
        BY <2>4, <3>1 DEF TrackLoad
      <3> QED  BY <2>4, <3>2 DEF TrackLoad, Go
    <2>5. CASE TrackAdd(c)   BY <2>5 DEF TrackAdd, Go
    <2> QED  BY <1>3, <2>1, <2>2, <2>3, <2>4, <2>5 DEF AdmissionStep
  <1>4. ASSUME NEW c \in Conns, ConnEnds(c) PROVE PcInv'
    BY <1>4 DEF ConnEnds, Go
  <1>5. ASSUME NEW c \in Conns, CleanupStep(c) PROVE PcInv'
    <2>1. CASE Untrack(c)      BY <2>1 DEF Untrack, Go
    <2>2. CASE Unmap(c)        BY <2>2 DEF Unmap, Go
    <2>3. CASE Release(c)      BY <2>3 DEF Release, Go
    <2>4. CASE ReleaseStat(c)  BY <2>4 DEF ReleaseStat, Go
    <2> QED  BY <1>5, <2>1, <2>2, <2>3, <2>4 DEF CleanupStep
  <1>6. ASSUME NEW t \in Tags, NEW users \in WsPushes, SyncLoad(t, users)
        PROVE  PcInv'
    BY <1>6 DEF SyncLoad, connVars
  <1>7. CASE SyncStep
    <2>1. CASE SyncStore   BY <2>1 DEF SyncStore, connVars
    <2>2. ASSUME NEW g \in Groups, KickDetach(g) PROVE PcInv'
      BY <2>2 DEF KickDetach, connVars
    <2>3. CASE KickRun     BY <2>3 DEF KickRun, connVars
    <2>4. CASE SyncReturn  BY <2>4 DEF SyncReturn, NoCall, connVars
    <2> QED  BY <1>7, <2>1, <2>2, <2>3, <2>4 DEF SyncStep
  <1>8. ASSUME NEW t \in Tags, NEW users \in HttpPushes, HttpPush(t, users)
        PROVE  PcInv'
    BY <1>8 DEF HttpPush, connVars
  <1>9. CASE RestartXray
    BY <1>9 DEF RestartXray, connVars
  <1> QED
    BY <1>1, <1>2, <1>3, <1>4, <1>5, <1>6, <1>7, <1>8, <1>9 DEF Next

-----------------------------------------------------------------------------
\* A connection that is about to take itself back is counted: its counter is
\* at least 1, so that neither Undo nor Release makes it negative.
LEMMA CountedIsPositive ==
    ASSUME Inv, NEW c \in Conns, pc[c] \in {"undo", "release"}
    PROVE  Group(c) \in Groups /\ connCount[Group(c)] > 0
  <1>1. rec[c] \in Records
    BY DEF Inv, PcInv
  <1>2. Group(c) \in Groups
    BY <1>1, RecordsTyped DEF Group
  <1>3. c \in InGroup(Group(c), Counted)
    BY DEF InGroup, Counted
  <1>4. Cardinality(InGroup(Group(c), Counted)) > 0
    BY <1>2, <1>3, CountedSets, ConnSets
  <1> QED  BY <1>2, <1>4 DEF Inv, CounterExact

\* Each action keeps every variable within its type.
LEMMA NextTypeOK == Inv /\ [Next]_vars => TypeOK'
  <1> SUFFICES ASSUME Inv, [Next]_vars PROVE TypeOK'  OBVIOUS
  <1> USE DEF TypeOK, PCs
  <1>0. TypeOK /\ PcInv
    BY DEF Inv
  <1>1. CASE UNCHANGED vars
    BY <1>0, <1>1 DEF vars, connVars, counters, registry
  <1>2. ASSUME NEW c \in Conns, Lookup(c) PROVE TypeOK'
    <2>1. userInfo[InboundOf[c]][EmailOf[c]] \in Records \cup {None}
      BY <1>0, ConnsTyped DEF Configs
    <2> QED  BY <1>0, <1>2, <2>1 DEF Lookup, Go, counters, registry
  <1>3. ASSUME NEW c \in Conns, AdmissionStep(c) PROVE TypeOK'
    <2>1. rec[c] \in Records /\ Group(c) \in Groups /\ rec[c].stat \in Groups
      BY <1>0, <1>3, RecordsTyped
         DEF AdmissionStep, Acquire, Undo, CountStat, TrackLoad, TrackAdd, PcInv, Group
    <2>2. CASE Acquire(c)
      BY <1>0, <2>1, <2>2 DEF Acquire, Go, registry
    <2>3. CASE Undo(c)
      <3>1. connCount[Group(c)] > 0
        BY <2>3, CountedIsPositive DEF Undo
      <3>2. EmailOf[c] \in Emails
        BY ConnsTyped
      <3>3. connCount' \in [Groups -> Nat]
        BY <1>0, <2>1, <2>3, <3>1 DEF Undo
      <3> QED  BY <1>0, <2>3, <3>2, <3>3 DEF Undo, Go, registry
    <2>4. CASE CountStat(c)
      BY <1>0, <2>1, <2>4 DEF CountStat, Go, registry
    <2>5. CASE TrackLoad(c)
      <3>1. active[Group(c)] \in Conns \cup {None}
        BY <1>0, <2>1
      <3>2. active' \in [Groups -> Conns \cup {None}] /\ ref' \in [Conns -> Conns \cup {None}]
        BY <1>0, <2>1, <2>5, <3>1 DEF TrackLoad
      <3> QED  BY <1>0, <2>5, <3>2 DEF TrackLoad, Go, counters
    <2>6. CASE TrackAdd(c)
      <3>1. ref[c] \in Conns
        BY <1>0, <2>6 DEF TrackAdd, PcInv
      <3> QED  BY <1>0, <2>6, <3>1 DEF TrackAdd, Go, counters
    <2> QED  BY <1>3, <2>2, <2>3, <2>4, <2>5, <2>6 DEF AdmissionStep
  <1>4. ASSUME NEW c \in Conns, ConnEnds(c) PROVE TypeOK'
    BY <1>0, <1>4 DEF ConnEnds, Go, counters, registry
  <1>5. ASSUME NEW c \in Conns, CleanupStep(c) PROVE TypeOK'
    <2>1. rec[c] \in Records /\ Group(c) \in Groups /\ rec[c].stat \in Groups
      BY <1>0, <1>5, RecordsTyped
         DEF CleanupStep, Untrack, Unmap, Release, ReleaseStat, PcInv, Group
    <2>2. CASE Untrack(c)
      <3>1. ref[c] \in Conns
        BY <1>0, <2>2 DEF Untrack, PcInv
      <3> QED  BY <1>0, <2>2, <3>1 DEF Untrack, Go, counters
    <2>3. CASE Unmap(c)
      BY <1>0, <2>1, <2>3 DEF Unmap, Go, counters
    <2>4. CASE Release(c)
      BY <1>0, <2>1, <2>4 DEF Release, Go, Floor, registry
    <2>5. CASE ReleaseStat(c)
      BY <1>0, <2>1, <2>5 DEF ReleaseStat, Go, Floor, registry
    <2> QED  BY <1>5, <2>2, <2>3, <2>4, <2>5 DEF CleanupStep
  <1>6. ASSUME NEW t \in Tags, NEW users \in WsPushes, SyncLoad(t, users)
        PROVE  TypeOK'
    <2>1. GroupsIn(userInfo[t]) \subseteq Groups
      BY <1>0, RecordsTyped DEF GroupsIn, Configs
    <2>2. users \in Configs
      BY PushesTyped
    <2>3. sync' \in [phase : {"idle", "store", "kick", "run"},
                     tag : Tags \cup {None}, users : Configs,
                     removed : SUBSET Groups, detached : Conns \cup {None},
                     live : BOOLEAN]
      BY <1>6, <2>1, <2>2 DEF SyncLoad
    <2> QED  BY <1>0, <1>6, <2>3 DEF SyncLoad, connVars, counters, registry
  <1>7. CASE SyncStep
    <2>1. CASE SyncStore
      <3>1. sync.tag \in Tags /\ sync.users \in Configs
        BY <1>0, <2>1 DEF SyncStore, PcInv
      <3> QED  BY <1>0, <2>1, <3>1 DEF SyncStore, connVars, counters, registry
    <2>2. ASSUME NEW g \in Groups, KickDetach(g) PROVE TypeOK'
      BY <1>0, <2>2 DEF KickDetach, connVars, counters
    <2>3. CASE KickRun
      <3>1. sync.detached \in Conns
        BY <1>0, <2>3 DEF KickRun, PcInv
      <3>2. kicked' \in [Conns -> BOOLEAN]
        BY <1>0, <2>3 DEF KickRun
      <3> QED  BY <1>0, <2>3, <3>1, <3>2 DEF KickRun, connVars, counters
    <2>4. CASE SyncReturn
      <3>1. NoUsers \in Configs
        BY DEF NoUsers, Configs
      <3> QED  BY <1>0, <2>4, <3>1 DEF SyncReturn, NoCall, connVars, counters, registry
    <2> QED  BY <1>7, <2>1, <2>2, <2>3, <2>4 DEF SyncStep
  <1>8. ASSUME NEW t \in Tags, NEW users \in HttpPushes, HttpPush(t, users)
        PROVE  TypeOK'
    <2>1. users \in Configs
      BY PushesTyped
    <2> QED  BY <1>0, <1>8, <2>1 DEF HttpPush, connVars, counters, registry
  <1>9. CASE RestartXray
    <2>1. NoUsers \in Configs
      BY DEF NoUsers, Configs
    <2> QED  BY <1>0, <1>9, <2>1 DEF RestartXray, connVars, counters, registry
  <1> QED
    BY <1>1, <1>2, <1>3, <1>4, <1>5, <1>6, <1>7, <1>8, <1>9 DEF Next

-----------------------------------------------------------------------------
\* When connection c moves, the connections of a group whose program counter
\* is in pcs gain c, lose c, or stay as they are, and so does their number.
LEMMA GroupMoves ==
    ASSUME TypeOK, NEW pcs, NEW c \in Conns, NEW to, Go(c, to), rec' = rec,
           NEW g \in Groups
    PROVE  LET S == InGroup(g, pcs)
           IN Cardinality(InGroup(g, pcs)') =
                IF g # Group(c) \/ (pc[c] \in pcs <=> to \in pcs)
                THEN Cardinality(S)
                ELSE IF to \in pcs THEN Cardinality(S) + 1 ELSE Cardinality(S) - 1
  <1> DEFINE S == InGroup(g, pcs)
  <1>0. S \in SUBSET Conns
    BY DEF InGroup
  <1>1. pc' = [pc EXCEPT ![c] = to] /\ pc \in [Conns -> PCs]
    BY DEF Go, TypeOK
  <1>2. CASE g # Group(c) \/ (pc[c] \in pcs <=> to \in pcs)
    <2>1. InGroup(g, pcs)' = S
      BY <1>1, <1>2 DEF InGroup, Group
    <2> QED  BY <1>2, <2>1
  <1>3. CASE g = Group(c) /\ pc[c] \notin pcs /\ to \in pcs
    <2>1. InGroup(g, pcs)' = S \cup {c} /\ c \in Conns \ S
      BY <1>1, <1>3 DEF InGroup, Group
    <2> QED  BY <1>0, <1>3, <2>1, ConnSets
  <1>4. CASE g = Group(c) /\ pc[c] \in pcs /\ to \notin pcs
    <2>1. InGroup(g, pcs)' = S \ {c} /\ c \in S
      BY <1>1, <1>4 DEF InGroup, Group
    <2> QED  BY <1>0, <1>4, <2>1, ConnSets
  <1> QED  BY <1>2, <1>3, <1>4

\* The same for the statistics groups.
LEMMA StatMoves ==
    ASSUME TypeOK, NEW pcs, NEW c \in Conns, NEW to, Go(c, to), rec' = rec,
           NEW g \in Groups
    PROVE  LET S == InStat(g, pcs)
           IN Cardinality(InStat(g, pcs)') =
                IF g # rec[c].stat \/ (pc[c] \in pcs <=> to \in pcs)
                THEN Cardinality(S)
                ELSE IF to \in pcs THEN Cardinality(S) + 1 ELSE Cardinality(S) - 1
  <1> DEFINE S == InStat(g, pcs)
  <1>0. S \in SUBSET Conns
    BY DEF InStat
  <1>1. pc' = [pc EXCEPT ![c] = to] /\ pc \in [Conns -> PCs]
    BY DEF Go, TypeOK
  <1>2. CASE g # rec[c].stat \/ (pc[c] \in pcs <=> to \in pcs)
    <2>1. InStat(g, pcs)' = S
      BY <1>1, <1>2 DEF InStat
    <2> QED  BY <1>2, <2>1
  <1>3. CASE g = rec[c].stat /\ pc[c] \notin pcs /\ to \in pcs
    <2>1. InStat(g, pcs)' = S \cup {c} /\ c \in Conns \ S
      BY <1>1, <1>3 DEF InStat
    <2> QED  BY <1>0, <1>3, <2>1, ConnSets
  <1>4. CASE g = rec[c].stat /\ pc[c] \in pcs /\ to \notin pcs
    <2>1. InStat(g, pcs)' = S \ {c} /\ c \in S
      BY <1>1, <1>4 DEF InStat
    <2> QED  BY <1>0, <1>4, <2>1, ConnSets
  <1> QED  BY <1>2, <1>3, <1>4

\* A step that moves no connection leaves both counts as they are.
LEMMA IdleCounts ==
    ASSUME CounterExact, pc' = pc, rec' = rec,
           connCount' = connCount, statCount' = statCount
    PROVE  CounterExact'
  BY DEF CounterExact, InGroup, InStat, Group

\* A step of c that keeps c on the same side of both counted sets.
LEMMA NeutralMove ==
    ASSUME TypeOK, CounterExact, NEW c \in Conns, NEW to, Go(c, to), rec' = rec,
           connCount' = connCount, statCount' = statCount,
           pc[c] \in Counted <=> to \in Counted,
           pc[c] \in StatCounted <=> to \in StatCounted
    PROVE  CounterExact'
  BY GroupMoves, StatMoves DEF CounterExact

\* Each action keeps the counters exact.
LEMMA NextExact == Inv /\ [Next]_vars => CounterExact'
  <1> SUFFICES ASSUME Inv, [Next]_vars PROVE CounterExact'  OBVIOUS
  <1>0. TypeOK /\ PcInv /\ CounterExact
    BY DEF Inv
  <1>1. CASE UNCHANGED vars
    BY <1>0, <1>1, IdleCounts DEF vars, connVars, counters
  <1>2. ASSUME NEW c \in Conns, Lookup(c) PROVE CounterExact'
    <2>1. \A g \in Groups : /\ InGroup(g, Counted)' = InGroup(g, Counted)
                            /\ InStat(g, StatCounted)' = InStat(g, StatCounted)
      BY <1>0, <1>2 DEF Lookup, Go, InGroup, InStat, Group, TypeOK, Counted, StatCounted
    <2> QED  BY <1>0, <1>2, <2>1 DEF Lookup, CounterExact, counters
  <1>3. ASSUME NEW c \in Conns, Acquire(c) PROVE CounterExact'
    <2> DEFINE to == IF OverLimit(rec[c].limit, connCount[Group(c)] + 1)
                     THEN "undo" ELSE "stat"
    <2>1. /\ Go(c, to) /\ rec' = rec /\ pc[c] = "acquire"
          /\ pc[c] \notin Counted /\ to \in Counted
          /\ pc[c] \notin StatCounted /\ to \notin StatCounted
      BY <1>3 DEF Acquire, Counted, StatCounted
    <2>2. \A g \in Groups : Cardinality(InStat(g, StatCounted)') = Cardinality(InStat(g, StatCounted))
      BY <1>0, <2>1, StatMoves
    <2>3. \A g \in Groups : Cardinality(InGroup(g, Counted)') =
              IF g = Group(c) THEN Cardinality(InGroup(g, Counted)) + 1
                              ELSE Cardinality(InGroup(g, Counted))
      BY <1>0, <2>1, GroupMoves
    <2> QED  BY <1>0, <1>3, <2>2, <2>3 DEF Acquire, CounterExact, TypeOK
  <1>4. ASSUME NEW c \in Conns, Undo(c) PROVE CounterExact'
    <2>1. /\ Go(c, "rejected") /\ rec' = rec /\ pc[c] = "undo"
          /\ pc[c] \in Counted /\ "rejected" \notin Counted
          /\ pc[c] \notin StatCounted /\ "rejected" \notin StatCounted
      BY <1>4 DEF Undo, Counted, StatCounted
    <2>2. \A g \in Groups : Cardinality(InStat(g, StatCounted)') = Cardinality(InStat(g, StatCounted))
      BY <1>0, <2>1, StatMoves
    <2>3. \A g \in Groups : Cardinality(InGroup(g, Counted)') =
              IF g = Group(c) THEN Cardinality(InGroup(g, Counted)) - 1
                              ELSE Cardinality(InGroup(g, Counted))
      BY <1>0, <2>1, GroupMoves
    <2> QED  BY <1>0, <1>4, <2>2, <2>3 DEF Undo, CounterExact, TypeOK
  <1>5. ASSUME NEW c \in Conns, CountStat(c) PROVE CounterExact'
    <2>1. /\ Go(c, "track") /\ rec' = rec /\ pc[c] = "stat"
          /\ pc[c] \in Counted /\ "track" \in Counted
          /\ pc[c] \notin StatCounted /\ "track" \in StatCounted
      BY <1>5 DEF CountStat, Counted, StatCounted
    <2>2. \A g \in Groups : Cardinality(InGroup(g, Counted)') = Cardinality(InGroup(g, Counted))
      BY <1>0, <2>1, GroupMoves
    <2>3. \A g \in Groups : Cardinality(InStat(g, StatCounted)') =
              IF g = rec[c].stat THEN Cardinality(InStat(g, StatCounted)) + 1
                                 ELSE Cardinality(InStat(g, StatCounted))
      BY <1>0, <2>1, StatMoves
    <2> QED  BY <1>0, <1>5, <2>2, <2>3 DEF CountStat, CounterExact, TypeOK
  <1>6. ASSUME NEW c \in Conns, Release(c) PROVE CounterExact'
    <2>1. /\ Go(c, "statrelease") /\ rec' = rec /\ pc[c] = "release"
          /\ pc[c] \in Counted /\ "statrelease" \notin Counted
          /\ pc[c] \in StatCounted /\ "statrelease" \in StatCounted
      BY <1>6 DEF Release, Counted, StatCounted
    <2>2. \A g \in Groups : Cardinality(InStat(g, StatCounted)') = Cardinality(InStat(g, StatCounted))
      BY <1>0, <2>1, StatMoves
    <2>3. \A g \in Groups : Cardinality(InGroup(g, Counted)') =
              IF g = Group(c) THEN Cardinality(InGroup(g, Counted)) - 1
                              ELSE Cardinality(InGroup(g, Counted))
      BY <1>0, <2>1, GroupMoves
    <2>4. Group(c) \in Groups /\ connCount[Group(c)] > 0
      BY <2>1, CountedIsPositive
    <2>5. Floor(connCount[Group(c)] - 1) = connCount[Group(c)] - 1
      BY <1>0, <2>4 DEF Floor, TypeOK
    <2> QED  BY <1>0, <1>6, <2>2, <2>3, <2>5 DEF Release, CounterExact, TypeOK
  <1>7. ASSUME NEW c \in Conns, ReleaseStat(c) PROVE CounterExact'
    <2>1. /\ Go(c, "closed") /\ rec' = rec /\ pc[c] = "statrelease"
          /\ pc[c] \notin Counted /\ "closed" \notin Counted
          /\ pc[c] \in StatCounted /\ "closed" \notin StatCounted
      BY <1>7 DEF ReleaseStat, Counted, StatCounted
    <2>2. \A g \in Groups : Cardinality(InGroup(g, Counted)') = Cardinality(InGroup(g, Counted))
      BY <1>0, <2>1, GroupMoves
    <2>3. \A g \in Groups : Cardinality(InStat(g, StatCounted)') =
              IF g = rec[c].stat THEN Cardinality(InStat(g, StatCounted)) - 1
                                 ELSE Cardinality(InStat(g, StatCounted))
      BY <1>0, <2>1, StatMoves
    <2>4. rec[c].stat \in Groups
      BY <1>0, <2>1, RecordsTyped DEF PcInv
    <2>5. c \in InStat(rec[c].stat, StatCounted)
      BY <2>1 DEF InStat
    <2>6. statCount[rec[c].stat] > 0
      BY <1>0, <2>4, <2>5, CountedSets, ConnSets DEF CounterExact
    <2>7. Floor(statCount[rec[c].stat] - 1) = statCount[rec[c].stat] - 1
      BY <1>0, <2>4, <2>6 DEF Floor, TypeOK
    <2> QED  BY <1>0, <1>7, <2>2, <2>3, <2>7 DEF ReleaseStat, CounterExact, TypeOK
  <1>8. ASSUME NEW c \in Conns,
               TrackLoad(c) \/ TrackAdd(c) \/ ConnEnds(c) \/ Untrack(c) \/ Unmap(c)
        PROVE  CounterExact'
    <2>1. CASE TrackLoad(c)
      BY <1>0, <2>1, NeutralMove DEF TrackLoad, Counted, StatCounted, counters
    <2>2. CASE TrackAdd(c)
      BY <1>0, <2>2, NeutralMove DEF TrackAdd, Counted, StatCounted, counters
    <2>3. CASE ConnEnds(c)
      BY <1>0, <2>3, NeutralMove DEF ConnEnds, Counted, StatCounted, counters
    <2>4. CASE Untrack(c)
      BY <1>0, <2>4, NeutralMove DEF Untrack, Counted, StatCounted, counters
    <2>5. CASE Unmap(c)
      BY <1>0, <2>5, NeutralMove DEF Unmap, Counted, StatCounted, counters
    <2> QED  BY <1>8, <2>1, <2>2, <2>3, <2>4, <2>5
  <1>9. ASSUME NEW t \in Tags, NEW users \in WsPushes, SyncLoad(t, users)
        PROVE  CounterExact'
    BY <1>0, <1>9, IdleCounts DEF SyncLoad, connVars, counters
  <1>10. CASE SyncStep
    BY <1>0, <1>10, IdleCounts
       DEF SyncStep, SyncStore, KickDetach, KickRun, SyncReturn, connVars, counters
  <1>11. ASSUME NEW t \in Tags, NEW users \in HttpPushes, HttpPush(t, users)
         PROVE  CounterExact'
    BY <1>0, <1>11, IdleCounts DEF HttpPush, connVars, counters
  <1>12. CASE RestartXray
    BY <1>0, <1>12, IdleCounts DEF RestartXray, connVars, counters
  <1> QED
    BY <1>1, <1>2, <1>3, <1>4, <1>5, <1>6, <1>7, <1>8, <1>9, <1>10, <1>11, <1>12
       DEF Next, AdmissionStep, CleanupStep

-----------------------------------------------------------------------------
\* Inv is inductive, so AcquireConn, ReleaseConn and TrackConn keep it.
THEOREM Invariance == Spec => []Inv
  <1>1. Init => Inv
    BY InitInv
  <1>2. Inv /\ [Next]_vars => Inv'
    BY NextPcInv, NextTypeOK, NextExact DEF Inv
  <1> QED  BY <1>1, <1>2, PTL DEF Spec

\* The limiter's variables keep their types; no counter becomes negative.
THEOREM TypeCorrect == Spec => []TypeOK
  <1>1. Inv => TypeOK
    BY DEF Inv
  <1> QED  BY <1>1, Invariance, PTL

\* The counters of AcquireConn and ReleaseConn are exact in every state.
THEOREM CountersExact == Spec => []CounterExact
  <1>1. Inv => CounterExact
    BY DEF Inv
  <1> QED  BY <1>1, Invariance, PTL

-----------------------------------------------------------------------------
\* The connections limited to l grow only when one is admitted.
LEMMA LimitedShrinks ==
    ASSUME TypeOK, [Next]_vars, \A c \in Conns : ~Acquire(c),
           NEW g \in Groups, NEW l
    PROVE  LimitedTo(g, l)' \subseteq LimitedTo(g, l)
  <1> USE DEF LimitedTo, InGroup, Group, TypeOK, Admitted, Counted
  <1>1. CASE UNCHANGED vars
    BY <1>1 DEF vars, connVars
  <1>2. ASSUME NEW c \in Conns, Lookup(c)
        PROVE  LimitedTo(g, l)' \subseteq LimitedTo(g, l)
    BY <1>2 DEF Lookup, Go
  <1>3. ASSUME NEW c \in Conns, AdmissionStep(c)
        PROVE  LimitedTo(g, l)' \subseteq LimitedTo(g, l)
    <2>1. CASE Undo(c)       BY <2>1 DEF Undo, Go
    <2>2. CASE CountStat(c)  BY <2>2 DEF CountStat, Go
    <2>3. CASE TrackLoad(c)  BY <2>3 DEF TrackLoad, Go
    <2>4. CASE TrackAdd(c)   BY <2>4 DEF TrackAdd, Go
    <2> QED  BY <1>3, <2>1, <2>2, <2>3, <2>4 DEF AdmissionStep
  <1>4. ASSUME NEW c \in Conns, ConnEnds(c)
        PROVE  LimitedTo(g, l)' \subseteq LimitedTo(g, l)
    BY <1>4 DEF ConnEnds, Go
  <1>5. ASSUME NEW c \in Conns, CleanupStep(c)
        PROVE  LimitedTo(g, l)' \subseteq LimitedTo(g, l)
    <2>1. CASE Untrack(c)      BY <2>1 DEF Untrack, Go
    <2>2. CASE Unmap(c)        BY <2>2 DEF Unmap, Go
    <2>3. CASE Release(c)      BY <2>3 DEF Release, Go
    <2>4. CASE ReleaseStat(c)  BY <2>4 DEF ReleaseStat, Go
    <2> QED  BY <1>5, <2>1, <2>2, <2>3, <2>4 DEF CleanupStep
  <1>6. CASE UNCHANGED connVars
    BY <1>6 DEF connVars
  <1> QED
    BY <1>1, <1>2, <1>3, <1>4, <1>5, <1>6
       DEF Next, SyncLoad, SyncStep, SyncStore, KickDetach, KickRun, SyncReturn,
           HttpPush, RestartXray

\* An admission under limit l finds fewer than l connections counted, so that
\* with it at most l of the group are counted at all.
LEMMA AcquireKeepsQuota ==
    ASSUME Inv, Inv', QuotaRespected, NEW c \in Conns, Acquire(c)
    PROVE  QuotaRespected'
  <1> SUFFICES ASSUME NEW g \in Groups, NEW l \in {r.limit : r \in Records}
               PROVE  Cardinality(LimitedTo(g, l)') <= l
    BY DEF QuotaRespected
  <1> DEFINE n == connCount[Group(c)] + 1
  <1>0. /\ TypeOK /\ TypeOK' /\ CounterExact'
        /\ rec' = rec /\ pc[c] = "acquire" /\ rec[c] \in Records
        /\ pc' = [pc EXCEPT ![c] = IF OverLimit(rec[c].limit, n) THEN "undo" ELSE "stat"]
    BY DEF Inv, PcInv, Acquire, Go
  <1>1. l \in Nat /\ rec[c].limit \in Nat /\ Group(c) \in Groups
    BY <1>0, RecordsTyped DEF Group
  <1>2. LimitedTo(g, l)' \in SUBSET Conns
    BY DEF LimitedTo, InGroup
  <1>3. CASE /\ g = Group(c) /\ 0 < rec[c].limit /\ rec[c].limit <= l
             /\ ~OverLimit(rec[c].limit, n)
    <2>1. n <= rec[c].limit /\ n \in Nat
      BY <1>0, <1>1, <1>3 DEF OverLimit, TypeOK
    <2>2. connCount'[g] = n
      BY <1>0, <1>1, <1>3 DEF Acquire, TypeOK
    <2>3. Cardinality(InGroup(g, Counted)') = n
      BY <1>0, <2>2 DEF CounterExact
    <2>4. InGroup(g, Counted)' \in SUBSET Conns
      BY DEF InGroup
    <2>5. LimitedTo(g, l)' \subseteq InGroup(g, Counted)'
      BY DEF LimitedTo, InGroup, Admitted
    <2>6. Cardinality(LimitedTo(g, l)') <= n
      BY <2>3, <2>4, <2>5, ConnsFinite, FS_Subset
    <2>7. Cardinality(LimitedTo(g, l)') \in Nat
      BY <1>2, ConnSets
    <2> QED  BY <1>1, <1>3, <2>1, <2>6, <2>7
  <1>4. CASE ~(/\ g = Group(c) /\ 0 < rec[c].limit /\ rec[c].limit <= l
               /\ ~OverLimit(rec[c].limit, n))
    <2>1. LimitedTo(g, l)' \subseteq LimitedTo(g, l)
      BY <1>0, <1>4 DEF LimitedTo, InGroup, Group, TypeOK, Admitted, Counted
    <2>2. Cardinality(LimitedTo(g, l)') <= Cardinality(LimitedTo(g, l))
      <3>1. LimitedTo(g, l) \in SUBSET Conns
        BY DEF LimitedTo, InGroup
      <3> QED  BY <2>1, <3>1, ConnSets, FS_Subset
    <2>3. Cardinality(LimitedTo(g, l)) \in Nat /\ Cardinality(LimitedTo(g, l)') \in Nat
      BY <1>2, ConnSets DEF LimitedTo, InGroup
    <2>4. Cardinality(LimitedTo(g, l)) <= l
      BY DEF QuotaRespected
    <2> QED  BY <1>1, <2>2, <2>3, <2>4
  <1> QED  BY <1>3, <1>4

\* Every other step leaves at most the connections there were.
LEMMA OthersKeepQuota ==
    ASSUME Inv, QuotaRespected, [Next]_vars, \A c \in Conns : ~Acquire(c)
    PROVE  QuotaRespected'
  <1> SUFFICES ASSUME NEW g \in Groups, NEW l \in {r.limit : r \in Records}
               PROVE  Cardinality(LimitedTo(g, l)') <= l
    BY DEF QuotaRespected
  <1>1. LimitedTo(g, l)' \subseteq LimitedTo(g, l)
    BY LimitedShrinks DEF Inv
  <1>2. LimitedTo(g, l) \in SUBSET Conns /\ LimitedTo(g, l)' \in SUBSET Conns
    BY DEF LimitedTo, InGroup
  <1>3. Cardinality(LimitedTo(g, l)') <= Cardinality(LimitedTo(g, l))
    BY <1>1, <1>2, ConnSets, FS_Subset
  <1>4. Cardinality(LimitedTo(g, l)) \in Nat /\ Cardinality(LimitedTo(g, l)') \in Nat
    BY <1>2, ConnSets
  <1>5. Cardinality(LimitedTo(g, l)) <= l /\ l \in Nat
    BY RecordsTyped DEF QuotaRespected
  <1> QED  BY <1>3, <1>4, <1>5

\* AcquireConn's limit holds for all connections, groups and pushes.
THEOREM QuotaHolds == Spec => []QuotaRespected
  <1>1. Init => QuotaRespected
    <2> SUFFICES ASSUME Init, NEW g \in Groups, NEW l \in {r.limit : r \in Records}
                 PROVE  Cardinality(LimitedTo(g, l)) <= l
      BY DEF QuotaRespected
    <2>1. LimitedTo(g, l) = {}
      BY DEF Init, LimitedTo, InGroup, Admitted, Counted
    <2> QED  BY <2>1, FS_EmptySet, RecordsTyped
  <1>2. Inv /\ Inv' /\ QuotaRespected /\ [Next]_vars => QuotaRespected'
    BY AcquireKeepsQuota, OthersKeepQuota
  <1> QED  BY <1>1, <1>2, Invariance, PTL DEF Spec

-----------------------------------------------------------------------------
\* A step that changes no lease and no slot is a stutter of the semaphore.
LEMMA StutterStep ==
    ASSUME \A c \in Conns : Lease(c)' = Lease(c) /\ Slot(c)' = Slot(c)
    PROVE  UNCHANGED Semaphore!svars
  <1>1. [c \in Conns |-> Lease(c)]' = [c \in Conns |-> Lease(c)]
    OBVIOUS
  <1>2. [c \in Conns |-> Slot(c)]' = [c \in Conns |-> Slot(c)]
    OBVIOUS
  <1> QED  BY <1>1, <1>2 DEF Semaphore!svars

\* The step that lets a connection in finds a free slot in the semaphore.
LEMMA AdmitStep ==
    ASSUME Inv, NEW c \in Conns, Acquire(c), pc'[c] = "stat"
    PROVE  Semaphore!Admit(c)
  <1> DEFINE n == connCount[Group(c)] + 1
  <1>0. /\ TypeOK /\ CounterExact
        /\ rec' = rec /\ pc[c] = "acquire" /\ rec[c] \in Records
        /\ pc' = [pc EXCEPT ![c] = IF OverLimit(rec[c].limit, n) THEN "undo" ELSE "stat"]
    BY DEF Inv, PcInv, Acquire, Go
  <1>1. pc' = [pc EXCEPT ![c] = "stat"] /\ ~OverLimit(rec[c].limit, n)
    BY <1>0 DEF TypeOK
  <1>2. /\ rec[c].limit \in Nat /\ Group(c) \in Groups
        /\ Lease(c) = [group |-> Group(c), limit |-> rec[c].limit]
        /\ Slot(c) = None
    BY <1>0, RecordsTyped DEF Group, Lease, Slot, Admitted, Counted
  <1>3. Lease(c) # None /\ Lease(c).group = Group(c) /\ Lease(c).limit = rec[c].limit
    BY <1>2, NoneIsNew
  <1>4. rec[c].limit > 0 => Cardinality(Semaphore!HeldBy(Group(c))) < rec[c].limit
    <2>1. Semaphore!HeldBy(Group(c)) \subseteq InGroup(Group(c), Counted)
      BY <1>2, NoneIsNew DEF Semaphore!HeldBy, InGroup, Slot, Group, Admitted
    <2>2. InGroup(Group(c), Counted) \in SUBSET Conns
      BY DEF InGroup
    <2>3. /\ Cardinality(Semaphore!HeldBy(Group(c))) <= Cardinality(InGroup(Group(c), Counted))
          /\ Cardinality(Semaphore!HeldBy(Group(c))) \in Nat
      BY <2>1, <2>2, ConnSets, FS_Subset
    <2>4. /\ Cardinality(InGroup(Group(c), Counted)) = connCount[Group(c)]
          /\ connCount[Group(c)] \in Nat
      BY <1>0, <1>2 DEF CounterExact, TypeOK
    <2>5. rec[c].limit > 0 => connCount[Group(c)] + 1 <= rec[c].limit
      BY <1>1, <1>2, <2>4 DEF OverLimit
    <2> QED  BY <1>2, <2>3, <2>4, <2>5
  <1>5. \A d \in Conns : Lease(d)' = Lease(d)
    BY <1>0, <1>1 DEF Lease, Group, TypeOK, Admitted, Counted
  <1>6. [d \in Conns |-> Slot(d)]' = [[d \in Conns |-> Slot(d)] EXCEPT ![c] = Group(c)]
    BY <1>0, <1>1 DEF Slot, Group, TypeOK, Admitted, Counted
  <1>7. \A S : Semaphore!Cardinality(S) = Cardinality(S)
    BY DEF Semaphore!Cardinality, Cardinality
  <1> QED  BY <1>2, <1>3, <1>4, <1>5, <1>6, <1>7 DEF Semaphore!Admit

\* Every step of the limiter is a step of the semaphore or a stutter.
LEMMA StepRefines ==
    Inv /\ [Next]_vars => [Semaphore!SNext]_(Semaphore!svars)
  <1> SUFFICES ASSUME Inv, [Next]_vars
               PROVE  Semaphore!SNext \/ UNCHANGED Semaphore!svars
    OBVIOUS
  <1>0. TypeOK /\ PcInv
    BY DEF Inv
  <1> USE DEF TypeOK, Admitted, Counted
  <1>1. ASSUME UNCHANGED connVars PROVE UNCHANGED Semaphore!svars
    BY <1>1, StutterStep DEF connVars, Lease, Slot, Group
  <1>2. ASSUME NEW c \in Conns, Lookup(c)
        PROVE  Semaphore!SNext \/ UNCHANGED Semaphore!svars
    <2> DEFINE u == userInfo[InboundOf[c]][EmailOf[c]]
    <2>1. u \in Records \cup {None}
      BY <1>0, ConnsTyped DEF Configs
    <2>2. CASE u = None
      <3>1. \A d \in Conns : Lease(d)' = Lease(d) /\ Slot(d)' = Slot(d)
        BY <1>0, <1>2, <2>2 DEF Lookup, Go, Lease, Slot, Group
      <3> QED  BY <3>1, StutterStep
    <2>3. CASE u # None
      <3>1. /\ pc[c] = "idle" /\ pc' = [pc EXCEPT ![c] = "acquire"]
            /\ rec' = [rec EXCEPT ![c] = u] /\ u \in Records
        BY <1>2, <2>1, <2>3 DEF Lookup, Go
      <3> DEFINE r == [group |-> u.group, limit |-> u.limit]
      <3>2. r \in [group : Groups, limit : {v.limit : v \in Records}]
        BY <3>1, RecordsTyped
      <3>3. [d \in Conns |-> Lease(d)]' = [[d \in Conns |-> Lease(d)] EXCEPT ![c] = r]
        BY <1>0, <3>1 DEF Lease, Group
      <3>4. Lease(c) = None
        BY <3>1 DEF Lease
      <3>5. [d \in Conns |-> Slot(d)]' = [d \in Conns |-> Slot(d)]
        BY <1>0, <3>1 DEF Slot, Group
      <3>6. Semaphore!Request(c)
        BY <3>2, <3>3, <3>4, <3>5 DEF Semaphore!Request, Semaphore!Requests
      <3> QED  BY <3>6 DEF Semaphore!SNext
    <2> QED  BY <2>2, <2>3
  <1>3. ASSUME NEW c \in Conns, Acquire(c)
        PROVE  Semaphore!SNext \/ UNCHANGED Semaphore!svars
    <2>1. CASE pc'[c] = "stat"
      BY <1>3, <2>1, AdmitStep DEF Semaphore!SNext
    <2>2. CASE pc'[c] # "stat"
      <3>1. pc[c] = "acquire" /\ pc' = [pc EXCEPT ![c] = "undo"] /\ rec' = rec
        BY <1>0, <1>3, <2>2 DEF Acquire, Go
      <3>2. \A d \in Conns : Lease(d)' = Lease(d) /\ Slot(d)' = Slot(d)
        BY <1>0, <3>1 DEF Lease, Slot, Group
      <3> QED  BY <3>2, StutterStep
    <2> QED  BY <2>1, <2>2
  <1>4. ASSUME NEW c \in Conns, NEW to, Go(c, to), rec' = rec,
               \/ pc[c] = "undo" /\ to = "rejected"
               \/ pc[c] \in Admitted /\ to \in Admitted
               \/ pc[c] = "statrelease" /\ to = "closed"
        PROVE  UNCHANGED Semaphore!svars
    <2>1. \A d \in Conns : Lease(d)' = Lease(d) /\ Slot(d)' = Slot(d)
      BY <1>0, <1>4 DEF Go, Lease, Slot, Group
    <2> QED  BY <2>1, StutterStep
  <1>5. ASSUME NEW c \in Conns, Release(c) PROVE Semaphore!SNext
    <2>1. pc[c] = "release" /\ pc' = [pc EXCEPT ![c] = "statrelease"] /\ rec' = rec
      BY <1>5 DEF Release, Go
    <2>2. Slot(c) # None
      BY <1>0, <2>1, NoneIsNew, RecordsTyped DEF Slot, Group, PcInv
    <2>3. [d \in Conns |-> Lease(d)]' = [[d \in Conns |-> Lease(d)] EXCEPT ![c] = None]
      BY <1>0, <2>1 DEF Lease, Group
    <2>4. [d \in Conns |-> Slot(d)]' = [[d \in Conns |-> Slot(d)] EXCEPT ![c] = None]
      BY <1>0, <2>1 DEF Slot, Group
    <2>5. Semaphore!Leave(c)
      BY <2>2, <2>3, <2>4 DEF Semaphore!Leave
    <2> QED  BY <2>5 DEF Semaphore!SNext
  <1>6. ASSUME NEW c \in Conns, AdmissionStep(c) \/ ConnEnds(c) \/ CleanupStep(c)
        PROVE  Semaphore!SNext \/ UNCHANGED Semaphore!svars
    <2>1. CASE Undo(c)         BY <2>1, <1>4 DEF Undo
    <2>2. CASE CountStat(c)    BY <2>2, <1>4 DEF CountStat
    <2>3. CASE TrackLoad(c)    BY <2>3, <1>4 DEF TrackLoad
    <2>4. CASE TrackAdd(c)     BY <2>4, <1>4 DEF TrackAdd
    <2>5. CASE ConnEnds(c)     BY <2>5, <1>4 DEF ConnEnds
    <2>6. CASE Untrack(c)      BY <2>6, <1>4 DEF Untrack
    <2>7. CASE Unmap(c)        BY <2>7, <1>4 DEF Unmap
    <2>8. CASE ReleaseStat(c)  BY <2>8, <1>4 DEF ReleaseStat
    <2> QED
      BY <1>3, <1>5, <1>6, <2>1, <2>2, <2>3, <2>4, <2>5, <2>6, <2>7, <2>8
         DEF AdmissionStep, CleanupStep
  <1>7. CASE UNCHANGED vars
    BY <1>1, <1>7 DEF vars
  <1> QED
    BY <1>1, <1>2, <1>6, <1>7
       DEF Next, SyncLoad, SyncStep, SyncStore, KickDetach, KickRun, SyncReturn,
           HttpPush, RestartXray

\* The limiter with its counters implements the counting semaphore, for every
\* number of connections and whatever the master pushes.
THEOREM Refinement == Spec => ImplementsSemaphore
  <1>1. Init => Semaphore!SInit
    BY DEF Init, Semaphore!SInit, Lease, Slot, Admitted, Counted
  <1>2. Inv /\ [Next]_vars => [Semaphore!SNext]_(Semaphore!svars)
    BY StepRefines
  <1> QED
    BY <1>1, <1>2, Invariance, PTL
       DEF Spec, ImplementsSemaphore, Semaphore!SemaphoreSpec

-----------------------------------------------------------------------------
\* Where a connection is once TrackConn has handed it its kicker set, where
\* it uses that set, and where its kick function is in the set.
Loaded == {"register", "open", "untrack", "unmap", "release", "statrelease",
           "closed"}
Using == {"register", "open", "untrack", "unmap"}
Held == {"open", "untrack"}

\* A kicker set belongs to one group: that of the connection it is named for,
\* which is past TrackConn itself, is the group of every connection using it.
SetInv ==
    \A c \in Conns : pc[c] \in Loaded =>
        /\ ref[c] \in Conns
        /\ pc[ref[c]] \in Loaded
        /\ Group(ref[c]) = Group(c)

\* The two halves of NoStaleKicker: a registered set is in use, and a function
\* in a set is that of a running connection.
ActiveInv ==
    \A g \in Groups : active[g] # None =>
        \E c \in Conns : pc[c] \in Using /\ Group(c) = g /\ ref[c] = active[g]
HeldInv ==
    \A s \in Conns : \A c \in kickers[s] : ref[c] = s /\ pc[c] \in Held

KickInv == SetInv /\ ActiveInv /\ HeldInv

\* A step that touches neither the sets nor the connections keeps KickInv.
LEMMA SetsUntouched ==
    ASSUME KickInv, UNCHANGED <<pc, rec, ref, active, kickers>>
    PROVE  KickInv'
  BY DEF KickInv, SetInv, ActiveInv, HeldInv, Group

\* So does a connection that moves on without crossing a boundary of theirs.
LEMMA QuietMove ==
    ASSUME TypeOK, KickInv, NEW c \in Conns, NEW to, Go(c, to),
           UNCHANGED <<rec, ref, active, kickers>>,
           pc[c] \in Loaded <=> to \in Loaded,
           pc[c] \in Using => to \in Using,
           pc[c] \in Held => to \in Held
    PROVE  KickInv'
  <1>1. /\ pc'[c] = to
        /\ \A d \in Conns : d # c => pc'[d] = pc[d]
        /\ \A d \in Conns : Group(d)' = Group(d)
    BY DEF TypeOK, Go, Group
  <1>2. \A d \in Conns : /\ pc[d] \in Loaded => pc'[d] \in Loaded
                         /\ pc[d] \in Using => pc'[d] \in Using
                         /\ pc[d] \in Held => pc'[d] \in Held
    BY <1>1
  <1>3. SetInv'
    <2> SUFFICES ASSUME NEW d \in Conns, pc'[d] \in Loaded
                 PROVE  ref[d] \in Conns /\ pc'[ref[d]] \in Loaded /\ Group(ref[d])' = Group(d)'
      BY DEF SetInv
    <2>1. pc[d] \in Loaded
      BY <1>1
    <2>2. ref[d] \in Conns /\ pc[ref[d]] \in Loaded /\ Group(ref[d]) = Group(d)
      BY <2>1 DEF KickInv, SetInv
    <2> QED  BY <1>1, <1>2, <2>2
  <1>4. ActiveInv'
    BY <1>1, <1>2 DEF KickInv, ActiveInv
  <1>5. HeldInv'
    BY <1>2 DEF KickInv, HeldInv, TypeOK
  <1> QED  BY <1>3, <1>4, <1>5 DEF KickInv

\* TrackConn joins the registered set, which is of its group, or makes one of
\* its own, which no other connection can be using yet.
LEMMA TrackLoadKeepsSets ==
    ASSUME Inv, KickInv, NEW c \in Conns, TrackLoad(c)
    PROVE  KickInv'
  <1> DEFINE g == Group(c)
             set == IF active[g] = None THEN c ELSE active[g]
  <1>1. /\ pc \in [Conns -> PCs] /\ ref \in [Conns -> Conns \cup {None}]
        /\ active \in [Groups -> Conns \cup {None}]
        /\ rec[c] \in Records /\ g \in Groups
    BY RecordsTyped DEF Inv, TypeOK, PcInv, TrackLoad, Group
  <1>2. /\ pc[c] = "track" /\ pc' = [pc EXCEPT ![c] = "register"]
        /\ ref' = [ref EXCEPT ![c] = set] /\ active' = [active EXCEPT ![g] = set]
        /\ kickers' = kickers /\ rec' = rec
    BY DEF TrackLoad, Go
  <1>3. /\ pc'[c] = "register" /\ ref'[c] = set /\ active'[g] = set
        /\ \A d \in Conns : d # c => pc'[d] = pc[d] /\ ref'[d] = ref[d]
        /\ \A h \in Groups : h # g => active'[h] = active[h]
        /\ \A d \in Conns : Group(d)' = Group(d)
    BY <1>1, <1>2 DEF Group
  <1>4. \A d \in Conns : pc[d] \in Loaded => d # c /\ pc'[d] \in Loaded
    BY <1>2, <1>3 DEF Loaded
  <1>5. set \in Conns /\ pc'[set] \in Loaded /\ Group(set) = g
    <2>1. CASE active[g] = None
      BY <1>3, <2>1 DEF Loaded
    <2>2. CASE active[g] # None
      <3>1. PICK w \in Conns : pc[w] \in Using /\ Group(w) = g /\ ref[w] = active[g]
        BY <1>1, <2>2 DEF KickInv, ActiveInv
      <3>2. ref[w] \in Conns /\ pc[ref[w]] \in Loaded /\ Group(ref[w]) = Group(w)
        BY <3>1 DEF KickInv, SetInv, Using, Loaded
      <3> QED  BY <1>4, <2>2, <3>1, <3>2
    <2> QED  BY <2>1, <2>2
  <1>6. SetInv'
    <2> SUFFICES ASSUME NEW d \in Conns, pc'[d] \in Loaded
                 PROVE  ref'[d] \in Conns /\ pc'[ref'[d]] \in Loaded /\ Group(ref'[d]) = Group(d)
      BY <1>2 DEF SetInv, Group
    <2>1. CASE d = c
      BY <1>3, <1>5, <2>1
    <2>2. CASE d # c
      <3>1. ref[d] \in Conns /\ pc[ref[d]] \in Loaded /\ Group(ref[d]) = Group(d)
        BY <1>3, <2>2 DEF KickInv, SetInv
      <3> QED  BY <1>3, <1>4, <2>2, <3>1
    <2> QED  BY <2>1, <2>2
  <1>7. ActiveInv'
    <2> SUFFICES ASSUME NEW h \in Groups, active'[h] # None
                 PROVE  \E d \in Conns : pc'[d] \in Using /\ Group(d)' = h /\ ref'[d] = active'[h]
      BY DEF ActiveInv, Group
    <2>1. CASE h = g
      <3>1. pc'[c] \in Using /\ Group(c)' = h /\ ref'[c] = active'[h]
        BY <1>3, <2>1 DEF Using
      <3> QED  BY <3>1
    <2>2. CASE h # g
      <3>1. PICK w \in Conns : pc[w] \in Using /\ Group(w) = h /\ ref[w] = active[h]
        BY <1>3, <2>2 DEF KickInv, ActiveInv
      <3>2. w # c
        BY <2>2, <3>1
      <3> QED  BY <1>3, <2>2, <3>1, <3>2
    <2> QED  BY <2>1, <2>2
  <1>8. HeldInv'
    <2> SUFFICES ASSUME NEW s \in Conns, NEW d \in kickers[s]
                 PROVE  ref'[d] = s /\ pc'[d] \in Held
      BY <1>2 DEF HeldInv
    <2>1. d \in Conns /\ ref[d] = s /\ pc[d] \in Held
      BY DEF KickInv, HeldInv, Inv, TypeOK
    <2>2. d # c
      BY <1>2, <2>1 DEF Held
    <2> QED  BY <1>3, <2>1, <2>2
  <1> QED  BY <1>6, <1>7, <1>8 DEF KickInv

\* A connection that registers its function is running from then on.
LEMMA TrackAddKeepsSets ==
    ASSUME Inv, KickInv, NEW c \in Conns, TrackAdd(c)
    PROVE  KickInv'
  <1>1. /\ pc \in [Conns -> PCs] /\ kickers \in [Conns -> SUBSET Conns] /\ ref[c] \in Conns
        /\ pc[c] = "register" /\ pc' = [pc EXCEPT ![c] = "open"]
        /\ kickers' = [kickers EXCEPT ![ref[c]] = @ \cup {c}]
        /\ ref' = ref /\ rec' = rec /\ active' = active
    BY DEF Inv, TypeOK, PcInv, TrackAdd, Go
  <1>2. \A d \in Conns : /\ pc[d] \in Loaded <=> pc'[d] \in Loaded
                         /\ pc[d] \in Using => pc'[d] \in Using
                         /\ pc[d] \in Held => pc'[d] \in Held
    BY <1>1 DEF Loaded, Using, Held
  <1>3. SetInv'
    BY <1>1, <1>2 DEF KickInv, SetInv, Group
  <1>4. ActiveInv'
    BY <1>1, <1>2 DEF KickInv, ActiveInv, Group
  <1>5. HeldInv'
    <2> SUFFICES ASSUME NEW s \in Conns, NEW d \in kickers'[s]
                 PROVE  ref[d] = s /\ pc'[d] \in Held
      BY <1>1 DEF HeldInv
    <2>1. CASE d \in kickers[s]
      BY <1>1, <1>2, <2>1 DEF KickInv, HeldInv
    <2>2. CASE d \notin kickers[s]
      <3>1. d = c /\ s = ref[c]
        BY <1>1, <2>2
      <3> QED  BY <1>1, <3>1 DEF Held
    <2> QED  BY <2>1, <2>2
  <1> QED  BY <1>3, <1>4, <1>5 DEF KickInv

\* A connection leaves its set: what is left in it keeps it in use, and when
\* nothing is left the connection itself still has to unregister it.
LEMMA UntrackKeepsSets ==
    ASSUME Inv, KickInv, NEW c \in Conns, Untrack(c)
    PROVE  KickInv'
  <1> DEFINE rest == kickers[ref[c]] \ {c}
             to == IF rest = {} THEN "unmap" ELSE "release"
  <1>1. /\ pc \in [Conns -> PCs] /\ kickers \in [Conns -> SUBSET Conns] /\ ref[c] \in Conns
        /\ pc[c] = "untrack" /\ pc' = [pc EXCEPT ![c] = to]
        /\ kickers' = [kickers EXCEPT ![ref[c]] = rest]
        /\ ref' = ref /\ rec' = rec /\ active' = active
    BY DEF Inv, TypeOK, PcInv, Untrack, Go
  <1>2. pc'[c] = to /\ \A d \in Conns : d # c => pc'[d] = pc[d]
    BY <1>1
  <1>3. \A d \in Conns : pc[d] \in Loaded <=> pc'[d] \in Loaded
    BY <1>1, <1>2 DEF Loaded
  <1>4. SetInv'
    BY <1>1, <1>3 DEF KickInv, SetInv, Group
  <1>5. ActiveInv'
    <2> SUFFICES ASSUME NEW g \in Groups, active[g] # None
                 PROVE  \E d \in Conns : pc'[d] \in Using /\ Group(d) = g /\ ref[d] = active[g]
      BY <1>1 DEF ActiveInv, Group
    <2>1. PICK w \in Conns : pc[w] \in Using /\ Group(w) = g /\ ref[w] = active[g]
      BY DEF KickInv, ActiveInv
    <2>2. CASE w # c
      BY <1>2, <2>1, <2>2
    <2>3. CASE w = c /\ rest = {}
      BY <1>2, <2>1, <2>3 DEF Using
    <2>4. CASE w = c /\ rest # {}
      <3>1. PICK d \in rest : TRUE
        BY <2>4
      <3>2. d \in Conns /\ d # c /\ ref[d] = ref[c] /\ pc[d] \in Held
        BY <1>1, <3>1 DEF KickInv, HeldInv
      <3>3. pc[d] \in Loaded /\ pc[d] \in Using /\ pc[c] \in Loaded
        BY <1>1, <3>2 DEF Held, Loaded, Using
      <3>4. Group(d) = Group(c)
        BY <3>2, <3>3 DEF KickInv, SetInv
      <3> QED  BY <1>2, <2>1, <2>4, <3>2, <3>3, <3>4
    <2> QED  BY <2>2, <2>3, <2>4
  <1>6. HeldInv'
    <2> SUFFICES ASSUME NEW s \in Conns, NEW d \in kickers'[s]
                 PROVE  ref[d] = s /\ pc'[d] \in Held
      BY <1>1 DEF HeldInv
    <2>1. d \in kickers[s] /\ d \in Conns
      BY <1>1
    <2>2. ref[d] = s /\ pc[d] \in Held
      BY <2>1 DEF KickInv, HeldInv
    <2>3. d # c
      BY <1>1, <2>2
    <2> QED  BY <1>2, <2>1, <2>2, <2>3
  <1> QED  BY <1>4, <1>5, <1>6 DEF KickInv

\* CompareAndDelete unregisters the set of c and no other, so that what is
\* still registered is in use by somebody else.
LEMMA UnmapKeepsSets ==
    ASSUME Inv, KickInv, NEW c \in Conns, Unmap(c)
    PROVE  KickInv'
  <1>1. /\ pc \in [Conns -> PCs] /\ active \in [Groups -> Conns \cup {None}]
        /\ rec[c] \in Records /\ Group(c) \in Groups
    BY RecordsTyped DEF Inv, TypeOK, PcInv, Unmap, Group
  <1>2. /\ pc[c] = "unmap" /\ pc' = [pc EXCEPT ![c] = "release"]
        /\ active' = [active EXCEPT ![Group(c)] = IF @ = ref[c] THEN None ELSE @]
        /\ ref' = ref /\ rec' = rec /\ kickers' = kickers
    BY DEF Unmap, Go
  <1>3. pc'[c] = "release" /\ \A d \in Conns : d # c => pc'[d] = pc[d]
    BY <1>1, <1>2
  <1>4. \A d \in Conns : /\ pc[d] \in Loaded <=> pc'[d] \in Loaded
                         /\ pc[d] \in Held => pc'[d] \in Held
    BY <1>2, <1>3 DEF Loaded, Held
  <1>5. SetInv'
    BY <1>2, <1>4 DEF KickInv, SetInv, Group
  <1>6. ActiveInv'
    <2> SUFFICES ASSUME NEW g \in Groups, active'[g] # None
                 PROVE  \E d \in Conns : pc'[d] \in Using /\ Group(d) = g /\ ref[d] = active'[g]
      BY <1>2 DEF ActiveInv, Group
    <2>1. active'[g] = active[g] /\ (g = Group(c) => active[g] # ref[c])
      BY <1>1, <1>2
    <2>2. PICK w \in Conns : pc[w] \in Using /\ Group(w) = g /\ ref[w] = active[g]
      BY <2>1 DEF KickInv, ActiveInv
    <2>3. w # c
      BY <2>1, <2>2
    <2> QED  BY <1>3, <2>1, <2>2, <2>3
  <1>7. HeldInv'
    BY <1>2, <1>4 DEF KickInv, HeldInv, Inv, TypeOK
  <1> QED  BY <1>5, <1>6, <1>7 DEF KickInv

\* A connection that is looked up is in no set and has none.
LEMMA LookupKeepsSets ==
    ASSUME Inv, KickInv, NEW c \in Conns, Lookup(c)
    PROVE  KickInv'
  <1>1. /\ pc \in [Conns -> PCs] /\ pc[c] = "idle" /\ pc'[c] \in {"uncounted", "acquire"}
        /\ \A d \in Conns : d # c => pc'[d] = pc[d] /\ Group(d)' = Group(d)
        /\ UNCHANGED <<ref, active, kickers>>
    BY DEF Inv, TypeOK, Lookup, Go, registry, Group
  <1>2. \A d \in Conns : /\ pc[d] \in Loaded => d # c
                         /\ pc'[d] \in Loaded => d # c
                         /\ pc[d] \in Using => d # c
                         /\ pc[d] \in Held => d # c
    BY <1>1 DEF Loaded, Using, Held
  <1>3. SetInv'
    <2> SUFFICES ASSUME NEW d \in Conns, pc'[d] \in Loaded
                 PROVE  ref[d] \in Conns /\ pc'[ref[d]] \in Loaded /\ Group(ref[d])' = Group(d)'
      BY <1>1 DEF SetInv, Group
    <2>1. ref[d] \in Conns /\ pc[ref[d]] \in Loaded /\ Group(ref[d]) = Group(d)
      BY <1>1, <1>2 DEF KickInv, SetInv
    <2> QED  BY <1>1, <1>2, <2>1
  <1>4. ActiveInv'
    <2> SUFFICES ASSUME NEW g \in Groups, active[g] # None
                 PROVE  \E d \in Conns : pc'[d] \in Using /\ Group(d)' = g /\ ref[d] = active[g]
      BY <1>1 DEF ActiveInv, Group
    <2>1. PICK w \in Conns : pc[w] \in Using /\ Group(w) = g /\ ref[w] = active[g]
      BY DEF KickInv, ActiveInv
    <2> QED  BY <1>1, <1>2, <2>1
  <1>5. HeldInv'
    BY <1>1, <1>2 DEF KickInv, HeldInv, Inv, TypeOK
  <1> QED  BY <1>3, <1>4, <1>5 DEF KickInv

\* Each action keeps the kicker sets fresh; a kick unregisters a whole set
\* and empties it.
LEMMA NextKickInv == Inv /\ KickInv /\ [Next]_vars => KickInv'
  <1> SUFFICES ASSUME Inv, KickInv, [Next]_vars PROVE KickInv'  OBVIOUS
  <1>0. TypeOK /\ PcInv
    BY DEF Inv
  <1> USE DEF Loaded, Using, Held
  <1>1. CASE UNCHANGED vars
    BY <1>1, SetsUntouched DEF vars, connVars, registry
  <1>2. ASSUME NEW c \in Conns, AdmissionStep(c) PROVE KickInv'
    <2>1. CASE Acquire(c)
      BY <1>0, <2>1, QuietMove DEF Acquire, registry
    <2>2. CASE Undo(c)
      BY <1>0, <2>2, QuietMove DEF Undo, registry
    <2>3. CASE CountStat(c)
      BY <1>0, <2>3, QuietMove DEF CountStat, registry
    <2> QED
      BY <1>2, <2>1, <2>2, <2>3, TrackLoadKeepsSets, TrackAddKeepsSets DEF AdmissionStep
  <1>3. ASSUME NEW c \in Conns, ConnEnds(c) PROVE KickInv'
    BY <1>0, <1>3, QuietMove DEF ConnEnds, registry
  <1>4. ASSUME NEW c \in Conns, CleanupStep(c) PROVE KickInv'
    <2>1. CASE Release(c)
      BY <1>0, <2>1, QuietMove DEF Release, registry
    <2>2. CASE ReleaseStat(c)
      BY <1>0, <2>2, QuietMove DEF ReleaseStat, registry
    <2> QED
      BY <1>4, <2>1, <2>2, UntrackKeepsSets, UnmapKeepsSets DEF CleanupStep
  <1>5. CASE SyncStep
    <2>1. CASE SyncStore \/ SyncReturn
      BY <2>1, SetsUntouched DEF SyncStore, SyncReturn, connVars, registry
    <2>2. ASSUME NEW g \in Groups, KickDetach(g) PROVE KickInv'
      <3>1. /\ active' = [active EXCEPT ![g] = None]
            /\ UNCHANGED <<pc, rec, ref, kickers>>
        BY <2>2 DEF KickDetach, connVars
      <3>2. \A h \in Groups : active'[h] # None => active'[h] = active[h]
        BY <1>0, <3>1 DEF TypeOK
      <3> QED  BY <3>1, <3>2 DEF KickInv, SetInv, ActiveInv, HeldInv, Group
    <2>3. CASE KickRun
      <3>1. /\ kickers' = [kickers EXCEPT ![sync.detached] = {}]
            /\ UNCHANGED <<pc, rec, ref, active>>
        BY <2>3 DEF KickRun, connVars
      <3>2. \A s \in Conns : kickers'[s] \subseteq kickers[s]
        BY <1>0, <3>1 DEF TypeOK
      <3> QED  BY <3>1, <3>2 DEF KickInv, SetInv, ActiveInv, HeldInv, Group
    <2> QED  BY <1>5, <2>1, <2>2, <2>3 DEF SyncStep
  <1>6. CASE UNCHANGED <<connVars, registry>>
    BY <1>6, SetsUntouched DEF connVars, registry
  <1> QED
    BY <1>1, <1>2, <1>3, <1>4, <1>5, <1>6, LookupKeepsSets
       DEF Next, SyncLoad, HttpPush, RestartXray

\* TrackConn, its cleanup and kickConnGroup never leave a stale kicker set or
\* a stale function in one.
THEOREM KickersAreFresh == Spec => []NoStaleKicker
  <1>1. Init => KickInv
    <2> SUFFICES ASSUME Init PROVE KickInv
      OBVIOUS
    <2>1. SetInv
      BY DEF Init, SetInv, Loaded
    <2>2. ActiveInv /\ HeldInv
      BY DEF Init, ActiveInv, HeldInv
    <2> QED  BY <2>1, <2>2 DEF KickInv
  <1>2. Inv /\ KickInv /\ [Next]_vars => KickInv'
    BY NextKickInv
  <1>3. Inv /\ KickInv => NoStaleKicker
    <2> SUFFICES ASSUME Inv, KickInv PROVE NoStaleKicker
      OBVIOUS
    <2>1. ASSUME NEW g \in Groups, active[g] # None
          PROVE  \E c \in InGroup(g, Using) : ref[c] = active[g]
      BY <2>1 DEF KickInv, ActiveInv, InGroup
    <2> QED  BY <2>1 DEF NoStaleKicker, KickInv, HeldInv, Using, Held
  <1> QED  BY <1>1, <1>2, <1>3, Invariance, PTL DEF Spec

-----------------------------------------------------------------------------
(***************************************************************************)
(* SpeedLimit.  SpeedInv says where hubs and buckets come from: a hub is   *)
(* of one inbound and a bucket of one hub, so what is written to the       *)
(* bucket of one inbound leaves the others alone; and what the client      *)
(* holds while it applies a limit.                                         *)
(***************************************************************************)
PlaceInv ==
    /\ \A t \in Known : info[t].hub \in {t} \X HubIds
    /\ \A h \in Hubs : bucket[h] # Nil => bucket[h] \in {h} \X BucketIds
    /\ \A c \in Connections : conn[c].at = "store" => conn[c].hub # Nil
    /\ \A k \in Callbacks : restore[k].at = "reset" => restore[k].hub # Nil
    /\ loop.at \in {"set", "collect"} => loop.hub # Nil
    /\ loop.at \notin {"apply", "set"} => loop.todo = {}
    /\ loop.todo \subseteq Known
    /\ stale \subseteq Known

\* A limit does not end while it is applied, and its bucket is not dropped.
ApplyInv ==
    /\ loop.at \in {"apply", "set"} => limited
    /\ loop.at = "set" /\ loop.bucket # Nil => bucket[loop.hub] = loop.bucket

SpeedInv == SpeedTypeOK /\ PlaceInv /\ ApplyInv

-----------------------------------------------------------------------------
\* The rates are apart from each other.
LEMMA RatesApart ==
  /\ 0 \in Limits /\ Limits \subseteq Nat
  /\ AutoRate \notin Limits /\ Unlimited \notin Limits /\ Unlimited # AutoRate
  /\ \A p \in Pushes : p.node \in Limits /\ p.user \in Limits
  BY LimitsTyped DEF Limits

LEMMA LimitsKept ==
  ASSUME NEW node \in Limits, NEW user \in Limits
  PROVE  Lower(node, user) \in Limits
  BY DEF Lower

LEMMA RateTyped ==
  ASSUME NEW limit \in Limits
  PROVE  /\ AsRate(limit) \in Rates \ {0} /\ AsRate(limit) # AutoRate
         /\ limit > 0 => AsRate(limit) = limit
  BY RatesApart DEF AsRate, Rates

LEMMA AutoTyped == AutoRate \in Rates \ {0} /\ Unlimited \in Rates \ {0}
  BY RatesApart DEF Rates

LEMMA KnownTyped ==
  ASSUME SpeedTypeOK, NEW t \in Known
  PROVE  /\ t \in Inbounds /\ info[t] \in InboundInfo
         /\ info[t].hub \in Hubs /\ info[t].hub # Nil /\ Static(t) \in Limits
         /\ Current(t) \in Buckets \cup {Nil}
  <1>1. t \in Inbounds /\ info[t] \in InboundInfo
    BY DEF SpeedTypeOK, Known
  <1>2. info[t].hub \in Hubs /\ info[t].hub # Nil
    BY <1>1, NilIsNew DEF InboundInfo
  <1>3. Static(t) \in Limits
    BY <1>1, LimitsKept DEF Static, InboundInfo
  <1>4. Current(t) \in Buckets \cup {Nil}
    BY <1>2 DEF SpeedTypeOK, Current
  <1> QED  BY <1>1, <1>2, <1>3, <1>4

\* A new hub is of its inbound, and nobody holds it.
LEMMA HubIsFresh ==
  ASSUME NEW t \in Inbounds, FreeHubs(t) # {}
  PROVE  FreshHub(t) \in {t} \X HubIds /\ FreshHub(t) \in Hubs /\ FreshHub(t) \notin UsedHubs
  <1>1. FreshHub(t) \in FreeHubs(t)
    BY DEF FreshHub
  <1> QED  BY <1>1 DEF FreeHubs, Hubs

\* A new bucket is of its hub.
LEMMA BucketIsFresh ==
  ASSUME NEW h \in Hubs, FreeBuckets(h) # {}
  PROVE  FreshBucket(h) \in {h} \X BucketIds /\ FreshBucket(h) \in Buckets /\ FreshBucket(h) # Nil
  <1>1. FreshBucket(h) \in FreeBuckets(h)
    BY DEF FreshBucket
  <1>2. FreshBucket(h) \in {h} \X BucketIds /\ FreshBucket(h) \in Buckets
    BY <1>1 DEF FreeBuckets, Buckets
  <1> QED  BY <1>2, NilIsNew

\* Inbounds share no bucket.
LEMMA BucketsApart ==
  ASSUME SpeedTypeOK, PlaceInv, NEW g \in Hubs, NEW h \in Hubs, g # h, bucket[g] # Nil
  PROVE  bucket[g] # bucket[h]
  BY DEF PlaceInv

\* The rates of what is still referred to are left as they are.
LEMMA RatesAreLeft ==
  ASSUME SpeedTypeOK, rate' = RatesLeft, NEW b \in Buckets
  PROVE  /\ rate'[b] \in {rate[b], Unlimited}
         /\ b \in UsedBuckets' => rate'[b] = rate[b]
  BY DEF RatesLeft

LEMMA RatesLeftTyped ==
  ASSUME SpeedTypeOK, rate' = RatesLeft
  PROVE  rate' \in [Buckets -> Rates \ {0}]
  BY AutoTyped DEF SpeedTypeOK, RatesLeft

\* The bucket of an inbound is in use after a step, as it is before it.
LEMMA CurrentIsUsed ==
  ASSUME NEW t \in Known', info'[t].hub # Nil
  PROVE  bucket'[info'[t].hub] \in UsedBuckets' /\ info'[t].hub \in UsedHubs'
  BY DEF UsedBuckets, UsedHubs

-----------------------------------------------------------------------------
\* The types.
ConnType == [at : {"idle", "store", "open"}, hub : Hubs \cup {Nil},
             bucket : Buckets \cup {Nil}, limit : Limits]
RestoreType == [at : {"off", "due", "reset"}, todo : SUBSET Inbounds,
                hub : Hubs \cup {Nil}, limit : Limits]
LoopType == [at : {"idle", "apply", "set", "collect"}, todo : SUBSET Inbounds,
             hub : Hubs \cup {Nil}, bucket : Buckets \cup {Nil}, drop : BOOLEAN]

LEMMA NoneTyped == NoConn \in ConnType /\ NoRestore \in RestoreType /\ NoLoop \in LoopType
  <1>1. 0 \in Limits
    BY RatesApart
  <1> QED  BY <1>1 DEF NoConn, NoRestore, NoLoop, ConnType, RestoreType, LoopType

LEMMA WrittenTyped ==
  ASSUME SpeedTypeOK, NEW h, NEW limit
  PROVE  Written(h, limit) \subseteq Inbounds
  BY DEF Written, Known, SpeedTypeOK

\* A connection takes a bucket of hub h.
LEMMA LoadOrStoreTyped ==
  ASSUME SpeedTypeOK, NEW c \in Connections, NEW h \in Hubs, NEW limit \in Limits,
         LoadOrStore(c, h, limit)
  PROVE  /\ conn' \in [Connections -> ConnType] /\ bucket' \in [Hubs -> Buckets \cup {Nil}]
         /\ rate' \in [Buckets -> Rates \ {0}] /\ stale' \subseteq Inbounds
  <1>1. conn \in [Connections -> ConnType]
    BY DEF SpeedTypeOK, ConnType
  <1>2. CASE bucket[h] # Nil
    <2>1. bucket[h] \in Buckets
      BY <1>2 DEF SpeedTypeOK
    <2>2. conn' = [conn EXCEPT ![c] = [@ EXCEPT !.at = "open", !.bucket = bucket[h], !.hub = Nil]]
          /\ UNCHANGED <<bucket, rate, stale>>
      BY <1>2 DEF LoadOrStore
    <2>3. [conn[c] EXCEPT !.at = "open", !.bucket = bucket[h], !.hub = Nil] \in ConnType
      BY <1>1, <2>1 DEF ConnType
    <2>4. conn' \in [Connections -> ConnType]
      BY <1>1, <2>2, <2>3
    <2> QED  BY <2>2, <2>4 DEF SpeedTypeOK
  <1>3. CASE bucket[h] = Nil
    <2> DEFINE b == FreshBucket(h)
    <2>1. /\ FreeBuckets(h) # {}
          /\ conn' = [conn EXCEPT ![c] = [@ EXCEPT !.at = "open", !.bucket = b, !.hub = Nil]]
          /\ bucket' = [bucket EXCEPT ![h] = b] /\ rate' = [rate EXCEPT ![b] = AsRate(limit)]
          /\ stale' = Written(h, limit)
      BY <1>3 DEF LoadOrStore
    <2>2. b \in Buckets /\ AsRate(limit) \in Rates \ {0}
      BY <2>1, BucketIsFresh, RateTyped
    <2> HIDE DEF b
    <2>3. [conn[c] EXCEPT !.at = "open", !.bucket = b, !.hub = Nil] \in ConnType
      BY <1>1, <2>2 DEF ConnType
    <2>4. conn' \in [Connections -> ConnType]
      BY <1>1, <2>1, <2>3
    <2>5. bucket' \in [Hubs -> Buckets \cup {Nil}] /\ rate' \in [Buckets -> Rates \ {0}]
      BY <2>1, <2>2 DEF SpeedTypeOK
    <2> QED  BY <2>1, <2>4, <2>5, WrittenTyped
  <1> QED  BY <1>2, <1>3

\* A connection comes.
LEMMA ConnectTyped ==
  ASSUME SpeedTypeOK, NEW c \in Connections, Connect(c)
  PROVE  SpeedTypeOK'
  <1>1. TagOf[c] \in Known
    BY DEF Connect
  <1> DEFINE t == TagOf[c]
             new == [at |-> "store", hub |-> info[t].hub, bucket |-> Nil, limit |-> Static(t)]
  <1>2. info[t].hub \in Hubs /\ Static(t) \in Limits
    BY <1>1, KnownTyped
  <1>3. /\ online' = [online EXCEPT ![info[t].hub] = TRUE] /\ conn' = [conn EXCEPT ![c] = new]
        /\ UNCHANGED <<info, bucket, rate, marked, attached, limited, restore, loop, history>>
    BY DEF Connect
  <1>4. new \in ConnType
    BY <1>2 DEF ConnType
  <1> HIDE DEF t, new
  <1>5. conn' \in [Connections -> ConnType]
    BY <1>3, <1>4 DEF SpeedTypeOK, ConnType
  <1>6. online' \in [Hubs -> BOOLEAN]
    BY <1>2, <1>3 DEF SpeedTypeOK
  <1> QED  BY <1>3, <1>5, <1>6 DEF SpeedTypeOK, ConnType, history

\* It takes its bucket, by either way.
LEMMA BucketTyped ==
  ASSUME SpeedTypeOK, NEW c \in Connections, NEW h \in Hubs, NEW limit \in Limits,
         LoadOrStore(c, h, limit),
         UNCHANGED <<info, online, marked, attached, limited, restore, loop, undone>>
  PROVE  SpeedTypeOK'
  BY LoadOrStoreTyped DEF SpeedTypeOK, ConnType

\* It goes.
LEMMA CloseTyped ==
  ASSUME SpeedTypeOK, NEW c \in Connections, Close(c)
  PROVE  SpeedTypeOK'
  <1>1. conn' \in [Connections -> ConnType]
    BY NoneTyped DEF SpeedTypeOK, Close, ConnType
  <1>2. rate' \in [Buckets -> Rates \ {0}]
    BY RatesLeftTyped DEF Close
  <1> QED  BY <1>1, <1>2 DEF SpeedTypeOK, Close, ConnType, history

\* A push to an inbound that is known.
LEMMA SyncTyped ==
  ASSUME SpeedTypeOK, NEW t \in Inbounds, NEW p \in Pushes, Sync(t, p)
  PROVE  SpeedTypeOK'
  <1>1. t \in Known /\ info' = [info EXCEPT ![t].node = p.node, ![t].user = p.user]
    BY DEF Sync
  <1>2. p.node \in Limits /\ p.user \in Limits /\ Lower(p.node, p.user) \in Limits
    BY RatesApart, LimitsKept
  <1>3. info' \in [Inbounds -> {Nil} \cup InboundInfo]
    <2>1. info[t] \in InboundInfo
      BY <1>1, KnownTyped
    <2>2. info' = [info EXCEPT ![t] = [[@ EXCEPT !.node = p.node] EXCEPT !.user = p.user]]
      BY <1>1, <2>1 DEF SpeedTypeOK
    <2> QED  BY <1>2, <2>1, <2>2 DEF SpeedTypeOK, InboundInfo
  <1>4. rate' \in [Buckets -> Rates \ {0}]
    <2>1. Lower(p.node, p.user) > 0 => Lower(p.node, p.user) \in Rates \ {0}
      BY <1>2, RatesApart DEF Rates
    <2> QED  BY <2>1 DEF SpeedTypeOK, Sync
  <1>5. undone' \in BOOLEAN /\ attached' \in BOOLEAN /\ stale' \subseteq Inbounds
    BY DEF SpeedTypeOK, Sync
  <1> QED  BY <1>3, <1>4, <1>5 DEF SpeedTypeOK, Sync

\* A push that makes a new hub.
LEMMA AddTyped ==
  ASSUME SpeedTypeOK, NEW t \in Inbounds, NEW p \in Pushes, AddInboundLimiter(t, p),
         attached' \in BOOLEAN
  PROVE  SpeedTypeOK'
  <1>1. FreshHub(t) \in Hubs
    BY HubIsFresh DEF AddInboundLimiter
  <1>2. info' \in [Inbounds -> {Nil} \cup InboundInfo]
    <2>1. [node |-> p.node, user |-> p.user, hub |-> FreshHub(t)] \in
            InboundInfo
      BY <1>1, RatesApart DEF InboundInfo
    <2> QED  BY <2>1 DEF SpeedTypeOK, AddInboundLimiter
  <1>3. bucket' \in [Hubs -> Buckets \cup {Nil}]
    BY DEF SpeedTypeOK, AddInboundLimiter
  <1>4. online' \in [Hubs -> BOOLEAN]
    BY DEF SpeedTypeOK, AddInboundLimiter
  <1>5. rate' \in [Buckets -> Rates \ {0}]
    BY RatesLeftTyped DEF AddInboundLimiter
  <1> QED  BY <1>2, <1>3, <1>4, <1>5 DEF SpeedTypeOK, AddInboundLimiter

\* A new limiter.
LEMMA RenewTyped ==
  ASSUME SpeedTypeOK, RenewLimiter
  PROVE  SpeedTypeOK'
  <1>1. rate' \in [Buckets -> Rates \ {0}]
    BY RatesLeftTyped DEF RenewLimiter
  <1>2. conn' \in [Connections -> ConnType] /\ restore' \in [Callbacks -> RestoreType] /\ loop' \in LoopType
    BY NoneTyped DEF RenewLimiter
  <1> QED  BY <1>1, <1>2 DEF SpeedTypeOK, RenewLimiter, ConnType, RestoreType, LoopType

\* The client applies a limit or drops a bucket.
LEMMA LoopTyped ==
  ASSUME SpeedTypeOK, loop' \in LoopType,
         bucket' \in [Hubs -> Buckets \cup {Nil}], online' \in [Hubs -> BOOLEAN],
         rate' \in [Buckets -> Rates \ {0}], stale' \subseteq Inbounds,
         {marked', limited', undone'} \subseteq BOOLEAN,
         UNCHANGED <<info, conn, attached, restore>>
  PROVE  SpeedTypeOK'
  BY DEF SpeedTypeOK, LoopType

LEMMA ApplyTyped ==
  ASSUME SpeedTypeOK, ApplyLimit \/ LimitApplied
  PROVE  SpeedTypeOK'
  <1>1. Known \in SUBSET Inbounds /\ {} \in SUBSET Inbounds
    BY DEF Known
  <1>2. loop' \in LoopType
    <2>1. CASE ApplyLimit
      <3> DEFINE todo == IF attached THEN Known ELSE {}
      <3>1. todo \in SUBSET Inbounds /\ loop' = [NoLoop EXCEPT !.at = "apply", !.todo = todo]
        BY <1>1, <2>1 DEF ApplyLimit
      <3> HIDE DEF todo
      <3> QED  BY <3>1, NoneTyped DEF LoopType, NoLoop
    <2>2. CASE LimitApplied
      BY <2>2, NoneTyped DEF LimitApplied
    <2> QED  BY <2>1, <2>2
  <1>3. {marked', limited', undone'} \subseteq BOOLEAN
    <2>1. marked' \in BOOLEAN
      BY DEF SpeedTypeOK, ApplyLimit, LimitApplied, limiter
    <2>2. limited' \in BOOLEAN
      BY DEF SpeedTypeOK, ApplyLimit, LimitApplied, limiter
    <2>3. undone' \in BOOLEAN
      BY DEF SpeedTypeOK, ApplyLimit, LimitApplied, history
    <2> QED  BY <2>1, <2>2, <2>3
  <1> QED  BY <1>2, <1>3, LoopTyped DEF SpeedTypeOK, ApplyLimit, LimitApplied, limiter, history

LEMMA LimitInboundTyped ==
  ASSUME SpeedTypeOK, PlaceInv, NEW t \in Inbounds, LimitInbound(t)
  PROVE  SpeedTypeOK'
  <1>1. t \in Known
    BY DEF LimitInbound, PlaceInv
  <1>2. info[t].hub \in Hubs /\ bucket[info[t].hub] \in Buckets \cup {Nil}
    BY <1>1, KnownTyped DEF Current
  <1> DEFINE h == info[t].hub
             b == bucket[info[t].hub]
  <1>3. loop' = [loop EXCEPT !.at = "set", !.todo = @ \ {t}, !.hub = h, !.bucket = b]
    BY DEF LimitInbound
  <1>4. h \in Hubs /\ b \in Buckets \cup {Nil} /\ loop \in LoopType
    BY <1>2 DEF SpeedTypeOK, LoopType
  <1> HIDE DEF h, b
  <1>5. loop' \in LoopType
    BY <1>3, <1>4 DEF LoopType
  <1> QED  BY <1>5, LoopTyped DEF SpeedTypeOK, LimitInbound, history

LEMMA SetLimitTyped ==
  ASSUME SpeedTypeOK, PlaceInv, SetLimit
  PROVE  SpeedTypeOK'
  <1>1. loop.hub \in Hubs /\ loop \in LoopType /\ loop.bucket \in Buckets \cup {Nil}
    BY DEF PlaceInv, SpeedTypeOK, SetLimit, LoopType
  <1>2. loop' = [loop EXCEPT !.at = "apply", !.hub = Nil, !.bucket = Nil]
    BY DEF SetLimit
  <1>3. loop' \in LoopType
    BY <1>1, <1>2 DEF LoopType
  <1>4. bucket' \in [Hubs -> Buckets \cup {Nil}] /\ rate' \in [Buckets -> Rates \ {0}]
    <2>1. CASE loop.bucket # Nil
      BY <1>1, <2>1, AutoTyped DEF SetLimit, SpeedTypeOK
    <2>2. CASE loop.bucket = Nil
      <3> DEFINE b == FreshBucket(loop.hub)
      <3>1. b \in Buckets
        BY <1>1, <2>2, BucketIsFresh DEF SetLimit
      <3>2. bucket' = [bucket EXCEPT ![loop.hub] = b] /\ rate' = [rate EXCEPT ![b] = AutoRate]
        BY <2>2 DEF SetLimit
      <3> HIDE DEF b
      <3> QED  BY <3>1, <3>2, AutoTyped DEF SpeedTypeOK
    <2> QED  BY <2>1, <2>2
  <1>5. online' \in [Hubs -> BOOLEAN] /\ stale' \subseteq Inbounds
    BY DEF SetLimit, SpeedTypeOK, history
  <1>6. {marked', limited', undone'} \subseteq BOOLEAN
    BY DEF SetLimit, SpeedTypeOK, history
  <1>7. UNCHANGED <<info, conn, attached, restore>>
    BY DEF SetLimit
  <1> QED  BY <1>3, <1>4, <1>5, <1>6, <1>7, LoopTyped

LEMMA CollectTyped ==
  ASSUME SpeedTypeOK, NEW t \in Inbounds, Collect(t)
  PROVE  SpeedTypeOK'
  <1>1. info[t].hub \in Hubs
    BY KnownTyped DEF Collect
  <1> DEFINE h == info[t].hub
             drop == ~online[info[t].hub] /\ ~marked
  <1>2. loop' = [NoLoop EXCEPT !.at = "collect", !.hub = h, !.drop = drop]
    BY DEF Collect
  <1>3. h \in Hubs /\ drop \in BOOLEAN
    BY <1>1
  <1> HIDE DEF h, drop
  <1>4. loop' \in LoopType
    BY <1>2, <1>3 DEF LoopType, NoLoop
  <1> QED  BY <1>4, LoopTyped DEF SpeedTypeOK, Collect, limiter, history

LEMMA DropTyped ==
  ASSUME SpeedTypeOK, PlaceInv, Drop
  PROVE  SpeedTypeOK'
  <1>1. loop.hub \in Hubs
    BY DEF PlaceInv, SpeedTypeOK, Drop
  <1>2. rate' \in [Buckets -> Rates \ {0}]
    BY RatesLeftTyped DEF Drop
  <1>3. bucket' \in [Hubs -> Buckets \cup {Nil}] /\ online' \in [Hubs -> BOOLEAN]
    BY <1>1 DEF SpeedTypeOK, Drop
  <1>4. loop' \in LoopType
    BY NoneTyped DEF Drop
  <1>5. {marked', limited', undone'} \subseteq BOOLEAN
    BY DEF SpeedTypeOK, Drop
  <1> QED  BY <1>2, <1>3, <1>4, <1>5, LoopTyped DEF SpeedTypeOK, Drop

\* The callbacks.
LEMMA CallbackTyped ==
  ASSUME SpeedTypeOK, restore' \in [Callbacks -> RestoreType],
         rate' \in [Buckets -> Rates \ {0}], stale' \subseteq Inbounds,
         {marked', limited', undone'} \subseteq BOOLEAN,
         UNCHANGED <<info, bucket, online, conn, attached, loop>>
  PROVE  SpeedTypeOK'
  BY DEF SpeedTypeOK, RestoreType

LEMMA ExpireTyped ==
  ASSUME SpeedTypeOK, Expire
  PROVE  SpeedTypeOK'
  <1>1. [NoRestore EXCEPT !.at = "due", !.todo = Inbounds] \in RestoreType
    BY NoneTyped DEF NoRestore, RestoreType
  <1>2. PICK k \in Callbacks :
          restore' = [restore EXCEPT ![k] = [NoRestore EXCEPT !.at = "due", !.todo = Inbounds]]
    BY DEF Expire
  <1>3. restore' \in [Callbacks -> RestoreType]
    BY <1>1, <1>2 DEF SpeedTypeOK, RestoreType
  <1>4. limited' = FALSE /\ undone' = FALSE
        /\ UNCHANGED <<info, bucket, online, rate, marked, conn, attached, loop, stale>>
    BY DEF Expire, limiter
  <1> QED  BY <1>3, <1>4, CallbackTyped DEF SpeedTypeOK

LEMMA RestoreTyped ==
  ASSUME SpeedTypeOK, NEW k \in Callbacks, NEW t \in Inbounds, Restore(k, t)
  PROVE  SpeedTypeOK'
  <1>1. info[t].hub \in Hubs /\ Static(t) \in Limits
    BY KnownTyped DEF Restore
  <1> DEFINE h == info[t].hub
             limit == Static(t)
  <1>2. h \in Hubs /\ limit \in Limits
    BY <1>1
  <1>3. restore' = [restore EXCEPT ![k] =
           [at |-> "reset", todo |-> @.todo \ {t}, hub |-> h, limit |-> limit]]
    BY DEF Restore
  <1> HIDE DEF h, limit
  <1>4. restore' \in [Callbacks -> RestoreType]
    BY <1>2, <1>3 DEF SpeedTypeOK, RestoreType
  <1>5. marked' = FALSE /\ undone' = limited
        /\ UNCHANGED <<info, bucket, online, rate, conn, attached, limited, loop, stale>>
    BY DEF Restore
  <1> QED  BY <1>4, <1>5, CallbackTyped DEF SpeedTypeOK

LEMMA ResetTyped ==
  ASSUME SpeedTypeOK, PlaceInv, NEW k \in Callbacks, Reset(k)
  PROVE  SpeedTypeOK'
  <1>1. restore[k].hub \in Hubs /\ restore[k].limit \in Limits /\ 0 \in Limits
    BY RatesApart DEF PlaceInv, SpeedTypeOK, Reset
  <1> DEFINE h == restore[k].hub
             limit == restore[k].limit
  <1>2. h \in Hubs /\ limit \in Limits /\ AsRate(limit) \in Rates \ {0}
    BY <1>1, RateTyped
  <1>3. restore' = [restore EXCEPT ![k] = [@ EXCEPT !.at = "due", !.hub = Nil, !.limit = 0]]
        /\ undone' = limited
        /\ UNCHANGED <<info, bucket, online, marked, conn, attached, limited, loop>>
    BY DEF Reset
  <1>4. restore' \in [Callbacks -> RestoreType]
    <2>1. restore \in [Callbacks -> RestoreType]
      BY DEF SpeedTypeOK, RestoreType
    <2>2. [restore[k] EXCEPT !.at = "due", !.hub = Nil, !.limit = 0] \in RestoreType
      BY <1>1, <2>1 DEF RestoreType
    <2> QED  BY <1>3, <2>1, <2>2
  <1>5. rate' \in [Buckets -> Rates \ {0}] /\ stale' \subseteq Inbounds
    <2>1. CASE bucket[h] # Nil
      <3>1. rate' = [rate EXCEPT ![bucket[h]] = AsRate(limit)] /\ stale' = Written(h, limit)
        BY <2>1 DEF Reset
      <3> HIDE DEF h, limit
      <3> QED  BY <1>2, <3>1, WrittenTyped DEF SpeedTypeOK
    <2>2. CASE bucket[h] = Nil
      BY <2>2 DEF Reset, SpeedTypeOK
    <2> QED  BY <2>1, <2>2
  <1> QED  BY <1>3, <1>4, <1>5, CallbackTyped DEF SpeedTypeOK

LEMMA RestoredTyped ==
  ASSUME SpeedTypeOK, NEW k \in Callbacks, Restored(k)
  PROVE  SpeedTypeOK'
  <1>1. restore' \in [Callbacks -> RestoreType]
    BY NoneTyped DEF SpeedTypeOK, Restored, RestoreType
  <1>2. UNCHANGED <<info, bucket, online, rate, marked, conn, attached, limited, loop, undone, stale>>
    BY DEF Restored, limiter, history
  <1> QED  BY <1>1, <1>2, CallbackTyped DEF SpeedTypeOK

-----------------------------------------------------------------------------
\* The places.  Most steps leave the inbounds and the hubs as they are.
LEMMA HubsKept ==
  ASSUME PlaceInv, UNCHANGED <<info, bucket>>,
         \A c \in Connections : conn'[c].at = "store" => conn'[c].hub # Nil,
         \A k \in Callbacks : restore'[k].at = "reset" => restore'[k].hub # Nil,
         loop'.at \in {"set", "collect"} => loop'.hub # Nil,
         loop'.at \notin {"apply", "set"} => loop'.todo = {},
         loop'.todo \subseteq Known, stale' \subseteq Known
  PROVE  PlaceInv'
  BY DEF PlaceInv, Known

LEMMA WrittenKnown ==
  ASSUME PlaceInv, NEW h, NEW limit
  PROVE  Written(h, limit) \subseteq Known
  BY DEF PlaceInv, Written

\* A connection takes a bucket of hub h.
LEMMA LoadOrStorePlace ==
  ASSUME SpeedTypeOK, PlaceInv, ApplyInv, NEW c \in Connections, NEW h \in Hubs, NEW limit \in Limits,
         LoadOrStore(c, h, limit), UNCHANGED <<info, restore, loop, limited>>
  PROVE  PlaceInv' /\ ApplyInv'
  <1>1. \A d \in Connections : conn'[d].at = "store" => conn'[d].hub # Nil
    <2> TAKE d \in Connections
    <2>1. conn \in [Connections -> ConnType]
      BY DEF SpeedTypeOK, ConnType
    <2>2. CASE d = c
      <3>1. conn'[d].at = "open"
        BY <2>1, <2>2 DEF LoadOrStore, ConnType
      <3> QED  BY <3>1
    <2>3. CASE d # c
      <3>1. conn'[d] = conn[d]
        BY <2>1, <2>3 DEF LoadOrStore
      <3> QED  BY <3>1 DEF PlaceInv
    <2> QED  BY <2>2, <2>3
  <1>2. Known' = Known
    BY DEF Known
  <1>3. stale' \subseteq Known
    BY WrittenKnown DEF LoadOrStore, PlaceInv
  <1>4. \A g \in Hubs : bucket'[g] # Nil => bucket'[g] \in {g} \X BucketIds
    <2> TAKE g \in Hubs
    <2>1. CASE bucket[h] # Nil
      BY <2>1 DEF LoadOrStore, PlaceInv
    <2>2. CASE bucket[h] = Nil
      <3>1. bucket' = [bucket EXCEPT ![h] = FreshBucket(h)] /\ FreshBucket(h) \in {h} \X BucketIds
        BY <2>2, BucketIsFresh DEF LoadOrStore
      <3> QED  BY <3>1 DEF SpeedTypeOK, PlaceInv
    <2> QED  BY <2>1, <2>2
  <1>5. PlaceInv'
    BY <1>1, <1>2, <1>3, <1>4 DEF PlaceInv
  <1>6. ApplyInv'
    <2>1. ASSUME loop.at = "set", loop.bucket # Nil
          PROVE  bucket'[loop.hub] = loop.bucket
      <3>1. bucket[loop.hub] = loop.bucket /\ loop.hub \in Hubs
        BY <2>1 DEF ApplyInv, PlaceInv, SpeedTypeOK
      <3>2. bucket'[loop.hub] = bucket[loop.hub]
        BY <2>1, <3>1 DEF LoadOrStore, SpeedTypeOK
      <3> QED  BY <3>1, <3>2
    <2> QED  BY <2>1 DEF ApplyInv
  <1> QED  BY <1>5, <1>6

LEMMA ConnectPlace ==
  ASSUME SpeedTypeOK, PlaceInv, ApplyInv, NEW c \in Connections, Connect(c) \/ Close(c)
  PROVE  PlaceInv' /\ ApplyInv'
  <1>1. \A d \in Connections : conn'[d].at = "store" => conn'[d].hub # Nil
    <2>1. CASE Connect(c)
      <3>1. info[TagOf[c]].hub # Nil
        BY <2>1, KnownTyped DEF Connect
      <3> DEFINE h == info[TagOf[c]].hub
                 l == Static(TagOf[c])
      <3>2. conn' = [conn EXCEPT ![c] = [at |-> "store", hub |-> h, bucket |-> Nil, limit |-> l]]
        BY <2>1 DEF Connect
      <3>3. h # Nil
        BY <3>1
      <3> HIDE DEF h, l
      <3> QED  BY <3>2, <3>3 DEF PlaceInv, SpeedTypeOK
    <2>2. CASE Close(c)
      BY <2>2 DEF Close, NoConn, PlaceInv, SpeedTypeOK
    <2> QED  BY <2>1, <2>2
  <1>2. UNCHANGED <<info, bucket, restore, loop, stale, limited>>
    BY DEF Connect, Close, history
  <1>3. PlaceInv'
    BY <1>1, <1>2, HubsKept DEF PlaceInv
  <1> QED  BY <1>2, <1>3 DEF ApplyInv

LEMMA SyncPlace ==
  ASSUME SpeedTypeOK, PlaceInv, ApplyInv, NEW t \in Inbounds, NEW p \in Pushes, Sync(t, p)
  PROVE  PlaceInv' /\ ApplyInv' /\ Known' = Known /\ \A u \in Known : info'[u].hub = info[u].hub
  <1>1. t \in Known /\ info' = [info EXCEPT ![t].node = p.node, ![t].user = p.user]
    BY DEF Sync
  <1>2. info[t] \in InboundInfo
    BY <1>1, KnownTyped
  <1>3. info' = [info EXCEPT ![t] = [[@ EXCEPT !.node = p.node] EXCEPT !.user = p.user]]
    BY <1>1, <1>2 DEF SpeedTypeOK
  <1>4. info'[t] # Nil /\ info'[t].hub = info[t].hub
    <2>1. info'[t] \in InboundInfo
      BY <1>2, <1>3, RatesApart DEF SpeedTypeOK, InboundInfo
    <2>2. info'[t].hub = info[t].hub
      BY <1>2, <1>3 DEF SpeedTypeOK
    <2>3. info'[t] # Nil
      BY <2>1, NilIsNew
    <2> QED  BY <2>2, <2>3
  <1>5. \A u \in Inbounds : u # t => info'[u] = info[u]
    BY <1>3 DEF SpeedTypeOK
  <1>6. Known' = Known /\ \A u \in Known : info'[u].hub = info[u].hub
    BY <1>1, <1>4, <1>5 DEF Known
  <1>7. UNCHANGED <<bucket, conn, restore, loop, limited>> /\ stale' \subseteq stale
    BY DEF Sync
  <1>8. PlaceInv'
    BY <1>6, <1>7 DEF PlaceInv
  <1> QED  BY <1>6, <1>7, <1>8 DEF ApplyInv

LEMMA AddPlace ==
  ASSUME SpeedTypeOK, PlaceInv, ApplyInv, NEW t \in Inbounds, NEW p \in Pushes,
         AddInboundLimiter(t, p)
  PROVE  /\ PlaceInv' /\ ApplyInv' /\ Known' = Known \cup {t}
         /\ \A u \in Known \ {t} : info'[u] = info[u] /\ Current(u)' = Current(u)
         /\ Current(t)' = Nil
  <1> DEFINE g == FreshHub(t)
  <1>1. g \in {t} \X HubIds /\ g \in Hubs /\ g \notin UsedHubs
    BY HubIsFresh DEF AddInboundLimiter
  <1>2. info' = [info EXCEPT ![t] = [node |-> p.node, user |-> p.user, hub |-> g]]
        /\ UNCHANGED <<conn, restore, loop, limited>> /\ stale' = stale \ {t}
    BY DEF AddInboundLimiter
  <1>3. \A h \in Hubs : bucket'[h] = IF h \in UsedHubs' \ {g} THEN bucket[h] ELSE Nil
    BY DEF AddInboundLimiter
  <1> HIDE DEF g
  <1>4. info'[t] = [node |-> p.node, user |-> p.user, hub |-> g]
        /\ \A u \in Inbounds : u # t => info'[u] = info[u]
    BY <1>2 DEF SpeedTypeOK
  <1>5. info'[t] # Nil /\ info'[t].hub = g
    BY <1>1, <1>4, RatesApart, NilIsNew DEF InboundInfo
  <1>6. Known' = Known \cup {t}
    BY <1>4, <1>5 DEF Known
  <1>7. \A u \in Known \ {t} : info'[u] = info[u] /\ Current(u)' = Current(u)
    <2> TAKE u \in Known \ {t}
    <2>1. info'[u] = info[u] /\ info[u].hub \in Hubs /\ info[u].hub \in UsedHubs
      BY <1>4, KnownTyped DEF Known, UsedHubs
    <2>2. info'[u].hub \in UsedHubs'
      BY <1>6 DEF UsedHubs
    <2>3. bucket'[info[u].hub] = bucket[info[u].hub]
      BY <1>1, <1>3, <2>1, <2>2
    <2> QED  BY <2>1, <2>3 DEF Current
  <1>8. Current(t)' = Nil
    BY <1>1, <1>3, <1>5 DEF Current
  <1>9. \A h \in Hubs : bucket'[h] # Nil => bucket'[h] \in {h} \X BucketIds
    BY <1>3 DEF PlaceInv
  <1>10. \A u \in Known' : info'[u].hub \in {u} \X HubIds
    BY <1>1, <1>4, <1>5, <1>6 DEF PlaceInv, Known
  <1>11. PlaceInv'
    BY <1>2, <1>6, <1>9, <1>10 DEF PlaceInv
  <1>12. ApplyInv'
    <2>1. ASSUME loop.at = "set", loop.bucket # Nil
          PROVE  bucket'[loop.hub] = loop.bucket
      <3>1. bucket[loop.hub] = loop.bucket /\ loop.hub \in Hubs
        BY <2>1 DEF ApplyInv, PlaceInv, SpeedTypeOK
      <3>2. loop.hub \in UsedHubs /\ loop.hub \in UsedHubs'
        BY <1>2 DEF UsedHubs
      <3> QED  BY <1>1, <1>3, <3>1, <3>2
    <2> QED  BY <1>2, <2>1 DEF ApplyInv
  <1> QED  BY <1>6, <1>7, <1>8, <1>11, <1>12

LEMMA RenewPlace ==
  ASSUME RenewLimiter
  PROVE  PlaceInv' /\ ApplyInv' /\ Known' = {}
  <1>1. \A t \in Inbounds : info'[t] = Nil
    BY DEF RenewLimiter
  <1>2. Known' = {}
    BY <1>1 DEF Known
  <1>3. /\ \A h \in Hubs : bucket'[h] = Nil
        /\ \A c \in Connections : conn'[c].at = "idle"
        /\ \A k \in Callbacks : restore'[k].at = "off"
        /\ loop'.at = "idle" /\ loop'.todo = {} /\ stale' = {}
    BY DEF RenewLimiter, NoConn, NoRestore, NoLoop
  <1> QED  BY <1>2, <1>3 DEF PlaceInv, ApplyInv

\* The client and the callbacks
LEMMA QuietPlace ==
  ASSUME SpeedTypeOK, PlaceInv, ApplyInv,
         UNCHANGED <<info, bucket, conn>>,
         \A k \in Callbacks : restore'[k].at = "reset" => restore'[k].hub # Nil,
         stale' \subseteq Known,
         \/ UNCHANGED loop /\ (loop.at \in {"apply", "set"} => limited' = limited)
         \/ /\ loop'.at \in {"set", "collect"} => loop'.hub # Nil
            /\ loop'.at \notin {"apply", "set"} => loop'.todo = {}
            /\ loop'.todo \subseteq Known
            /\ loop'.at \in {"apply", "set"} => limited'
            /\ loop'.at = "set" => loop'.bucket = bucket[loop'.hub]
  PROVE  PlaceInv' /\ ApplyInv'
  <1>1. PlaceInv'
    BY HubsKept DEF PlaceInv
  <1>2. ApplyInv'
    BY DEF ApplyInv
  <1> QED  BY <1>1, <1>2

LEMMA ApplyPlace ==
  ASSUME SpeedTypeOK, PlaceInv, ApplyInv, ApplyLimit \/ LimitApplied
  PROVE  PlaceInv' /\ ApplyInv'
  <1>1. CASE ApplyLimit
    <2>1. loop'.at = "apply" /\ loop'.todo \subseteq Known /\ limited' = TRUE
      BY <1>1 DEF ApplyLimit, NoLoop
    <2>2. UNCHANGED <<info, bucket, conn, restore, stale>>
      BY <1>1 DEF ApplyLimit, limiter
    <2> QED  BY <2>1, <2>2, QuietPlace DEF PlaceInv
  <1>2. CASE LimitApplied
    <2>1. loop'.at = "idle" /\ loop'.todo = {}
      BY <1>2 DEF LimitApplied, NoLoop
    <2>2. UNCHANGED <<info, bucket, conn, restore, stale, limited>>
      BY <1>2 DEF LimitApplied, limiter, history
    <2> QED  BY <2>1, <2>2, QuietPlace DEF PlaceInv
  <1> QED  BY <1>1, <1>2

LEMMA LimitInboundPlace ==
  ASSUME SpeedTypeOK, PlaceInv, ApplyInv, NEW t \in Inbounds, LimitInbound(t)
  PROVE  PlaceInv' /\ ApplyInv'
  <1>1. t \in Known
    BY DEF LimitInbound, PlaceInv
  <1>2. info[t].hub # Nil
    BY <1>1, KnownTyped
  <1> DEFINE h == info[t].hub
             b == bucket[info[t].hub]
  <1>3. loop' = [loop EXCEPT !.at = "set", !.todo = @ \ {t}, !.hub = h, !.bucket = b]
    BY DEF LimitInbound
  <1>4. h # Nil /\ b = bucket[h]
    BY <1>2
  <1> HIDE DEF h, b
  <1>5. loop'.at = "set" /\ loop'.todo \subseteq loop.todo /\ loop'.hub = h /\ loop'.bucket = b
    BY <1>3 DEF SpeedTypeOK
  <1>6. UNCHANGED <<info, bucket, conn, restore, stale, limited>> /\ limited
    BY DEF LimitInbound, ApplyInv, history
  <1> QED  BY <1>4, <1>5, <1>6, QuietPlace DEF PlaceInv

LEMMA CollectPlace ==
  ASSUME SpeedTypeOK, PlaceInv, ApplyInv, NEW t \in Inbounds, Collect(t)
  PROVE  PlaceInv' /\ ApplyInv'
  <1>1. info[t].hub # Nil
    BY KnownTyped DEF Collect
  <1> DEFINE h == info[t].hub
             drop == ~online[info[t].hub] /\ ~marked
  <1>2. loop' = [NoLoop EXCEPT !.at = "collect", !.hub = h, !.drop = drop]
    BY DEF Collect
  <1>3. h # Nil
    BY <1>1
  <1> HIDE DEF h, drop
  <1>4. loop'.at = "collect" /\ loop'.todo = {} /\ loop'.hub = h
    BY <1>2 DEF NoLoop
  <1>5. UNCHANGED <<info, bucket, conn, restore, stale>>
    BY DEF Collect, limiter, history
  <1> QED  BY <1>3, <1>4, <1>5, QuietPlace DEF PlaceInv

LEMMA SetLimitPlace ==
  ASSUME SpeedTypeOK, PlaceInv, ApplyInv, SetLimit
  PROVE  PlaceInv' /\ ApplyInv'
  <1>1. loop'.at = "apply" /\ loop'.todo = loop.todo /\ limited
        /\ UNCHANGED <<info, conn, restore, stale, limited>>
    BY DEF SetLimit, SpeedTypeOK, ApplyInv, history
  <1>2. \A h \in Hubs : bucket'[h] # Nil => bucket'[h] \in {h} \X BucketIds
    <2> TAKE h \in Hubs
    <2>1. CASE loop.bucket # Nil
      BY <2>1 DEF SetLimit, PlaceInv
    <2>2. CASE loop.bucket = Nil
      <3> DEFINE b == FreshBucket(loop.hub)
      <3>1. loop.hub \in Hubs
        BY DEF PlaceInv, SpeedTypeOK, SetLimit
      <3>2. b \in {loop.hub} \X BucketIds
        BY <2>2, <3>1, BucketIsFresh DEF SetLimit
      <3>3. bucket' = [bucket EXCEPT ![loop.hub] = b]
        BY <2>2 DEF SetLimit
      <3> HIDE DEF b
      <3> QED  BY <3>2, <3>3 DEF PlaceInv, SpeedTypeOK
    <2> QED  BY <2>1, <2>2
  <1>3. Known' = Known
    BY <1>1 DEF Known
  <1>4. PlaceInv'
    BY <1>1, <1>2, <1>3 DEF PlaceInv
  <1> QED  BY <1>1, <1>4 DEF ApplyInv

LEMMA DropPlace ==
  ASSUME SpeedTypeOK, PlaceInv, ApplyInv, Drop
  PROVE  PlaceInv' /\ ApplyInv'
  <1>1. UNCHANGED <<info, conn, restore>> /\ loop'.at = "idle" /\ loop'.todo = {}
        /\ stale' \subseteq stale
    BY DEF Drop, NoLoop
  <1>2. \A h \in Hubs : bucket'[h] # Nil => bucket'[h] = bucket[h]
    BY DEF Drop, SpeedTypeOK
  <1>3. Known' = Known
    BY <1>1 DEF Known
  <1>4. PlaceInv'
    BY <1>1, <1>2, <1>3 DEF PlaceInv
  <1> QED  BY <1>1, <1>4 DEF ApplyInv

LEMMA CallbackPlace ==
  ASSUME SpeedTypeOK, PlaceInv, ApplyInv, NEW k \in Callbacks,
         (\E t \in Inbounds : Restore(k, t)) \/ Reset(k) \/ Restored(k)
  PROVE  PlaceInv' /\ ApplyInv'
  <1>1. UNCHANGED <<info, bucket, conn, loop, limited>>
    BY DEF Restore, Reset, Restored, limiter
  <1>2. \A j \in Callbacks : restore'[j].at = "reset" => restore'[j].hub # Nil
    <2> TAKE j \in Callbacks
    <2>1. ASSUME NEW t \in Inbounds, Restore(k, t)
          PROVE  restore'[j].at = "reset" => restore'[j].hub # Nil
      <3>1. info[t].hub # Nil
        BY <2>1, KnownTyped DEF Restore
      <3> DEFINE h == info[t].hub
                 l == Static(t)
                 rest == restore[k].todo \ {t}
      <3>2. restore' = [restore EXCEPT ![k] = [at |-> "reset", todo |-> rest, hub |-> h, limit |-> l]]
        BY <2>1 DEF Restore
      <3>3. h # Nil
        BY <3>1
      <3> HIDE DEF h, l, rest
      <3> QED  BY <3>2, <3>3 DEF PlaceInv, SpeedTypeOK
    <2>2. CASE Reset(k)
      BY <2>2 DEF Reset, PlaceInv, SpeedTypeOK
    <2>3. CASE Restored(k)
      BY <2>3 DEF Restored, NoRestore, PlaceInv, SpeedTypeOK
    <2> QED  BY <2>1, <2>2, <2>3
  <1>3. stale' \subseteq Known
    BY WrittenKnown DEF Restore, Reset, Restored, PlaceInv, history
  <1> QED  BY <1>1, <1>2, <1>3, QuietPlace

LEMMA ExpirePlace ==
  ASSUME SpeedTypeOK, PlaceInv, ApplyInv, Expire
  PROVE  PlaceInv' /\ ApplyInv'
  <1>1. PICK k \in Callbacks :
          restore' = [restore EXCEPT ![k] = [NoRestore EXCEPT !.at = "due", !.todo = Inbounds]]
    BY DEF Expire
  <1>2. \A j \in Callbacks : restore'[j].at = "reset" => restore'[j].hub # Nil
    BY <1>1 DEF NoRestore, PlaceInv, SpeedTypeOK
  <1>3. UNCHANGED <<info, bucket, conn, loop, stale>> /\ loop.at \notin {"apply", "set"}
    BY DEF Expire, limiter
  <1> QED  BY <1>2, <1>3, QuietPlace DEF PlaceInv

LEMMA SpeedStarts == SpeedInit => SpeedInv
  <1> SUFFICES ASSUME SpeedInit PROVE SpeedInv
    OBVIOUS
  <1>1. Known = {}
    BY DEF SpeedInit, Known
  <1>2. conn \in [Connections -> ConnType] /\ restore \in [Callbacks -> RestoreType] /\ loop \in LoopType
    BY NoneTyped DEF SpeedInit
  <1>3. info \in [Inbounds -> {Nil} \cup InboundInfo] /\ bucket \in [Hubs -> Buckets \cup {Nil}]
        /\ online \in [Hubs -> BOOLEAN] /\ rate \in [Buckets -> Rates \ {0}]
    BY AutoTyped DEF SpeedInit
  <1>4. SpeedTypeOK
    BY <1>2, <1>3 DEF SpeedInit, SpeedTypeOK, ConnType, RestoreType, LoopType
  <1>5. PlaceInv
    BY <1>1 DEF SpeedInit, PlaceInv, NoConn, NoRestore, NoLoop
  <1> QED  BY <1>4, <1>5 DEF SpeedInit, SpeedInv, ApplyInv, NoLoop

LEMMA SpeedStep == SpeedInv /\ [SpeedNext]_speedVars => SpeedInv'
  <1> SUFFICES ASSUME SpeedInv, [SpeedNext]_speedVars PROVE SpeedInv'
    OBVIOUS
  <1> USE DEF SpeedInv
  <1>1. ASSUME NEW c \in Connections, Connect(c) PROVE SpeedInv'
    BY <1>1, ConnectTyped, ConnectPlace
  <1>2. ASSUME NEW c \in Connections, TakeBucket(c) PROVE SpeedInv'
    <2>1. conn[c].hub \in Hubs /\ conn[c].limit \in Limits
      BY <1>2 DEF TakeBucket, PlaceInv, SpeedTypeOK
    <2> QED  BY <1>2, <2>1, BucketTyped, LoadOrStorePlace DEF TakeBucket
  <1>3. ASSUME NEW c \in Connections, Splice(c) PROVE SpeedInv'
    <2>1. PICK t \in Known : LoadOrStore(c, info[t].hub, Static(t))
      BY <1>3 DEF Splice
    <2>2. info[t].hub \in Hubs /\ Static(t) \in Limits
      BY KnownTyped
    <2> QED  BY <1>3, <2>1, <2>2, BucketTyped, LoadOrStorePlace DEF Splice
  <1>4. ASSUME NEW c \in Connections, Close(c) PROVE SpeedInv'
    BY <1>4, CloseTyped, ConnectPlace
  <1>5. ASSUME NEW t \in Inbounds, NEW p \in Pushes, Sync(t, p) PROVE SpeedInv'
    BY <1>5, SyncTyped, SyncPlace
  <1>6. ASSUME NEW t \in Inbounds, NEW p \in Pushes, SyncNew(t, p) PROVE SpeedInv'
    BY <1>6, AddTyped, AddPlace DEF SyncNew
  <1>7. ASSUME NEW t \in Inbounds, NEW p \in Pushes, NEW rules \in BOOLEAN, PostLimiter(t, p, rules)
        PROVE  SpeedInv'
    <2>1. attached' \in BOOLEAN /\ AddInboundLimiter(t, p)
      BY <1>7 DEF PostLimiter, SpeedTypeOK
    <2> QED  BY <2>1, AddTyped, AddPlace
  <1>8. ASSUME RenewLimiter PROVE SpeedInv'
    BY <1>8, RenewTyped, RenewPlace
  <1>9. ASSUME ApplyLimit \/ LimitApplied PROVE SpeedInv'
    BY <1>9, ApplyTyped, ApplyPlace
  <1>10. ASSUME NEW t \in Inbounds, Collect(t) PROVE SpeedInv'
    BY <1>10, CollectTyped, CollectPlace
  <1>11. ASSUME NEW t \in Inbounds, LimitInbound(t) PROVE SpeedInv'
    BY <1>11, LimitInboundTyped, LimitInboundPlace
  <1>12. ASSUME SetLimit PROVE SpeedInv'
    BY <1>12, SetLimitTyped, SetLimitPlace
  <1>13. ASSUME Drop PROVE SpeedInv'
    BY <1>13, DropTyped, DropPlace
  <1>14. ASSUME Expire PROVE SpeedInv'
    BY <1>14, ExpireTyped, ExpirePlace
  <1>15. ASSUME NEW k \in Callbacks, NEW t \in Inbounds, Restore(k, t) PROVE SpeedInv'
    BY <1>15, RestoreTyped, CallbackPlace
  <1>16. ASSUME NEW k \in Callbacks, Reset(k) \/ Restored(k) PROVE SpeedInv'
    BY <1>16, ResetTyped, RestoredTyped, CallbackPlace
  <1>17. CASE UNCHANGED speedVars
    BY <1>17 DEF SpeedTypeOK, PlaceInv, ApplyInv, Known, speedVars, limiter, history
  <1> QED
    BY <1>1, <1>2, <1>3, <1>4, <1>5, <1>6, <1>7, <1>8, <1>9, <1>10, <1>11, <1>12, <1>13, <1>14,
       <1>15, <1>16, <1>17 DEF SpeedNext

LEMMA SpeedInvariance == SpeedSpec => []SpeedInv
  BY SpeedStarts, SpeedStep, PTL DEF SpeedSpec

\* The maps and what the three kinds of goroutines carry have their types.
THEOREM SpeedTypeCorrect == SpeedSpec => []SpeedTypeOK
  <1>1. SpeedInv => SpeedTypeOK
    BY DEF SpeedInv
  <1> QED  BY <1>1, SpeedInvariance, PTL

-----------------------------------------------------------------------------
(***************************************************************************)
(* What a step does to an inbound that was known: most leave its limits,   *)
(* its bucket and the rate of its bucket as they are.                      *)
(***************************************************************************)
Same(t) ==
    /\ info'[t] = info[t] /\ Current(t)' = Current(t)
    /\ Current(t) # Nil => rate'[Current(t)] = rate[Current(t)]

LEMMA SameStatic ==
  ASSUME NEW t, Same(t)
  PROVE  Static(t)' = Static(t)
  BY DEF Same, Static

LEMMA Untouched ==
  ASSUME UNCHANGED <<info, bucket, rate>>
  PROVE  Known' = Known /\ \A t \in Known : Same(t)
  BY DEF Known, Same, Current

\* A step that drops references leaves the inbounds it does not touch alone.
LEMMA LeftAlone ==
  ASSUME SpeedInv, rate' = RatesLeft, NEW t \in Known, info'[t] = info[t], Current(t)' = Current(t)
  PROVE  Same(t)
  <1>1. t \in Known' /\ info'[t].hub # Nil /\ Current(t) \in Buckets \cup {Nil}
    BY KnownTyped DEF SpeedInv, Known
  <1>2. Current(t) \in UsedBuckets'
    BY <1>1, CurrentIsUsed DEF Current
  <1> QED  BY <1>1, <1>2, RatesAreLeft DEF SpeedInv, Same

LEMMA CloseEffect ==
  ASSUME SpeedInv, NEW c \in Connections, Close(c)
  PROVE  Known' = Known /\ \A t \in Known : Same(t)
  BY LeftAlone DEF Close, Known, Current

LEMMA LoadOrStoreEffect ==
  ASSUME SpeedInv, NEW c \in Connections, NEW h \in Hubs, NEW limit \in Limits,
         LoadOrStore(c, h, limit), UNCHANGED info
  PROVE  /\ Known' = Known
         /\ \A t \in Known : \/ Same(t) /\ (t \in stale' <=> t \in stale)
                             \/ /\ info[t].hub = h /\ Current(t) = Nil /\ Current(t)' # Nil
                                /\ rate'[Current(t)'] = AsRate(limit)
                                /\ Static(t)' = Static(t)
                                /\ t \in stale' <=> Static(t) # limit
  <1>1. Known' = Known
    BY DEF Known
  <1>2. CASE bucket[h] # Nil
    BY <1>1, <1>2, Untouched DEF LoadOrStore
  <1>3. CASE bucket[h] = Nil
    <2> DEFINE b == FreshBucket(h)
    <2>1. /\ bucket' = [bucket EXCEPT ![h] = b] /\ rate' = [rate EXCEPT ![b] = AsRate(limit)]
          /\ stale' = Written(h, limit)
      BY <1>3 DEF LoadOrStore
    <2>2. b \in {h} \X BucketIds /\ b \in Buckets /\ b # Nil
      BY <1>3, BucketIsFresh DEF LoadOrStore
    <2> HIDE DEF b
    <2>3. ASSUME NEW t \in Known, info[t].hub # h
          PROVE  Same(t) /\ (t \in stale' <=> t \in stale)
      <3>1. Current(t)' = Current(t) /\ info[t].hub \in Hubs
        BY <2>1, <2>3, KnownTyped DEF Current, SpeedInv, SpeedTypeOK
      <3>2. Current(t) # Nil => Current(t) # b
        BY <2>2, <2>3, <3>1 DEF Current, SpeedInv, PlaceInv
      <3>3. Current(t) # Nil => rate'[Current(t)] = rate[Current(t)]
        BY <2>1, <3>2, KnownTyped DEF SpeedInv, SpeedTypeOK
      <3>4. t \in stale' <=> t \in stale
        BY <2>1, <2>3 DEF Written
      <3> QED  BY <3>1, <3>3, <3>4 DEF Same
    <2>4. ASSUME NEW t \in Known, info[t].hub = h
          PROVE  /\ Current(t) = Nil /\ Current(t)' # Nil /\ rate'[Current(t)'] = AsRate(limit)
                 /\ Static(t)' = Static(t) /\ (t \in stale' <=> Static(t) # limit)
      <3>1. Current(t) = Nil /\ Current(t)' = b
        BY <1>3, <2>1, <2>4 DEF Current, SpeedInv, SpeedTypeOK
      <3>2. rate'[b] = AsRate(limit)
        BY <2>1, <2>2 DEF SpeedInv, SpeedTypeOK
      <3>3. t \in stale' <=> Static(t) # limit
        BY <2>1, <2>4 DEF Written
      <3> QED  BY <2>2, <3>1, <3>2, <3>3 DEF Static
    <2> QED  BY <1>1, <2>3, <2>4
  <1> QED  BY <1>2, <1>3

\* A connection that takes its bucket, by either way.
LEMMA BucketEffect ==
  ASSUME SpeedInv, NEW c \in Connections, TakeBucket(c) \/ Splice(c)
  PROVE  /\ Known' = Known
         /\ UNCHANGED <<info, marked, attached, limited, restore, loop, undone>>
         /\ \A t \in Known :
              \/ Same(t) /\ (t \in stale' <=> t \in stale)
              \/ /\ Current(t) = Nil /\ Current(t)' # Nil /\ rate'[Current(t)'] # AutoRate
                 /\ Static(t)' = Static(t)
                 /\ t \notin stale' /\ Static(t) > 0 => rate'[Current(t)'] = Static(t)
  <1>1. PICK h \in Hubs, limit \in Limits : LoadOrStore(c, h, limit)
    <2>1. CASE TakeBucket(c)
      BY <2>1 DEF TakeBucket, SpeedInv, PlaceInv, SpeedTypeOK
    <2>2. CASE Splice(c)
      BY <2>2, KnownTyped DEF Splice, SpeedInv
    <2> QED  BY <2>1, <2>2
  <1>2. UNCHANGED <<info, marked, attached, limited, restore, loop, undone>>
    BY DEF TakeBucket, Splice
  <1>3. AsRate(limit) # AutoRate /\ (limit > 0 => AsRate(limit) = limit)
    BY RateTyped
  <1> QED  BY <1>1, <1>2, <1>3, LoadOrStoreEffect

LEMMA SyncEffect ==
  ASSUME SpeedInv, NEW t \in Inbounds, NEW p \in Pushes, Sync(t, p)
  PROVE  /\ Known' = Known /\ \A u \in Known \ {t} : Same(u)
         /\ t \in Known /\ Current(t)' = Current(t) /\ info'[t].hub = info[t].hub
         /\ Static(t)' = Lower(p.node, p.user) /\ Lower(p.node, p.user) \in Limits
         /\ Current(t) # Nil =>
              rate'[Current(t)] = IF Lower(p.node, p.user) > 0 THEN Lower(p.node, p.user)
                                  ELSE rate[Current(t)]
  <1> DEFINE limit == Lower(p.node, p.user)
             b == Current(t)
  <1>1. t \in Known /\ info' = [info EXCEPT ![t].node = p.node, ![t].user = p.user]
        /\ bucket' = bucket
        /\ rate' = IF limit > 0 /\ b # Nil THEN [rate EXCEPT ![b] = limit] ELSE rate
    BY DEF Sync
  <1>2. Known' = Known /\ \A u \in Known : info'[u].hub = info[u].hub
    BY SyncPlace DEF SpeedInv
  <1>3. \A u \in Known : Current(u)' = Current(u)
    BY <1>1, <1>2 DEF Current
  <1>4. limit \in Limits /\ b \in Buckets \cup {Nil} /\ info[t] \in InboundInfo
    BY <1>1, KnownTyped, RatesApart, LimitsKept DEF SpeedInv
  <1>5. info' = [info EXCEPT ![t] = [[@ EXCEPT !.node = p.node] EXCEPT !.user = p.user]]
    BY <1>1, <1>4 DEF SpeedInv, SpeedTypeOK, InboundInfo
  <1>6. info'[t].node = p.node /\ info'[t].user = p.user
    BY <1>4, <1>5 DEF SpeedInv, SpeedTypeOK, InboundInfo
  <1>7. Static(t)' = limit
    BY <1>6 DEF Static
  <1>8. b # Nil => rate'[b] = IF limit > 0 THEN limit ELSE rate[b]
    BY <1>1, <1>4 DEF SpeedInv, SpeedTypeOK
  <1>9. ASSUME NEW u \in Known \ {t} PROVE Same(u)
    <2>1. info'[u] = info[u]
      BY <1>5, <1>9 DEF SpeedInv, SpeedTypeOK, Known
    <2>2. Current(u) # Nil => Current(u) # b
      <3>1. info[u].hub # info[t].hub
        BY <1>1, <1>9 DEF SpeedInv, PlaceInv
      <3>2. info[u].hub \in Hubs /\ info[t].hub \in Hubs
        BY <1>1, KnownTyped DEF SpeedInv
      <3> QED  BY <3>1, <3>2, BucketsApart DEF SpeedInv, Current
    <2>3. Current(u) # Nil => rate'[Current(u)] = rate[Current(u)]
      BY <1>1, <2>2, KnownTyped DEF SpeedInv, SpeedTypeOK
    <2> QED  BY <1>3, <2>1, <2>3 DEF Same
  <1> QED  BY <1>1, <1>2, <1>3, <1>4, <1>7, <1>8, <1>9

LEMMA AddEffect ==
  ASSUME SpeedInv, NEW t \in Inbounds, NEW p \in Pushes, AddInboundLimiter(t, p)
  PROVE  /\ Known' = Known \cup {t} /\ Current(t)' = Nil
         /\ \A u \in Known \ {t} : Same(u)
         /\ stale' = stale \ {t} /\ undone' = limited /\ UNCHANGED <<limited, restore>>
  <1>1. /\ Known' = Known \cup {t} /\ Current(t)' = Nil
        /\ \A u \in Known \ {t} : info'[u] = info[u] /\ Current(u)' = Current(u)
    BY AddPlace DEF SpeedInv
  <1>2. /\ rate' = RatesLeft /\ stale' = stale \ {t} /\ undone' = limited
        /\ UNCHANGED <<limited, restore>>
    BY DEF AddInboundLimiter
  <1> QED  BY <1>1, <1>2, LeftAlone

LEMMA SetLimitEffect ==
  ASSUME SpeedInv, SetLimit
  PROVE  /\ Known' = Known
         /\ \A t \in Known : IF info[t].hub = loop.hub
                             THEN /\ Current(t)' # Nil /\ rate'[Current(t)'] = AutoRate
                                  /\ Static(t)' = Static(t)
                             ELSE Same(t)
  <1>1. info' = info /\ loop.hub \in Hubs
    BY DEF SetLimit, SpeedInv, PlaceInv, SpeedTypeOK
  <1>2. Known' = Known
    BY <1>1 DEF Known
  <1>3. PICK b \in Buckets :
          /\ b # Nil /\ b \in {loop.hub} \X BucketIds
          /\ bucket' = [bucket EXCEPT ![loop.hub] = b] /\ rate' = [rate EXCEPT ![b] = AutoRate]
    <2>1. CASE loop.bucket # Nil
      <3>1. bucket[loop.hub] = loop.bucket /\ loop.bucket \in Buckets
        BY <2>1 DEF SetLimit, SpeedInv, ApplyInv, SpeedTypeOK
      <3>2. loop.bucket \in {loop.hub} \X BucketIds
        BY <1>1, <2>1, <3>1 DEF SpeedInv, PlaceInv
      <3>3. bucket' = [bucket EXCEPT ![loop.hub] = loop.bucket]
            /\ rate' = [rate EXCEPT ![loop.bucket] = AutoRate]
        BY <1>1, <2>1, <3>1 DEF SetLimit, SpeedInv, SpeedTypeOK
      <3> QED  BY <2>1, <3>1, <3>2, <3>3
    <2>2. CASE loop.bucket = Nil
      BY <1>1, <2>2, BucketIsFresh DEF SetLimit
    <2> QED  BY <2>1, <2>2
  <1>4. ASSUME NEW t \in Known, info[t].hub = loop.hub
        PROVE  Current(t)' # Nil /\ rate'[Current(t)'] = AutoRate /\ Static(t)' = Static(t)
    <2>1. Current(t)' = b
      BY <1>1, <1>3, <1>4 DEF Current, SpeedInv, SpeedTypeOK
    <2>2. rate'[b] = AutoRate
      BY <1>3 DEF SpeedInv, SpeedTypeOK
    <2> QED  BY <1>1, <1>3, <2>1, <2>2 DEF Static
  <1>5. ASSUME NEW t \in Known, info[t].hub # loop.hub PROVE Same(t)
    <2>1. Current(t)' = Current(t) /\ info[t].hub \in Hubs
      BY <1>1, <1>3, <1>5, KnownTyped DEF Current, SpeedInv, SpeedTypeOK
    <2>2. Current(t) # Nil => Current(t) # b
      BY <1>3, <1>5, <2>1 DEF Current, SpeedInv, PlaceInv
    <2>3. Current(t) # Nil => rate'[Current(t)] = rate[Current(t)]
      BY <1>3, <2>2, KnownTyped DEF SpeedInv, SpeedTypeOK
    <2> QED  BY <1>1, <2>1, <2>3 DEF Same
  <1> QED  BY <1>2, <1>4, <1>5

LEMMA ResetEffect ==
  ASSUME SpeedInv, NEW k \in Callbacks, Reset(k)
  PROVE  /\ Known' = Known
         /\ \A t \in Known :
              \/ /\ Same(t) /\ (t \in stale' <=> t \in stale)
                 /\ info[t].hub = restore[k].hub => Current(t) = Nil
              \/ /\ Current(t)' = Current(t) /\ info'[t] = info[t]
                 /\ rate'[Current(t)] # AutoRate
                 /\ t \notin stale' /\ Static(t) > 0 => rate'[Current(t)] = Static(t)
  <1> DEFINE h == restore[k].hub
             limit == restore[k].limit
             b == bucket[h]
  <1>1. h \in Hubs /\ limit \in Limits /\ b \in Buckets \cup {Nil}
    BY DEF Reset, SpeedInv, PlaceInv, SpeedTypeOK
  <1>2. UNCHANGED <<info, bucket>> /\ Known' = Known /\ \A t \in Known : Current(t)' = Current(t)
    BY DEF Reset, Known, Current
  <1>3. AsRate(limit) # AutoRate /\ (limit > 0 => AsRate(limit) = limit)
    BY <1>1, RateTyped
  <1>4. CASE b = Nil
    <2>1. UNCHANGED <<rate, stale>>
      BY <1>4 DEF Reset
    <2>2. \A t \in Known : info[t].hub = h => Current(t) = Nil
      BY <1>4 DEF Current
    <2> QED  BY <1>2, <2>1, <2>2, Untouched
  <1>5. CASE b # Nil
    <2>1. rate' = [rate EXCEPT ![b] = AsRate(limit)] /\ stale' = Written(h, limit)
      BY <1>5 DEF Reset
    <2>2. b \in {h} \X BucketIds
      BY <1>1, <1>5 DEF SpeedInv, PlaceInv
    <2>3. \A t \in Known : info[t].hub = h => Current(t) = b
      BY DEF Current
    <2> HIDE DEF h, limit, b
    <2>4. ASSUME NEW t \in Known, info[t].hub # h
          PROVE  Same(t) /\ (t \in stale' <=> t \in stale)
      <3>1. Current(t) # Nil => Current(t) # b
        BY <2>2, <2>4, KnownTyped DEF Current, SpeedInv, PlaceInv
      <3>2. Current(t) # Nil => rate'[Current(t)] = rate[Current(t)]
        BY <2>1, <3>1, KnownTyped DEF SpeedInv, SpeedTypeOK
      <3>3. t \in stale' <=> t \in stale
        BY <2>1, <2>4 DEF Written
      <3> QED  BY <1>2, <3>2, <3>3 DEF Same
    <2>5. ASSUME NEW t \in Known, info[t].hub = h
          PROVE  /\ rate'[Current(t)] = AsRate(limit)
                 /\ t \notin stale' /\ Static(t) > 0 => rate'[Current(t)] = Static(t)
      <3>1. rate'[b] = AsRate(limit) /\ Current(t) = b
        BY <1>1, <1>5, <2>1, <2>3, <2>5 DEF SpeedInv, SpeedTypeOK
      <3>2. t \notin stale' => Static(t) = limit
        BY <2>1, <2>5 DEF Written
      <3> QED  BY <1>3, <3>1, <3>2
    <2>6. ASSUME NEW t \in Known
          PROVE  \/ /\ Same(t) /\ (t \in stale' <=> t \in stale) /\ info[t].hub # h
                 \/ /\ Current(t)' = Current(t) /\ info'[t] = info[t]
                    /\ rate'[Current(t)] # AutoRate
                    /\ t \notin stale' /\ Static(t) > 0 => rate'[Current(t)] = Static(t)
      BY <1>2, <1>3, <2>4, <2>5
    <2> QED  BY <1>2, <2>6 DEF h
  <1> QED  BY <1>4, <1>5

LEMMA DropEffect ==
  ASSUME SpeedInv, Drop
  PROVE  /\ Known' = Known
         /\ \A t \in Known : Same(t) \/ (loop.drop /\ Current(t)' = Nil)
         /\ stale' = {t \in stale : Current(t)' # Nil}
  <1>1. info' = info /\ rate' = RatesLeft /\ stale' = {t \in stale : Current(t)' # Nil}
        /\ bucket' = IF loop.drop THEN [bucket EXCEPT ![loop.hub] = Nil] ELSE bucket
    BY DEF Drop
  <1>2. Known' = Known
    BY <1>1 DEF Known
  <1>3. ASSUME NEW t \in Known PROVE Same(t) \/ (loop.drop /\ Current(t)' = Nil)
    <2>1. info[t].hub \in Hubs
      BY KnownTyped DEF SpeedInv
    <2>2. Current(t)' = Current(t) \/ (loop.drop /\ Current(t)' = Nil)
      BY <1>1, <2>1 DEF Current, SpeedInv, SpeedTypeOK
    <2> QED  BY <1>1, <2>2, LeftAlone
  <1> QED  BY <1>1, <1>2, <1>3

\* Every other step leaves the limits, the buckets and the rates alone.
Quiet ==
    \/ \E c \in Connections : Connect(c)
    \/ ApplyLimit
    \/ \E t \in Inbounds : Collect(t) \/ LimitInbound(t)
    \/ LimitApplied
    \/ Expire
    \/ \E k \in Callbacks : (\E t \in Inbounds : Restore(k, t)) \/ Restored(k)
    \/ UNCHANGED speedVars

LEMMA QuietEffect ==
  ASSUME Quiet
  PROVE  Known' = Known /\ (\A t \in Known : Same(t)) /\ UNCHANGED <<info, stale>>
  <1>1. UNCHANGED <<info, bucket, rate>> /\ UNCHANGED stale
    BY DEF Quiet, Connect, ApplyLimit, Collect, LimitInbound, LimitApplied, Expire, Restore, Restored,
           limiter, history, speedVars
  <1> QED  BY <1>1, Untouched

LEMMA SpeedCases ==
  ASSUME [SpeedNext]_speedVars
  PROVE  \/ Quiet
         \/ \E c \in Connections : TakeBucket(c) \/ Splice(c) \/ Close(c)
         \/ \E t \in Inbounds, p \in Pushes : Sync(t, p) \/ AddInboundLimiter(t, p)
         \/ RenewLimiter
         \/ SetLimit
         \/ Drop
         \/ \E k \in Callbacks : Reset(k)
  <1>1. CASE SpeedNext
    BY <1>1 DEF SpeedNext, Quiet, SyncNew, PostLimiter
  <1>2. CASE UNCHANGED speedVars
    BY <1>2 DEF Quiet
  <1> QED  BY <1>1, <1>2

-----------------------------------------------------------------------------
\* The rate of one inbound's bucket
Enforced(t) ==
    Static(t) > 0 /\ Current(t) # Nil => rate[Current(t)] \in {Static(t), AutoRate}

LEMMA StillEnforced ==
  ASSUME NEW t, Same(t), Enforced(t)
  PROVE  Enforced(t)'
  BY SameStatic DEF Same, Enforced

LEMMA StaticStep == SpeedInv /\ StaticEnforced /\ [SpeedNext]_speedVars => StaticEnforced'
  <1> SUFFICES ASSUME SpeedInv, StaticEnforced, [SpeedNext]_speedVars,
                      NEW t \in Known', t \notin stale'
               PROVE  Enforced(t)'
    BY DEF StaticEnforced, Enforced
  <1> USE DEF StaticEnforced
  <1>a. t \in Known /\ t \notin stale => Enforced(t)
    BY DEF Enforced
  <1>1. CASE Quiet
    BY <1>1, <1>a, QuietEffect, StillEnforced
  <1>2. ASSUME NEW c \in Connections, TakeBucket(c) \/ Splice(c) PROVE Enforced(t)'
    <2>1. t \in Known
      BY <1>2, BucketEffect
    <2>2. CASE Same(t) /\ (t \in stale' <=> t \in stale)
      BY <1>a, <2>1, <2>2, StillEnforced
    <2>3. CASE /\ Static(t)' = Static(t)
               /\ t \notin stale' /\ Static(t) > 0 => rate'[Current(t)'] = Static(t)
      BY <2>3 DEF Enforced
    <2> QED  BY <1>2, <2>1, <2>2, <2>3, BucketEffect
  <1>3. ASSUME NEW c \in Connections, Close(c) PROVE Enforced(t)'
    <2>1. stale' = stale
      BY <1>3 DEF Close, history
    <2> QED  BY <1>3, <1>a, <2>1, CloseEffect, StillEnforced
  <1>4. ASSUME NEW u \in Inbounds, NEW p \in Pushes, Sync(u, p) PROVE Enforced(t)'
    <2>1. stale' = stale \ {u} /\ t \in Known
      BY <1>4, SyncEffect DEF Sync
    <2>2. CASE t = u
      BY <1>4, <2>2, SyncEffect DEF Enforced
    <2>3. CASE t # u
      BY <1>4, <1>a, <2>1, <2>3, SyncEffect, StillEnforced
    <2> QED  BY <2>2, <2>3
  <1>5. ASSUME NEW u \in Inbounds, NEW p \in Pushes, AddInboundLimiter(u, p) PROVE Enforced(t)'
    <2>1. CASE t = u
      BY <1>5, <2>1, AddEffect DEF Enforced
    <2>2. CASE t # u
      BY <1>5, <1>a, <2>2, AddEffect, StillEnforced
    <2> QED  BY <2>1, <2>2
  <1>6. CASE RenewLimiter
    BY <1>6, RenewPlace
  <1>7. CASE SetLimit
    <2>1. stale' = stale /\ t \in Known
      BY <1>7, SetLimitEffect DEF SetLimit, history
    <2>2. CASE info[t].hub = loop.hub
      BY <1>7, <2>1, <2>2, SetLimitEffect DEF Enforced
    <2>3. CASE info[t].hub # loop.hub
      BY <1>7, <1>a, <2>1, <2>3, SetLimitEffect, StillEnforced
    <2> QED  BY <2>2, <2>3
  <1>8. CASE Drop
    <2>1. t \in Known /\ (Same(t) \/ Current(t)' = Nil)
          /\ stale' = {u \in stale : Current(u)' # Nil}
      BY <1>8, DropEffect
    <2>2. CASE Current(t)' = Nil
      BY <2>2 DEF Enforced
    <2>3. CASE Same(t) /\ Current(t)' # Nil
      BY <1>a, <2>1, <2>3, StillEnforced
    <2> QED  BY <2>1, <2>2, <2>3
  <1>9. ASSUME NEW k \in Callbacks, Reset(k) PROVE Enforced(t)'
    <2>1. t \in Known
      BY <1>9, ResetEffect
    <2>2. CASE Same(t) /\ (t \in stale' <=> t \in stale)
      BY <1>a, <2>1, <2>2, StillEnforced
    <2>3. CASE /\ Current(t)' = Current(t) /\ info'[t] = info[t]
               /\ t \notin stale' /\ Static(t) > 0 => rate'[Current(t)] = Static(t)
      BY <2>3 DEF Enforced, Static
    <2> QED  BY <1>9, <2>1, <2>2, <2>3, ResetEffect
  <1> QED
    BY <1>1, <1>2, <1>3, <1>4, <1>5, <1>6, <1>7, <1>8, <1>9, SpeedCases

\* SyncInboundLimiter: what is pushed is what the buckets enforce, however the
\* connections, the cleanup and the callbacks interleave with it.
THEOREM PushIsEnforced == SpeedSpec => []StaticEnforced
  <1>1. SpeedInit => StaticEnforced
    BY DEF SpeedInit, StaticEnforced, Known
  <1> QED  BY <1>1, StaticStep, SpeedInvariance, PTL DEF SpeedSpec

-----------------------------------------------------------------------------
\* A callback will still visit inbound t.
ToVisit(t) ==
    \E k \in Callbacks :
        \/ t \in restore[k].todo
        \/ restore[k].at = "reset" /\ restore[k].hub = info[t].hub

Throttled(t) == Current(t) # Nil /\ rate[Current(t)] = AutoRate

LEMMA StillToVisit ==
  ASSUME NEW t, Same(t), UNCHANGED restore, ToVisit(t)
  PROVE  ToVisit(t)'
  BY DEF Same, ToVisit

LEMMA StillThrottled ==
  ASSUME NEW t, Same(t), Throttled(t)'
  PROVE  Throttled(t)
  BY DEF Same, Throttled

LEMMA ThrottleStep == SpeedInv /\ ThrottleEnds /\ [SpeedNext]_speedVars => ThrottleEnds'
  <1> SUFFICES ASSUME SpeedInv, ThrottleEnds, [SpeedNext]_speedVars,
                      NEW t \in Known', Throttled(t)'
               PROVE  limited' \/ ToVisit(t)'
    BY DEF ThrottleEnds, Throttled, ToVisit
  <1>a. t \in Known /\ Throttled(t) => limited \/ ToVisit(t)
    BY DEF ThrottleEnds, Throttled, ToVisit
  <1>b. t \in Known => t \in Inbounds
    BY DEF Known
  <1>0. ASSUME t \in Known, Same(t), UNCHANGED <<restore, limited>>
        PROVE  limited' \/ ToVisit(t)'
    BY <1>0, <1>a, StillToVisit, StillThrottled
  <1>1. CASE Quiet
    <2>1. t \in Known /\ Same(t) /\ UNCHANGED info
      BY <1>1, QuietEffect
    <2>2. limited \/ ToVisit(t)
      BY <1>a, <2>1, StillThrottled
    <2>3. CASE UNCHANGED <<restore, limited>>
      BY <1>0, <2>1, <2>3
    <2>4. CASE ApplyLimit
      BY <2>4 DEF ApplyLimit
    <2>5. CASE Expire
      <3>1. PICK k \in Callbacks :
              restore' = [restore EXCEPT ![k] = [NoRestore EXCEPT !.at = "due", !.todo = Inbounds]]
        BY <2>5 DEF Expire
      <3>2. restore'[k].todo = Inbounds
        BY <3>1 DEF SpeedInv, SpeedTypeOK, NoRestore
      <3> QED  BY <1>b, <2>1, <3>2 DEF ToVisit
    <2>6. ASSUME NEW k \in Callbacks, NEW u \in Inbounds, Restore(k, u)
          PROVE  limited' \/ ToVisit(t)'
      <3> DEFINE new == [at |-> "reset", todo |-> restore[k].todo \ {u}, hub |-> info[u].hub,
                         limit |-> Static(u)]
      <3>1. limited' = limited /\ restore[k].at = "due" /\ restore' = [restore EXCEPT ![k] = new]
        BY <2>6 DEF Restore
      <3>2. new.at = "reset" /\ new.todo = restore[k].todo \ {u} /\ new.hub = info[u].hub
        OBVIOUS
      <3> HIDE DEF new
      <3>3. restore'[k] = new /\ \A j \in Callbacks : j # k => restore'[j] = restore[j]
        BY <3>1 DEF SpeedInv, SpeedTypeOK
      <3>4. CASE t = u
        BY <2>1, <3>2, <3>3, <3>4 DEF ToVisit
      <3>5. CASE t # u
        <4>1. ASSUME ToVisit(t) PROVE ToVisit(t)'
          <5>1. PICK j \in Callbacks : \/ t \in restore[j].todo
                                       \/ restore[j].at = "reset" /\ restore[j].hub = info[t].hub
            BY <4>1 DEF ToVisit
          <5>2. CASE j = k
            <6>1. t \in restore'[k].todo
              BY <3>1, <3>2, <3>3, <3>5, <5>1, <5>2
            <6> QED  BY <6>1 DEF ToVisit
          <5>3. CASE j # k
            BY <2>1, <3>3, <5>1, <5>3 DEF ToVisit
          <5> QED  BY <5>2, <5>3
        <4> QED  BY <2>2, <3>1, <4>1
      <3> QED  BY <3>4, <3>5
    <2>7. ASSUME NEW k \in Callbacks, Restored(k) PROVE limited' \/ ToVisit(t)'
      <3>1. /\ limited' = limited /\ restore[k].at = "due" /\ t \notin restore[k].todo
            /\ restore' = [restore EXCEPT ![k] = NoRestore]
        BY <2>1, <2>7 DEF Restored
      <3>2. ASSUME ToVisit(t) PROVE ToVisit(t)'
        <4>1. PICK j \in Callbacks : \/ t \in restore[j].todo
                                     \/ restore[j].at = "reset" /\ restore[j].hub = info[t].hub
          BY <3>2 DEF ToVisit
        <4>2. restore'[j] = restore[j]
          BY <3>1, <4>1 DEF SpeedInv, SpeedTypeOK
        <4> QED  BY <2>1, <4>1, <4>2 DEF ToVisit
      <3> QED  BY <2>2, <3>1, <3>2
    <2>8. \/ UNCHANGED <<restore, limited>> \/ ApplyLimit \/ Expire
          \/ \E k \in Callbacks : (\E u \in Inbounds : Restore(k, u)) \/ Restored(k)
      BY <1>1 DEF Quiet, Connect, Collect, LimitInbound, LimitApplied, speedVars
    <2> QED  BY <2>3, <2>4, <2>5, <2>6, <2>7, <2>8
  <1>2. ASSUME NEW c \in Connections, TakeBucket(c) \/ Splice(c) PROVE limited' \/ ToVisit(t)'
    BY <1>0, <1>2, BucketEffect DEF Throttled
  <1>3. ASSUME NEW c \in Connections, Close(c) PROVE limited' \/ ToVisit(t)'
    BY <1>0, <1>3, CloseEffect DEF Close
  <1>4. ASSUME NEW u \in Inbounds, NEW p \in Pushes, Sync(u, p) PROVE limited' \/ ToVisit(t)'
    <2>1. UNCHANGED <<restore, limited>> /\ t \in Known
      BY <1>4, SyncEffect DEF Sync
    <2>2. CASE t # u
      BY <1>0, <1>4, <2>1, <2>2, SyncEffect
    <2>3. CASE t = u
      <3>1. Current(t)' = Current(t) /\ info'[t].hub = info[t].hub
        BY <1>4, <2>3, SyncEffect
      <3>2. Throttled(t)
        BY <1>4, <2>3, <3>1, SyncEffect, RatesApart DEF Throttled
      <3> QED  BY <1>a, <2>1, <3>1, <3>2 DEF ToVisit
    <2> QED  BY <2>2, <2>3
  <1>5. ASSUME NEW u \in Inbounds, NEW p \in Pushes, AddInboundLimiter(u, p)
        PROVE  limited' \/ ToVisit(t)'
    BY <1>0, <1>5, AddEffect DEF Throttled
  <1>6. CASE RenewLimiter
    BY <1>6, RenewPlace
  <1>7. CASE SetLimit
    BY <1>7 DEF SetLimit, SpeedInv, ApplyInv
  <1>8. CASE Drop
    <2>1. UNCHANGED <<restore, limited>> /\ t \in Known /\ (Same(t) \/ Current(t)' = Nil)
      BY <1>8, DropEffect DEF Drop
    <2> QED  BY <1>0, <2>1 DEF Throttled
  <1>9. ASSUME NEW k \in Callbacks, Reset(k) PROVE limited' \/ ToVisit(t)'
    <2>1. t \in Known /\ Same(t) /\ (info[t].hub = restore[k].hub => Current(t) = Nil)
      BY <1>9, ResetEffect DEF Throttled
    <2>2. info[t].hub # restore[k].hub
      BY <2>1, StillThrottled DEF Throttled
    <2>3. limited' = limited
          /\ restore' = [restore EXCEPT ![k] = [@ EXCEPT !.at = "due", !.hub = Nil, !.limit = 0]]
      BY <1>9 DEF Reset
    <2>4. /\ restore'[k].todo = restore[k].todo
          /\ \A j \in Callbacks : j # k => restore'[j] = restore[j]
      BY <2>3 DEF SpeedInv, SpeedTypeOK
    <2>5. ASSUME ToVisit(t) PROVE ToVisit(t)'
      <3>1. PICK j \in Callbacks : \/ t \in restore[j].todo
                                   \/ restore[j].at = "reset" /\ restore[j].hub = info[t].hub
        BY <2>5 DEF ToVisit
      <3>2. CASE j = k
        BY <2>2, <2>4, <3>1, <3>2 DEF ToVisit
      <3>3. CASE j # k
        BY <2>1, <2>4, <3>1, <3>3 DEF ToVisit, Same
      <3> QED  BY <3>2, <3>3
    <2> QED  BY <1>a, <2>1, <2>3, <2>5, StillThrottled
  <1> QED
    BY <1>1, <1>2, <1>3, <1>4, <1>5, <1>6, <1>7, <1>8, <1>9, SpeedCases

\* applyLimit: whatever is pushed, dropped or restarted, a bucket that is left at
\* the rate of an automatic limit is still to be visited by a callback.
THEOREM NobodyIsThrottledForGood == SpeedSpec => []ThrottleEnds
  <1>1. SpeedInit => ThrottleEnds
    BY DEF SpeedInit, ThrottleEnds, Known
  <1> QED  BY <1>1, ThrottleStep, SpeedInvariance, PTL DEF SpeedSpec

-----------------------------------------------------------------------------
(***************************************************************************)
(* AutoInv is AutoCoversNew while the limit is being applied too: what is  *)
(* not covered yet is still to be visited, or being visited.               *)
(***************************************************************************)
Marks(t) ==
    \/ t \in loop.todo
    \/ marked /\ loop.at = "set" /\ loop.hub = info[t].hub
    \/ marked /\ Throttled(t)

AutoInv ==
    limited /\ ~undone =>
        /\ \A t \in Known : Marks(t)
        /\ loop.at = "collect" => ~loop.drop

LEMMA StillMarked ==
  ASSUME NEW t, Same(t), UNCHANGED <<loop, marked>>, Marks(t)
  PROVE  Marks(t)'
  BY DEF Same, Marks, Throttled

LEMMA AutoStep == SpeedInv /\ AutoInv /\ [SpeedNext]_speedVars => AutoInv'
  <1> SUFFICES ASSUME SpeedInv, AutoInv, [SpeedNext]_speedVars, limited', ~undone'
               PROVE  (\A t \in Known' : Marks(t)') /\ (loop'.at = "collect" => ~loop'.drop)
    BY DEF AutoInv
  <1> DEFINE Goal == (\A t \in Known' : Marks(t)') /\ (loop'.at = "collect" => ~loop'.drop)
  <1>a. limited /\ ~undone => (\A t \in Known : Marks(t)) /\ (loop.at = "collect" => ~loop.drop)
    BY DEF AutoInv
  <1>0. ASSUME Known' = Known, \A t \in Known : Same(t), UNCHANGED <<limited, undone, loop, marked>>
        PROVE  Goal
    BY <1>0, <1>a, StillMarked
  <1>1. CASE Quiet
    <2>1. Known' = Known /\ (\A t \in Known : Same(t)) /\ UNCHANGED info
      BY <1>1, QuietEffect
    <2>2. CASE UNCHANGED <<limited, undone, loop, marked>>
      BY <1>0, <2>1, <2>2
    <2>3. CASE ApplyLimit
      <3>1. attached
        BY <2>3 DEF ApplyLimit, SpeedInv, SpeedTypeOK
      <3>2. loop' = [NoLoop EXCEPT !.at = "apply", !.todo = Known]
        BY <2>3, <3>1 DEF ApplyLimit
      <3>3. loop'.at = "apply" /\ loop'.todo = Known
        BY <3>2 DEF NoLoop
      <3> QED  BY <2>1, <3>3 DEF Marks
    <2>4. ASSUME NEW u \in Inbounds, Collect(u) PROVE Goal
      <3>1. u \in Known /\ loop.at = "idle" /\ UNCHANGED <<limited, undone, marked>>
            /\ loop' = [NoLoop EXCEPT !.at = "collect", !.hub = info[u].hub,
                                      !.drop = ~online[info[u].hub] /\ ~marked]
        BY <2>4 DEF Collect, limiter, history
      <3>2. loop.todo = {}
        BY <3>1 DEF SpeedInv, PlaceInv
      <3>3. \A t \in Known : marked /\ Throttled(t)
        BY <1>a, <3>1, <3>2 DEF Marks
      <3>4. ~loop'.drop
        BY <3>1, <3>3 DEF NoLoop
      <3>5. \A t \in Known : Throttled(t)'
        BY <2>1, <3>3 DEF Same, Throttled
      <3>6. \A t \in Known' : Marks(t)'
        BY <2>1, <3>1, <3>3, <3>5 DEF Marks
      <3> QED  BY <3>4, <3>6
    <2>5. ASSUME NEW u \in Inbounds, LimitInbound(u) PROVE Goal
      <3> DEFINE h == info[u].hub
                 b == bucket[info[u].hub]
      <3>1. /\ loop.at = "apply" /\ marked' = TRUE /\ UNCHANGED <<limited, undone>>
            /\ loop' = [loop EXCEPT !.at = "set", !.todo = @ \ {u}, !.hub = h, !.bucket = b]
        BY <2>5 DEF LimitInbound, history
      <3> HIDE DEF h, b
      <3>2. loop'.at = "set" /\ loop'.todo = loop.todo \ {u} /\ loop'.hub = h
        BY <3>1 DEF SpeedInv, SpeedTypeOK
      <3>3. ASSUME NEW t \in Known PROVE Marks(t)'
        <4>1. CASE t = u
          BY <2>1, <3>1, <3>2, <4>1 DEF Marks, h
        <4>2. CASE t \in loop.todo /\ t # u
          BY <3>2, <4>2 DEF Marks
        <4>3. CASE t \notin loop.todo
          <5>1. Throttled(t)
            BY <1>a, <3>1, <4>3 DEF Marks
          <5>2. Throttled(t)'
            BY <2>1, <5>1 DEF Same, Throttled
          <5> QED  BY <3>1, <5>2 DEF Marks
        <4> QED  BY <4>1, <4>2, <4>3
      <3> QED  BY <2>1, <3>2, <3>3
    <2>6. CASE LimitApplied
      <3>1. /\ loop.at = "apply" /\ loop.todo = {} /\ loop' = NoLoop
            /\ UNCHANGED <<limited, undone, marked>>
        BY <2>6 DEF LimitApplied, limiter, history
      <3>2. \A t \in Known : marked /\ Throttled(t)
        BY <1>a, <3>1 DEF Marks
      <3>3. \A t \in Known : Throttled(t)'
        BY <2>1, <3>2 DEF Same, Throttled
      <3>4. loop'.at = "idle"
        BY <3>1 DEF NoLoop
      <3> QED  BY <2>1, <3>1, <3>2, <3>3, <3>4 DEF Marks
    <2>7. CASE Expire
      BY <2>7 DEF Expire
    <2>8. ASSUME NEW k \in Callbacks, NEW u \in Inbounds, Restore(k, u) PROVE Goal
      BY <2>8 DEF Restore
    <2>9. \/ UNCHANGED <<limited, undone, loop, marked>> \/ ApplyLimit \/ LimitApplied \/ Expire
          \/ \E u \in Inbounds : Collect(u) \/ LimitInbound(u)
          \/ \E k \in Callbacks, u \in Inbounds : Restore(k, u)
      BY <1>1 DEF Quiet, Connect, Restored, limiter, history, speedVars
    <2> QED  BY <2>2, <2>3, <2>4, <2>5, <2>6, <2>7, <2>8, <2>9
  <1>2. ASSUME NEW c \in Connections, TakeBucket(c) \/ Splice(c) PROVE Goal
    <2>1. Known' = Known /\ UNCHANGED <<info, limited, undone, loop, marked>>
      BY <1>2, BucketEffect
    <2>2. ASSUME NEW t \in Known PROVE Marks(t)'
      <3>1. Marks(t)
        BY <1>a, <2>1
      <3>2. CASE Same(t)
        BY <2>1, <3>1, <3>2, StillMarked
      <3>3. CASE Current(t) = Nil
        BY <2>1, <3>1, <3>3 DEF Marks, Throttled
      <3> QED  BY <1>2, <3>2, <3>3, BucketEffect
    <2> QED  BY <1>a, <2>1, <2>2
  <1>3. ASSUME NEW c \in Connections, Close(c) PROVE Goal
    BY <1>0, <1>3, CloseEffect DEF Close, history
  <1>4. ASSUME NEW u \in Inbounds, NEW p \in Pushes, Sync(u, p) PROVE Goal
    <2>1. /\ UNCHANGED <<limited, loop, marked>>
          /\ undone' = (undone \/ (limited /\ Lower(p.node, p.user) > 0))
      BY <1>4 DEF Sync
    <2>2. ~undone /\ ~(Lower(p.node, p.user) > 0)
      BY <2>1 DEF SpeedInv, SpeedTypeOK
    <2>3. Known' = Known /\ \A t \in Known \ {u} : Same(t)
      BY <1>4, SyncEffect
    <2>4. Current(u)' = Current(u) /\ info'[u].hub = info[u].hub
          /\ (Current(u) # Nil => rate'[Current(u)] = rate[Current(u)])
      BY <1>4, <2>2, SyncEffect
    <2>5. ASSUME NEW t \in Known PROVE Marks(t)'
      <3>1. Marks(t)
        BY <1>a, <2>1, <2>2
      <3>2. CASE t # u
        BY <2>1, <2>3, <3>1, <3>2, StillMarked
      <3>3. CASE t = u
        BY <2>1, <2>4, <3>1, <3>3 DEF Marks, Throttled
      <3> QED  BY <3>2, <3>3
    <2> QED  BY <1>a, <2>1, <2>2, <2>3, <2>5
  <1>5. ASSUME NEW u \in Inbounds, NEW p \in Pushes, AddInboundLimiter(u, p) PROVE Goal
    <2>1. undone' = limited /\ limited' = limited
      BY <1>5, AddEffect
    <2> QED  BY <2>1
  <1>6. CASE RenewLimiter
    BY <1>6 DEF RenewLimiter
  <1>7. CASE SetLimit
    <2>1. /\ loop.at = "set" /\ UNCHANGED <<limited, undone, marked>>
          /\ loop' = [loop EXCEPT !.at = "apply", !.hub = Nil, !.bucket = Nil]
      BY <1>7 DEF SetLimit, history
    <2>2. loop'.at = "apply" /\ loop'.todo = loop.todo
      BY <2>1 DEF SpeedInv, SpeedTypeOK
    <2>3. ASSUME NEW t \in Known PROVE Marks(t)'
      <3>1. Marks(t)
        BY <1>a, <2>1
      <3>2. CASE t \in loop.todo
        BY <2>2, <3>2 DEF Marks
      <3>3. CASE t \notin loop.todo /\ info[t].hub = loop.hub
        <4>1. Throttled(t)'
          BY <1>7, <3>3, SetLimitEffect DEF Throttled, Current
        <4> QED  BY <2>1, <3>1, <3>3, <4>1 DEF Marks
      <3>4. CASE t \notin loop.todo /\ info[t].hub # loop.hub
        <4>1. marked /\ Throttled(t) /\ Same(t)
          BY <1>7, <3>1, <3>4, SetLimitEffect DEF Marks
        <4>2. Throttled(t)'
          BY <4>1 DEF Same, Throttled
        <4> QED  BY <2>1, <4>1, <4>2 DEF Marks
      <3> QED  BY <3>2, <3>3, <3>4
    <2>4. Known' = Known
      BY <1>7, SetLimitEffect
    <2> QED  BY <2>2, <2>3, <2>4
  <1>8. CASE Drop
    <2>1. /\ loop.at = "collect" /\ loop' = NoLoop /\ UNCHANGED <<limited, undone, marked>>
      BY <1>8 DEF Drop
    <2>2. ~loop.drop /\ loop.todo = {} /\ \A t \in Known : Marks(t)
      BY <1>a, <2>1 DEF SpeedInv, PlaceInv
    <2>3. Known' = Known /\ \A t \in Known : Same(t)
      BY <1>8, <2>2, DropEffect
    <2>4. \A t \in Known : marked /\ Throttled(t)
      BY <2>1, <2>2 DEF Marks
    <2>5. \A t \in Known : Throttled(t)'
      BY <2>3, <2>4 DEF Same, Throttled
    <2>6. loop'.at = "idle"
      BY <2>1 DEF NoLoop
    <2> QED  BY <2>1, <2>3, <2>4, <2>5, <2>6 DEF Marks
  <1>9. ASSUME NEW k \in Callbacks, Reset(k) PROVE Goal
    BY <1>9 DEF Reset
  <1> QED
    BY <1>1, <1>2, <1>3, <1>4, <1>5, <1>6, <1>7, <1>8, <1>9, SpeedCases

\* autoLimited: while an automatic limit lasts and nothing has interfered, every
\* connection that is opened gets its bucket, whatever the cleanup drops.
THEOREM AutomaticLimitLasts == SpeedSpec => []AutoCoversNew
  <1>1. SpeedInit => AutoInv
    BY DEF SpeedInit, AutoInv
  <1>2. SpeedInv /\ AutoInv => AutoCoversNew
    BY DEF SpeedInv, PlaceInv, AutoInv, Marks, Throttled, AutoCoversNew
  <1> QED  BY <1>1, <1>2, AutoStep, SpeedInvariance, PTL DEF SpeedSpec
=============================================================================
