------------------------ MODULE XrayConfigFileProofs ------------------------
(***************************************************************************)
(* Proofs about XrayConfigFile for any number of handlers, tags, clients   *)
(* and requests.  A handler with the lock, or one that is alone, has read  *)
(* a file with every acknowledged client (SeenInv): only a handler with    *)
(* the lock acknowledges clients, and what is acknowledged is in the file  *)
(* whenever it can be read (AckInv).  A request that is alone finds what   *)
(* it left between its steps: RollbackInv, SurvivalInv and ExactInv say    *)
(* what that is, and the answers follow from them.                         *)
(***************************************************************************)
EXTENDS XrayConfigFile, TLAPS

\* inboundsMu is held by exactly the handler that works on a locked request.
LockInv ==
    \A p \in Handlers : lock = p <=> ~At(p, "idle") /\ Op(p) \in LockedOps

\* The requests in progress have not overlapped: there is one at most.
AloneInv ==
    ~raced => \A p, q \in Handlers : At(p, "idle") \/ At(q, "idle") \/ p = q

\* What a handler has in memory by the time it gets to a step
Stage(p) ==
    /\ ~At(p, "idle") => handler[p].req \in Requests
    /\ At(p, "api") => Op(p) \in {"add", "remove"} \cup OutboundOps
    /\ At(p, "rename") => Op(p) \in ClientOps \cup {"batch"}
    /\ handler[p].at \in {"rename", "reapply", "rollback", "restore", "rerestart"} =>
           handler[p].seen \in Configs
    /\ handler[p].at \in {"truncate", "write", "unlinked"} =>
           Op(p) = "replace" \/ handler[p].seen \in Configs
    /\ At(p, "restart") => Op(p) = "restart" \/ handler[p].seen \in Configs
    /\ ~At(p, "idle") /\ Op(p) = "remove-client" /\ handler[p].seen # None =>
           handler[p].seen.clients[Tag(p)] # None

StageInv == \A p \in Handlers : Stage(p)

AckInv == Readable => \A client \in acked : Holds(file, client)

SeenInv ==
    \A p \in Handlers :
        /\ ~At(p, "idle") /\ handler[p].seen # None
        /\ Op(p) \in LockedOps \/ ~raced
        => \A client \in acked : Holds(handler[p].seen, client)

IInv == TypeOK /\ LockInv /\ AloneInv /\ StageInv /\ AckInv /\ SeenInv

-----------------------------------------------------------------------------
(***************************************************************************)
(* What a request makes of a config                                        *)
(***************************************************************************)
\* Setting the clients of one inbound gives a config again.
LEMMA WithClientsType ==
    ASSUME NEW cfg \in Configs, NEW t \in Tags, NEW set \in {None} \cup SUBSET Clients
    PROVE  /\ WithClients(cfg, t, set) \in Configs
           /\ WithClients(cfg, t, set).clients = [cfg.clients EXCEPT ![t] = set]
           /\ WithClients(cfg, t, set).rules = cfg.rules
  BY DEF WithClients, Configs

\* Replacing the rules gives a config again and keeps the clients.
LEMMA WithRulesType ==
    ASSUME NEW cfg \in Configs, NEW rules \in SUBSET Rules
    PROVE  /\ [cfg EXCEPT !.rules = rules] \in Configs
           /\ [cfg EXCEPT !.rules = rules].clients = cfg.clients
  BY DEF Configs

\* removeInboundRoutingReferences gives rules again.
LEMMA NarrowedType ==
    ASSUME NEW rules \in SUBSET Rules, NEW t \in Tags
    PROVE  Narrowed(rules, t) \in SUBSET Rules
  BY DEF Narrowed, Rules

\* Adding and removing users of a rule keeps everything else.
LEMMA WithUsersType ==
    ASSUME NEW cfg \in Configs, NEW m \in Marks,
           NEW added \in SUBSET Emails, NEW dropped \in SUBSET Emails
    PROVE  /\ WithUsers(cfg, m, added, dropped) \in Configs
           /\ WithUsers(cfg, m, added, dropped).clients = cfg.clients
  <1>1. CASE WithMark(cfg.rules, m) = {}
    BY <1>1 DEF WithUsers
  <1>2. CASE WithMark(cfg.rules, m) # {}
    <2> DEFINE r == OneOf(WithMark(cfg.rules, m))
               new == [r EXCEPT !.users = (@ \cup added) \ dropped]
    <2>1. r \in cfg.rules
      BY <1>2 DEF OneOf, WithMark
    <2>2. cfg.rules \in SUBSET Rules
      BY DEF Configs
    <2>3. new \in Rules
      BY <2>1, <2>2 DEF Rules
    <2>4. (cfg.rules \ {r}) \cup {new} \in SUBSET Rules
      BY <2>2, <2>3
    <2> HIDE DEF r, new
    <2>5. WithUsers(cfg, m, added, dropped) = [cfg EXCEPT !.rules = (cfg.rules \ {r}) \cup {new}]
      BY <1>2 DEF WithUsers, r, new
    <2> QED  BY <2>4, <2>5, WithRulesType
  <1> QED  BY <1>1, <1>2

\* A routing request gives a config again and keeps the clients.
LEMMA RoutingEditType ==
    ASSUME NEW r \in AllRequests, r.op \in RoutingOps, NEW cfg \in Configs
    PROVE  RoutingEdit(r, cfg) \in Configs /\ RoutingEdit(r, cfg).clients = cfg.clients
  <1>1. /\ r.whole \in Configs /\ r.whole.rules \in SUBSET Rules
        /\ cfg.rules \in SUBSET Rules
        /\ r.mark \in Marks /\ r.user \in Emails /\ r.tag \in Tags
    BY DEF AllRequests, Configs
  <1>2. CASE r.op = "set"
    <2>1. RoutingEdit(r, cfg) = [cfg EXCEPT !.rules = r.whole.rules]
      BY <1>2 DEF RoutingEdit
    <2> QED  BY <1>1, <2>1, WithRulesType
  <1>3. CASE r.op = "add_rule"
    <2>1. NewRule(r) \in Rules
      BY <1>1 DEF NewRule, Rules
    <2>2. RoutingEdit(r, cfg) = [cfg EXCEPT !.rules = cfg.rules \cup {NewRule(r)}]
      BY <1>3 DEF RoutingEdit
    <2>3. cfg.rules \cup {NewRule(r)} \in SUBSET Rules
      BY <1>1, <2>1
    <2> QED  BY <2>2, <2>3, WithRulesType
  <1>4. CASE r.op = "remove_rule"
    <2>1. RoutingEdit(r, cfg) = [cfg EXCEPT !.rules = cfg.rules \ {OneOf(cfg.rules)}]
      BY <1>4 DEF RoutingEdit
    <2>2. cfg.rules \ {OneOf(cfg.rules)} \in SUBSET Rules
      BY <1>1
    <2> QED  BY <2>1, <2>2, WithRulesType
  <1>5. CASE r.op = "add_user"
    <2>1. RoutingEdit(r, cfg) = WithUsers(cfg, r.mark, {r.user}, {})
      BY <1>5 DEF RoutingEdit, AddUser
    <2> QED  BY <1>1, <2>1, WithUsersType
  <1>6. CASE r.op = "remove_user"
    <2>1. RoutingEdit(r, cfg) = WithUsers(cfg, r.mark, {}, {r.user})
      BY <1>6 DEF RoutingEdit
    <2> QED  BY <1>1, <2>1, WithUsersType
  <1> QED  BY <1>2, <1>3, <1>4, <1>5, <1>6 DEF RoutingOps

\* What the change of each request does to the clients of the inbounds
LEMMA EditOps ==
    ASSUME NEW r \in AllRequests, NEW cfg \in Configs
    PROVE  /\ r.op = "add" => Edit(r, cfg) = WithClients(cfg, r.tag, {r.client})
           /\ r.op = "remove" => Edit(r, cfg) = RemoveInbound(cfg, r.tag)
           /\ r.op = "add-client" => Edit(r, cfg) = AddClient(cfg, r.tag, r.client)
           /\ r.op = "remove-client" => Edit(r, cfg) = RemoveClient(cfg, r.tag, r.client)
           /\ r.op = "batch" =>
                  Edit(r, cfg) = AddUser(AddClient(cfg, r.tag, r.client), r.mark, r.user)
           /\ r.op \in RoutingOps => Edit(r, cfg) = RoutingEdit(r, cfg)
           /\ r.op \in {"add-out", "update-out"} =>
                  Edit(r, cfg) = [cfg EXCEPT !.outs = @ \cup {r.out}]
           /\ r.op = "remove-out" => Edit(r, cfg) = [cfg EXCEPT !.outs = @ \ {r.out}]
           /\ r.op = "replace" => Edit(r, cfg) = r.whole
           /\ r.op = "takeover" => Edit(r, cfg) = Merged(cfg, r.whole)
           /\ r.op \in {"exclude", "reorder", "promote", "system", "scan", "restart"} =>
                  Edit(r, cfg) = cfg
  BY DEF Edit, RoutingOps

\* An inbound that is missing stays so, another gets one more client.
LEMMA AddClientType ==
    ASSUME NEW cfg \in Configs, NEW t \in Tags, NEW c \in Clients
    PROVE  /\ AddClient(cfg, t, c) \in Configs
           /\ AddClient(cfg, t, c).clients =
                  IF cfg.clients[t] = None THEN cfg.clients
                  ELSE [cfg.clients EXCEPT ![t] = cfg.clients[t] \cup {c}]
  <1>1. CASE cfg.clients[t] = None
    BY <1>1 DEF AddClient
  <1>2. CASE cfg.clients[t] # None
    <2> DEFINE set == cfg.clients[t] \cup {c}
    <2>1. set \in {None} \cup SUBSET Clients
      BY <1>2 DEF Configs
    <2>2. AddClient(cfg, t, c) = WithClients(cfg, t, set)
      BY <1>2 DEF AddClient
    <2> HIDE DEF set
    <2>3. /\ AddClient(cfg, t, c) \in Configs
          /\ AddClient(cfg, t, c).clients = [cfg.clients EXCEPT ![t] = set]
      BY <2>1, <2>2, WithClientsType
    <2> QED  BY <1>2, <2>3 DEF set
  <1> QED  BY <1>1, <1>2

\* Whether a client is there
LEMMA HoldsPair ==
    ASSUME NEW cfg, NEW t, NEW c
    PROVE  Holds(cfg, <<t, c>>) <=> cfg.clients[t] # None /\ c \in cfg.clients[t]
  BY DEF Holds

\* Adding a client keeps the others.
LEMMA AddClientKeeps ==
    ASSUME NEW cfg \in Configs, NEW tag \in Tags, NEW client \in Clients,
           NEW t \in Tags, NEW c \in Clients, Holds(cfg, <<t, c>>)
    PROVE  Holds(AddClient(cfg, tag, client), <<t, c>>)
  <1> DEFINE new == AddClient(cfg, tag, client)
  <1>1. new.clients = IF cfg.clients[tag] = None THEN cfg.clients
                      ELSE [cfg.clients EXCEPT ![tag] = cfg.clients[tag] \cup {client}]
    BY AddClientType
  <1> HIDE DEF new
  <1>2. /\ cfg.clients \in [Tags -> {None} \cup SUBSET Clients]
        /\ cfg.clients[t] # None /\ c \in cfg.clients[t]
    BY HoldsPair DEF Configs
  <1>3. CASE cfg.clients[tag] = None
    BY <1>1, <1>2, <1>3, HoldsPair DEF new
  <1>4. CASE cfg.clients[tag] # None
    <2>1. new.clients[t] = IF t = tag THEN cfg.clients[t] \cup {client} ELSE cfg.clients[t]
      BY <1>1, <1>2, <1>4
    <2>2. cfg.clients[t] \cup {client} \in SUBSET Clients
      BY <1>2
    <2>3. cfg.clients[t] \cup {client} # None
      BY <2>2, NoneIsNew
    <2>4. new.clients[t] # None /\ c \in new.clients[t]
      BY <1>2, <2>1, <2>3
    <2> QED  BY <2>4, HoldsPair DEF new
  <1> QED  BY <1>3, <1>4

\* Fragments keep the inbounds they do not replace.
LEMMA MergedType ==
    ASSUME NEW cfg \in Configs, NEW more \in Configs
    PROVE  /\ Merged(cfg, more) \in Configs
           /\ \A t \in Tags, c \in Clients :
                  Holds(cfg, <<t, c>>) =>
                      Holds(Merged(cfg, more), <<t, c>>) \/ more.clients[t] # None
  <1> DEFINE clients == [t \in Tags |->
                 IF more.clients[t] = None THEN cfg.clients[t] ELSE more.clients[t]]
  <1>1. /\ cfg.clients \in [Tags -> {None} \cup SUBSET Clients]
        /\ more.clients \in [Tags -> {None} \cup SUBSET Clients]
        /\ cfg.outs \cup more.outs \in SUBSET Outs
        /\ cfg.rules \cup more.rules \in SUBSET Rules
    BY DEF Configs
  <1>2. clients \in [Tags -> {None} \cup SUBSET Clients]
    BY <1>1
  <1>3. Merged(cfg, more) = [clients |-> clients, outs |-> cfg.outs \cup more.outs,
                             rules |-> cfg.rules \cup more.rules]
    BY DEF Merged
  <1>4. \A t \in Tags : more.clients[t] = None => clients[t] = cfg.clients[t]
    OBVIOUS
  <1> HIDE DEF clients
  <1>5. Merged(cfg, more) \in Configs /\ Merged(cfg, more).clients = clients
    BY <1>1, <1>2, <1>3 DEF Configs
  <1> QED  BY <1>4, <1>5, HoldsPair

\* Every request makes a config of a config and keeps the clients that it was
\* not asked to remove.
LEMMA EditKeeps ==
    ASSUME NEW r \in AllRequests, NEW cfg \in Configs,
           r.op = "remove-client" => cfg.clients[r.tag] # None
    PROVE  /\ Edit(r, cfg) \in Configs
           /\ \A t \in Tags, c \in Clients :
                  Holds(cfg, <<t, c>>) =>
                      \/ Holds(Edit(r, cfg), <<t, c>>)
                      \/ r.op = "replace"
                      \/ r.op = "takeover" /\ r.whole.clients[t] # None
                      \/ r.op \in {"add", "remove"} /\ r.tag = t
                      \/ r.op = "remove-client" /\ r.tag = t /\ r.client = c
  <1> DEFINE new == Edit(r, cfg)
             Kept == \A t \in Tags, c \in Clients : Holds(cfg, <<t, c>>) => Holds(new, <<t, c>>)
  <1>1. /\ r.tag \in Tags /\ r.client \in Clients /\ r.mark \in Marks
        /\ r.user \in Emails /\ r.out \in Outs /\ r.whole \in Configs
        /\ r.op \in LockedOps \cup UnlockedOps
    BY DEF AllRequests
  <1>2. ASSUME new.clients = cfg.clients PROVE Kept
    BY <1>2, HoldsPair
  <1>3. /\ cfg.clients \in [Tags -> {None} \cup SUBSET Clients]
        /\ cfg.rules \in SUBSET Rules /\ cfg.outs \in SUBSET Outs
    BY DEF Configs
  <1>4. CASE r.op = "add"
    <2>1. new \in Configs /\ new.clients = [cfg.clients EXCEPT ![r.tag] = {r.client}]
      <3>1. {r.client} \in {None} \cup SUBSET Clients
        BY <1>1
      <3>2. new = WithClients(cfg, r.tag, {r.client})
        BY <1>4, EditOps
      <3> HIDE DEF new
      <3> QED  BY <1>1, <3>1, <3>2, WithClientsType
    <2> HIDE DEF new
    <2>2. ASSUME NEW t \in Tags, NEW c \in Clients, Holds(cfg, <<t, c>>), r.tag # t
          PROVE  Holds(new, <<t, c>>)
      BY <1>1, <1>3, <2>1, <2>2, HoldsPair
    <2> QED  BY <1>4, <2>1, <2>2 DEF new
  <1>5. CASE r.op = "remove"
    <2> DEFINE mid == WithClients(cfg, r.tag, None)
    <2>1. mid \in Configs /\ mid.clients = [cfg.clients EXCEPT ![r.tag] = None]
      BY <1>1, WithClientsType
    <2>2. Narrowed(cfg.rules, r.tag) \in SUBSET Rules
      BY <1>1, <1>3, NarrowedType
    <2>3. new = [mid EXCEPT !.rules = Narrowed(cfg.rules, r.tag)]
      BY <1>5, EditOps DEF RemoveInbound
    <2> HIDE DEF mid
    <2>4. new \in Configs /\ new.clients = mid.clients
      BY <2>1, <2>2, <2>3, WithRulesType
    <2> HIDE DEF new
    <2>5. ASSUME NEW t \in Tags, NEW c \in Clients, Holds(cfg, <<t, c>>), r.tag # t
          PROVE  Holds(new, <<t, c>>)
      BY <1>1, <1>3, <2>1, <2>4, <2>5, HoldsPair
    <2> QED  BY <1>5, <2>4, <2>5 DEF new
  <1>6. CASE r.op = "add-client"
    <2>1. new = AddClient(cfg, r.tag, r.client)
      BY <1>6, EditOps
    <2>2. AddClient(cfg, r.tag, r.client) \in Configs
      BY <1>1, AddClientType
    <2>3. Kept
      BY <1>1, <2>1, AddClientKeeps
    <2> QED  BY <2>1, <2>2, <2>3
  <1>7. CASE r.op = "remove-client"
    <2>1. cfg.clients[r.tag] \ {r.client} \in {None} \cup SUBSET Clients
      BY <1>1, <1>3, <1>7
    <2>2. new = WithClients(cfg, r.tag, cfg.clients[r.tag] \ {r.client})
      BY <1>7, EditOps DEF RemoveClient
    <2> HIDE DEF new
    <2>3. new \in Configs
      BY <1>1, <2>1, <2>2, WithClientsType
    <2>4. new.clients = [cfg.clients EXCEPT ![r.tag] = cfg.clients[r.tag] \ {r.client}]
      BY <1>1, <2>1, <2>2, WithClientsType
    <2>5. ASSUME NEW t \in Tags, NEW c \in Clients, Holds(cfg, <<t, c>>),
                 ~(r.tag = t /\ r.client = c)
          PROVE  Holds(new, <<t, c>>)
      <3>1. new.clients[t] = IF t = r.tag THEN cfg.clients[t] \ {r.client} ELSE cfg.clients[t]
        BY <1>1, <1>3, <2>4
      <3>2. c \in new.clients[t]
        BY <2>5, <3>1, HoldsPair
      <3>3. cfg.clients[t] # None /\ cfg.clients[t] \in {None} \cup SUBSET Clients
        BY <1>3, <2>5, HoldsPair
      <3>4. cfg.clients[t] \ {r.client} \in SUBSET Clients
        BY <3>3
      <3>5. cfg.clients[t] \ {r.client} # None
        BY <3>4, NoneIsNew
      <3> QED  BY <3>1, <3>2, <3>3, <3>5, HoldsPair
    <2> QED  BY <1>7, <2>3, <2>5 DEF new
  <1>8. CASE r.op = "batch"
    <2> DEFINE mid == AddClient(cfg, r.tag, r.client)
    <2>1. mid \in Configs
      BY <1>1, AddClientType
    <2>2. \A t \in Tags, c \in Clients : Holds(cfg, <<t, c>>) => Holds(mid, <<t, c>>)
      BY <1>1, AddClientKeeps
    <2>3. new = WithUsers(mid, r.mark, {r.user}, {})
      BY <1>8, EditOps DEF AddUser
    <2> HIDE DEF mid, new
    <2>4. new \in Configs /\ new.clients = mid.clients
      BY <1>1, <2>1, <2>3, WithUsersType
    <2>5. \A t \in Tags, c \in Clients : Holds(mid, <<t, c>>) => Holds(new, <<t, c>>)
      BY <2>4, HoldsPair
    <2> QED  BY <2>2, <2>4, <2>5 DEF new
  <1>9. CASE r.op \in RoutingOps
    <2>1. new \in Configs /\ new.clients = cfg.clients
      BY <1>9, EditOps, RoutingEditType
    <2> QED  BY <1>2, <2>1
  <1>10. CASE r.op \in OutboundOps
    <2>1. \E outs \in SUBSET Outs : new = [cfg EXCEPT !.outs = outs]
      <3>1. CASE r.op = "remove-out"
        <4>1. new = [cfg EXCEPT !.outs = cfg.outs \ {r.out}]
          BY <3>1, EditOps
        <4>2. cfg.outs \ {r.out} \in SUBSET Outs
          BY <1>1, <1>3
        <4> QED  BY <4>1, <4>2
      <3>2. CASE r.op \in {"add-out", "update-out"}
        <4>1. new = [cfg EXCEPT !.outs = cfg.outs \cup {r.out}]
          BY <3>2, EditOps
        <4>2. cfg.outs \cup {r.out} \in SUBSET Outs
          BY <1>1, <1>3
        <4> QED  BY <4>1, <4>2
      <3> QED  BY <1>10, <3>1, <3>2 DEF OutboundOps
    <2>2. new \in Configs /\ new.clients = cfg.clients
      BY <2>1 DEF Configs
    <2> QED  BY <1>2, <2>2
  <1>11. CASE r.op = "replace"
    BY <1>1, <1>11, EditOps
  <1>12. CASE r.op \in {"exclude", "reorder", "promote", "system", "scan", "restart"}
    BY <1>2, <1>12, EditOps
  <1>13. CASE r.op \in TakeoverOps
    <2>1. r.op = "takeover" /\ new = Merged(cfg, r.whole)
      BY <1>13, EditOps DEF TakeoverOps
    <2> HIDE DEF new
    <2>2. new \in Configs
      BY <1>1, <2>1, MergedType
    <2>3. \A t \in Tags, c \in Clients :
              Holds(cfg, <<t, c>>) => Holds(new, <<t, c>>) \/ r.whole.clients[t] # None
      BY <1>1, <2>1, MergedType
    <2> QED  BY <2>1, <2>2, <2>3 DEF new
  <1> QED
    BY <1>1, <1>4, <1>5, <1>6, <1>7, <1>8, <1>9, <1>10, <1>11, <1>12, <1>13
       DEF LockedOps, UnlockedOps, ClientOps, OutboundOps

-----------------------------------------------------------------------------
(***************************************************************************)
(* The parts actions are built from                                        *)
(***************************************************************************)
HandlerType ==
    handler \in [Handlers ->
        [at : Steps, req : Requests \cup {None}, seen : Configs \cup {None},
         err : BOOLEAN, agreed : BOOLEAN]]

\* The other handlers go on; a rename may take the file away from one.
Others(p) ==
    \A q \in Handlers \ {p} :
        /\ handler'[q].req = handler[q].req
        /\ handler'[q].seen = handler[q].seen
        /\ \/ handler'[q].at = handler[q].at
           \/ handler[q].at = "write" /\ handler'[q].at = "unlinked"

\* p takes a step of its request, or ends it.
Carries(p) ==
    /\ ~At(p, "idle")
    /\ handler'[p].req = handler[p].req
    /\ handler'[p].seen = handler[p].seen
    /\ handler'[p].at # "idle"
    /\ UNCHANGED <<lock, raced>>

Ends(p) ==
    /\ ~At(p, "idle")
    /\ handler'[p] = Idle
    /\ lock' = IF lock = p THEN None ELSE lock
    /\ UNCHANGED raced

LEMMA IdleFacts ==
    /\ Idle.at = "idle" /\ Idle.seen = None /\ Idle.req = None
    /\ Idle \in [at : Steps, req : Requests \cup {None}, seen : Configs \cup {None},
                 err : BOOLEAN, agreed : BOOLEAN]
  BY DEF Idle, Steps

\* Goto
LEMMA GotoFacts ==
    ASSUME HandlerType, NEW p \in Handlers, ~At(p, "idle"),
           NEW at \in Steps \ {"idle"}, Goto(p, at)
    PROVE  /\ HandlerType' /\ Others(p) /\ Carries(p)
           /\ handler'[p].at = at /\ reply' = None /\ UNCHANGED <<embedded, lock, raced>>
  <1>1. handler' = [handler EXCEPT ![p].at = at]
    BY DEF Goto
  <1>2. /\ handler'[p].at = at /\ handler'[p].req = handler[p].req
        /\ handler'[p].seen = handler[p].seen
    BY <1>1 DEF HandlerType
  <1>3. HandlerType'
    BY <1>1 DEF HandlerType
  <1>4. \A q \in Handlers \ {p} : handler'[q] = handler[q]
    BY <1>1 DEF HandlerType
  <1> QED  BY <1>2, <1>3, <1>4 DEF Goto, Others, Carries

\* Finish
LEMMA FinishFacts ==
    ASSUME HandlerType, NEW p \in Handlers, ~At(p, "idle"), NEW status \in Answers,
           Finish(p, status)
    PROVE  /\ HandlerType' /\ Others(p) /\ Ends(p)
           /\ reply' = status /\ UNCHANGED <<embedded, raced>>
  <1>1. handler' = [handler EXCEPT ![p] = Idle]
    BY DEF Finish
  <1>2. handler'[p] = Idle
    BY <1>1 DEF HandlerType
  <1>3. HandlerType'
    BY <1>1, IdleFacts DEF HandlerType
  <1>4. \A q \in Handlers \ {p} : handler'[q] = handler[q]
    BY <1>1 DEF HandlerType
  <1> QED  BY <1>2, <1>3, <1>4 DEF Finish, Others, Ends

\* Answer acknowledges only what is in the file, and only under the lock.
LEMMA AnswerFacts ==
    ASSUME TypeOK, AckInv, HandlerType, NEW p \in Handlers, ~At(p, "idle"),
           handler[p].req \in Requests, NEW status \in Answers, NEW cfg,
           Answer(p, status, cfg), UNCHANGED file
    PROVE  /\ HandlerType' /\ Others(p) /\ Ends(p)
           /\ reply' = status /\ UNCHANGED <<embedded, raced>>
           /\ AckInv' /\ acked' \in SUBSET (Tags \X Clients)
           /\ Op(p) \in LockedOps \/ UNCHANGED acked
  <1> DEFINE client == <<Tag(p), handler[p].req.client>>
             new == acked' \ acked
  <1>1. /\ acked' = acked \cup new /\ new \in SUBSET {client}
        /\ new # {} => Op(p) \in {"add-client", "batch"} /\ (Readable => Holds(file, client))
    BY DEF Answer
  <1>2. client \in Tags \X Clients
    BY RequestsTyped DEF AllRequests, Tag
  <1>3. acked' \in SUBSET (Tags \X Clients)
    BY <1>1, <1>2 DEF TypeOK
  <1>4. AckInv'
    BY <1>1 DEF AckInv, Readable
  <1>5. Op(p) \in LockedOps \/ UNCHANGED acked
    BY <1>1 DEF LockedOps, ClientOps
  <1> QED
    BY <1>3, <1>4, <1>5, FinishFacts DEF Answer

\* Put keeps the acknowledged clients in step with the file.
LEMMA PutFacts ==
    ASSUME TypeOK, NEW x \in Configs \cup {Empty, Torn}, Put(x)
    PROVE  /\ file' \in Configs \cup {Empty, Torn}
           /\ acked' \subseteq acked
           /\ AckInv'
           /\ x \notin Configs => UNCHANGED acked
           /\ \A client \in acked \ acked' : x \in Configs /\ ~Holds(x, client)
  <1>1. CASE x \in Configs
    BY <1>1 DEF Put, AckInv, Readable
  <1>2. CASE x \notin Configs
    BY <1>2 DEF Put, AckInv, Readable
  <1> QED  BY <1>1, <1>2

\* A step of p which is one of its request, or the last one, keeps IInv when it
\* keeps the types and the stage, and acknowledges only under the lock.
LEMMA StepKeeps ==
    ASSUME IInv, NEW p \in Handlers, TypeOK', Others(p), Carries(p) \/ Ends(p),
           Carries(p) => Stage(p)', AckInv',
           acked' \subseteq acked \/ (Ends(p) /\ Op(p) \in LockedOps)
    PROVE  IInv'
  <1> USE NoneIsNew DEF IInv
  <1>1. \A q \in Handlers \ {p} :
            /\ At(q, "idle")' <=> At(q, "idle")
            /\ handler'[q].req = handler[q].req /\ handler'[q].seen = handler[q].seen
            /\ Op(q)' = Op(q) /\ Tag(q)' = Tag(q)
    BY DEF Others, At, Op, Tag
  <1>2. raced' = raced /\ ~At(p, "idle")
    BY DEF Carries, Ends
  <1>3. Carries(p) => ~At(p, "idle")' /\ Op(p)' = Op(p) /\ lock' = lock
    BY DEF Carries, At, Op
  <1>4. Ends(p) => At(p, "idle")' /\ lock' = IF lock = p THEN None ELSE lock
    BY IdleFacts DEF Ends, At
  <1>5. LockInv'
    <2>1. ASSUME NEW q \in Handlers \ {p}
          PROVE  lock' = q <=> ~At(q, "idle")' /\ Op(q)' \in LockedOps
      BY <1>1, <1>3, <1>4 DEF LockInv
    <2>2. lock' = p <=> ~At(p, "idle")' /\ Op(p)' \in LockedOps
      BY <1>2, <1>3, <1>4 DEF LockInv
    <2> QED  BY <2>1, <2>2 DEF LockInv
  <1>6. AloneInv'
    BY <1>1, <1>2, <1>3, <1>4 DEF AloneInv
  <1>7. StageInv'
    <2>1. ASSUME NEW q \in Handlers \ {p} PROVE Stage(q)'
      <3>1. Stage(q)
        BY DEF StageInv
      <3>2. CASE handler'[q].at = handler[q].at
        BY <1>1, <3>1, <3>2 DEF Stage, At, Op, Tag
      <3>3. CASE handler[q].at = "write" /\ handler'[q].at = "unlinked"
        BY <1>1, <3>1, <3>3 DEF Stage, At, Op, Tag
      <3> QED  BY <3>2, <3>3 DEF Others
    <2>2. Ends(p) => Stage(p)'
      BY IdleFacts DEF Ends, Stage, At
    <2> QED  BY <2>1, <2>2 DEF StageInv
  <1>8. SeenInv'
    <2> SUFFICES ASSUME NEW q \in Handlers, ~At(q, "idle")', handler'[q].seen # None,
                        Op(q)' \in LockedOps \/ ~raced'
                 PROVE  \A client \in acked' : Holds(handler'[q].seen, client)
      BY DEF SeenInv
    <2>1. /\ ~At(q, "idle") /\ handler[q].seen = handler'[q].seen
          /\ Op(q) \in LockedOps \/ ~raced
      BY <1>1, <1>2, <1>3, <1>4 DEF Carries
    <2>2. \A client \in acked : Holds(handler[q].seen, client)
      BY <2>1 DEF SeenInv
    <2>3. CASE acked' \subseteq acked
      BY <2>1, <2>2, <2>3
    <2>4. CASE Ends(p) /\ Op(p) \in LockedOps
      <3>1. q # p
        BY <1>4, <2>4
      <3>2. lock = p
        BY <1>2, <2>4 DEF LockInv
      <3>3. CASE Op(q) \in LockedOps
        BY <2>1, <3>1, <3>2, <3>3 DEF LockInv
      <3>4. CASE ~raced
        BY <1>2, <2>1, <3>1, <3>4 DEF AloneInv
      <3> QED  BY <2>1, <3>3, <3>4
    <2> QED  BY <2>3, <2>4
  <1> QED  BY <1>5, <1>6, <1>7, <1>8

-----------------------------------------------------------------------------
(***************************************************************************)
(* What follows from the invariant while a request is in progress          *)
(***************************************************************************)
\* What is known of the request of a handler
LEMMA RequestFacts ==
    ASSUME IInv, NEW p \in Handlers, ~At(p, "idle")
    PROVE  /\ HandlerType
           /\ handler[p].req \in Requests /\ handler[p].req \in AllRequests
           /\ Tag(p) \in Tags /\ handler[p].req.out \in Outs
           /\ handler[p].req.client \in Clients /\ handler[p].req.whole \in Configs
           /\ Op(p) \in LockedOps \cup UnlockedOps
           /\ handler[p].seen \in Configs \cup {None}
           /\ handler[p].at \in Steps
  <1>1. HandlerType
    BY DEF IInv, TypeOK, HandlerType
  <1>2. handler[p].req \in Requests
    BY DEF IInv, StageInv, Stage
  <1>3. handler[p].req \in AllRequests
    BY <1>2, RequestsTyped
  <1>4. handler[p].seen \in Configs \cup {None} /\ handler[p].at \in Steps
    BY <1>1 DEF HandlerType
  <1> QED  BY <1>1, <1>2, <1>3, <1>4 DEF AllRequests, Tag, Op

\* Taking an inbound or an outbound out of a running Xray gives a config again.
LEMMA WithoutType ==
    ASSUME IInv, NEW p \in Handlers, ~At(p, "idle"), running \in Configs
    PROVE  Without(p) \in Configs
  <1>1. CASE Op(p) = "update-out"
    <2>1. running.outs \ {handler[p].req.out} \in SUBSET Outs
      BY DEF Configs
    <2>2. Without(p) = [running EXCEPT !.outs = running.outs \ {handler[p].req.out}]
      BY <1>1 DEF Without
    <2> QED  BY <2>1, <2>2 DEF Configs
  <1>2. CASE Op(p) # "update-out"
    <2>1. Without(p) = WithClients(running, Tag(p), None)
      BY <1>2 DEF Without
    <2>2. Tag(p) \in Tags /\ None \in {None} \cup SUBSET Clients
      BY RequestFacts
    <2>3. WithClients(running, Tag(p), None) \in Configs
      BY <2>2, WithClientsType
    <2> QED  BY <2>1, <2>3
  <1> QED  BY <1>1, <1>2

\* A running Xray that can be reached has a config.
LEMMA ReachableType ==
    ASSUME IInv, NEW p \in Handlers, Reachable(p)
    PROVE  running \in Configs
  BY DEF IInv, TypeOK, Reachable

\* Counting what Xray refuses stays within the bound.
LEMMA FaultsType ==
    ASSUME IInv, Obeyed \/ Refused
    PROVE  faults' \in 0 .. MaxFaults
  <1>1. faults \in 0 .. MaxFaults
    BY DEF IInv, TypeOK
  <1>2. CASE Obeyed
    BY <1>1, <1>2 DEF Obeyed
  <1>3. CASE Refused
    BY <1>1, <1>3, MaxFaultsTyped DEF Refused
  <1> QED  BY <1>2, <1>3

\* What a handler writes is a config.
LEMMA NewType ==
    ASSUME IInv, NEW p \in Handlers, ~At(p, "idle"),
           Op(p) = "replace" \/ handler[p].seen \in Configs
    PROVE  New(p) \in Configs
  <1>1. CASE Op(p) = "replace"
    <2>1. New(p) = handler[p].req.whole
      BY <1>1 DEF New, Op, Edit, RoutingOps
    <2> QED  BY <2>1, RequestFacts
  <1>2. CASE handler[p].seen \in Configs
    <2>1. Op(p) = "remove-client" => handler[p].seen.clients[Tag(p)] # None
      BY <1>2, NoneIsNew DEF IInv, StageInv, Stage
    <2>2. handler[p].req \in AllRequests
      BY RequestFacts
    <2> QED  BY <1>2, <2>1, <2>2, EditKeeps DEF New, Op, Tag
  <1> QED  BY <1>1, <1>2

\* The types, from those of the variables a step may set
LEMMA StepTypes ==
    ASSUME TypeOK, HandlerType', file' \in Configs \cup {Empty, Torn},
           running' \in Configs \cup {None}, faults' \in 0 .. MaxFaults,
           acked' \in SUBSET (Tags \X Clients), UNCHANGED <<embedded, raced>>,
           lock' \in {lock, None}, reply' \in Answers \cup {None}
    PROVE  TypeOK'
  <1>1. lock' \in Handlers \cup {None}
    BY DEF TypeOK
  <1>2. embedded' \in BOOLEAN /\ raced' \in BOOLEAN
    BY DEF TypeOK
  <1> QED  BY <1>1, <1>2 DEF TypeOK, HandlerType

\* A handler that goes on with its request keeps IInv.
LEMMA GotoKeeps ==
    ASSUME IInv, NEW p \in Handlers, ~At(p, "idle"),
           NEW at \in Steps \ {"idle", "api"}, Goto(p, at),
           file' \in Configs \cup {Empty, Torn}, running' \in Configs \cup {None},
           faults' \in 0 .. MaxFaults, AckInv', acked' \subseteq acked,
           at = "rename" => Op(p) \in ClientOps \cup {"batch"},
           at \in {"rename", "reapply", "rollback", "restore", "rerestart"} =>
               handler[p].seen \in Configs,
           at \in {"truncate", "write", "unlinked"} =>
               Op(p) = "replace" \/ handler[p].seen \in Configs,
           at = "restart" => Op(p) = "restart" \/ handler[p].seen \in Configs
    PROVE  IInv'
  <1>1. HandlerType
    BY RequestFacts
  <1>2. /\ HandlerType' /\ Others(p) /\ Carries(p)
        /\ handler'[p].at = at /\ reply' = None /\ UNCHANGED <<embedded, lock, raced>>
    BY <1>1, GotoFacts
  <1>3. acked' \in SUBSET (Tags \X Clients)
    BY DEF IInv, TypeOK
  <1>4. TypeOK'
    BY <1>2, <1>3, StepTypes DEF IInv
  <1>5. Stage(p)'
    <2>1. Stage(p)
      BY DEF IInv, StageInv
    <2> QED  BY <1>2, <2>1 DEF Stage, Carries, At, Op, Tag
  <1> QED  BY <1>2, <1>4, <1>5, StepKeeps

\* A handler that answers keeps IInv.
LEMMA FinishKeeps ==
    ASSUME IInv, NEW p \in Handlers, ~At(p, "idle"), NEW status \in Answers,
           Finish(p, status),
           file' \in Configs \cup {Empty, Torn}, running' \in Configs \cup {None},
           faults' \in 0 .. MaxFaults, AckInv', acked' \subseteq acked
    PROVE  IInv'
  <1>1. HandlerType
    BY RequestFacts
  <1>2. /\ HandlerType' /\ Others(p) /\ Ends(p)
        /\ reply' = status /\ UNCHANGED <<embedded, raced>>
    BY <1>1, FinishFacts
  <1>3. acked' \in SUBSET (Tags \X Clients)
    BY DEF IInv, TypeOK
  <1>4. lock' \in {lock, None}
    BY DEF Finish
  <1>5. TypeOK'
    BY <1>2, <1>3, <1>4, StepTypes DEF IInv
  <1>6. ~Carries(p)
    BY <1>2, IdleFacts DEF Ends, Carries
  <1> QED  BY <1>2, <1>5, <1>6, StepKeeps

\* So does one that acknowledges a client with its answer.
LEMMA AnswerKeeps ==
    ASSUME IInv, NEW p \in Handlers, ~At(p, "idle"), NEW status \in Answers, NEW cfg,
           Answer(p, status, cfg), UNCHANGED file,
           running' \in Configs \cup {None}, faults' \in 0 .. MaxFaults
    PROVE  IInv'
  <1>1. HandlerType /\ handler[p].req \in Requests
    BY RequestFacts
  <1>2. /\ HandlerType' /\ Others(p) /\ Ends(p)
        /\ reply' = status /\ UNCHANGED <<embedded, raced>>
        /\ AckInv' /\ acked' \in SUBSET (Tags \X Clients)
        /\ Op(p) \in LockedOps \/ UNCHANGED acked
    BY <1>1, AnswerFacts DEF IInv
  <1>3. lock' \in {lock, None}
    BY DEF Answer, Finish
  <1>4. file' \in Configs \cup {Empty, Torn}
    BY DEF IInv, TypeOK
  <1>5. TypeOK'
    BY <1>2, <1>3, <1>4, StepTypes DEF IInv
  <1>6. ~Carries(p)
    BY <1>2, IdleFacts DEF Ends, Carries
  <1> QED  BY <1>2, <1>5, <1>6, StepKeeps

-----------------------------------------------------------------------------
(***************************************************************************)
(* One lemma per action                                                    *)
(***************************************************************************)
\* A step that leaves the file and the acknowledged clients alone
LEMMA FileKept ==
    ASSUME IInv, UNCHANGED <<file, acked>>
    PROVE  /\ file' \in Configs \cup {Empty, Torn}
           /\ AckInv' /\ acked' \subseteq acked
  BY DEF IInv, TypeOK, AckInv, Readable

\* A step that leaves Xray alone
LEMMA RunningKept ==
    ASSUME IInv, UNCHANGED running
    PROVE  running' \in Configs \cup {None}
  BY DEF IInv, TypeOK

\* manageInbound add, manageOutbound: the API call has succeeded.
LEMMA ApplyKeeps ==
    ASSUME IInv, NEW p \in Handlers, Apply(p)
    PROVE  IInv'
  <1>1. /\ ~At(p, "idle") /\ UNCHANGED <<file, acked, faults>> /\ Goto(p, "read")
        /\ running' = Edit(handler[p].req, running) /\ Reachable(p)
        /\ At(p, "api")
    BY DEF Apply, At
  <1>2. running \in Configs /\ handler[p].req \in AllRequests
    BY <1>1, ReachableType, RequestFacts
  <1>3. Op(p) \in {"add", "remove"} \cup OutboundOps
    BY <1>1 DEF IInv, StageInv, Stage
  <1>4. handler[p].req.op # "remove-client"
    BY <1>3 DEF OutboundOps, Op
  <1>5. running' \in Configs
    BY <1>1, <1>2, <1>4, EditKeeps
  <1>6. "read" \in Steps \ {"idle", "api"}
    BY DEF Steps
  <1>7. faults' \in 0 .. MaxFaults
    BY <1>1, FaultsType DEF Obeyed
  <1> QED  BY <1>1, <1>5, <1>6, <1>7, FileKept, GotoKeeps

\* The API call fails, or it ends with the old one removed.
LEMMA ApplyFailedKeeps ==
    ASSUME IInv, NEW p \in Handlers, ApplyFailed(p)
    PROVE  IInv'
  <1>1. ~At(p, "idle") /\ UNCHANGED <<file, acked>> /\ Finish(p, "failed")
    BY DEF ApplyFailed, At
  <1>2. faults' \in 0 .. MaxFaults
    BY FaultsType DEF ApplyFailed
  <1>3. running' \in Configs \cup {None}
    <2>1. CASE UNCHANGED running
      BY <2>1, RunningKept
    <2>2. CASE Reachable(p) /\ running' = Without(p)
      BY <1>1, <2>2, ReachableType, WithoutType
    <2> QED  BY <2>1, <2>2 DEF ApplyFailed
  <1>4. "failed" \in Answers
    BY DEF Answers
  <1> QED  BY <1>1, <1>2, <1>3, <1>4, FileKept, FinishKeeps

\* manageInbound remove: the API call, and its error
LEMMA RuntimeRemoveKeeps ==
    ASSUME IInv, NEW p \in Handlers, NEW err \in BOOLEAN, RuntimeRemove(p, err)
    PROVE  IInv'
  <1>1. /\ ~At(p, "idle") /\ UNCHANGED <<embedded, file, lock, acked, raced>>
        /\ handler' = [handler EXCEPT ![p].at = "read", ![p].err = err]
        /\ reply' = None
    BY DEF RuntimeRemove, At
  <1>2. HandlerType
    BY <1>1, RequestFacts
  <1>3. /\ handler'[p].at = "read" /\ handler'[p].req = handler[p].req
        /\ handler'[p].seen = handler[p].seen
        /\ \A q \in Handlers \ {p} : handler'[q] = handler[q]
    BY <1>1, <1>2 DEF HandlerType
  <1>4. HandlerType'
    BY <1>1, <1>2 DEF HandlerType, Steps
  <1>5. Others(p) /\ Carries(p)
    BY <1>1, <1>3 DEF Others, Carries
  <1>6. faults' \in 0 .. MaxFaults
    BY FaultsType DEF RuntimeRemove
  <1>7. running' \in Configs \cup {None}
    <2>1. CASE UNCHANGED running
      BY <2>1, RunningKept
    <2>2. CASE Reachable(p) /\ running' = Without(p)
      BY <1>1, <2>2, ReachableType, WithoutType
    <2> QED  BY <2>1, <2>2 DEF RuntimeRemove
  <1>8. /\ file' \in Configs \cup {Empty, Torn} /\ AckInv' /\ acked' \subseteq acked
        /\ acked' \in SUBSET (Tags \X Clients)
    BY <1>1, FileKept DEF IInv, TypeOK
  <1>9. TypeOK'
    BY <1>1, <1>4, <1>6, <1>7, <1>8, StepTypes DEF IInv
  <1>10. Stage(p)'
    <2>1. Stage(p)
      BY DEF IInv, StageInv
    <2> QED  BY <1>1, <1>3, <2>1 DEF Stage, At, Op, Tag
  <1> QED  BY <1>5, <1>8, <1>9, <1>10, StepKeeps

\* manageInbound remove: there is no API.
LEMMA RemoveFailedKeeps ==
    ASSUME IInv, NEW p \in Handlers, RemoveFailed(p)
    PROVE  IInv'
  <1>1. ~At(p, "idle") /\ UNCHANGED <<file, running, acked, faults>> /\ Finish(p, "failed")
    BY DEF RemoveFailed, At
  <1>2. "failed" \in Answers
    BY DEF Answers
  <1> QED
    BY <1>1, <1>2, FileKept, RunningKept, FaultsType, FinishKeeps DEF Obeyed

\* A request that is answered after the file was read
LEMMA ReadOnlyKeeps ==
    ASSUME IInv, NEW p \in Handlers, ReadOnly(p)
    PROVE  IInv'
  <1>1. ~At(p, "idle") /\ UNCHANGED <<file, running, faults>>
    BY DEF ReadOnly, At
  <1>2. running' \in Configs \cup {None} /\ faults' \in 0 .. MaxFaults
    BY <1>1, RunningKept, FaultsType DEF Obeyed
  <1>3. Unreadable(p) \in Answers /\ "ok" \in Answers /\ "failed" \in Answers
    BY DEF Unreadable, Answers
  <1>4. CASE Finish(p, Unreadable(p)) /\ UNCHANGED acked
    BY <1>1, <1>2, <1>3, <1>4, FileKept, FinishKeeps
  <1>5. CASE Answer(p, "failed", file)
    BY <1>1, <1>2, <1>3, <1>5, AnswerKeeps
  <1>6. CASE Answer(p, "ok", file)
    BY <1>1, <1>2, <1>3, <1>6, AnswerKeeps
  <1> QED  BY <1>4, <1>5, <1>6 DEF ReadOnly

\* What a handler reads holds every acknowledged client.
LEMMA ReadKeeps ==
    ASSUME IInv, NEW p \in Handlers, Read(p)
    PROVE  IInv'
  <1> DEFINE to == IF Op(p) \in ClientOps \cup {"batch"} THEN "rename" ELSE "truncate"
  <1>1. /\ ~At(p, "idle") /\ file \in Configs /\ ~Missing(handler[p].req, file)
        /\ handler' = [handler EXCEPT ![p].seen = file, ![p].at = to]
        /\ reply' = None
        /\ UNCHANGED <<embedded, file, running, lock, acked, raced, faults>>
    BY DEF Read, At, Readable
  <1>2. HandlerType /\ handler[p].req \in Requests
    BY <1>1, RequestFacts
  <1>3. /\ to \in Steps \ {"idle"} /\ to \in {"rename", "truncate"}
        /\ to = "rename" => Op(p) \in ClientOps \cup {"batch"}
    BY DEF Steps
  <1> HIDE DEF to
  <1>4. /\ handler'[p].at = to /\ handler'[p].req = handler[p].req
        /\ handler'[p].seen = file
        /\ \A q \in Handlers \ {p} : handler'[q] = handler[q]
    BY <1>1, <1>2 DEF HandlerType
  <1>5. HandlerType'
    <2>1. handler' = [handler EXCEPT ![p] = [@ EXCEPT !.seen = file, !.at = to]]
      BY <1>1, <1>2 DEF HandlerType
    <2>2. [handler[p] EXCEPT !.seen = file, !.at = to] \in
              [at : Steps, req : Requests \cup {None}, seen : Configs \cup {None},
               err : BOOLEAN, agreed : BOOLEAN]
      BY <1>1, <1>2, <1>3 DEF HandlerType
    <2> QED  BY <1>2, <2>1, <2>2 DEF HandlerType
  <1>6. TypeOK'
    BY <1>1, <1>5 DEF IInv, TypeOK, HandlerType
  <1>7. LockInv' /\ AloneInv'
    <2>1. \A q \in Handlers : /\ At(q, "idle")' <=> At(q, "idle")
                              /\ Op(q)' = Op(q)
      BY <1>1, <1>3, <1>4 DEF At, Op
    <2> QED  BY <1>1, <2>1 DEF IInv, LockInv, AloneInv
  <1>8. StageInv'
    <2>1. ASSUME NEW q \in Handlers \ {p} PROVE Stage(q)'
      BY <1>4 DEF IInv, StageInv, Stage, At, Op, Tag
    <2>2. Op(p) = "remove-client" => file.clients[Tag(p)] # None
      BY <1>1 DEF Missing, ClientOps, Op, Tag
    <2>3. Stage(p)'
      BY <1>1, <1>2, <1>3, <1>4, <2>2 DEF Stage, At, Op, Tag
    <2> QED  BY <2>1, <2>3 DEF StageInv
  <1>9. AckInv'
    BY <1>1, FileKept
  <1>10. SeenInv'
    <2>1. \A client \in acked' : Holds(handler'[p].seen, client)
      BY <1>1, <1>4 DEF IInv, AckInv, Readable
    <2>2. ASSUME NEW q \in Handlers \ {p}, ~At(q, "idle")', handler'[q].seen # None,
                 Op(q)' \in LockedOps \/ ~raced'
          PROVE  \A client \in acked' : Holds(handler'[q].seen, client)
      BY <1>1, <1>4, <2>2 DEF IInv, SeenInv, At, Op
    <2> QED  BY <2>1, <2>2 DEF SeenInv
  <1> QED  BY <1>6, <1>7, <1>8, <1>9, <1>10 DEF IInv

\* WriteFile truncates the file.
LEMMA TruncateKeeps ==
    ASSUME IInv, NEW p \in Handlers, Truncate(p)
    PROVE  IInv'
  <1>1. ~At(p, "idle") /\ Put(Empty) /\ UNCHANGED <<running, faults>>
    BY DEF Truncate, At
  <1>2. running' \in Configs \cup {None} /\ faults' \in 0 .. MaxFaults
    BY <1>1, RunningKept, FaultsType DEF Obeyed
  <1>3. file' \in Configs \cup {Empty, Torn} /\ AckInv' /\ acked' \subseteq acked
    <2>1. Empty \in Configs \cup {Empty, Torn}
      OBVIOUS
    <2> QED  BY <1>1, <2>1, PutFacts DEF IInv
  <1>4. Stage(p)
    BY DEF IInv, StageInv
  <1>5. CASE At(p, "truncate") /\ Goto(p, "write")
    <2>1. "write" \in Steps \ {"idle", "api"}
      BY DEF Steps
    <2>2. Op(p) = "replace" \/ handler[p].seen \in Configs
      BY <1>4, <1>5 DEF Stage, At
    <2> QED  BY <1>1, <1>2, <1>3, <1>5, <2>1, <2>2, GotoKeeps
  <1>6. CASE At(p, "rollback") /\ Goto(p, "restore")
    <2>1. "restore" \in Steps \ {"idle", "api"}
      BY DEF Steps
    <2>2. handler[p].seen \in Configs
      BY <1>4, <1>6 DEF Stage, At
    <2> QED  BY <1>1, <1>2, <1>3, <1>6, <2>1, <2>2, GotoKeeps
  <1> QED  BY <1>5, <1>6 DEF Truncate

\* WriteFile writes, and the request ends or restarts Xray.
LEMMA WriteKeeps ==
    ASSUME IInv, NEW p \in Handlers, Write(p)
    PROVE  IInv'
  <1>1. /\ ~At(p, "idle") /\ UNCHANGED <<running, faults>> /\ Written(p)
        /\ handler[p].at \in {"write", "unlinked"}
    BY DEF Write, At
  <1>2. running' \in Configs \cup {None} /\ faults' \in 0 .. MaxFaults
    BY <1>1, RunningKept, FaultsType DEF Obeyed
  <1>3. Op(p) = "replace" \/ handler[p].seen \in Configs
    BY <1>1 DEF IInv, StageInv, Stage
  <1>4. file' \in Configs \cup {Empty, Torn} /\ AckInv' /\ acked' \subseteq acked
    <2>1. ASSUME NEW x \in Outcomes(New(p)), Put(x)
          PROVE  file' \in Configs \cup {Empty, Torn} /\ AckInv' /\ acked' \subseteq acked
      <3>1. x \in Configs \cup {Empty, Torn}
        BY <1>1, <1>3, NewType DEF Outcomes
      <3> QED  BY <2>1, <3>1, PutFacts DEF IInv
    <2>2. CASE UNCHANGED <<file, acked>>
      BY <2>2, FileKept
    <2> QED  BY <2>1, <2>2 DEF Write
  <1>5. CASE Restarts(p) /\ Goto(p, "restart")
    <2>1. "restart" \in Steps \ {"idle", "api"}
      BY DEF Steps
    <2>2. handler[p].seen \in Configs
      BY <1>3, <1>5 DEF Restarts, RoutingOps, TakeoverOps
    <2> QED  BY <1>1, <1>2, <1>4, <1>5, <2>1, <2>2, GotoKeeps
  <1>6. CASE Finish(p, IF Deferred(p) THEN "deferred" ELSE "ok")
    <2> DEFINE status == IF Deferred(p) THEN "deferred" ELSE "ok"
    <2>1. status \in Answers
      BY DEF Answers
    <2>2. Finish(p, status)
      BY <1>6
    <2> HIDE DEF status
    <2> QED  BY <1>1, <1>2, <1>4, <2>1, <2>2, FinishKeeps
  <1> QED  BY <1>1, <1>5, <1>6 DEF Written

\* The rollback writes back what was read.
LEMMA RestoreKeeps ==
    ASSUME IInv, NEW p \in Handlers, Restore(p)
    PROVE  IInv'
  <1>1. /\ ~At(p, "idle") /\ UNCHANGED <<running, faults>> /\ Goto(p, "rerestart")
        /\ handler[p].at = "restore"
    BY DEF Restore, At
  <1>2. running' \in Configs \cup {None} /\ faults' \in 0 .. MaxFaults
    BY <1>1, RunningKept, FaultsType DEF Obeyed
  <1>3. handler[p].seen \in Configs
    BY <1>1 DEF IInv, StageInv, Stage
  <1>4. PICK x \in Outcomes(handler[p].seen) : Put(x)
    BY DEF Restore
  <1>5. x \in Configs \cup {Empty, Torn}
    BY <1>3, <1>4 DEF Outcomes
  <1>6. file' \in Configs \cup {Empty, Torn} /\ AckInv' /\ acked' \subseteq acked
    BY <1>4, <1>5, PutFacts DEF IInv
  <1>7. "rerestart" \in Steps \ {"idle", "api"}
    BY DEF Steps
  <1> QED  BY <1>1, <1>2, <1>3, <1>6, <1>7, GotoKeeps

\* Another file takes the place of the config file.
LEMMA RenameKeeps ==
    ASSUME IInv, NEW p \in Handlers, Rename(p)
    PROVE  IInv'
  <1> DEFINE to == AfterRename(p)
             HandlerSet == [at : Steps, req : Requests \cup {None},
                            seen : Configs \cup {None}, err : BOOLEAN, agreed : BOOLEAN]
  <1>1. /\ ~At(p, "idle") /\ Put(New(p)) /\ UNCHANGED <<embedded, running, raced, faults>>
        /\ handler[p].at = "rename"
        /\ reply' = IF to = "idle" THEN "deferred" ELSE None
        /\ lock' = IF to = "idle" THEN None ELSE lock
    BY DEF Rename, At
  <1>2. running' \in Configs \cup {None} /\ faults' \in 0 .. MaxFaults
    BY <1>1, RunningKept, FaultsType DEF Obeyed
  <1>3. /\ handler[p].seen \in Configs /\ Op(p) \in ClientOps \cup {"batch"}
        /\ handler[p].req \in Requests
    BY <1>1 DEF IInv, StageInv, Stage, At
  <1>4. file' \in Configs \cup {Empty, Torn} /\ AckInv' /\ acked' \subseteq acked
    <2>1. New(p) \in Configs
      BY <1>1, <1>3, NewType
    <2> QED  BY <1>1, <2>1, PutFacts DEF IInv
  <1>5. HandlerType
    BY <1>1, RequestFacts
  <1>6. to \in {"reapply", "restart", "idle"}
    BY DEF AfterRename
  <1>7. handler'[p] = IF to = "idle" THEN Idle ELSE [handler[p] EXCEPT !.at = to]
    BY DEF Rename
  <1>8. \A q \in Handlers \ {p} :
            handler'[q] = IF At(q, "write") THEN [handler[q] EXCEPT !.at = "unlinked"]
                          ELSE handler[q]
    BY DEF Rename
  <1> HIDE DEF to
  <1>9. HandlerType'
    <2>1. handler' = [q \in Handlers |-> handler'[q]]
      BY DEF Rename
    <2>2. handler'[p] \in HandlerSet
      BY <1>5, <1>6, <1>7, IdleFacts DEF HandlerType, Steps
    <2>3. \A q \in Handlers \ {p} : handler'[q] \in HandlerSet
      BY <1>5, <1>8 DEF HandlerType, Steps
    <2> QED  BY <2>1, <2>2, <2>3 DEF HandlerType
  <1>10. Others(p)
    BY <1>5, <1>8 DEF Others, HandlerType, At
  <1>11. CASE to = "idle"
    <2>1. Op(p) \in LockedOps
      BY <1>3 DEF LockedOps
    <2>2. lock = p
      BY <1>1, <2>1 DEF IInv, LockInv
    <2>3. Ends(p)
      BY <1>1, <1>7, <1>11, <2>2 DEF Ends
    <2>4. reply' \in Answers \cup {None} /\ lock' \in {lock, None}
      BY <1>1, <1>11 DEF Answers
    <2>5. acked' \in SUBSET (Tags \X Clients)
      BY <1>4 DEF IInv, TypeOK
    <2>6. TypeOK'
      BY <1>1, <1>2, <1>4, <1>9, <2>4, <2>5, StepTypes DEF IInv
    <2>7. ~Carries(p)
      BY <2>3, IdleFacts DEF Ends, Carries
    <2> QED  BY <1>4, <1>10, <2>3, <2>6, <2>7, StepKeeps
  <1>12. CASE to # "idle"
    <2>1. /\ handler'[p].at = to /\ handler'[p].req = handler[p].req
          /\ handler'[p].seen = handler[p].seen
      BY <1>5, <1>7, <1>12 DEF HandlerType
    <2>2. Carries(p)
      BY <1>1, <1>12, <2>1 DEF Carries
    <2>3. reply' \in Answers \cup {None} /\ lock' \in {lock, None}
      BY <1>1, <1>12 DEF Answers
    <2>4. acked' \in SUBSET (Tags \X Clients)
      BY <1>4 DEF IInv, TypeOK
    <2>5. TypeOK'
      BY <1>1, <1>2, <1>4, <1>9, <2>3, <2>4, StepTypes DEF IInv
    <2>6. Stage(p)
      BY DEF IInv, StageInv
    <2>7. Stage(p)'
      BY <1>1, <1>3, <1>6, <2>1, <2>6 DEF Stage, At, Op, Tag
    <2> QED  BY <1>4, <1>10, <2>2, <2>5, <2>7, StepKeeps
  <1> QED  BY <1>11, <1>12

\* replaceRuntimeInbound has been called, whatever came of it.
LEMMA ReappliedKeeps ==
    ASSUME IInv, NEW p \in Handlers, At(p, "reapply"), NEW status \in Answers,
           Reapplied(p, status), UNCHANGED file,
           running' \in Configs \cup {None}, faults' \in 0 .. MaxFaults
    PROVE  IInv'
  <1>1. ~At(p, "idle")
    BY DEF At
  <1>2. CASE Goto(p, "restart") /\ UNCHANGED acked
    <2>1. "restart" \in Steps \ {"idle", "api"}
      BY DEF Steps
    <2>2. handler[p].seen \in Configs
      BY DEF IInv, StageInv, Stage, At
    <2> QED  BY <1>1, <1>2, <2>1, <2>2, FileKept, GotoKeeps
  <1>3. CASE Answer(p, IF Deferred(p) THEN "deferred" ELSE status, New(p))
    <2> DEFINE answer == IF Deferred(p) THEN "deferred" ELSE status
    <2>1. answer \in Answers /\ Answer(p, answer, New(p))
      BY <1>3 DEF Answers
    <2> HIDE DEF answer
    <2> QED  BY <1>1, <2>1, AnswerKeeps
  <1> QED  BY <1>2, <1>3 DEF Reapplied

\* manageInboundClient and the others: the inbound of the running Xray
LEMMA ReapplyKeeps ==
    ASSUME IInv, NEW p \in Handlers, Reapply(p)
    PROVE  IInv'
  <1>1. ~At(p, "idle") /\ At(p, "reapply") /\ UNCHANGED file
    BY DEF Reapply, At
  <1>2. faults' \in 0 .. MaxFaults
    BY FaultsType DEF Reapply
  <1>3. "ok" \in Answers /\ "warned" \in Answers
    BY DEF Answers
  <1>4. CASE Reachable(p) /\ running' = WithClients(running, Tag(p), New(p).clients[Tag(p)])
                 /\ Reapplied(p, "ok")
    <2>1. handler[p].seen \in Configs
      BY <1>1 DEF IInv, StageInv, Stage, At
    <2>2. New(p) \in Configs /\ Tag(p) \in Tags /\ running \in Configs
      BY <1>1, <1>4, <2>1, NewType, RequestFacts, ReachableType
    <2>3. New(p).clients[Tag(p)] \in {None} \cup SUBSET Clients
      BY <2>2 DEF Configs
    <2>4. running' \in Configs
      BY <1>4, <2>2, <2>3, WithClientsType
    <2> QED  BY <1>1, <1>2, <1>3, <1>4, <2>4, ReappliedKeeps
  <1>5. CASE Reachable(p) /\ running' = Without(p) /\ Reapplied(p, "warned")
    <2>1. running' \in Configs
      BY <1>1, <1>5, ReachableType, WithoutType
    <2> QED  BY <1>1, <1>2, <1>3, <1>5, <2>1, ReappliedKeeps
  <1>6. CASE UNCHANGED running /\ Reapplied(p, "warned")
    BY <1>1, <1>2, <1>3, <1>6, RunningKept, ReappliedKeeps
  <1> QED  BY <1>4, <1>5, <1>6 DEF Reapply

\* RestartXray leaves Xray with a config, or down.
LEMMA RestartType ==
    ASSUME IInv, NEW ok \in BOOLEAN, RestartXray(ok)
    PROVE  running' \in Configs \cup {None} /\ faults' \in 0 .. MaxFaults
  <1>1. faults' \in 0 .. MaxFaults
    BY FaultsType DEF RestartXray, XrayStarts, XrayFails
  <1>2. running \in Configs \cup {None}
    BY DEF IInv, TypeOK
  <1>3. CASE XrayStarts
    BY <1>1, <1>3 DEF XrayStarts, Readable
  <1>4. CASE XrayFails(ok)
    BY <1>1, <1>2, <1>4 DEF XrayFails
  <1> QED  BY <1>3, <1>4 DEF RestartXray

\* The restart at the end of a request
LEMMA RestartKeeps ==
    ASSUME IInv, NEW p \in Handlers, NEW ok \in BOOLEAN, Restart(p, ok)
    PROVE  IInv'
  <1>1. ~At(p, "idle") /\ UNCHANGED file /\ handler[p].at = "restart"
    BY DEF Restart, At
  <1>2. running' \in Configs \cup {None} /\ faults' \in 0 .. MaxFaults
    BY RestartType DEF Restart
  <1>3. {"ok", "failed", "warned"} \subseteq Answers
    BY DEF Answers
  <1>4. CASE Answer(p, "ok", New(p))
    BY <1>1, <1>2, <1>3, <1>4, AnswerKeeps
  <1>5. CASE Op(p) \in RoutingOps \cup {"batch"} /\ Goto(p, "rollback") /\ UNCHANGED acked
    <2>1. "rollback" \in Steps \ {"idle", "api"}
      BY DEF Steps
    <2>2. handler[p].seen \in Configs
      BY <1>1, <1>5 DEF IInv, StageInv, Stage, At, RoutingOps
    <2> QED  BY <1>1, <1>2, <1>5, <2>1, <2>2, FileKept, GotoKeeps
  <1>6. CASE Answer(p, "failed", New(p))
    BY <1>1, <1>2, <1>3, <1>6, AnswerKeeps
  <1>7. CASE Answer(p, "warned", New(p))
    BY <1>1, <1>2, <1>3, <1>7, AnswerKeeps
  <1> QED  BY <1>4, <1>5, <1>6, <1>7 DEF Restart, Restarted

\* The restart at the end of a rollback
LEMMA RestartAgainKeeps ==
    ASSUME IInv, NEW p \in Handlers, NEW ok \in BOOLEAN, RestartAgain(p, ok)
    PROVE  IInv'
  <1> DEFINE status == IF Op(p) = "batch" THEN "ok"
                       ELSE IF ok THEN "rolled_back" ELSE "failed"
  <1>1. ~At(p, "idle") /\ UNCHANGED file /\ Answer(p, status, New(p))
    BY DEF RestartAgain, At
  <1>2. running' \in Configs \cup {None} /\ faults' \in 0 .. MaxFaults
    BY RestartType DEF RestartAgain
  <1>3. status \in Answers
    BY DEF Answers
  <1> HIDE DEF status
  <1> QED  BY <1>1, <1>2, <1>3, AnswerKeeps

\* A request that begins with inboundsMu waits for it, any other is noted.
LEMMA BeginKeeps ==
    ASSUME IInv, NEW p \in Handlers, NEW r \in Requests, Begin(p, r)
    PROVE  IInv'
  <1> DEFINE new == [at |-> FirstStep(r.op), req |-> r, seen |-> None, err |-> FALSE,
                     agreed |-> Busy = {} /\ running = file]
  <1>1. /\ At(p, "idle") /\ (r.op \in LockedOps => lock = None)
        /\ lock' = IF r.op \in LockedOps THEN p ELSE lock
        /\ handler' = [handler EXCEPT ![p] = new]
        /\ raced' = (Busy # {}) /\ reply' = None
        /\ UNCHANGED <<embedded, file, running, acked, faults>>
    BY DEF Begin
  <1>2. r \in AllRequests /\ r.op \in LockedOps \cup UnlockedOps
    BY RequestsTyped DEF AllRequests
  <1>3. /\ FirstStep(r.op) \in {"api", "truncate", "restart", "read"}
        /\ FirstStep(r.op) = "api" => r.op \in {"add", "remove"} \cup OutboundOps
        /\ FirstStep(r.op) = "truncate" => r.op = "replace"
        /\ FirstStep(r.op) = "restart" => r.op = "restart"
    BY DEF FirstStep
  <1>4. /\ new.at = FirstStep(r.op) /\ new.req = r /\ new.seen = None
        /\ new.err = FALSE /\ new.agreed \in BOOLEAN
        /\ new = [at |-> new.at, req |-> new.req, seen |-> new.seen, err |-> new.err,
                  agreed |-> new.agreed]
    OBVIOUS
  <1> HIDE DEF new
  <1>5. HandlerType
    BY DEF IInv, TypeOK, HandlerType
  <1>6. handler'[p] = new /\ \A q \in Handlers \ {p} : handler'[q] = handler[q]
    BY <1>1, <1>5 DEF HandlerType
  <1>7. new \in [at : Steps, req : Requests \cup {None}, seen : Configs \cup {None},
                 err : BOOLEAN, agreed : BOOLEAN]
    BY <1>3, <1>4 DEF Steps
  <1>8. HandlerType'
    BY <1>1, <1>5, <1>7 DEF HandlerType
  <1>9. TypeOK'
    <2>1. raced' \in BOOLEAN
      BY <1>1
    <2>2. lock' \in Handlers \cup {None}
      BY <1>1 DEF IInv, TypeOK
    <2> QED  BY <1>1, <1>8, <2>1, <2>2 DEF IInv, TypeOK, HandlerType
  <1>10. LockInv'
    <2>1. ~At(p, "idle")' /\ Op(p)' = r.op
      BY <1>3, <1>4, <1>6 DEF At, Op
    <2>2. ASSUME NEW q \in Handlers \ {p}
          PROVE  lock' = q <=> ~At(q, "idle")' /\ Op(q)' \in LockedOps
      <3>1. (At(q, "idle")' <=> At(q, "idle")) /\ Op(q)' = Op(q)
        BY <1>6 DEF At, Op
      <3>2. lock' = q <=> lock = q
        BY <1>1, NoneIsNew
      <3> QED  BY <3>1, <3>2 DEF IInv, LockInv
    <2>3. lock # p
      BY <1>1 DEF IInv, LockInv
    <2>4. lock' = p <=> r.op \in LockedOps
      BY <1>1, <2>3
    <2> QED  BY <2>1, <2>2, <2>4 DEF LockInv
  <1>11. AloneInv'
    <2>1. SUFFICES ASSUME Busy = {} PROVE \A q \in Handlers \ {p} : At(q, "idle")'
      BY <1>1 DEF AloneInv
    <2> QED  BY <1>6, <2>1 DEF Busy, At
  <1>12. StageInv'
    <2>1. ASSUME NEW q \in Handlers \ {p} PROVE Stage(q)'
      BY <1>6 DEF IInv, StageInv, Stage, At, Op, Tag
    <2>2. Stage(p)'
      BY <1>3, <1>4, <1>6 DEF Stage, At, Op, Tag
    <2> QED  BY <2>1, <2>2 DEF StageInv
  <1>13. AckInv'
    BY <1>1, FileKept
  <1>14. SeenInv'
    <2> SUFFICES ASSUME NEW q \in Handlers, ~At(q, "idle")', handler'[q].seen # None,
                        Op(q)' \in LockedOps \/ ~raced'
                 PROVE  \A client \in acked' : Holds(handler'[q].seen, client)
      BY DEF SeenInv
    <2>1. q # p
      BY <1>4, <1>6
    <2>2. ~At(q, "idle") /\ handler[q].seen = handler'[q].seen /\ Op(q)' = Op(q)
      BY <1>6, <2>1 DEF At, Op
    <2>3. raced'
      BY <1>1, <2>2 DEF Busy
    <2> QED  BY <1>1, <2>2, <2>3 DEF IInv, SeenInv
  <1> QED  BY <1>9, <1>10, <1>11, <1>12, <1>13, <1>14 DEF IInv

-----------------------------------------------------------------------------
(***************************************************************************)
(* The invariant and the properties                                        *)
(***************************************************************************)
LEMMA InitKeeps ==
    ASSUME Init
    PROVE  IInv
  <1>1. TypeOK
    <2>1. HandlerType
      BY IdleFacts DEF Init, HandlerType
    <2>2. faults \in 0 .. MaxFaults
      BY MaxFaultsTyped DEF Init
    <2>3. file \in Configs /\ running \in Configs
      BY InitialTyped DEF Init
    <2> QED  BY <2>1, <2>2, <2>3 DEF Init, TypeOK, HandlerType
  <1>2. \A p \in Handlers : At(p, "idle") /\ handler[p].seen = None
    BY IdleFacts DEF Init, At
  <1>3. LockInv
    BY <1>2, NoneIsNew DEF Init, LockInv
  <1>4. AloneInv /\ SeenInv /\ AckInv
    BY <1>2 DEF Init, AloneInv, SeenInv, AckInv
  <1>5. StageInv
    BY <1>2 DEF StageInv, Stage, At
  <1> QED  BY <1>1, <1>3, <1>4, <1>5 DEF IInv

LEMMA NextKeeps ==
    ASSUME IInv, [Next]_vars
    PROVE  IInv'
  <1>1. ASSUME NEW p \in Handlers, Step(p) PROVE IInv'
    BY <1>1, ApplyKeeps, ApplyFailedKeeps, RuntimeRemoveKeeps, RemoveFailedKeeps,
       ReadOnlyKeeps, ReadKeeps, TruncateKeeps, WriteKeeps, RenameKeeps, RestoreKeeps,
       ReapplyKeeps, RestartKeeps, RestartAgainKeeps DEF Step
  <1>2. ASSUME NEW p \in Handlers, NEW r \in Requests, Begin(p, r) PROVE IInv'
    BY <1>2, BeginKeeps
  <1>3. CASE UNCHANGED vars
    BY <1>3 DEF vars, IInv, TypeOK, LockInv, AloneInv, StageInv, Stage, AckInv, SeenInv,
                Readable, At, Op, Tag
  <1> QED  BY <1>1, <1>2, <1>3 DEF Next

\* The lock and the memory of the handlers fit their requests, and a handler that
\* holds the lock has read every acknowledged client.
THEOREM Invariance == Spec => []IInv
  <1>1. Init => IInv
    BY InitKeeps
  <1>2. IInv /\ [Next]_vars => IInv'
    BY NextKeeps
  <1> QED  BY <1>1, <1>2, PTL DEF Spec

\* Every variable keeps its type, for any requests and any number of handlers.
THEOREM TypeCorrect == Spec => []TypeOK
  <1>1. IInv => TypeOK
    BY DEF IInv
  <1> QED  BY <1>1, Invariance, PTL

\* A step of another handler does not complete a write of p.
LEMMA OthersWriteNothing ==
    ASSUME IInv, NEW q \in Handlers, NEW p \in Handlers \ {q}, Step(q)
    PROVE  \/ handler'[p].at = handler[p].at
           \/ handler[p].at = "write" /\ handler'[p].at = "unlinked"
  <1>1. HandlerType
    BY DEF IInv, TypeOK, HandlerType
  <1>2. CASE Rename(q)
    <2>1. handler'[p] = IF At(p, "write") THEN [handler[p] EXCEPT !.at = "unlinked"]
                        ELSE handler[p]
      BY <1>2 DEF Rename
    <2>2. [handler[p] EXCEPT !.at = "unlinked"].at = "unlinked"
      BY <1>1 DEF HandlerType
    <2> QED  BY <2>1, <2>2 DEF At
  <1>3. ASSUME NEW at, Goto(q, at) PROVE handler'[p] = handler[p]
    BY <1>1, <1>3 DEF Goto, HandlerType
  <1>4. ASSUME NEW status, Finish(q, status) PROVE handler'[p] = handler[p]
    BY <1>1, <1>4 DEF Finish, HandlerType
  <1>5. ASSUME NEW status, NEW cfg, Answer(q, status, cfg) PROVE handler'[p] = handler[p]
    BY <1>4, <1>5 DEF Answer
  <1>6. CASE Apply(q) \/ ApplyFailed(q) \/ RemoveFailed(q) \/ ReadOnly(q)
    BY <1>3, <1>4, <1>5, <1>6 DEF Apply, ApplyFailed, RemoveFailed, ReadOnly
  <1>7. CASE Truncate(q) \/ Write(q) \/ Restore(q)
    BY <1>3, <1>4, <1>7 DEF Truncate, Write, Written, Restore
  <1>8. CASE \E err \in BOOLEAN : RuntimeRemove(q, err)
    BY <1>1, <1>8 DEF RuntimeRemove, HandlerType
  <1>9. CASE Read(q)
    BY <1>1, <1>9 DEF Read, HandlerType
  <1>10. CASE Reapply(q)
    BY <1>3, <1>5, <1>10 DEF Reapply, Reapplied
  <1>11. CASE \E ok \in BOOLEAN : Restart(q, ok) \/ RestartAgain(q, ok)
    BY <1>3, <1>5, <1>11 DEF Restart, Restarted, RestartAgain
  <1> QED  BY <1>2, <1>6, <1>7, <1>8, <1>9, <1>10, <1>11 DEF Step

\* Only the write, the rename and the rollback of p complete a write of p.
LEMMA WritingSteps ==
    ASSUME IInv, NEW p \in Handlers, [Next]_vars, Writes(p)
    PROVE  \/ At(p, "write") /\ \E x \in Outcomes(New(p)) : Put(x)
           \/ At(p, "rename") /\ Put(New(p))
           \/ At(p, "restore") /\ \E x \in Outcomes(handler[p].seen) : Put(x)
  <1>1. /\ handler[p].at \in {"write", "rename", "restore"}
        /\ handler'[p].at \notin {handler[p].at, "unlinked"}
    BY DEF Writes
  <1>2. ASSUME NEW q \in Handlers, Step(q) PROVE q = p
    BY <1>1, <1>2, OthersWriteNothing
  <1>3. ASSUME NEW q \in Handlers, NEW r \in Requests, Begin(q, r) PROVE FALSE
    <2>1. q # p
      BY <1>1, <1>3 DEF Begin, At
    <2>2. handler'[p] = handler[p]
      BY <1>3, <2>1 DEF Begin, IInv, TypeOK
    <2> QED  BY <1>1, <2>2
  <1>4. CASE UNCHANGED vars
    BY <1>1, <1>4 DEF vars
  <1>5. CASE Step(p)
    <2>1. Write(p) \/ Rename(p) \/ Restore(p)
      BY <1>1, <1>5 DEF Step, At, Apply, ApplyFailed, RemoveFailed, RuntimeRemove, ReadOnly,
                       Read, Truncate, Reapply, Restart, RestartAgain
    <2> QED  BY <1>1, <2>1 DEF Write, Rename, Restore, At
  <1> QED  BY <1>2, <1>3, <1>4, <1>5 DEF Next

\* inboundsMu: a handler that holds it, or is alone, loses no acknowledged client
\* that its request does not remove.
THEOREM ClientsAreKept == Spec => ClientsKept
  <1> DEFINE Kept == \A p \in Handlers :
          Writes(p) /\ (Op(p) \in LockedOps \/ ~raced) =>
              \A client \in acked \ acked' : Excused(p, client)
  <1>1. IInv /\ [Next]_vars => Kept
    <2> SUFFICES ASSUME IInv, [Next]_vars, NEW p \in Handlers, Writes(p),
                        Op(p) \in LockedOps \/ ~raced,
                        NEW client \in acked \ acked', ~Excused(p, client)
                 PROVE  FALSE
      OBVIOUS
    <2> DEFINE t == client[1]
               c == client[2]
    <2>1. client \in Tags \X Clients
      BY DEF IInv, TypeOK
    <2>2. t \in Tags /\ c \in Clients /\ client = <<t, c>>
      BY <2>1
    <2> HIDE DEF t, c
    <2>3. handler[p].at \in {"write", "rename", "restore"} /\ ~At(p, "idle")
      BY DEF Writes, At
    <2>4. Op(p) # "replace"
      BY DEF Excused
    <2>5. handler[p].seen \in Configs
      BY <2>3, <2>4 DEF IInv, StageInv, Stage
    <2>6. Holds(handler[p].seen, <<t, c>>)
      BY <2>2, <2>3, <2>5, NoneIsNew DEF IInv, SeenInv
    <2>7. New(p) \in Configs
      BY <2>3, <2>5, NewType
    <2>8. Holds(New(p), <<t, c>>)
      <3>1. handler[p].req \in AllRequests
        BY <2>3, RequestFacts
      <3>2. Op(p) = "remove-client" => handler[p].seen.clients[Tag(p)] # None
        BY <2>3, <2>5, NoneIsNew DEF IInv, StageInv, Stage
      <3>3. \/ Holds(New(p), <<t, c>>)
            \/ Op(p) = "replace"
            \/ Op(p) = "takeover" /\ handler[p].req.whole.clients[t] # None
            \/ Op(p) \in {"add", "remove"} /\ Tag(p) = t
            \/ Op(p) = "remove-client" /\ Tag(p) = t /\ handler[p].req.client = c
        BY <2>2, <2>5, <2>6, <3>1, <3>2, EditKeeps DEF New, Op, Tag
      <3> QED  BY <2>2, <3>3 DEF Excused, TakeoverOps, t
    <2>9. ASSUME NEW cfg \in Configs, Holds(cfg, <<t, c>>), NEW x \in {cfg, Torn}, Put(x)
          PROVE  FALSE
      <3>1. x \in Configs /\ ~Holds(x, <<t, c>>)
        BY <2>2, <2>9, PutFacts DEF IInv
      <3> QED  BY <2>9, <3>1, NoneIsNew
    <2>10. Outcomes(New(p)) \subseteq {New(p), Torn}
           /\ Outcomes(handler[p].seen) \subseteq {handler[p].seen, Torn}
      BY DEF Outcomes
    <2> QED  BY <2>5, <2>6, <2>7, <2>8, <2>9, <2>10, WritingSteps
  <1>2. [][IInv /\ [Next]_vars => Kept]_vars
    BY <1>1, PTL
  <1> QED  BY <1>1, Invariance, PTL DEF Spec, ClientsKept

-----------------------------------------------------------------------------
(***************************************************************************)
(* manageRouting: a rollback is exact                                      *)
(***************************************************************************)
\* The rollback of a request that is alone is not disturbed.
RollbackInv ==
    ~raced => \A p \in Handlers :
        /\ At(p, "restore") => file = Empty
        /\ At(p, "rerestart") => file = handler[p].seen

\* The steps that begin a rollback's write and complete it, and the one that
\* answers that the request was rolled back
LEMMA RollbackSteps ==
    ASSUME IInv, NEW p \in Handlers, Step(p)
    PROVE  /\ UNCHANGED raced /\ ~At(p, "idle")
           /\ handler'[p].at = "restore" => file' = Empty
           /\ handler'[p].at = "rerestart" => Restore(p)
           /\ handler'[p] = Idle /\ reply' = "rolled_back" => RestartAgain(p, TRUE)
  <1> DEFINE Elsewhere ==
          \/ handler'[p].at \in {"read", "truncate", "rename", "write", "reapply", "restart",
                                 "rollback"}
          \/ handler'[p] = Idle /\ reply' \in {"ok", "warned", "deferred", "failed"}
  <1>1. ~At(p, "idle")
    BY DEF Step, At, Apply, ApplyFailed, RemoveFailed, RuntimeRemove, ReadOnly, Read,
           Truncate, Write, Rename, Restore, Reapply, Restart, RestartAgain
  <1>2. HandlerType
    BY <1>1, RequestFacts
  <1>3. UNCHANGED raced
    BY DEF Step, Apply, ApplyFailed, RemoveFailed, RuntimeRemove, ReadOnly, Read,
           Truncate, Write, Written, Rename, Restore, Reapply, Reapplied, Restart, Restarted,
           RestartAgain, Answer, Finish, Goto
  <1>4. ASSUME NEW at, Goto(p, at) PROVE handler'[p].at = at
    BY <1>2, <1>4 DEF Goto, HandlerType
  <1>5. ASSUME NEW status, Finish(p, status) PROVE handler'[p] = Idle /\ reply' = status
    BY <1>2, <1>5 DEF Finish, HandlerType
  <1>6. ASSUME NEW status, NEW cfg, Answer(p, status, cfg)
        PROVE  handler'[p] = Idle /\ reply' = status
    BY <1>5, <1>6 DEF Answer
  <1>7. Idle.at = "idle"
    BY IdleFacts
  <1>8. ASSUME Apply(p) \/ ApplyFailed(p) \/ RemoveFailed(p) PROVE Elsewhere
    <2>1. Goto(p, "read") \/ Finish(p, "failed")
      BY <1>8 DEF Apply, ApplyFailed, RemoveFailed
    <2> QED  BY <1>4, <1>5, <2>1
  <1>9. ASSUME NEW err \in BOOLEAN, RuntimeRemove(p, err) PROVE Elsewhere
    <2>1. handler' = [handler EXCEPT ![p].at = "read", ![p].err = err]
      BY <1>9 DEF RuntimeRemove
    <2>2. handler'[p].at = "read"
      BY <1>2, <2>1 DEF HandlerType
    <2> QED  BY <2>2
  <1>10. ASSUME ReadOnly(p) PROVE Elsewhere
    <2>1. Unreadable(p) \in {"warned", "ok", "failed"}
      BY DEF Unreadable
    <2>2. \/ Finish(p, Unreadable(p))
          \/ Answer(p, "failed", file) \/ Answer(p, "ok", file)
      BY <1>10 DEF ReadOnly
    <2>3. CASE Finish(p, Unreadable(p))
      BY <1>5, <2>1, <2>3
    <2>4. CASE Answer(p, "failed", file) \/ Answer(p, "ok", file)
      BY <1>6, <2>4
    <2> QED  BY <2>2, <2>3, <2>4
  <1>11. ASSUME Read(p) PROVE Elsewhere
    <2>1. handler'[p].at \in {"rename", "truncate"}
      BY <1>2, <1>11 DEF Read, HandlerType
    <2> QED  BY <2>1
  <1>12. ASSUME Truncate(p), ~Elsewhere PROVE handler'[p].at = "restore" /\ file' = Empty
    <2>1. Goto(p, "write") \/ (Goto(p, "restore") /\ Put(Empty))
      BY <1>12 DEF Truncate
    <2>2. CASE Goto(p, "write")
      BY <1>4, <1>12, <2>2
    <2>3. CASE Goto(p, "restore") /\ Put(Empty)
      BY <1>4, <2>3 DEF Put
    <2> QED  BY <2>1, <2>2, <2>3
  <1>13. ASSUME Write(p) PROVE Elsewhere
    <2> DEFINE status == IF Deferred(p) THEN "deferred" ELSE "ok"
    <2>1. Goto(p, "restart") \/ Finish(p, status)
      BY <1>13 DEF Write, Written
    <2>2. status \in {"ok", "deferred"}
      OBVIOUS
    <2> HIDE DEF status
    <2> QED  BY <1>4, <1>5, <2>1, <2>2
  <1>14. ASSUME Rename(p) PROVE Elsewhere
    <2>1. AfterRename(p) \in {"reapply", "restart", "idle"}
      BY DEF AfterRename
    <2>2. /\ AfterRename(p) = "idle" => handler'[p] = Idle /\ reply' = "deferred"
          /\ AfterRename(p) # "idle" => handler'[p].at = AfterRename(p)
      BY <1>2, <1>14 DEF Rename, HandlerType
    <2> QED  BY <2>1, <2>2
  <1>15. ASSUME Restore(p) PROVE handler'[p].at = "rerestart"
    <2>1. Goto(p, "rerestart")
      BY <1>15 DEF Restore
    <2> QED  BY <1>4, <2>1
  <1>16. ASSUME NEW status \in {"ok", "warned"}, Reapplied(p, status) PROVE Elsewhere
    <2> DEFINE answer == IF Deferred(p) THEN "deferred" ELSE status
    <2>1. Goto(p, "restart") \/ Answer(p, answer, New(p))
      BY <1>16 DEF Reapplied
    <2>2. answer \in {"ok", "warned", "deferred"}
      OBVIOUS
    <2> HIDE DEF answer
    <2> QED  BY <1>4, <1>6, <2>1, <2>2
  <1>17. ASSUME Reapply(p) PROVE Elsewhere
    <2>1. Reapplied(p, "ok") \/ Reapplied(p, "warned")
      BY <1>17 DEF Reapply
    <2> HIDE DEF Elsewhere
    <2> QED  BY <1>16, <2>1
  <1>18. ASSUME NEW ok \in BOOLEAN, Restart(p, ok) PROVE Elsewhere
    <2>1. \/ Answer(p, "ok", New(p)) \/ Answer(p, "warned", New(p))
          \/ Answer(p, "failed", New(p)) \/ Goto(p, "rollback")
      BY <1>18 DEF Restart, Restarted
    <2> QED  BY <1>4, <1>6, <2>1
  <1>19. ASSUME NEW ok \in BOOLEAN, RestartAgain(p, ok)
         PROVE  handler'[p] = Idle /\ (reply' = "rolled_back" => RestartAgain(p, TRUE))
    <2> DEFINE status == IF Op(p) = "batch" THEN "ok"
                         ELSE IF ok THEN "rolled_back" ELSE "failed"
    <2>1. Answer(p, status, New(p))
      BY <1>19 DEF RestartAgain
    <2>2. status = "rolled_back" => ok = TRUE
      OBVIOUS
    <2> HIDE DEF status
    <2>3. handler'[p] = Idle /\ reply' = status
      BY <1>6, <2>1
    <2>4. CASE ok = TRUE
      BY <1>19, <2>3, <2>4
    <2>5. CASE ok # TRUE
      BY <2>2, <2>3, <2>5
    <2> QED  BY <2>4, <2>5
  <1>20. Elsewhere => /\ handler'[p].at \notin {"restore", "rerestart"}
                      /\ ~(handler'[p] = Idle /\ reply' = "rolled_back")
    BY <1>7
  <1> HIDE DEF Elsewhere
  <1>21. \/ Elsewhere
         \/ handler'[p].at = "restore" /\ file' = Empty
         \/ handler'[p].at = "rerestart" /\ Restore(p)
         \/ handler'[p] = Idle /\ (reply' = "rolled_back" => RestartAgain(p, TRUE))
    BY <1>8, <1>9, <1>10, <1>11, <1>12, <1>13, <1>14, <1>15, <1>17, <1>18, <1>19 DEF Step
  <1> QED  BY <1>1, <1>3, <1>7, <1>20, <1>21

\* Another goroutine does not write the file of one that is alone.
LEMMA RollbackKeeps ==
    ASSUME IInv, RollbackInv, [Next]_vars
    PROVE  RollbackInv'
  <1>1. ASSUME NEW q \in Handlers, Step(q) PROVE RollbackInv'
    <2> SUFFICES ASSUME ~raced', NEW p \in Handlers
                 PROVE  /\ At(p, "restore")' => file' = Empty
                        /\ At(p, "rerestart")' => file' = handler'[p].seen
      BY DEF RollbackInv
    <2>1. ~raced /\ ~At(q, "idle")
      BY <1>1, RollbackSteps
    <2>2. CASE p = q
      <3>1. ASSUME Restore(p) PROVE file' = handler'[p].seen
        <4>1. file = Empty
          BY <2>1, <3>1 DEF RollbackInv, Restore
        <4>2. file' = handler[p].seen
          BY <3>1, <4>1 DEF Restore, Outcomes, Put
        <4>3. handler'[p].seen = handler[p].seen
          BY <3>1 DEF Restore, Goto, IInv, TypeOK
        <4> QED  BY <4>2, <4>3
      <3> QED  BY <1>1, <2>2, <3>1, RollbackSteps DEF At
    <2>3. CASE p # q
      <3>1. At(p, "idle")
        BY <2>1, <2>3 DEF IInv, AloneInv
      <3>2. handler'[p].at = "idle"
        BY <1>1, <2>3, <3>1, OthersWriteNothing DEF At
      <3> QED  BY <3>2 DEF At
    <2> QED  BY <2>2, <2>3
  <1>2. ASSUME NEW q \in Handlers, NEW r \in Requests, Begin(q, r) PROVE RollbackInv'
    <2> SUFFICES ASSUME ~raced', NEW p \in Handlers
                 PROVE  ~At(p, "restore")' /\ ~At(p, "rerestart")'
      BY DEF RollbackInv
    <2>1. At(p, "idle")
      BY <1>2 DEF Begin, Busy
    <2>2. FirstStep(r.op) \in {"api", "truncate", "restart", "read"}
      BY DEF FirstStep
    <2>3. handler'[p].at \in {"idle", FirstStep(r.op)}
      BY <1>2, <2>1 DEF Begin, At, IInv, TypeOK
    <2> QED  BY <2>2, <2>3 DEF At
  <1>3. CASE UNCHANGED vars
    BY <1>3 DEF vars, RollbackInv, At
  <1> QED  BY <1>1, <1>2, <1>3 DEF Next

\* Only a step of its own ends a request.
LEMMA AnswersOwn ==
    ASSUME IInv, [Next]_vars, NEW p \in Handlers, ~At(p, "idle"), handler'[p] = Idle
    PROVE  Step(p)
  <1>1. handler[p].at # "idle" /\ handler'[p].at = "idle"
    BY IdleFacts DEF At
  <1>2. ASSUME NEW q \in Handlers, Step(q) PROVE q = p
    BY <1>1, <1>2, OthersWriteNothing
  <1>3. ASSUME NEW q \in Handlers, NEW r \in Requests, Begin(q, r) PROVE FALSE
    <2>1. q # p
      BY <1>3 DEF Begin
    <2>2. handler'[p] = handler[p]
      BY <1>3, <2>1 DEF Begin, IInv, TypeOK
    <2> QED  BY <1>1, <2>2
  <1>4. ~UNCHANGED vars
    BY <1>1 DEF vars
  <1> QED  BY <1>2, <1>3, <1>4 DEF Next

\* manageRouting: "rolled back" is answered only when the file, and an embedded
\* Xray with it, are exactly what the request has found.
THEOREM RollbackIsExact == Spec => RolledBackExactly
  <1> DEFINE Exact == \A p \in Handlers :
          Answered(p) /\ ~raced /\ reply' = "rolled_back" =>
              /\ file' = handler[p].seen
              /\ embedded => running' = handler[p].seen
  <1>1. Init => RollbackInv
    BY IdleFacts DEF Init, RollbackInv, At
  <1>2. Spec => []RollbackInv
    BY <1>1, RollbackKeeps, Invariance, PTL DEF Spec
  <1>3. IInv /\ RollbackInv /\ [Next]_vars => Exact
    <2> SUFFICES ASSUME IInv, RollbackInv, [Next]_vars, NEW p \in Handlers,
                        Answered(p), ~raced, reply' = "rolled_back"
                 PROVE  file' = handler[p].seen /\ (embedded => running' = handler[p].seen)
      OBVIOUS
    <2>1. ~At(p, "idle") /\ handler'[p] = Idle
      BY DEF Answered
    <2>2. RestartAgain(p, TRUE)
      BY <2>1, AnswersOwn, RollbackSteps
    <2>3. file' = file /\ file = handler[p].seen
      BY <2>2 DEF RestartAgain, RollbackInv
    <2>4. embedded => running' = file
      BY <2>2 DEF RestartAgain, RestartXray, XrayStarts, XrayFails
    <2> QED  BY <2>3, <2>4
  <1>4. [][IInv /\ RollbackInv /\ [Next]_vars => Exact]_vars
    BY <1>3, PTL
  <1> QED  BY <1>2, <1>4, Invariance, PTL DEF Spec, RolledBackExactly

-----------------------------------------------------------------------------
(***************************************************************************)
(* manageRouting, HandleBatchApply: Xray survives a bad change             *)
(***************************************************************************)
\* What a goroutine relies on that began when Xray ran with the file, is alone
\* and deals with an Xray that does all it should
Sound(p) ==
    /\ ~At(p, "unlinked")
    /\ handler[p].at \in {"api", "read"} => Readable /\ Startable(file)
    /\ handler[p].at \notin {"rollback", "restore", "rerestart"} => running # None
    /\ handler[p].seen # None => Startable(handler[p].seen)
    /\ At(p, "write") => file = Empty
    /\ At(p, "reapply") => Op(p) \in ClientOps \cup {"batch"}
    /\ At(p, "restart") =>
           \/ Op(p) \in RoutingOps \cup {"batch"} \cup TakeoverOps
           \/ Readable /\ Startable(file)

\* An embedded Xray has started with rules that it starts with.
RunsInv == embedded /\ running # None => Startable(running)

SurvivalInv ==
    /\ RunsInv
    /\ embedded /\ ~raced /\ faults = 0 =>
           \A p \in Handlers : ~At(p, "idle") /\ handler[p].agreed => Sound(p)

\* Only the rules decide whether Xray starts.
LEMMA StartableRules ==
    ASSUME NEW a, NEW b, a.rules = b.rules, Startable(a)
    PROVE  Startable(b)
  BY DEF Startable

\* Removing an inbound adds no mark.
LEMMA RemoveStartable ==
    ASSUME NEW cfg \in Configs, NEW t \in Tags, Startable(cfg)
    PROVE  Startable(RemoveInbound(cfg, t))
  <1> DEFINE rules == Narrowed(cfg.rules, t)
  <1>1. RemoveInbound(cfg, t) = [WithClients(cfg, t, None) EXCEPT !.rules = rules]
    BY DEF RemoveInbound
  <1>2. WithClients(cfg, t, None) \in Configs
    BY WithClientsType
  <1>3. RemoveInbound(cfg, t).rules = rules
    <2> HIDE DEF rules
    <2> QED  BY <1>1, <1>2 DEF Configs
  <1>4. \A r \in rules : \E x \in cfg.rules : r.mark = x.mark
    BY DEF Narrowed, Configs, Rules
  <1> HIDE DEF rules
  <1> QED  BY <1>3, <1>4 DEF Startable, WithMark

\* The API leaves the rules of a running Xray alone, and a restart starts with
\* the file.
LEMMA RunningRules ==
    ASSUME IInv, RunsInv, NEW p \in Handlers, Step(p)
    PROVE  RunsInv'
  <1> SUFFICES ASSUME embedded', running' # None
               PROVE  Startable(running')
    BY DEF RunsInv
  <1>1. embedded /\ ~At(p, "idle")
    BY DEF Step, At, Apply, ApplyFailed, RemoveFailed, RuntimeRemove, ReadOnly, Read,
           Truncate, Write, Written, Rename, Restore, Reapply, Reapplied, Restart, Restarted,
           RestartAgain, Answer, Finish, Goto
  <1>2. ASSUME UNCHANGED running PROVE Startable(running')
    BY <1>1, <1>2 DEF RunsInv
  <1>3. ASSUME Reachable(p), running'.rules = running.rules PROVE Startable(running')
    BY <1>1, <1>3, StartableRules DEF RunsInv, Reachable
  <1>4. ASSUME Reachable(p) PROVE Without(p).rules = running.rules
    <2>1. running \in Configs /\ Tag(p) \in Tags /\ None \in {None} \cup SUBSET Clients
      BY <1>1, <1>4, ReachableType, RequestFacts
    <2>2. CASE Op(p) = "update-out"
      BY <2>1, <2>2 DEF Without, Configs
    <2>3. CASE Op(p) # "update-out"
      BY <2>1, <2>3, WithClientsType DEF Without
    <2> QED  BY <2>2, <2>3
  <1>5. CASE Apply(p)
    <2>1. /\ At(p, "api") /\ Op(p) # "remove" /\ Reachable(p)
          /\ running' = Edit(handler[p].req, running)
      BY <1>5 DEF Apply
    <2>2. Op(p) \in {"add", "add-out", "remove-out", "update-out"}
      BY <2>1 DEF IInv, StageInv, Stage, OutboundOps
    <2>3. /\ running \in Configs /\ handler[p].req \in AllRequests
          /\ handler[p].req.tag \in Tags /\ {handler[p].req.client} \in {None} \cup SUBSET Clients
      BY <1>1, <2>1, ReachableType, RequestFacts DEF Tag
    <2>4. CASE Op(p) = "add"
      <3> DEFINE set == {handler[p].req.client}
      <3>1. running' = WithClients(running, handler[p].req.tag, set)
        BY <2>1, <2>3, <2>4, EditOps DEF Op
      <3>2. set \in {None} \cup SUBSET Clients
        BY <2>3
      <3> HIDE DEF set
      <3>3. running'.rules = running.rules
        BY <2>3, <3>1, <3>2, WithClientsType
      <3> QED  BY <1>3, <2>1, <3>3
    <2>5. CASE Op(p) = "remove-out"
      <3>1. running' = [running EXCEPT !.outs = @ \ {handler[p].req.out}]
        BY <2>1, <2>3, <2>5, EditOps DEF Op
      <3>2. running'.rules = running.rules
        BY <2>3, <3>1 DEF Configs
      <3> QED  BY <1>3, <2>1, <3>2
    <2>6. CASE Op(p) \in {"add-out", "update-out"}
      <3>1. running' = [running EXCEPT !.outs = @ \cup {handler[p].req.out}]
        BY <2>1, <2>3, <2>6, EditOps DEF Op
      <3>2. running'.rules = running.rules
        BY <2>3, <3>1 DEF Configs
      <3> QED  BY <1>3, <2>1, <3>2
    <2> QED  BY <2>2, <2>4, <2>5, <2>6
  <1>6. CASE ApplyFailed(p)
    <2>1. UNCHANGED running \/ (Reachable(p) /\ running' = Without(p))
      BY <1>6 DEF ApplyFailed
    <2> QED  BY <1>2, <1>3, <1>4, <2>1
  <1>7. CASE \E err \in BOOLEAN : RuntimeRemove(p, err)
    <2>1. UNCHANGED running \/ (Reachable(p) /\ running' = Without(p))
      BY <1>7 DEF RuntimeRemove
    <2> QED  BY <1>2, <1>3, <1>4, <2>1
  <1>8. CASE RemoveFailed(p) \/ ReadOnly(p) \/ Read(p) \/ Truncate(p) \/ Write(p)
                 \/ Rename(p) \/ Restore(p)
    BY <1>2, <1>8 DEF RemoveFailed, ReadOnly, Read, Truncate, Write, Rename, Restore
  <1>9. CASE Reapply(p)
    <2> DEFINE set == New(p).clients[Tag(p)]
    <2>1. \/ UNCHANGED running \/ (Reachable(p) /\ running' = Without(p))
          \/ At(p, "reapply") /\ Reachable(p) /\ running' = WithClients(running, Tag(p), set)
      BY <1>9 DEF Reapply
    <2>2. CASE At(p, "reapply") /\ Reachable(p) /\ running' = WithClients(running, Tag(p), set)
      <3>1. handler[p].seen \in Configs
        BY <2>2 DEF IInv, StageInv, Stage, At
      <3>2. New(p) \in Configs /\ Tag(p) \in Tags /\ running \in Configs
        BY <1>1, <2>2, <3>1, NewType, RequestFacts, ReachableType
      <3>3. set \in {None} \cup SUBSET Clients
        BY <3>2 DEF Configs
      <3> HIDE DEF set
      <3>4. running'.rules = running.rules
        BY <2>2, <3>2, <3>3, WithClientsType
      <3> QED  BY <1>3, <2>2, <3>4
    <2> HIDE DEF set
    <2> QED  BY <1>2, <1>3, <1>4, <2>1, <2>2
  <1>10. CASE \E ok \in BOOLEAN : Restart(p, ok) \/ RestartAgain(p, ok)
    <2>1. running' = None \/ (running' = file /\ Startable(file))
      BY <1>1, <1>10 DEF Restart, RestartAgain, RestartXray, XrayStarts, XrayFails
    <2> QED  BY <2>1
  <1> QED
    BY <1>5, <1>6, <1>7, <1>8, <1>9, <1>10 DEF Step

\* The step of a goroutine that keeps its request and what it knows
Advances(p, at) ==
    /\ handler'[p].at = at
    /\ handler'[p].req = handler[p].req
    /\ handler'[p].seen = handler[p].seen
    /\ handler'[p].agreed = handler[p].agreed

LEMMA GotoAdvances ==
    ASSUME IInv, NEW p \in Handlers, ~At(p, "idle"), NEW at, Goto(p, at)
    PROVE  Advances(p, at)
  <1>1. HandlerType
    BY RequestFacts
  <1> QED  BY <1>1 DEF Goto, HandlerType, Advances

\* A goroutine that is done relies on nothing.
LEMMA IdleAgreesNot ==
    Idle.agreed = FALSE
  BY DEF Idle

\* The steps of p after which it still relies on something, up to the restart
LEMMA SoundStep ==
    ASSUME IInv, SurvivalInv, NEW p \in Handlers, Step(p),
           embedded, ~raced, faults = 0, handler'[p].agreed
    PROVE  Sound(p)'
  <1>1. ~At(p, "idle") /\ HandlerType
    <2>1. ~At(p, "idle")
      BY RollbackSteps
    <2> QED  BY <2>1, RequestFacts
  <1>2. ASSUME NEW status, Finish(p, status) PROVE FALSE
    <2>1. handler'[p] = Idle
      BY <1>1, <1>2 DEF Finish, HandlerType
    <2> QED  BY <2>1, IdleAgreesNot
  <1>3. ASSUME NEW status, NEW cfg, Answer(p, status, cfg) PROVE FALSE
    BY <1>2, <1>3 DEF Answer
  <1>4. ASSUME handler[p].agreed PROVE Sound(p)
    BY <1>1, <1>4 DEF SurvivalInv
  <1>5. ASSUME NEW at, Goto(p, at) PROVE Advances(p, at) /\ Sound(p)
    <2>1. Advances(p, at)
      BY <1>1, <1>5, GotoAdvances
    <2> QED  BY <1>4, <2>1 DEF Advances
  <1>6. None \notin Configs
    BY NoneIsNew
  <1>7. ~ApplyFailed(p) /\ ~RemoveFailed(p) /\ ~ReadOnly(p)
    BY <1>2, <1>3 DEF ApplyFailed, RemoveFailed, ReadOnly
  <1>8. ASSUME NEW ok \in BOOLEAN, RestartAgain(p, ok) PROVE FALSE
    BY <1>3, <1>8 DEF RestartAgain
  <1>9. CASE Apply(p)
    <2>1. Goto(p, "read") /\ At(p, "api") /\ UNCHANGED file
      BY <1>9 DEF Apply
    <2>2. Advances(p, "read") /\ Sound(p)
      BY <1>5, <2>1
    <2>3. running' # None
      <3>1. running' \in Configs
        <4>1. running \in Configs /\ handler[p].req \in AllRequests
          BY <1>1, <1>9, ReachableType, RequestFacts DEF Apply
        <4>2. handler[p].req.op # "remove-client"
          BY <2>1 DEF IInv, StageInv, Stage, OutboundOps, Op
        <4> QED  BY <1>9, <4>1, <4>2, EditKeeps DEF Apply
      <3> QED  BY <1>6, <3>1
    <2> QED  BY <2>1, <2>2, <2>3 DEF Sound, Advances, At, Readable
  <1>10. CASE \E err \in BOOLEAN : RuntimeRemove(p, err)
    <2>1. PICK err \in BOOLEAN : RuntimeRemove(p, err)
      BY <1>10
    <2>2. /\ At(p, "api") /\ UNCHANGED file
          /\ handler' = [handler EXCEPT ![p].at = "read", ![p].err = err]
          /\ UNCHANGED running \/ (Reachable(p) /\ running' = Without(p))
      BY <2>1 DEF RuntimeRemove
    <2>3. Advances(p, "read")
      BY <1>1, <2>2 DEF Advances, HandlerType
    <2>4. Sound(p)
      BY <1>4, <2>3 DEF Advances
    <2>5. running' # None
      <3>1. CASE UNCHANGED running
        BY <2>2, <2>4, <3>1 DEF Sound, At
      <3>2. CASE Reachable(p) /\ running' = Without(p)
        BY <1>1, <1>6, <3>2, ReachableType, WithoutType
      <3> QED  BY <2>2, <3>1, <3>2
    <2> QED  BY <2>2, <2>3, <2>4, <2>5 DEF Sound, Advances, At, Readable
  <1>11. CASE Read(p)
    <2>1. /\ At(p, "read") /\ UNCHANGED <<file, running>>
          /\ handler'[p].seen = file /\ handler'[p].at \in {"rename", "truncate"}
          /\ handler'[p].agreed = handler[p].agreed
      BY <1>1, <1>11 DEF Read, HandlerType
    <2>2. Sound(p)
      BY <1>4, <2>1
    <2> QED  BY <2>1, <2>2 DEF Sound, At
  <1>12. CASE Truncate(p)
    <2>1. UNCHANGED running
      BY <1>12 DEF Truncate
    <2>2. CASE At(p, "truncate") /\ Goto(p, "write") /\ Put(Empty)
      <3>1. Advances(p, "write") /\ Sound(p) /\ file' = Empty
        BY <1>5, <2>2 DEF Put
      <3> QED  BY <2>1, <2>2, <3>1 DEF Sound, Advances, At
    <2>3. CASE At(p, "rollback") /\ Goto(p, "restore")
      <3>1. Advances(p, "restore") /\ Sound(p)
        BY <1>5, <2>3
      <3> QED  BY <2>1, <3>1 DEF Sound, Advances, At
    <2> QED  BY <1>12, <2>2, <2>3 DEF Truncate
  <1>13. CASE Restore(p)
    <2>1. Advances(p, "rerestart") /\ Sound(p)
      BY <1>5, <1>13 DEF Restore
    <2> QED  BY <2>1 DEF Sound, Advances, At
  <1>14. CASE Reapply(p)
    <2>1. At(p, "reapply") /\ UNCHANGED file
      BY <1>14 DEF Reapply
    <2>2. Reapplied(p, "ok") \/ Reapplied(p, "warned")
      BY <1>14 DEF Reapply
    <2>3. Restarts(p) /\ Goto(p, "restart")
      BY <1>3, <2>2 DEF Reapplied
    <2>4. Advances(p, "restart") /\ Sound(p)
      BY <1>5, <2>3
    <2>5. Op(p) = "batch"
      BY <2>1, <2>3, <2>4 DEF Sound, Restarts, ClientOps, RoutingOps, TakeoverOps
    <2>6. running' # None
      <3>1. handler[p].seen \in Configs
        BY <2>1 DEF IInv, StageInv, Stage, At
      <3>2. New(p) \in Configs /\ Tag(p) \in Tags
        BY <1>1, <3>1, NewType, RequestFacts
      <3>3. New(p).clients[Tag(p)] \in {None} \cup SUBSET Clients
        BY <3>2 DEF Configs
      <3>4. CASE UNCHANGED running
        BY <2>1, <2>4, <3>4 DEF Sound, At
      <3>5. CASE Reachable(p) /\ running' = Without(p)
        BY <1>1, <1>6, <3>5, ReachableType, WithoutType
      <3>6. CASE Reachable(p) /\ running' = WithClients(running, Tag(p), New(p).clients[Tag(p)])
        <4> DEFINE set == New(p).clients[Tag(p)]
        <4>1. running \in Configs /\ running' = WithClients(running, Tag(p), set)
          BY <3>6, ReachableType
        <4>2. set \in {None} \cup SUBSET Clients
          BY <3>3
        <4> HIDE DEF set
        <4>3. running' \in Configs
          BY <3>2, <4>1, <4>2, WithClientsType
        <4> QED  BY <1>6, <4>3
      <3> QED  BY <1>14, <3>4, <3>5, <3>6 DEF Reapply
    <2> QED  BY <2>4, <2>5, <2>6 DEF Sound, Advances, At, Op
  <1>15. CASE Rename(p)
    <2>1. /\ At(p, "rename") /\ UNCHANGED running
          /\ AfterRename(p) = "idle" => handler'[p] = Idle
          /\ AfterRename(p) # "idle" => Advances(p, AfterRename(p))
      BY <1>1, <1>15 DEF Rename, HandlerType, Advances
    <2>2. AfterRename(p) \in {"reapply", "restart"} /\ Advances(p, AfterRename(p))
      BY <2>1, IdleAgreesNot DEF AfterRename
    <2>3. Sound(p)
      BY <1>4, <2>2 DEF Advances
    <2>4. Op(p) \in ClientOps \cup {"batch"}
      BY <2>1 DEF IInv, StageInv, Stage
    <2>5. AfterRename(p) = "restart" => Op(p) = "batch"
      BY <2>4 DEF AfterRename, Reapplies
    <2> QED  BY <2>1, <2>2, <2>3, <2>4, <2>5 DEF Sound, Advances, At, Op
  <1>16. CASE Write(p)
    <2>1. Restarts(p) /\ Goto(p, "restart") /\ UNCHANGED running
      BY <1>2, <1>16 DEF Write, Written
    <2>2. Advances(p, "restart") /\ Sound(p)
      BY <1>5, <2>1
    <2>3. At(p, "write") /\ \E x \in Outcomes(New(p)) : Put(x)
      BY <1>16, <2>2 DEF Write, Sound
    <2>4. file' = New(p)
      BY <2>2, <2>3 DEF Sound, Outcomes, Put
    <2>5. Op(p) # "replace"
      BY <2>1 DEF Restarts, RoutingOps, TakeoverOps
    <2>6. handler[p].seen \in Configs
      BY <2>3, <2>5 DEF IInv, StageInv, Stage, At
    <2>7. Startable(handler[p].seen)
      BY <1>6, <2>2, <2>6 DEF Sound
    <2>8. handler[p].req \in AllRequests /\ Tag(p) \in Tags
      BY <1>1, RequestFacts
    <2>9. CASE Op(p) \in {"system", "scan"}
      <3>1. New(p) = handler[p].seen
        BY <2>6, <2>8, <2>9, EditOps DEF New, Op
      <3> QED  BY <2>1, <2>2, <2>3, <2>4, <2>6, <2>7, <3>1 DEF Sound, Advances, At, Readable
    <2>10. CASE Op(p) = "remove"
      <3>1. New(p) = RemoveInbound(handler[p].seen, Tag(p))
        BY <2>6, <2>8, <2>10, EditOps DEF New, Op, Tag
      <3>2. Startable(New(p))
        BY <2>6, <2>7, <2>8, <3>1, RemoveStartable
      <3>3. New(p) \in Configs
        BY <1>1, <2>6, NewType
      <3> QED  BY <2>1, <2>2, <2>3, <2>4, <3>2, <3>3 DEF Sound, Advances, At, Readable
    <2>11. CASE Op(p) \in RoutingOps \cup {"batch"} \cup TakeoverOps
      BY <2>1, <2>2, <2>3, <2>11 DEF Sound, Advances, At, Op
    <2> QED  BY <2>1, <2>9, <2>10, <2>11 DEF Restarts
  <1>17. CASE \E ok \in BOOLEAN : Restart(p, ok)
    <2>1. Goto(p, "rollback")
      BY <1>3, <1>17 DEF Restart, Restarted
    <2>2. Advances(p, "rollback") /\ Sound(p)
      BY <1>5, <2>1
    <2> QED  BY <2>2 DEF Sound, Advances, At
  <1> QED
    BY <1>7, <1>8, <1>9, <1>10, <1>11, <1>12, <1>13, <1>14, <1>15, <1>16, <1>17 DEF Step

LEMMA SurvivalKeeps ==
    ASSUME IInv, SurvivalInv, [Next]_vars
    PROVE  SurvivalInv'
  <1>1. ASSUME NEW q \in Handlers, Step(q) PROVE SurvivalInv'
    <2>1. RunsInv'
      BY <1>1, RunningRules DEF SurvivalInv
    <2>2. UNCHANGED <<embedded, raced>> /\ ~At(q, "idle")
      <3>1. UNCHANGED embedded
        BY <1>1 DEF Step, Apply, ApplyFailed, RemoveFailed, RuntimeRemove, ReadOnly, Read,
               Truncate, Write, Written, Rename, Restore, Reapply, Reapplied, Restart,
               Restarted, RestartAgain, Answer, Finish, Goto
      <3> QED  BY <1>1, <3>1, RollbackSteps
    <2>3. faults' = 0 => faults = 0
      <3>1. Obeyed \/ Refused
        BY <1>1 DEF Step, Apply, ApplyFailed, RemoveFailed, RuntimeRemove, ReadOnly, Read,
               Truncate, Write, Rename, Restore, Reapply, Restart, RestartAgain, RestartXray,
               XrayStarts, XrayFails, Obeyed
      <3>2. faults \in Nat
        BY DEF IInv, TypeOK
      <3> QED  BY <3>1, <3>2 DEF Obeyed, Refused
    <2>4. ASSUME embedded, ~raced, faults = 0, NEW p \in Handlers,
                 ~At(p, "idle")', handler'[p].agreed
          PROVE  Sound(p)'
      <3>1. CASE p = q
        BY <1>1, <2>4, <3>1, SoundStep
      <3>2. CASE p # q
        <4>1. At(p, "idle")
          BY <2>2, <2>4, <3>2 DEF IInv, AloneInv
        <4>2. At(p, "idle")'
          BY <1>1, <3>2, <4>1, OthersWriteNothing DEF At
        <4> QED  BY <2>4, <4>2
      <3> QED  BY <3>1, <3>2
    <2> QED  BY <2>1, <2>2, <2>3, <2>4 DEF SurvivalInv
  <1>2. ASSUME NEW q \in Handlers, NEW r \in Requests, Begin(q, r) PROVE SurvivalInv'
    <2>1. UNCHANGED <<embedded, file, running, faults>> /\ RunsInv'
      BY <1>2 DEF Begin, SurvivalInv, RunsInv
    <2>2. ASSUME embedded, ~raced', NEW p \in Handlers, ~At(p, "idle")', handler'[p].agreed
          PROVE  Sound(p)'
      <3> DEFINE new == [at |-> FirstStep(r.op), req |-> r, seen |-> None, err |-> FALSE,
                         agreed |-> Busy = {} /\ running = file]
      <3>1. Busy = {} /\ handler' = [handler EXCEPT ![q] = new]
        BY <1>2, <2>2 DEF Begin
      <3>2. new.at = FirstStep(r.op) /\ new.seen = None /\ new.req = r
            /\ (new.agreed => running = file)
        OBVIOUS
      <3> HIDE DEF new
      <3>3. p = q
        <4>1. At(p, "idle")
          BY <3>1 DEF Busy
        <4> QED  BY <2>2, <3>1, <4>1 DEF At, IInv, TypeOK
      <3>4. handler'[p] = new
        BY <3>1, <3>3 DEF IInv, TypeOK
      <3>5. /\ FirstStep(r.op) \in {"api", "truncate", "restart", "read"}
        BY DEF FirstStep
      <3>6. running = file
        BY <2>2, <3>2, <3>4
      <3>7. running # None /\ Readable
        BY <3>6, NoneIsNew DEF IInv, TypeOK, Readable
      <3>8. Startable(file)
        BY <2>2, <3>6, <3>7 DEF SurvivalInv, RunsInv
      <3> QED  BY <2>1, <3>2, <3>4, <3>5, <3>7, <3>8 DEF Sound, At, Readable
    <2> QED  BY <2>1, <2>2 DEF SurvivalInv
  <1>3. CASE UNCHANGED vars
    BY <1>3 DEF vars, SurvivalInv, RunsInv, Sound, At, Op, Readable
  <1> QED  BY <1>1, <1>2, <1>3 DEF Next

\* A request that was alone, and began when an embedded Xray ran with the file,
\* leaves it running, unless it is a takeover.
LEMMA Survives ==
    ASSUME IInv, RollbackInv, SurvivalInv, NEW p \in Handlers, Step(p),
           handler'[p] = Idle, handler[p].agreed, ~raced, faults = 0, UNCHANGED faults,
           embedded, Op(p) \notin TakeoverOps
    PROVE  running' # None
  <1>1. ~At(p, "idle") /\ HandlerType
    <2>1. ~At(p, "idle")
      BY RollbackSteps
    <2> QED  BY <2>1, RequestFacts
  <1>2. Sound(p)
    BY <1>1 DEF SurvivalInv
  <1>3. None \notin Configs /\ Idle.at = "idle"
    BY NoneIsNew, IdleFacts
  <1>4. ASSUME NEW at, at # "idle", Goto(p, at) PROVE FALSE
    <2>1. handler'[p].at = at
      BY <1>1, <1>4 DEF Goto, HandlerType
    <2> QED  BY <1>3, <1>4, <2>1
  <1>5. ~Refused
    BY DEF Refused, IInv, TypeOK
  <1>6. CASE UNCHANGED running /\ handler[p].at \notin {"rollback", "restore", "rerestart"}
    BY <1>2, <1>6 DEF Sound
  <1>7. ~Apply(p) /\ ~Truncate(p) /\ ~Restore(p)
    BY <1>4 DEF Apply, Truncate, Restore
  <1>8. \A err \in BOOLEAN : ~RuntimeRemove(p, err)
    <2> SUFFICES ASSUME NEW err \in BOOLEAN, RuntimeRemove(p, err) PROVE FALSE
      OBVIOUS
    <2>1. handler' = [handler EXCEPT ![p].at = "read", ![p].err = err]
      BY DEF RuntimeRemove
    <2>2. handler'[p].at = "read"
      BY <1>1, <2>1 DEF HandlerType
    <2> QED  BY <1>3, <2>2
  <1>9. ~Read(p)
    <2> SUFFICES ASSUME Read(p) PROVE FALSE
      OBVIOUS
    <2>1. handler'[p].at \in {"rename", "truncate"}
      BY <1>1 DEF Read, HandlerType
    <2> QED  BY <1>3, <2>1
  <1>10. CASE ApplyFailed(p)
    BY <1>5, <1>6, <1>10 DEF ApplyFailed, At
  <1>11. CASE RemoveFailed(p) \/ ReadOnly(p) \/ Rename(p)
    BY <1>6, <1>11 DEF RemoveFailed, ReadOnly, Rename, At
  <1>12. CASE Write(p)
    BY <1>6, <1>12 DEF Write, At
  <1>13. CASE Reapply(p)
    <2>1. At(p, "reapply") /\ (UNCHANGED running \/ Reachable(p))
      BY <1>13 DEF Reapply
    <2>2. CASE UNCHANGED running
      BY <1>6, <2>1, <2>2 DEF At
    <2>3. CASE Reachable(p) /\ running' = WithClients(running, Tag(p), New(p).clients[Tag(p)])
      <3> DEFINE set == New(p).clients[Tag(p)]
      <3>1. running \in Configs /\ handler[p].seen \in Configs
        BY <2>1, <2>3, ReachableType DEF IInv, StageInv, Stage, At
      <3>2. New(p) \in Configs /\ Tag(p) \in Tags
        BY <1>1, <3>1, NewType, RequestFacts
      <3>3. set \in {None} \cup SUBSET Clients
        BY <3>2 DEF Configs
      <3>4. running' = WithClients(running, Tag(p), set)
        BY <2>3
      <3> HIDE DEF set
      <3>5. running' \in Configs
        BY <3>1, <3>2, <3>3, <3>4, WithClientsType
      <3> QED  BY <1>3, <3>5
    <2> QED  BY <1>5, <1>13, <2>2, <2>3 DEF Reapply
  <1>14. ASSUME NEW ok \in BOOLEAN, RestartXray(ok), Readable, Startable(file)
         PROVE  running' = file /\ file \in Configs
    BY <1>5, <1>14 DEF RestartXray, XrayStarts, XrayFails, Readable
  <1>15. ASSUME NEW ok \in BOOLEAN, Restart(p, ok) PROVE running' # None
    <2>1. At(p, "restart") /\ RestartXray(ok) /\ Restarted(p, ok)
      BY <1>15 DEF Restart
    <2>2. CASE Readable /\ Startable(file)
      BY <1>3, <1>14, <2>1, <2>2
    <2>3. CASE Op(p) \in RoutingOps \cup {"batch"}
      <3>1. ok \/ Goto(p, "rollback")
        BY <2>1, <2>3 DEF Restarted, RoutingOps, TakeoverOps
      <3>2. ok
        BY <1>4, <3>1
      <3>3. XrayStarts
        BY <2>1, <3>2 DEF RestartXray, XrayFails
      <3> QED  BY <1>3, <3>3 DEF XrayStarts, Readable
    <2> QED  BY <1>2, <2>1, <2>2, <2>3 DEF Sound
  <1>16. ASSUME NEW ok \in BOOLEAN, RestartAgain(p, ok) PROVE running' # None
    <2>1. At(p, "rerestart") /\ RestartXray(ok)
      BY <1>16 DEF RestartAgain
    <2>2. handler[p].seen \in Configs
      BY <2>1 DEF IInv, StageInv, Stage, At
    <2>3. file = handler[p].seen
      BY <2>1 DEF RollbackInv
    <2>4. Readable /\ Startable(file)
      BY <1>2, <1>3, <2>2, <2>3 DEF Sound, Readable
    <2> QED  BY <1>3, <1>14, <2>1, <2>4
  <1> QED
    BY <1>7, <1>8, <1>9, <1>10, <1>11, <1>12, <1>13, <1>15, <1>16 DEF Step

\* A bad change does not take the agent down: a request that meets no other and
\* an Xray that does all it should leaves an embedded Xray running.
THEOREM BadChangesAreSurvived == Spec => BadChangeSurvived
  <1> DEFINE Survived == \A p \in Handlers :
          Answered(p) /\ Undisturbed(p) /\ faults' = 0 /\ embedded =>
              running' # None \/ Op(p) \in TakeoverOps
  <1>1. Init => SurvivalInv
    BY IdleFacts, InitialStarts DEF Init, SurvivalInv, RunsInv, At
  <1>2. Spec => []SurvivalInv
    BY <1>1, SurvivalKeeps, Invariance, PTL DEF Spec
  <1>3. Spec => []RollbackInv
    <2>1. Init => RollbackInv
      BY IdleFacts DEF Init, RollbackInv, At
    <2> QED  BY <2>1, RollbackKeeps, Invariance, PTL DEF Spec
  <1>4. IInv /\ RollbackInv /\ SurvivalInv /\ [Next]_vars => Survived
    <2> SUFFICES ASSUME IInv, RollbackInv, SurvivalInv, [Next]_vars, NEW p \in Handlers,
                        Answered(p), Undisturbed(p), faults' = 0, embedded,
                        Op(p) \notin TakeoverOps
                 PROVE  running' # None
      OBVIOUS
    <2>1. ~At(p, "idle") /\ handler'[p] = Idle /\ handler[p].agreed /\ ~raced
      BY DEF Answered, Undisturbed
    <2>2. Step(p)
      BY <2>1, AnswersOwn
    <2>3. faults = 0
      <3>1. Obeyed \/ Refused
        BY <2>2 DEF Step, Apply, ApplyFailed, RemoveFailed, RuntimeRemove, ReadOnly, Read,
               Truncate, Write, Rename, Restore, Reapply, Restart, RestartAgain, RestartXray,
               XrayStarts, XrayFails, Obeyed
      <3>2. faults \in Nat
        BY DEF IInv, TypeOK
      <3> QED  BY <3>1, <3>2 DEF Obeyed, Refused
    <2> QED  BY <2>1, <2>2, <2>3, Survives
  <1>5. [][IInv /\ RollbackInv /\ SurvivalInv /\ [Next]_vars => Survived]_vars
    BY <1>4, PTL
  <1> QED  BY <1>2, <1>3, <1>5, Invariance, PTL DEF Spec, BadChangeSurvived

-----------------------------------------------------------------------------
(***************************************************************************)
(* A plain "ok" is in effect                                               *)
(***************************************************************************)
\* What Xray runs with when p has read or is about to read cfg: the API comes
\* first in some requests.
RunsWith(p, cfg) ==
    /\ Op(p) \in {"add"} \cup OutboundOps => running = Edit(handler[p].req, cfg)
    /\ Op(p) = "remove" /\ ~handler[p].err => running = WithClients(cfg, Tag(p), None)
    /\ Op(p) \notin {"add", "remove"} \cup OutboundOps => running = cfg

\* How Xray and the file are related while a goroutine is at work that began
\* when they were the same, and is alone
Exact(p) ==
    /\ ~At(p, "unlinked")
    /\ handler[p].at \in {"api", "read"} => Readable
    /\ At(p, "api") => running = file
    /\ At(p, "read") => RunsWith(p, file)
    /\ handler[p].at \in {"truncate", "write"} =>
           /\ Op(p) \notin ClientOps \cup {"batch"}
           /\ Op(p) # "replace" => RunsWith(p, handler[p].seen)
    /\ At(p, "write") => file = Empty
    /\ handler[p].at \in {"rename", "reapply"} =>
           Op(p) \in ClientOps \cup {"batch"} /\ running = handler[p].seen
    /\ At(p, "reapply") => file = New(p)
    /\ At(p, "restart") /\ Op(p) \in {"system", "scan"} => running = file

ExactInv ==
    ~raced => \A p \in Handlers : ~At(p, "idle") /\ handler[p].agreed => Exact(p)

\* A request for the clients of an inbound changes only these, and a batch the
\* rules as well.
LEMMA ClientEdit ==
    ASSUME NEW r \in AllRequests, r.op \in ClientOps \cup {"batch"}, NEW cfg \in Configs,
           r.op = "remove-client" => cfg.clients[r.tag] # None,
           Edit(r, cfg).rules = cfg.rules \/ r.op \in ClientOps
    PROVE  Edit(r, cfg) = WithClients(cfg, r.tag, Edit(r, cfg).clients[r.tag])
  <1>1. /\ r.tag \in Tags /\ r.client \in Clients /\ r.mark \in Marks /\ r.user \in Emails
    BY DEF AllRequests
  <1>2. /\ cfg = [clients |-> cfg.clients, outs |-> cfg.outs, rules |-> cfg.rules]
        /\ cfg.clients \in [Tags -> {None} \cup SUBSET Clients]
    BY DEF Configs
  <1>3. ASSUME NEW set
        PROVE  WithClients(cfg, r.tag, set) =
                   [clients |-> [cfg.clients EXCEPT ![r.tag] = set],
                    outs |-> cfg.outs, rules |-> cfg.rules]
    BY <1>2 DEF WithClients
  <1>3a. ASSUME NEW set
        PROVE  /\ WithClients(cfg, r.tag, set).clients = [cfg.clients EXCEPT ![r.tag] = set]
               /\ WithClients(cfg, r.tag, set).outs = cfg.outs
    BY DEF WithClients, Configs
  <1>4. [cfg.clients EXCEPT ![r.tag] = cfg.clients[r.tag]] = cfg.clients
    BY <1>1, <1>2
  <1>5. cfg = WithClients(cfg, r.tag, cfg.clients[r.tag])
    BY <1>2, <1>3, <1>4
  <1>6. ASSUME NEW set PROVE WithClients(cfg, r.tag, set).clients[r.tag] = set
    <2>1. [cfg.clients EXCEPT ![r.tag] = set][r.tag] = set
      BY <1>1, <1>2
    <2> QED  BY <1>3a, <2>1
  <1> DEFINE more == AddClient(cfg, r.tag, r.client)
  <1>7. more = WithClients(cfg, r.tag, more.clients[r.tag])
    <2>1. CASE cfg.clients[r.tag] = None
      BY <1>5, <2>1 DEF AddClient
    <2>2. CASE cfg.clients[r.tag] # None
      <3> DEFINE set == cfg.clients[r.tag] \cup {r.client}
      <3>1. more = WithClients(cfg, r.tag, set)
        BY <2>2 DEF AddClient
      <3> HIDE DEF set, more
      <3> QED  BY <1>6, <3>1
    <2> QED  BY <2>1, <2>2
  <1>8. CASE r.op = "add-client"
    BY <1>7, <1>8, EditOps
  <1>9. CASE r.op = "remove-client"
    <2> DEFINE set == cfg.clients[r.tag] \ {r.client}
    <2>1. Edit(r, cfg) = WithClients(cfg, r.tag, set)
      BY <1>9, EditOps DEF RemoveClient
    <2> HIDE DEF set
    <2> QED  BY <1>6, <2>1
  <1>10. CASE r.op = "exclude"
    <2>1. Edit(r, cfg) = cfg
      BY <1>10, EditOps
    <2> QED  BY <1>5, <2>1
  <1>11. CASE r.op = "batch"
    <2> DEFINE new == Edit(r, cfg)
    <2>1. more \in Configs /\ more.outs = cfg.outs /\ more.clients \in [Tags -> {None} \cup SUBSET Clients]
      <3>1. more \in Configs
        BY <1>1, AddClientType
      <3>2. more.outs = cfg.outs
        <4> DEFINE set == more.clients[r.tag]
        <4>1. more = WithClients(cfg, r.tag, set)
          BY <1>7
        <4> HIDE DEF set, more
        <4> QED  BY <1>3a, <4>1
      <3> HIDE DEF more
      <3> QED  BY <3>1, <3>2 DEF Configs
    <2>2. new = WithUsers(more, r.mark, {r.user}, {})
      BY <1>11, EditOps DEF AddUser
    <2>3. new \in Configs /\ new.clients = more.clients
      <3> HIDE DEF more, new
      <3> QED  BY <1>1, <2>1, <2>2, WithUsersType
    <2>4. new.outs = more.outs
      <3> HIDE DEF more
      <3>1. CASE WithMark(more.rules, r.mark) = {}
        BY <2>2, <3>1 DEF WithUsers
      <3>2. CASE WithMark(more.rules, r.mark) # {}
        <4>1. \E rules : new = [more EXCEPT !.rules = rules]
          BY <2>2, <3>2 DEF WithUsers
        <4> HIDE DEF new
        <4> QED  BY <2>1, <4>1 DEF Configs
      <3> QED  BY <3>1, <3>2
    <2>5. new.rules = cfg.rules
      BY <1>11 DEF ClientOps
    <2>6. new = [clients |-> more.clients, outs |-> cfg.outs, rules |-> cfg.rules]
      <3> HIDE DEF more, new
      <3> QED  BY <2>1, <2>3, <2>4, <2>5 DEF Configs
    <2>7. more.clients = [cfg.clients EXCEPT ![r.tag] = more.clients[r.tag]]
      <3> DEFINE set == more.clients[r.tag]
      <3>1. more = WithClients(cfg, r.tag, set)
        BY <1>7
      <3> HIDE DEF more, set
      <3>2. more.clients = [cfg.clients EXCEPT ![r.tag] = set]
        BY <1>3a, <3>1
      <3> QED  BY <3>2 DEF set
    <2> HIDE DEF more, new
    <2>8. new = WithClients(cfg, r.tag, new.clients[r.tag])
      BY <1>3, <2>3, <2>6, <2>7
    <2> QED  BY <2>8 DEF new
  <1> QED  BY <1>8, <1>9, <1>10, <1>11 DEF ClientOps

\* Removing an inbound that no rule refers to changes only the clients.
LEMMA RemoveEdit ==
    ASSUME NEW cfg \in Configs, NEW t \in Tags, RemoveInbound(cfg, t).rules = cfg.rules
    PROVE  RemoveInbound(cfg, t) = WithClients(cfg, t, None)
  <1> DEFINE rules == Narrowed(cfg.rules, t)
             mid == WithClients(cfg, t, None)
  <1>1. mid \in Configs /\ mid.rules = cfg.rules
    BY WithClientsType
  <1>2. RemoveInbound(cfg, t) = [mid EXCEPT !.rules = rules]
    BY DEF RemoveInbound
  <1> HIDE DEF rules, mid
  <1>3. [mid EXCEPT !.rules = rules].rules = rules
    BY <1>1 DEF Configs
  <1>4. rules = mid.rules
    BY <1>1, <1>2, <1>3
  <1>5. [mid EXCEPT !.rules = mid.rules] = mid
    BY <1>1 DEF Configs
  <1> QED  BY <1>2, <1>4, <1>5 DEF mid

LEMMA ExactStep ==
    ASSUME IInv, ExactInv, NEW p \in Handlers, Step(p), ~raced, handler'[p].agreed
    PROVE  Exact(p)'
  <1>1. ~At(p, "idle") /\ HandlerType
    <2>1. ~At(p, "idle")
      BY RollbackSteps
    <2> QED  BY <2>1, RequestFacts
  <1>2. ASSUME NEW status, Finish(p, status) PROVE FALSE
    <2>1. handler'[p] = Idle
      BY <1>1, <1>2 DEF Finish, HandlerType
    <2> QED  BY <2>1, IdleAgreesNot
  <1>3. ASSUME NEW status, NEW cfg, Answer(p, status, cfg) PROVE FALSE
    BY <1>2, <1>3 DEF Answer
  <1>4. ASSUME handler[p].agreed PROVE Exact(p)
    BY <1>1, <1>4 DEF ExactInv
  <1>5. ASSUME NEW at, Goto(p, at)
        PROVE  Advances(p, at) /\ handler'[p].err = handler[p].err /\ Exact(p)
    <2>1. Advances(p, at)
      BY <1>1, <1>5, GotoAdvances
    <2>2. handler'[p].err = handler[p].err
      BY <1>1, <1>5 DEF Goto, HandlerType
    <2> QED  BY <1>4, <2>1, <2>2 DEF Advances
  <1>6. ~ApplyFailed(p) /\ ~RemoveFailed(p) /\ ~ReadOnly(p)
    BY <1>2, <1>3 DEF ApplyFailed, RemoveFailed, ReadOnly
  <1>7. ASSUME NEW ok \in BOOLEAN, RestartAgain(p, ok) PROVE FALSE
    BY <1>3, <1>7 DEF RestartAgain
  <1>8. handler[p].req \in AllRequests /\ Tag(p) \in Tags
    BY <1>1, RequestFacts
  <1>9. CASE Apply(p)
    <2>1. /\ Goto(p, "read") /\ At(p, "api") /\ UNCHANGED file /\ Op(p) # "remove"
          /\ running' = Edit(handler[p].req, running)
      BY <1>9 DEF Apply
    <2>2. Advances(p, "read") /\ Exact(p)
      BY <1>5, <2>1
    <2>3. Op(p) \in {"add"} \cup OutboundOps
      BY <2>1 DEF IInv, StageInv, Stage
    <2>4. running = file /\ Readable
      BY <2>1, <2>2 DEF Exact, At
    <2>5. RunsWith(p, file)'
      BY <2>1, <2>2, <2>3, <2>4 DEF RunsWith, Advances, Op
    <2> QED  BY <2>1, <2>2, <2>4, <2>5 DEF Exact, Advances, At, Readable
  <1>10. CASE \E err \in BOOLEAN : RuntimeRemove(p, err)
    <2>1. PICK err \in BOOLEAN : RuntimeRemove(p, err)
      BY <1>10
    <2>2. /\ At(p, "api") /\ UNCHANGED file /\ Op(p) = "remove"
          /\ handler' = [handler EXCEPT ![p].at = "read", ![p].err = err]
          /\ ~err => running' = Without(p)
      BY <2>1 DEF RuntimeRemove
    <2>3. Advances(p, "read") /\ handler'[p].err = err
      BY <1>1, <2>2 DEF Advances, HandlerType
    <2>4. running = file /\ Readable
      BY <1>4, <2>2, <2>3 DEF Exact, At, Advances
    <2>5. ~err => running' = WithClients(file, Tag(p), None)
      BY <2>2, <2>4 DEF Without
    <2>6. RunsWith(p, file)'
      BY <2>2, <2>3, <2>5 DEF RunsWith, Advances, Op, Tag, OutboundOps
    <2> QED  BY <2>2, <2>3, <2>4, <2>6 DEF Exact, Advances, At, Readable
  <1>11. CASE Read(p)
    <2>1. /\ At(p, "read") /\ UNCHANGED <<file, running>>
          /\ handler'[p].seen = file /\ handler'[p].req = handler[p].req
          /\ handler'[p].at = IF Op(p) \in ClientOps \cup {"batch"} THEN "rename" ELSE "truncate"
          /\ handler'[p].agreed = handler[p].agreed /\ handler'[p].err = handler[p].err
      BY <1>1, <1>11 DEF Read, HandlerType
    <2>2. RunsWith(p, file)
      BY <1>4, <2>1 DEF Exact
    <2>3. CASE Op(p) \in ClientOps \cup {"batch"}
      <3>1. running = file
        BY <2>2, <2>3 DEF RunsWith, ClientOps, OutboundOps
      <3> QED  BY <2>1, <2>3, <3>1 DEF Exact, At, Op
    <2>4. CASE Op(p) \notin ClientOps \cup {"batch"}
      <3>1. RunsWith(p, file)'
        BY <2>1, <2>2 DEF RunsWith, Op, Tag
      <3>2. RunsWith(p, handler[p].seen)'
        BY <2>1, <3>1 DEF RunsWith
      <3> QED  BY <2>1, <2>4, <3>2 DEF Exact, At, Op
    <2> QED  BY <2>3, <2>4
  <1>12. CASE Truncate(p)
    <2>1. UNCHANGED running
      BY <1>12 DEF Truncate
    <2>2. CASE At(p, "truncate") /\ Goto(p, "write") /\ Put(Empty)
      <3>1. /\ Advances(p, "write") /\ handler'[p].err = handler[p].err /\ Exact(p)
            /\ file' = Empty
        BY <1>5, <2>2 DEF Put
      <3>2. ASSUME Op(p) # "replace" PROVE RunsWith(p, handler[p].seen)'
        <4>1. RunsWith(p, handler[p].seen)
          BY <2>2, <3>1, <3>2 DEF Exact, At
        <4> QED  BY <2>1, <3>1, <4>1 DEF RunsWith, Advances, Op, Tag
      <3>3. Op(p) \notin ClientOps \cup {"batch"} /\ Op(p)' = Op(p)
        BY <2>2, <3>1 DEF Exact, At, Advances, Op
      <3> QED  BY <3>1, <3>2, <3>3 DEF Exact, Advances, At
    <2>3. CASE At(p, "rollback") /\ Goto(p, "restore")
      <3>1. Advances(p, "restore")
        BY <1>5, <2>3
      <3> QED  BY <3>1 DEF Exact, Advances, At
    <2> QED  BY <1>12, <2>2, <2>3 DEF Truncate
  <1>13. CASE Restore(p)
    <2>1. Advances(p, "rerestart")
      BY <1>5, <1>13 DEF Restore
    <2> QED  BY <2>1 DEF Exact, Advances, At
  <1>14. CASE Reapply(p)
    <2>1. At(p, "reapply")
      BY <1>14 DEF Reapply
    <2>2. Reapplied(p, "ok") \/ Reapplied(p, "warned")
      BY <1>14 DEF Reapply
    <2>3. Goto(p, "restart")
      BY <1>3, <2>2 DEF Reapplied
    <2>4. Advances(p, "restart") /\ Exact(p)
      BY <1>5, <2>3
    <2>5. Op(p) \in ClientOps \cup {"batch"}
      BY <2>1, <2>4 DEF Exact, At
    <2> QED  BY <2>4, <2>5 DEF Exact, Advances, At, Op, ClientOps
  <1>15. CASE Rename(p)
    <2>1. /\ At(p, "rename") /\ UNCHANGED running /\ Put(New(p))
          /\ AfterRename(p) = "idle" => handler'[p] = Idle
          /\ AfterRename(p) # "idle" => Advances(p, AfterRename(p))
      BY <1>1, <1>15 DEF Rename, HandlerType, Advances
    <2>2. AfterRename(p) \in {"reapply", "restart"} /\ Advances(p, AfterRename(p))
      BY <2>1, IdleAgreesNot DEF AfterRename
    <2>3. Op(p) \in ClientOps \cup {"batch"} /\ running = handler[p].seen
      BY <1>4, <2>1, <2>2 DEF Advances, Exact, At
    <2>4. file' = New(p)
      BY <2>1 DEF Put
    <2>5. New(p)' = New(p) /\ Op(p)' = Op(p)
      BY <2>2 DEF New, Advances, Op
    <2> QED  BY <2>1, <2>2, <2>3, <2>4, <2>5 DEF Exact, Advances, At, ClientOps
  <1>16. CASE Write(p)
    <2>1. Goto(p, "restart") /\ UNCHANGED running
      BY <1>2, <1>16 DEF Write, Written
    <2>2. Advances(p, "restart") /\ Exact(p)
      BY <1>5, <2>1
    <2>3. At(p, "write") /\ \E x \in Outcomes(New(p)) : Put(x)
      BY <1>16, <2>2 DEF Write, Exact
    <2>4. file' = New(p)
      BY <2>2, <2>3 DEF Exact, Outcomes, Put
    <2>5. ASSUME Op(p) \in {"system", "scan"} PROVE running = New(p)
      <3>1. RunsWith(p, handler[p].seen)
        BY <2>2, <2>3, <2>5 DEF Exact, At
      <3>2. running = handler[p].seen
        BY <2>5, <3>1 DEF RunsWith, OutboundOps
      <3>3. handler[p].seen \in Configs
        BY <2>3, <2>5 DEF IInv, StageInv, Stage, At
      <3>4. New(p) = handler[p].seen
        BY <1>8, <2>5, <3>3, EditOps DEF New, Op
      <3> QED  BY <3>2, <3>4
    <2> QED  BY <2>1, <2>2, <2>4, <2>5 DEF Exact, Advances, At, Op
  <1>17. CASE \E ok \in BOOLEAN : Restart(p, ok)
    <2>1. Goto(p, "rollback")
      BY <1>3, <1>17 DEF Restart, Restarted
    <2>2. Advances(p, "rollback")
      BY <1>5, <2>1
    <2> QED  BY <2>2 DEF Exact, Advances, At
  <1> QED
    BY <1>6, <1>7, <1>9, <1>10, <1>11, <1>12, <1>13, <1>14, <1>15, <1>16, <1>17 DEF Step

LEMMA ExactKeeps ==
    ASSUME IInv, ExactInv, [Next]_vars
    PROVE  ExactInv'
  <1>1. ASSUME NEW q \in Handlers, Step(q) PROVE ExactInv'
    <2>1. UNCHANGED raced /\ ~At(q, "idle")
      BY <1>1, RollbackSteps
    <2>2. ASSUME ~raced, NEW p \in Handlers, ~At(p, "idle")', handler'[p].agreed
          PROVE  Exact(p)'
      <3>1. CASE p = q
        BY <1>1, <2>2, <3>1, ExactStep
      <3>2. CASE p # q
        <4>1. At(p, "idle")
          BY <2>1, <2>2, <3>2 DEF IInv, AloneInv
        <4>2. At(p, "idle")'
          BY <1>1, <3>2, <4>1, OthersWriteNothing DEF At
        <4> QED  BY <2>2, <4>2
      <3> QED  BY <3>1, <3>2
    <2> QED  BY <2>1, <2>2 DEF ExactInv
  <1>2. ASSUME NEW q \in Handlers, NEW r \in Requests, Begin(q, r) PROVE ExactInv'
    <2>1. UNCHANGED <<file, running>>
      BY <1>2 DEF Begin
    <2>2. ASSUME ~raced', NEW p \in Handlers, ~At(p, "idle")', handler'[p].agreed
          PROVE  Exact(p)'
      <3> DEFINE new == [at |-> FirstStep(r.op), req |-> r, seen |-> None, err |-> FALSE,
                         agreed |-> Busy = {} /\ running = file]
      <3>1. Busy = {} /\ handler' = [handler EXCEPT ![q] = new]
        BY <1>2, <2>2 DEF Begin
      <3>2. new.at = FirstStep(r.op) /\ new.seen = None /\ new.req = r
            /\ (new.agreed => running = file)
        OBVIOUS
      <3> HIDE DEF new
      <3>3. p = q
        <4>1. At(p, "idle")
          BY <3>1 DEF Busy
        <4> QED  BY <2>2, <3>1, <4>1 DEF At, IInv, TypeOK
      <3>4. handler'[p] = new
        BY <3>1, <3>3 DEF IInv, TypeOK
      <3>5. running = file
        BY <2>2, <3>2, <3>4
      <3>6. running \in Configs /\ Readable
        BY <3>5, NoneIsNew DEF IInv, TypeOK, Readable
      <3>7. Op(p)' = r.op
        BY <3>2, <3>4 DEF Op
      <3>8. CASE r.op \in {"add", "remove"} \cup OutboundOps
        <4>1. FirstStep(r.op) = "api"
          BY <3>8 DEF FirstStep, OutboundOps
        <4> QED  BY <2>1, <3>2, <3>4, <3>5, <3>6, <4>1 DEF Exact, At, Readable
      <3>9. CASE r.op = "replace"
        <4>1. FirstStep(r.op) = "truncate"
          BY <3>9 DEF FirstStep, OutboundOps
        <4> QED  BY <3>2, <3>4, <3>7, <3>9, <4>1 DEF Exact, At, ClientOps
      <3>10. CASE r.op = "restart"
        <4>1. FirstStep(r.op) = "restart"
          BY <3>10 DEF FirstStep, OutboundOps
        <4> QED  BY <3>2, <3>4, <3>7, <3>10, <4>1 DEF Exact, At
      <3>11. CASE r.op \notin {"add", "remove", "replace", "restart"} \cup OutboundOps
        <4>1. FirstStep(r.op) = "read"
          BY <3>11 DEF FirstStep
        <4>2. RunsWith(p, file)'
          BY <2>1, <3>5, <3>7, <3>11 DEF RunsWith
        <4> QED  BY <2>1, <3>2, <3>4, <3>6, <4>1, <4>2 DEF Exact, At, Readable
      <3> QED  BY <3>8, <3>9, <3>10, <3>11
    <2> QED  BY <2>2 DEF ExactInv
  <1>3. CASE UNCHANGED vars
    BY <1>3 DEF vars, ExactInv, Exact, RunsWith, New, At, Op, Tag, Readable
  <1> QED  BY <1>1, <1>2, <1>3 DEF Next

\* What p wrote is what Xray runs with already, when it need not be restarted.
LEMMA WrittenIsRunning ==
    ASSUME IInv, NEW p \in Handlers, At(p, "write"), Exact(p), ~Restarts(p), ~Deferred(p)
    PROVE  New(p) = running
  <1>1. ~At(p, "idle") /\ Op(p) # "replace" /\ Op(p) \notin RoutingOps
    BY DEF At, Deferred
  <1>2. RunsWith(p, handler[p].seen) /\ Op(p) \notin ClientOps \cup {"batch"}
    BY <1>1 DEF Exact, At
  <1>3. handler[p].seen \in Configs
    BY <1>1 DEF IInv, StageInv, Stage, At
  <1>4. handler[p].req \in AllRequests /\ Tag(p) \in Tags
    BY <1>1, RequestFacts
  <1>5. CASE Op(p) \in {"add"} \cup OutboundOps
    BY <1>2, <1>5 DEF RunsWith, New
  <1>6. CASE Op(p) = "remove"
    <2>1. New(p) = RemoveInbound(handler[p].seen, Tag(p))
      BY <1>3, <1>4, <1>6, EditOps DEF New, Op, Tag
    <2>2. ~handler[p].err /\ New(p).rules = handler[p].seen.rules
      BY <1>6 DEF Restarts, RoutingChanged, New
    <2>3. New(p) = WithClients(handler[p].seen, Tag(p), None)
      BY <1>3, <1>4, <2>1, <2>2, RemoveEdit
    <2> QED  BY <1>2, <1>6, <2>2, <2>3 DEF RunsWith
  <1>7. CASE Op(p) \in {"reorder", "promote", "restart"}
    <2>1. New(p) = handler[p].seen
      BY <1>3, <1>4, <1>7, EditOps DEF New, Op
    <2> QED  BY <1>2, <1>7, <2>1 DEF RunsWith, OutboundOps
  <1>8. Op(p) \notin {"system", "scan"} \cup TakeoverOps
    BY DEF Restarts
  <1>9. Op(p) \in LockedOps \cup UnlockedOps
    BY <1>1, RequestFacts
  <1> QED
    BY <1>1, <1>2, <1>5, <1>6, <1>7, <1>8, <1>9 DEF LockedOps, UnlockedOps

\* So it is with what it put in the place of the file.
LEMMA ReappliedIsWritten ==
    ASSUME IInv, NEW p \in Handlers, At(p, "reapply"), Exact(p), ~Deferred(p)
    PROVE  New(p) = WithClients(running, Tag(p), New(p).clients[Tag(p)])
  <1>1. ~At(p, "idle") /\ Op(p) \in ClientOps \cup {"batch"} /\ running = handler[p].seen
    BY DEF Exact, At
  <1>2. handler[p].seen \in Configs
    BY DEF IInv, StageInv, Stage, At
  <1>3. handler[p].req \in AllRequests
    BY <1>1, RequestFacts
  <1>4. Op(p) = "remove-client" => handler[p].seen.clients[Tag(p)] # None
    BY <1>1, <1>2, NoneIsNew DEF IInv, StageInv, Stage
  <1>5. Op(p) \in ClientOps \/ New(p).rules = handler[p].seen.rules
    BY <1>1 DEF Deferred, RoutingChanged, New
  <1> QED  BY <1>1, <1>2, <1>3, <1>4, <1>5, ClientEdit DEF New, Op, Tag

\* The last step of a request that is answered with "ok"
LEMMA OkIsInEffect ==
    ASSUME IInv, ExactInv, NEW p \in Handlers, Step(p),
           handler'[p] = Idle, reply' = "ok", handler[p].agreed, ~raced
    PROVE  \/ running' = file'
           \/ running' = None /\ (~embedded \/ Op(p) \in {"system", "scan", "batch"})
           \/ At(p, "rerestart") /\ ~embedded
  <1>1. ~At(p, "idle") /\ HandlerType
    <2>1. ~At(p, "idle")
      BY RollbackSteps
    <2> QED  BY <2>1, RequestFacts
  <1>2. Exact(p)
    BY <1>1 DEF ExactInv
  <1>3. Idle.at = "idle"
    BY IdleFacts
  <1>4. ASSUME NEW at, at # "idle", Goto(p, at) PROVE FALSE
    <2>1. handler'[p].at = at
      BY <1>1, <1>4 DEF Goto, HandlerType
    <2> QED  BY <1>3, <1>4, <2>1
  <1>5. ASSUME NEW status, Finish(p, status) PROVE status = "ok"
    BY <1>5 DEF Finish
  <1>6. ASSUME NEW status, NEW cfg, Answer(p, status, cfg) PROVE status = "ok"
    BY <1>5, <1>6 DEF Answer
  <1>7. ~Apply(p) /\ ~Truncate(p) /\ ~Restore(p)
    BY <1>4 DEF Apply, Truncate, Restore
  <1>8. ~ApplyFailed(p) /\ ~RemoveFailed(p)
    BY <1>5 DEF ApplyFailed, RemoveFailed
  <1>9. \A err \in BOOLEAN : ~RuntimeRemove(p, err)
    <2> SUFFICES ASSUME NEW err \in BOOLEAN, RuntimeRemove(p, err) PROVE FALSE
      OBVIOUS
    <2>1. handler' = [handler EXCEPT ![p].at = "read", ![p].err = err]
      BY DEF RuntimeRemove
    <2>2. handler'[p].at = "read"
      BY <1>1, <2>1 DEF HandlerType
    <2> QED  BY <1>3, <2>2
  <1>10. ~Read(p)
    <2> SUFFICES ASSUME Read(p) PROVE FALSE
      OBVIOUS
    <2>1. handler'[p].at \in {"rename", "truncate"}
      BY <1>1 DEF Read, HandlerType
    <2> QED  BY <1>3, <2>1
  <1>11. ~Rename(p)
    <2> SUFFICES ASSUME Rename(p) PROVE FALSE
      OBVIOUS
    <2>1. handler'[p] = IF AfterRename(p) = "idle" THEN Idle
                        ELSE [handler[p] EXCEPT !.at = AfterRename(p)]
      BY DEF Rename
    <2>2. AfterRename(p) # "idle" => handler'[p].at = AfterRename(p)
      BY <1>1, <2>1 DEF HandlerType
    <2>3. AfterRename(p) = "idle"
      BY <1>3, <2>2
    <2>4. reply' = "deferred"
      BY <2>3 DEF Rename
    <2> QED  BY <2>4
  <1>12. CASE ReadOnly(p)
    <2>1. At(p, "read") /\ UNCHANGED <<file, running>>
      BY <1>12 DEF ReadOnly
    <2>2. Readable /\ RunsWith(p, file)
      BY <1>2, <2>1 DEF Exact, At
    <2>3. Unneeded(handler[p].req, file)
      BY <1>6, <1>12, <2>2 DEF ReadOnly
    <2>4. running = file
      BY <2>2, <2>3 DEF Unneeded, RunsWith, OutboundOps, Op
    <2> QED  BY <2>1, <2>4
  <1>13. CASE Write(p)
    <2>1. ~Restarts(p) /\ Finish(p, IF Deferred(p) THEN "deferred" ELSE "ok")
      BY <1>4, <1>13 DEF Write, Written
    <2>2. ~Deferred(p)
      <3>1. (IF Deferred(p) THEN "deferred" ELSE "ok") = "ok"
        BY <1>5, <2>1
      <3> QED  BY <3>1
    <2>3. /\ At(p, "write") /\ UNCHANGED running
          /\ \E x \in Outcomes(New(p)) : Put(x)
      BY <1>2, <1>13 DEF Write, Exact
    <2>4. file' = New(p)
      BY <1>2, <2>3 DEF Exact, Outcomes, Put
    <2>5. New(p) = running
      BY <1>2, <2>1, <2>2, <2>3, WrittenIsRunning
    <2> QED  BY <2>3, <2>4, <2>5
  <1>14. CASE Reapply(p)
    <2>1. At(p, "reapply") /\ UNCHANGED file
      BY <1>14 DEF Reapply
    <2>2. ASSUME NEW status, Reapplied(p, status) PROVE ~Deferred(p) /\ status = "ok"
      <3>1. (IF Deferred(p) THEN "deferred" ELSE status) = "ok"
        BY <1>4, <1>6, <2>2 DEF Reapplied
      <3> QED  BY <3>1
    <2>3. /\ running' = WithClients(running, Tag(p), New(p).clients[Tag(p)])
          /\ Reapplied(p, "ok")
      BY <1>14, <2>2 DEF Reapply
    <2>4. running' = New(p)
      BY <1>2, <2>1, <2>2, <2>3, ReappliedIsWritten
    <2>5. file = New(p)
      BY <1>2, <2>1 DEF Exact
    <2> QED  BY <2>1, <2>4, <2>5
  <1>15. ASSUME NEW ok \in BOOLEAN, Restart(p, ok)
         PROVE  running' = file' \/ (running' = None /\ (~embedded \/ Op(p) \in {"system", "scan"}))
    <2>1. /\ At(p, "restart") /\ RestartXray(ok) /\ Restarted(p, ok) /\ UNCHANGED file
      BY <1>15 DEF Restart
    <2>2. CASE XrayStarts
      BY <2>1, <2>2 DEF XrayStarts
    <2>3. CASE XrayFails(ok) /\ ok
      BY <2>3 DEF XrayFails
    <2>4. CASE XrayFails(ok) /\ ~ok
      <3>1. Op(p) \in {"system", "scan"}
        BY <1>4, <1>6, <2>1, <2>4 DEF Restarted
      <3>2. running = file
        BY <1>2, <2>1, <3>1 DEF Exact
      <3>3. running' \in {None, running}
        BY <2>4 DEF XrayFails
      <3> QED  BY <2>1, <3>1, <3>2, <3>3
    <2> QED  BY <2>1, <2>2, <2>3, <2>4 DEF RestartXray
  <1>16. ASSUME NEW ok \in BOOLEAN, RestartAgain(p, ok)
         PROVE  \/ running' = file'
                \/ running' = None /\ Op(p) = "batch"
                \/ At(p, "rerestart") /\ ~embedded
    <2> DEFINE status == IF Op(p) = "batch" THEN "ok"
                         ELSE IF ok THEN "rolled_back" ELSE "failed"
    <2>1. /\ At(p, "rerestart") /\ RestartXray(ok) /\ UNCHANGED file
          /\ Answer(p, status, New(p))
      BY <1>16 DEF RestartAgain
    <2>2. status = "ok"
      <3> HIDE DEF status
      <3> QED  BY <1>6, <2>1
    <2>3. Op(p) = "batch"
      BY <2>2
    <2>4. CASE XrayStarts
      BY <2>1, <2>4 DEF XrayStarts
    <2>5. CASE XrayFails(ok) /\ embedded
      BY <2>3, <2>5 DEF XrayFails
    <2> QED  BY <2>1, <2>4, <2>5 DEF RestartXray
  <1> QED
    BY <1>7, <1>8, <1>9, <1>10, <1>11, <1>12, <1>13, <1>14, <1>15, <1>16 DEF Step

\* A plain "ok" means that Xray runs with what is in the file, whatever Xray
\* refuses: when a request began with the two the same and met no other.
THEOREM OkIsHonest == Spec => OkMeansInEffect
  <1> DEFINE InEffect == \A p \in Handlers :
          Answered(p) /\ Undisturbed(p) /\ reply' = "ok" =>
              \/ running' = file'
              \/ running' = None /\ (~embedded \/ Op(p) \in {"system", "scan", "batch"})
              \/ At(p, "rerestart") /\ ~embedded
  <1>1. Init => ExactInv
    BY IdleFacts DEF Init, ExactInv, At
  <1>2. Spec => []ExactInv
    BY <1>1, ExactKeeps, Invariance, PTL DEF Spec
  <1>3. IInv /\ ExactInv /\ [Next]_vars => InEffect
    <2> SUFFICES ASSUME IInv, ExactInv, [Next]_vars, NEW p \in Handlers,
                        Answered(p), Undisturbed(p), reply' = "ok"
                 PROVE  \/ running' = file'
                        \/ /\ running' = None
                           /\ ~embedded \/ Op(p) \in {"system", "scan", "batch"}
                        \/ At(p, "rerestart") /\ ~embedded
      OBVIOUS
    <2>1. ~At(p, "idle") /\ handler'[p] = Idle /\ handler[p].agreed /\ ~raced
      BY DEF Answered, Undisturbed
    <2>2. Step(p)
      BY <2>1, AnswersOwn
    <2> QED  BY <2>1, <2>2, OkIsInEffect
  <1>4. [][IInv /\ ExactInv /\ [Next]_vars => InEffect]_vars
    BY <1>3, PTL
  <1> QED  BY <1>2, <1>4, Invariance, PTL DEF Spec, OkMeansInEffect
=============================================================================
