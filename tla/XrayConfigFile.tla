--------------------------- MODULE XrayConfigFile ---------------------------
(***************************************************************************)
(* The handlers that edit the Xray config file and the running Xray        *)
(* (internal/handler/management_handler.go).  Each reads the file, changes *)
(* what it read and writes it back.  Those of LockedOps hold inboundsMu,   *)
(* the others do not.                                                      *)
(*                                                                         *)
(* Of a config file the model keeps the clients of each inbound, the       *)
(* outbounds and the routing rules; whether Xray can start with it depends *)
(* on the rules (BadMarks).  Running Xray has the same shape: the API      *)
(* changes inbounds and outbounds in place, and only a restart changes the *)
(* rules.                                                                  *)
(*                                                                         *)
(* os.WriteFile truncates the file (Empty) and then writes it; where two   *)
(* of them overlap, the rest of the longer one may stay behind (Torn).     *)
(* manageInboundClient and HandleBatchApply write another file and rename  *)
(* it instead; what a WriteFile under way still writes is then lost.       *)
(*                                                                         *)
(* handler[p].at is the next step of goroutine p:                          *)
(*   api              the API call of a request that begins with one       *)
(*   read             os.ReadFile, and the change in memory                *)
(*   truncate, write  os.WriteFile; "unlinked" when the file is not in     *)
(*                    its place any more       rename   os.Rename          *)
(*   reapply          replaceRuntimeInbound    restart  RestartXray        *)
(*   rollback, restore, rerestart   the old content back, and a restart    *)
(* A crash of the agent is not modelled.                                   *)
(***************************************************************************)
EXTENDS Naturals

CONSTANTS
    Handlers,   \* goroutines of the HTTP server and of the reverse RPC
    Tags,       \* inbound tags
    Clients,    \* clients of inbounds
    Outs,       \* outbound tags
    Marks,      \* marktags of routing rules
    BadMarks,   \* marktags of rules that Xray does not start with
    Emails,     \* users of routing rules
    Requests,   \* the requests of the master
    Overlapping, \* bound: those that overlap with others
    Initial,    \* the config file at the start
    MaxFaults,  \* bound on the calls and restarts that Xray refuses
    None,
    Empty, Torn \* a file that is truncated, and one that does not parse

Rules == [mark : Marks, users : SUBSET Emails, tags : SUBSET Tags]
Configs == [clients : [Tags -> {None} \cup SUBSET Clients],
            outs : SUBSET Outs, rules : SUBSET Rules]

ClientOps == {"add-client", "remove-client", "exclude"}
RoutingOps == {"set", "add_rule", "remove_rule", "add_user", "remove_user"}
LockedOps == {"add", "remove", "batch"} \cup ClientOps \cup RoutingOps

OutboundOps == {"add-out", "remove-out", "update-out"}
\* HandleTakeoverExternalXray merges the fragments of a config directory into
\* the file; whole is what they say.
TakeoverOps == {"takeover"}
UnlockedOps == {"reorder", "promote", "system", "scan", "replace", "restart"}
                   \cup OutboundOps \cup TakeoverOps

\* A request uses the fields its op needs.
AllRequests ==
    [op : LockedOps \cup UnlockedOps, tag : Tags, client : Clients, out : Outs,
     mark : Marks, user : Emails, whole : Configs, restart : BOOLEAN]

ASSUME RequestsTyped == Requests \subseteq AllRequests
ASSUME InitialTyped == Initial \in Configs
ASSUME MarksTyped == BadMarks \subseteq Marks
ASSUME MaxFaultsTyped == MaxFaults \in Nat
ASSUME NoneIsNew ==
    /\ None \notin Handlers \cup Configs \cup AllRequests
    /\ \A set \in SUBSET Clients : set # None
    /\ Empty \notin Configs \cup {None, Torn}
    /\ Torn \notin Configs \cup {None}

VARIABLES
    embedded,   \* xrayMode: Xray is part of the process
    file,       \* the config file, Empty or Torn
    running,    \* what Xray runs with, or None when it is down
    lock,       \* inboundsMu: its holder, or None
    handler,    \* what a goroutine is doing
    reply,      \* the answer given in this step, or None
    acked,      \* history: clients that were acknowledged and are in the file
    raced,      \* history: the requests in progress have overlapped
    faults      \* history: what Xray has refused without a reason

vars == <<embedded, file, running, lock, handler, reply, acked, raced, faults>>

Idle == [at |-> "idle", req |-> None, seen |-> None, err |-> FALSE, agreed |-> FALSE]

Init ==
    /\ embedded \in BOOLEAN
    /\ file = Initial
    /\ running = Initial
    /\ lock = None
    /\ handler = [p \in Handlers |-> Idle]
    /\ reply = None
    /\ acked = {}
    /\ raced = FALSE
    /\ faults = 0

(***************************************************************************)
(* The change each request makes to a config.                              *)
(***************************************************************************)
\* The code takes the first rule with a marktag, or the rule at an index.  The
\* order of the rules is not part of the model, which takes any one of them.
WithMark(rules, m) == {r \in rules : r.mark = m}
OneOf(rules) == CHOOSE r \in rules : TRUE

\* removeInboundRoutingReferences
Narrowed(rules, t) ==
    {IF t \in r.tags THEN [r EXCEPT !.tags = @ \ {t}] ELSE r :
        r \in {x \in rules : x.tags # {t}}}

WithClients(cfg, t, set) == [cfg EXCEPT !.clients = [@ EXCEPT ![t] = set]]

AddClient(cfg, t, c) ==
    IF cfg.clients[t] = None THEN cfg
    ELSE WithClients(cfg, t, cfg.clients[t] \cup {c})

RemoveClient(cfg, t, c) == WithClients(cfg, t, cfg.clients[t] \ {c})

RemoveInbound(cfg, t) ==
    [WithClients(cfg, t, None) EXCEPT !.rules = Narrowed(cfg.rules, t)]

WithUsers(cfg, m, added, dropped) ==
    IF WithMark(cfg.rules, m) = {} THEN cfg
    ELSE LET r == OneOf(WithMark(cfg.rules, m))
         IN  [cfg EXCEPT !.rules =
                  (@ \ {r}) \cup {[r EXCEPT !.users = (@ \cup added) \ dropped]}]

AddUser(cfg, m, u) == WithUsers(cfg, m, {u}, {})

NewRule(r) == [mark |-> r.mark, users |-> {r.user}, tags |-> {r.tag}]

RoutingEdit(r, cfg) ==
    CASE r.op = "set" -> [cfg EXCEPT !.rules = r.whole.rules]
      [] r.op = "add_rule" -> [cfg EXCEPT !.rules = @ \cup {NewRule(r)}]
      [] r.op = "remove_rule" -> [cfg EXCEPT !.rules = @ \ {OneOf(@)}]
      [] r.op = "add_user" -> AddUser(cfg, r.mark, r.user)
      [] r.op = "remove_user" -> WithUsers(cfg, r.mark, {}, {r.user})

\* An inbound of the fragments takes the place of one with its tag.
Merged(cfg, more) ==
    [clients |-> [t \in Tags |->
         IF more.clients[t] = None THEN cfg.clients[t] ELSE more.clients[t]],
     outs |-> cfg.outs \cup more.outs, rules |-> cfg.rules \cup more.rules]

\* reorder writes generated tags first, as promote does, and then the new order.
\* The other sections, the order of outbounds, generated tags and excluded
\* domains are not part of the model: these requests write what they read.
Edit(r, cfg) ==
    CASE r.op = "add" -> WithClients(cfg, r.tag, {r.client})
      [] r.op = "remove" -> RemoveInbound(cfg, r.tag)
      [] r.op = "add-client" -> AddClient(cfg, r.tag, r.client)
      [] r.op = "remove-client" -> RemoveClient(cfg, r.tag, r.client)
      [] r.op = "batch" -> AddUser(AddClient(cfg, r.tag, r.client), r.mark, r.user)
      [] r.op \in RoutingOps -> RoutingEdit(r, cfg)
      [] r.op \in {"add-out", "update-out"} -> [cfg EXCEPT !.outs = @ \cup {r.out}]
      [] r.op = "remove-out" -> [cfg EXCEPT !.outs = @ \ {r.out}]
      [] r.op = "replace" -> r.whole
      [] r.op = "takeover" -> Merged(cfg, r.whole)
      [] OTHER -> cfg

(***************************************************************************)
(* What each handler checks after it has read the file.                    *)
(***************************************************************************)
\* There is nothing the request could be applied to: 404 or 400.
Missing(r, cfg) ==
    \/ r.op \in ClientOps /\ cfg.clients[r.tag] = None
    \/ r.op = "remove_rule" /\ cfg.rules = {}
    \/ r.op \in {"add_user", "remove_user"} /\ WithMark(cfg.rules, r.mark) = {}

\* The request is answered without a write: it is already in effect, or, as far
\* as the model does not tell, may be.
Unneeded(r, cfg) ==
    \/ r.op \in {"add-client", "remove-client", "batch"} /\ Edit(r, cfg) = cfg
    \/ r.op \in {"exclude", "promote", "scan"}

Needed(r, cfg) ==
    r.op \in {"add-client", "remove-client", "batch"} => Edit(r, cfg) # cfg

RoutingChanged(r, cfg) == Edit(r, cfg).rules # cfg.rules

Startable(cfg) == \A m \in BadMarks : WithMark(cfg.rules, m) = {}

\* Xray runs when the agent begins.
ASSUME InitialStarts == Startable(Initial)

-----------------------------------------------------------------------------
Readable == file \in Configs
At(p, at) == handler[p].at = at
Op(p) == handler[p].req.op
Tag(p) == handler[p].req.tag
New(p) == Edit(handler[p].req, handler[p].seen)
Busy == {p \in Handlers : ~At(p, "idle")}

Holds(cfg, client) == cfg.clients[client[1]] # None /\ client[2] \in cfg.clients[client[1]]

Goto(p, at) ==
    /\ handler' = [handler EXCEPT ![p].at = at]
    /\ reply' = None
    /\ UNCHANGED <<embedded, lock, raced>>

Finish(p, status) ==
    /\ handler' = [handler EXCEPT ![p] = Idle]
    /\ reply' = status
    /\ lock' = IF lock = p THEN None ELSE lock
    /\ UNCHANGED <<embedded, raced>>

\* A positive answer acknowledges a client that the new content cfg holds,
\* unless another request has already taken it out of the file again.
Answer(p, status, cfg) ==
    /\ Finish(p, status)
    /\ acked' = acked \cup
           {client \in {<<Tag(p), handler[p].req.client>>} :
               /\ Op(p) \in {"add-client", "batch"} /\ status # "failed"
               /\ Holds(cfg, client)
               /\ Readable => Holds(file, client)}

\* A write by which a client is lost is the end of its story.
Put(x) ==
    /\ file' = x
    /\ acked' = IF x \in Configs THEN {client \in acked : Holds(x, client)} ELSE acked

Obeyed == UNCHANGED faults
Refused == faults < MaxFaults /\ faults' = faults + 1

(***************************************************************************)
(* The request arrives, or gets inboundsMu.                                *)
(***************************************************************************)
FirstStep(op) ==
    CASE op \in {"add", "remove"} \cup OutboundOps -> "api"
      [] op = "replace" -> "truncate"
      [] op = "restart" -> "restart"
      [] OTHER -> "read"

MayBegin(r) ==
    \A p \in Busy : r \in Overlapping /\ handler[p].req \in Overlapping

\* Mutant: inboundsMu is not waited for.
BeginUnlocked(p, r) ==
    /\ At(p, "idle")
    /\ MayBegin(r)
    /\ lock' = IF r.op \in LockedOps THEN p ELSE lock
    /\ handler' = [handler EXCEPT ![p] =
           [at |-> FirstStep(r.op), req |-> r, seen |-> None, err |-> FALSE,
            agreed |-> Busy = {} /\ running = file]]
    /\ raced' = (Busy # {})
    /\ reply' = None
    /\ UNCHANGED <<embedded, file, running, acked, faults>>

Begin(p, r) ==
    /\ At(p, "idle")
    /\ MayBegin(r)
    /\ r.op \in LockedOps => lock = None
    /\ lock' = IF r.op \in LockedOps THEN p ELSE lock
    /\ handler' = [handler EXCEPT ![p] =
           [at |-> FirstStep(r.op), req |-> r, seen |-> None, err |-> FALSE,
            agreed |-> Busy = {} /\ running = file]]
    /\ raced' = (Busy # {})
    /\ reply' = None
    /\ UNCHANGED <<embedded, file, running, acked, faults>>

(***************************************************************************)
(* The API of Xray, before the file is touched.                            *)
(***************************************************************************)
\* findXrayAPIPort looks the port up in the file.
Reachable(p) ==
    /\ running # None
    /\ Readable \/ (embedded /\ Op(p) \notin OutboundOps)

Without(p) ==
    IF Op(p) = "update-out" THEN [running EXCEPT !.outs = @ \ {handler[p].req.out}]
    ELSE WithClients(running, Tag(p), None)

Apply(p) ==
    /\ At(p, "api") /\ Op(p) # "remove"
    /\ Reachable(p)
    /\ Op(p) = "add-out" => handler[p].req.out \notin running.outs
    /\ running' = Edit(handler[p].req, running)
    /\ Goto(p, "read")
    /\ UNCHANGED <<file, acked, faults>>

\* The payload or the call fails before anything is changed, or addInbound and
\* update remove the old one and then cannot add the new one.
ApplyFailed(p) ==
    /\ At(p, "api") /\ Op(p) # "remove"
    /\ \/ Obeyed /\ UNCHANGED running
       \/ /\ Op(p) \in {"add", "update-out"} /\ Reachable(p)
          /\ Refused /\ running' = Without(p)
    /\ Finish(p, "failed")
    /\ UNCHANGED <<file, acked>>

\* remove: the error of the API is kept, except that an external Xray may not
\* know the inbound.
RuntimeRemove(p, err) ==
    /\ At(p, "api") /\ Op(p) = "remove"
    /\ \/ /\ ~err /\ Obeyed /\ Reachable(p)
          /\ running.clients[Tag(p)] # None \/ ~embedded
          /\ running' = Without(p)
       \/ /\ err /\ UNCHANGED running
          /\ \/ ~Reachable(p) /\ (embedded \/ Readable) /\ Obeyed
             \/ running # None /\ running.clients[Tag(p)] = None /\ embedded /\ Obeyed
             \/ Refused
    /\ handler' = [handler EXCEPT ![p].at = "read", ![p].err = err]
    /\ reply' = None
    /\ UNCHANGED <<embedded, file, lock, acked, raced>>

\* remove with an external Xray: "Xray API not available"
RemoveFailed(p) ==
    /\ At(p, "api") /\ Op(p) = "remove"
    /\ ~embedded /\ ~Readable
    /\ Finish(p, "failed")
    /\ UNCHANGED <<file, running, acked, faults>>

(***************************************************************************)
(* The file is read.                                                       *)
(***************************************************************************)
Unreadable(p) ==
    CASE Op(p) = "add" -> "warned"
      [] Op(p) \in OutboundOps \cup {"scan", "promote"} -> "ok"
      [] OTHER -> "failed"

\* The file is not valid JSON, the request has nothing to work on, or there is
\* nothing to do.
ReadOnly(p) ==
    /\ At(p, "read")
    /\ \/ ~Readable /\ Finish(p, Unreadable(p)) /\ UNCHANGED acked
       \/ Readable /\ Missing(handler[p].req, file) /\ Answer(p, "failed", file)
       \/ /\ Readable /\ ~Missing(handler[p].req, file) /\ Unneeded(handler[p].req, file)
          /\ Answer(p, "ok", file)
    /\ UNCHANGED <<file, running, faults>>

Read(p) ==
    /\ At(p, "read")
    /\ Readable /\ ~Missing(handler[p].req, file) /\ Needed(handler[p].req, file)
    /\ handler' = [handler EXCEPT ![p].seen = file,
           ![p].at = IF Op(p) \in ClientOps \cup {"batch"} THEN "rename" ELSE "truncate"]
    /\ reply' = None
    /\ UNCHANGED <<embedded, file, running, lock, acked, raced, faults>>

(***************************************************************************)
(* The file is written.                                                    *)
(***************************************************************************)
\* Mutant: remove leaves it to the API to make Xray forget the inbound.
RestartsRarely(p) ==
    \/ Op(p) \in {"system", "scan"} \cup TakeoverOps
    \/ Op(p) = "remove" /\ handler[p].err
    \/ Op(p) \in RoutingOps /\ handler[p].req.restart
    \/ /\ Op(p) = "batch" /\ handler[p].req.restart
       /\ RoutingChanged(handler[p].req, handler[p].seen)

Restarts(p) ==
    \/ Op(p) \in {"system", "scan"} \cup TakeoverOps
    \/ Op(p) = "remove" /\ (handler[p].err \/ RoutingChanged(handler[p].req, handler[p].seen))
    \/ Op(p) \in RoutingOps /\ handler[p].req.restart
    \/ /\ Op(p) = "batch" /\ handler[p].req.restart
       /\ RoutingChanged(handler[p].req, handler[p].seen)

\* An answer which says that the file is ahead of Xray
Deferred(p) ==
    \/ Op(p) \in RoutingOps \cup {"replace"}
    \/ Op(p) = "batch" /\ RoutingChanged(handler[p].req, handler[p].seen)

Written(p) ==
    \/ Restarts(p) /\ Goto(p, "restart")
    \/ ~Restarts(p) /\ Finish(p, IF Deferred(p) THEN "deferred" ELSE "ok")

Truncate(p) ==
    \/ At(p, "truncate") /\ Goto(p, "write") /\ Put(Empty) /\ UNCHANGED <<running, faults>>
    \/ At(p, "rollback") /\ Goto(p, "restore") /\ Put(Empty) /\ UNCHANGED <<running, faults>>

\* What the file contains after a WriteFile of cfg
Outcomes(cfg) == IF file = Empty THEN {cfg} ELSE {cfg, Torn}

Write(p) ==
    /\ \/ At(p, "write") /\ \E x \in Outcomes(New(p)) : Put(x)
       \/ At(p, "unlinked") /\ UNCHANGED <<file, acked>>
    /\ Written(p)
    /\ UNCHANGED <<running, faults>>

\* Mutant: the rollback writes the new content once more.
RestoreNew(p) ==
    /\ At(p, "restore")
    /\ \E x \in Outcomes(New(p)) : Put(x)
    /\ Goto(p, "rerestart")
    /\ UNCHANGED <<running, faults>>

Restore(p) ==
    /\ At(p, "restore")
    /\ \E x \in Outcomes(handler[p].seen) : Put(x)
    /\ Goto(p, "rerestart")
    /\ UNCHANGED <<running, faults>>

\* A batch which only changes rules does not touch the running inbounds.
Reapplies(p) == Op(p) \in ClientOps \/ New(p).clients # handler[p].seen.clients

AfterRename(p) ==
    IF Reapplies(p) THEN "reapply" ELSE IF Restarts(p) THEN "restart" ELSE "idle"

Rename(p) ==
    /\ At(p, "rename")
    /\ Put(New(p))
    /\ handler' = [q \in Handlers |->
           IF q = p THEN IF AfterRename(p) = "idle" THEN Idle
                         ELSE [handler[p] EXCEPT !.at = AfterRename(p)]
           ELSE IF At(q, "write") THEN [handler[q] EXCEPT !.at = "unlinked"]
           ELSE handler[q]]
    /\ reply' = IF AfterRename(p) = "idle" THEN "deferred" ELSE None
    /\ lock' = IF AfterRename(p) = "idle" THEN None ELSE lock
    /\ UNCHANGED <<embedded, running, raced, faults>>

(***************************************************************************)
(* Xray takes over what was written.                                       *)
(***************************************************************************)
Reapplied(p, status) ==
    \/ Restarts(p) /\ Goto(p, "restart") /\ UNCHANGED acked
    \/ ~Restarts(p) /\ Answer(p, IF Deferred(p) THEN "deferred" ELSE status, New(p))

Reapply(p) ==
    /\ At(p, "reapply")
    /\ \/ /\ Reachable(p) /\ Obeyed
          /\ running' = WithClients(running, Tag(p), New(p).clients[Tag(p)])
          /\ Reapplied(p, "ok")
       \/ /\ Reachable(p) /\ Refused
          /\ running' = Without(p)
          /\ Reapplied(p, "warned")
       \/ Obeyed /\ UNCHANGED running /\ Reapplied(p, "warned")
    /\ UNCHANGED file

\* RestartXray.  An external Xray may report success and then not start, or be
\* left alone when the restart command itself fails.
XrayStarts ==
    Readable /\ Startable(file) /\ running' = file /\ Obeyed

XrayFails(reported) ==
    /\ \/ ~(Readable /\ Startable(file)) /\ Obeyed
       \/ Readable /\ Startable(file) /\ Refused
    /\ reported => ~embedded
    /\ running' \in IF embedded \/ reported THEN {None} ELSE {None, running}

RestartXray(ok) ==
    \/ ok /\ XrayStarts
    \/ XrayFails(ok)

\* Mutant: a failed restart is not rolled back.
RestartedRegardless(p, ok) ==
    IF ok \/ Op(p) \notin {"remove", "restart"} THEN Answer(p, "ok", New(p))
    ELSE Answer(p, "failed", New(p))

Restarted(p, ok) ==
    IF ok \/ Op(p) \in {"system", "scan"} THEN Answer(p, "ok", New(p))
    ELSE IF Op(p) \in TakeoverOps THEN Answer(p, "warned", New(p))
    ELSE IF Op(p) \in RoutingOps \cup {"batch"} THEN Goto(p, "rollback") /\ UNCHANGED acked
    ELSE Answer(p, "failed", New(p))

Restart(p, ok) ==
    /\ At(p, "restart")
    /\ RestartXray(ok)
    /\ Restarted(p, ok)
    /\ UNCHANGED file

RestartAgain(p, ok) ==
    /\ At(p, "rerestart")
    /\ RestartXray(ok)
    /\ Answer(p, IF Op(p) = "batch" THEN "ok" ELSE IF ok THEN "rolled_back" ELSE "failed", New(p))
    /\ UNCHANGED file

Step(p) ==
    \/ Apply(p) \/ ApplyFailed(p)
    \/ RemoveFailed(p) \/ \E err \in BOOLEAN : RuntimeRemove(p, err)
    \/ ReadOnly(p) \/ Read(p)
    \/ Truncate(p) \/ Write(p) \/ Rename(p) \/ Restore(p)
    \/ Reapply(p)
    \/ \E ok \in BOOLEAN : Restart(p, ok) \/ RestartAgain(p, ok)

Next == \E p \in Handlers : Step(p) \/ \E r \in Requests : Begin(p, r)

Spec == Init /\ [][Next]_vars

-----------------------------------------------------------------------------
(***************************************************************************)
(* Properties                                                              *)
(***************************************************************************)
Steps == {"idle", "api", "read", "truncate", "write", "unlinked", "rename",
          "reapply", "restart", "rollback", "restore", "rerestart"}
Answers == {"ok", "warned", "deferred", "failed", "rolled_back"}

TypeOK ==
    /\ embedded \in BOOLEAN
    /\ file \in Configs \cup {Empty, Torn}
    /\ running \in Configs \cup {None}
    /\ lock \in Handlers \cup {None}
    /\ handler \in [Handlers ->
           [at : Steps, req : Requests \cup {None}, seen : Configs \cup {None},
            err : BOOLEAN, agreed : BOOLEAN]]
    /\ reply \in Answers \cup {None}
    /\ acked \in SUBSET (Tags \X Clients)
    /\ raced \in BOOLEAN
    /\ faults \in 0 .. MaxFaults

\* The request of p takes the client out of the file.
Excused(p, client) ==
    \/ Op(p) = "replace"
    \/ Op(p) \in TakeoverOps /\ handler[p].req.whole.clients[client[1]] # None
    \/ Op(p) \in {"add", "remove"} /\ Tag(p) = client[1]
    \/ Op(p) = "remove-client" /\ <<Tag(p), handler[p].req.client>> = client

Writes(p) ==
    /\ handler[p].at \in {"write", "rename", "restore"}
    /\ handler'[p].at \notin {handler[p].at, "unlinked"}

\* inboundsMu: no handler that holds it loses a client whose addition has been
\* acknowledged, whatever the others do meanwhile, and also when it rolls back;
\* nor does any other that runs alone.
ClientsKept ==
    [][\A p \in Handlers :
          Writes(p) /\ (Op(p) \in LockedOps \/ ~raced) =>
              \A client \in acked \ acked' : Excused(p, client)]_vars

\* A request began when Xray ran with the file, and has overlapped no other.
Answered(p) == ~At(p, "idle") /\ handler'[p] = Idle
Undisturbed(p) == handler[p].agreed /\ ~raced

\* A plain "ok" means that Xray runs with what is in the file: nothing was left
\* to a later restart.  Only the system config, the scan and the batch answer so
\* when Xray is down, and an external Xray may not have come up.  A batch whose
\* rollback fails too is answered so as well; an external Xray that neither
\* restart touched keeps the clients the API has given it.
OkMeansInEffect ==
    [][\A p \in Handlers :
          Answered(p) /\ Undisturbed(p) /\ reply' = "ok" =>
              \/ running' = file'
              \/ running' = None /\ (~embedded \/ Op(p) \in {"system", "scan", "batch"})
              \/ At(p, "rerestart") /\ ~embedded]_vars

\* manageRouting, rollback: the answer "rolled back" means that the file and Xray
\* are exactly what they were when the request came.
RolledBackExactly ==
    [][\A p \in Handlers :
          Answered(p) /\ ~raced /\ reply' = "rolled_back" =>
              /\ file' = handler[p].seen
              /\ embedded => running' = handler[p].seen]_vars

\* manageRouting, HandleBatchApply: a bad change does not take the agent down.
\* As long as Xray does all it should, a request leaves it running, except that
\* a takeover does not take back what it merged.
BadChangeSurvived ==
    [][\A p \in Handlers :
          Answered(p) /\ Undisturbed(p) /\ faults' = 0 /\ embedded =>
              running' # None \/ Op(p) \in TakeoverOps]_vars
=============================================================================
