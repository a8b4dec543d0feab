------------------------------ MODULE ConfigTxn -----------------------------
(***************************************************************************)
(* internal/handler/xray_config_transaction.go: the whole-config           *)
(* transaction prepare / activate / rollback / commit / abort.             *)
(*                                                                         *)
(* A transaction lives in a directory of its own: meta.json, the candidate *)
(* and the previous config.  Every file is replaced by writeFileAtomic     *)
(* (temporary file, fsync, rename), so that each write is one step and the *)
(* process may die before or after it.  A file's hash stands for its       *)
(* content: contents are compared, never hashed.                           *)
(*                                                                         *)
(* h is the request in progress (inboundsMu admits one).  Its field at is  *)
(* the next step:                                                          *)
(*   backup, stage          prepare writes its files                       *)
(*   install, restart       activate replaces the config and restarts Xray *)
(*   restore, rerestart     ... and undoes that when Xray does not start   *)
(*   restored, broken       ... which succeeded, or did not                *)
(*   putback, bounce        rollback restores the config and restarts      *)
(*   save                   meta.json is written                           *)
(*   dropbackup, dropstaged commit removes the files it no longer needs    *)
(*   removing               abort removes the directory                    *)
(***************************************************************************)
EXTENDS Naturals, FiniteSets

CONSTANTS
    Ops,            \* operation ids
    Contents,       \* byte contents of a config file
    Initial,        \* the content of the config at the start
    Norm,           \* Norm[x]: x deduplicated and indented as prepare does
    Requested,      \* contents the master sends in prepare
    LockedWrites,   \* contents the handlers that take inboundsMu write
    UnlockedWrites, \* contents the handlers that do not take it write
    Disturbances,   \* bound: what may go wrong in the same behaviour
    None            \* no file, no request

\* What meta.json says: the hashes before and after, and the state.
States == {"prepared", "activated", "rolled_back", "committed"}
Metas == [old : Contents, new : Contents, state : States]

\* The request in progress: its next step and the meta.json it will save.
Steps == {"backup", "stage", "install", "restart", "restore", "rerestart",
          "restored", "broken", "putback", "bounce", "save", "dropbackup",
          "dropstaged", "removing"}
Requests == [op : Ops, act : {"prepare", "activate", "rollback", "commit", "abort"},
             at : Steps, meta : Metas]
Replies == {"ok", "idempotent", "conflict", "failed", "rolled_back"}

ASSUME ContentsTyped ==
    /\ Initial \in Contents
    /\ Norm \in [Contents -> Contents]
    /\ Requested \cup LockedWrites \cup UnlockedWrites \subseteq Contents
ASSUME NoneIsNew ==
    None \notin Contents \cup Ops \cup Metas \cup Requests \cup Replies
ASSUME DisturbancesTyped == Disturbances \subseteq SUBSET {"fault", "unlocked"}

VARIABLES
    config,     \* content of the Xray config file
    running,    \* the content Xray was last started with, None when it is down
    meta,       \* meta[op]: content of meta.json, or None
    staged,     \* staged[op]: candidate.json, or None
    backup,     \* backup[op]: previous.json, or None
    h,          \* the request in progress, or None
    reply,      \* the answer of the last request, None while one is in progress
    owner,      \* history: the transaction whose candidate is the config file
    verified,   \* history: transactions whose candidate Xray started with
    doomed,     \* history: transactions an abort has begun to remove
    disturbed   \* history: whether the agent died or a file operation failed
                \* ("fault"), and whether the config was written without the
                \* lock ("unlocked")

files == <<config, meta, staged, backup>>
history == <<owner, verified, doomed>>
vars == <<files, running, h, reply, history, disturbed>>

Init ==
    /\ config = Initial
    /\ running = Initial
    /\ meta = [op \in Ops |-> None]
    /\ staged = [op \in Ops |-> None]
    /\ backup = [op \in Ops |-> None]
    /\ h = None
    /\ reply = None
    /\ owner = None
    /\ verified = {}
    /\ doomed = {}
    /\ disturbed = {}

\* A request that is answered without writing anything.
Refuse(status) ==
    /\ reply' = status
    /\ UNCHANGED <<files, running, h, history>>

Begin(op, act, at, m) ==
    /\ h' = [op |-> op, act |-> act, at |-> at, meta |-> m]
    /\ reply' = None
    /\ UNCHANGED <<files, running>>

\* The request goes on with another step, or is answered.
Goto(at) == h' = [h EXCEPT !.at = at] /\ UNCHANGED reply
Finish(status) == h' = None /\ reply' = status

At(at) == h # None /\ h.at = at

(***************************************************************************)
(* The beginning of each request: everything it checks before its first    *)
(* write.  expected is the optional expected_current_hash.                 *)
(***************************************************************************)
Prepare(op, raw, expected) ==
    /\ h = None
    /\ IF meta[op] # None
       THEN Refuse(IF meta[op].new = raw /\ meta[op].state \in {"prepared", "activated"}
                   THEN "idempotent" ELSE "conflict")
       ELSE IF expected # None /\ expected # config
            THEN Refuse("conflict")
            ELSE /\ Begin(op, "prepare", "backup",
                          [old |-> config, new |-> Norm[raw], state |-> "prepared"])
                 /\ verified' = verified \ {op}
                 /\ owner' = IF owner = op THEN None ELSE owner
                 /\ UNCHANGED doomed

Activate(op) ==
    /\ h = None
    /\ meta[op] # None
    /\ IF meta[op].state = "activated"
       THEN Refuse("idempotent")
       ELSE IF meta[op].state = "prepared" /\ config = meta[op].old /\ staged[op] = meta[op].new
            THEN /\ Begin(op, "activate", "install", [meta[op] EXCEPT !.state = "activated"])
                 /\ UNCHANGED history
            ELSE Refuse("conflict")

Rollback(op) ==
    /\ h = None
    /\ meta[op] # None
    /\ IF backup[op] = meta[op].old
       THEN /\ Begin(op, "rollback", IF config = meta[op].old THEN "save" ELSE "putback",
                     [meta[op] EXCEPT !.state = "rolled_back"])
            /\ UNCHANGED history
       ELSE Refuse("conflict")

\* Mutant: commit does not look at the state.
CommitAnyState(op) ==
    /\ h = None
    /\ meta[op] # None
    /\ IF config = meta[op].new
       THEN /\ Begin(op, "commit", "save", [meta[op] EXCEPT !.state = "committed"])
            /\ UNCHANGED history
       ELSE Refuse("conflict")

Commit(op) ==
    /\ h = None
    /\ meta[op] # None
    /\ IF meta[op].state \in {"activated", "committed"} /\ config = meta[op].new
       THEN /\ Begin(op, "commit", "save", [meta[op] EXCEPT !.state = "committed"])
            /\ UNCHANGED history
       ELSE Refuse("conflict")

Abort(op) ==
    /\ h = None
    /\ meta[op] # None
    /\ IF meta[op].state # "activated"
       THEN /\ Begin(op, "abort", "removing", meta[op])
            /\ doomed' = doomed \cup {op}
            /\ UNCHANGED <<owner, verified>>
       ELSE Refuse("conflict")

(***************************************************************************)
(* prepare: previous.json, candidate.json, and meta.json last.             *)
(***************************************************************************)
\* Mutant: a backup that exists is not written again.
WriteBackupOnce ==
    /\ At("backup")
    /\ backup' = [backup EXCEPT ![h.op] = IF @ = None THEN h.meta.old ELSE @]
    /\ Goto("stage")
    /\ UNCHANGED <<config, meta, staged, running, history>>

WriteBackup ==
    /\ At("backup")
    /\ backup' = [backup EXCEPT ![h.op] = h.meta.old]
    /\ Goto("stage")
    /\ UNCHANGED <<config, meta, staged, running, history>>

WriteStaged ==
    /\ At("stage")
    /\ staged' = [staged EXCEPT ![h.op] = h.meta.new]
    /\ Goto("save")
    /\ UNCHANGED <<config, meta, backup, running, history>>

(***************************************************************************)
(* activate: replace the config, restart Xray; when Xray does not come up, *)
(* put the previous config back, restart again and answer with an error.   *)
(***************************************************************************)
Install ==
    /\ At("install")
    /\ config' = h.meta.new
    /\ owner' = h.op
    /\ Goto("restart")
    /\ UNCHANGED <<meta, staged, backup, running, verified, doomed>>

\* Xray starts with the config file, which is the candidate unless another
\* handler has written it since.
Verified == IF config = h.meta.new THEN verified \cup {h.op} ELSE verified

\* Mutant: the result of RestartXray is ignored.
RestartUnchecked ==
    /\ At("restart")
    /\ \/ running' = config /\ verified' = Verified
       \/ running' = None /\ UNCHANGED verified
    /\ Goto("save")
    /\ UNCHANGED <<files, owner, doomed>>

Restart ==
    /\ At("restart")
    /\ \/ running' = config /\ verified' = Verified /\ Goto("save")
       \/ running' = None /\ UNCHANGED verified /\ Goto("restore")
    /\ UNCHANGED <<files, owner, doomed>>

\* Without previous.json nothing is restored.
Restore ==
    /\ At("restore")
    /\ IF backup[h.op] # None
       THEN config' = backup[h.op] /\ owner' = None /\ Goto("rerestart")
       ELSE UNCHANGED <<config, owner>> /\ Goto("broken")
    /\ UNCHANGED <<meta, staged, backup, running, verified, doomed>>

Rerestart ==
    /\ At("rerestart")
    /\ \/ running' = config /\ Goto("restored")
       \/ running' = None /\ Goto("broken")
    /\ UNCHANGED <<files, history>>

SaveFailed ==
    /\ At("restored") \/ At("broken")
    /\ meta' = [meta EXCEPT ![h.op] = [h.meta EXCEPT !.state = "prepared"]]
    /\ Finish(IF At("restored") THEN "rolled_back" ELSE "failed")
    /\ UNCHANGED <<config, staged, backup, running, history>>

(***************************************************************************)
(* rollback: restore the config from previous.json and restart Xray.       *)
(***************************************************************************)
\* Mutant: the candidate is written back instead of the previous config.
PutBackStaged ==
    /\ At("putback")
    /\ config' = h.meta.new
    /\ owner' = None
    /\ Goto("bounce")
    /\ UNCHANGED <<meta, staged, backup, running, verified, doomed>>

PutBack ==
    /\ At("putback")
    /\ config' = h.meta.old
    /\ owner' = None
    /\ Goto("bounce")
    /\ UNCHANGED <<meta, staged, backup, running, verified, doomed>>

Bounce ==
    /\ At("bounce")
    /\ \/ running' = config /\ Goto("save")
       \/ running' = None /\ Finish("failed")
    /\ UNCHANGED <<files, history>>

(***************************************************************************)
(* meta.json, written last by every request but abort.                     *)
(***************************************************************************)
Save ==
    /\ At("save")
    /\ meta' = [meta EXCEPT ![h.op] = h.meta]
    /\ doomed' = IF h.act = "prepare" THEN doomed \ {h.op} ELSE doomed
    /\ IF h.act = "commit" THEN Goto("dropbackup") ELSE Finish("ok")
    /\ UNCHANGED <<config, staged, backup, running, owner, verified>>

\* A write, or the removal of a directory, that returns an error ends the
\* request.
WriteFails ==
    /\ \E at \in {"backup", "stage", "install", "putback", "save", "removing"} : At(at)
    /\ Finish("failed")
    /\ UNCHANGED <<files, running, history>>

RestoreFails ==
    /\ At("restore")
    /\ Goto("broken")
    /\ UNCHANGED <<files, running, history>>

\* These errors are ignored: recording that the activation failed, and
\* removing a file after the commit.
SaveLost ==
    /\ At("restored") \/ At("broken")
    /\ Finish(IF At("restored") THEN "rolled_back" ELSE "failed")
    /\ UNCHANGED <<files, running, history>>

DropFails ==
    /\ \/ At("dropbackup") /\ Goto("dropstaged")
       \/ At("dropstaged") /\ Finish("ok")
    /\ UNCHANGED <<files, running, history>>

(***************************************************************************)
(* commit removes previous.json and candidate.json; abort removes the      *)
(* directory, whose files go one by one in no given order.                 *)
(***************************************************************************)
\* Mutant: the backup of a committed transaction is kept.
KeepBackup ==
    /\ At("dropbackup")
    /\ Goto("dropstaged")
    /\ UNCHANGED <<files, running, history>>

DropBackup ==
    /\ At("dropbackup")
    /\ backup' = [backup EXCEPT ![h.op] = None]
    /\ Goto("dropstaged")
    /\ UNCHANGED <<config, meta, staged, running, history>>

DropStaged ==
    /\ At("dropstaged")
    /\ staged' = [staged EXCEPT ![h.op] = None]
    /\ Finish("ok")
    /\ UNCHANGED <<config, meta, backup, running, history>>

RemoveOne ==
    /\ At("removing")
    /\ \/ /\ meta[h.op] # None
          /\ meta' = [meta EXCEPT ![h.op] = None]
          /\ UNCHANGED <<staged, backup>>
       \/ /\ staged[h.op] # None
          /\ staged' = [staged EXCEPT ![h.op] = None]
          /\ UNCHANGED <<meta, backup>>
       \/ /\ backup[h.op] # None
          /\ backup' = [backup EXCEPT ![h.op] = None]
          /\ UNCHANGED <<meta, staged>>
    /\ UNCHANGED <<config, running, h, reply, history>>

Removed ==
    /\ At("removing")
    /\ <<meta[h.op], staged[h.op], backup[h.op]>> = <<None, None, None>>
    /\ doomed' = doomed \ {h.op}
    /\ Finish("ok")
    /\ UNCHANGED <<files, running, owner, verified>>

(***************************************************************************)
(* The other handlers that write the config file.  manageInbound,          *)
(* manageRouting and HandleBatchApply take inboundsMu; setXrayConfig,      *)
(* updateXraySystemConfig, saveXrayConfigFile and manageOutbound do not.   *)
(* Xray is restarted with the new content, or is not.                      *)
(***************************************************************************)
Write(x) ==
    /\ config' = x
    /\ running' \in {running, x}
    /\ owner' = None
    /\ UNCHANGED <<meta, staged, backup, h, reply, verified, doomed>>

LockedWrite == h = None /\ \E x \in LockedWrites : Write(x)

UnlockedWrite == \E x \in UnlockedWrites : Write(x)

\* The agent dies and is started again; Xray comes up with the config file.
Crash ==
    /\ h' = None
    /\ reply' = None
    /\ running' \in {config, None}
    /\ UNCHANGED <<files, history>>

RequestBegins ==
    \E op \in Ops :
        \/ \E raw \in Requested, expected \in Contents \cup {None} :
               Prepare(op, raw, expected)
        \/ Activate(op)
        \/ Rollback(op)
        \/ Commit(op)
        \/ Abort(op)

RequestGoesOn ==
    \/ WriteBackup \/ WriteStaged \/ Save
    \/ Install \/ Restart \/ Restore \/ Rerestart \/ SaveFailed
    \/ PutBack \/ Bounce
    \/ DropBackup \/ DropStaged \/ RemoveOne \/ Removed

Fault == WriteFails \/ RestoreFails \/ SaveLost \/ DropFails \/ Crash

Disturb(kind) ==
    /\ disturbed' = disturbed \cup {kind}
    /\ disturbed' \in Disturbances

Next ==
    \/ (RequestBegins \/ RequestGoesOn \/ LockedWrite) /\ UNCHANGED disturbed
    \/ Fault /\ Disturb("fault")
    \/ UnlockedWrite /\ Disturb("unlocked")

Spec == Init /\ [][Next]_vars

-----------------------------------------------------------------------------
(***************************************************************************)
(* Properties                                                              *)
(***************************************************************************)

TypeOK ==
    /\ config \in Contents
    /\ running \in Contents \cup {None}
    /\ meta \in [Ops -> Metas \cup {None}]
    /\ staged \in [Ops -> Contents \cup {None}]
    /\ backup \in [Ops -> Contents \cup {None}]
    /\ h \in Requests \cup {None}
    /\ reply \in Replies \cup {None}
    /\ owner \in Ops \cup {None}
    /\ verified \subseteq Ops
    /\ doomed \subseteq Ops
    /\ disturbed \subseteq {"fault", "unlocked"}

\* The durability of a transaction: from the moment meta.json exists until
\* commit, wherever the agent died and whichever write failed, the previous
\* config is on disk, byte for byte.  (Not once abort has begun to remove it.)
BackupSurvives ==
    \A op \in Ops \ doomed :
        meta[op] # None /\ meta[op].state # "committed" => backup[op] = meta[op].old

\* Every handler that wrote the config had the lock.
Serial == "unlocked" \notin disturbed

\* activate "verifies Xray can restart": wherever the agent died and whatever
\* failed, a transaction is activated or committed on disk only if Xray was
\* started with its candidate.
OnlyVerifiedCommits ==
    Serial => \A op \in Ops :
        meta[op] # None /\ meta[op].state \in {"activated", "committed"} => op \in verified

\* The request in progress is answered in this step.
Answers(act) == h # None /\ h.act = act /\ h' = None /\ reply' # None

\* The answer of activate is all or nothing: ok means the candidate is the
\* config and Xray runs it, rolled_back that both are the previous one again.
ActivateAllOrNothing ==
    [][Serial /\ Answers("activate") =>
         /\ reply' = "ok" => <<config, running>> = <<h.meta.new, h.meta.new>>
         /\ reply' = "rolled_back" =>
                <<config, running>> = <<h.meta.old, h.meta.old>>]_vars

\* "rollback restores the exact previous bytes": when it answers ok the config
\* is the one prepare found.
RollbackRestores ==
    [][Serial /\ Answers("rollback") /\ reply' = "ok" => config = h.meta.old]_vars

\* The agent did not die and no file operation failed.
Faultless == "fault" \notin disturbed

\* A committed transaction is never taken back.
CommittedIsFinal ==
    [][Faultless => \A op \in Ops :
         meta[op] # None /\ meta[op].state = "committed" =>
             meta'[op] = None \/ meta'[op].state = "committed"]_vars
=============================================================================
