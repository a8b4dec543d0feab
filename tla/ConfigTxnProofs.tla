-------------------------- MODULE ConfigTxnProofs ---------------------------
(***************************************************************************)
(* Proofs about ConfigTxn, for every set of operations and contents, every *)
(* sequence of requests, crashes and failing writes.                       *)
(*                                                                         *)
(* BackupSurvives is not inductive: it says nothing of the request in      *)
(* progress.  Inv adds what a request knows at each of its steps           *)
(* (RequestInv) and that a backup that exists is the right one, also of a  *)
(* committed or half-removed transaction (BackupIsOld).  What concerns the *)
(* config file itself (SerialInv) holds only while every handler that has  *)
(* written it took inboundsMu; that a committed transaction has no backup  *)
(* that rollback could use (CommitInv), only while nothing has failed.     *)
(***************************************************************************)
EXTENDS ConfigTxn, TLAPS

\* The request works on the transaction that is on disk.
SameTxn ==
    /\ meta[h.op] # None
    /\ meta[h.op].old = h.meta.old
    /\ meta[h.op].new = h.meta.new

RequestInv ==
    h # None =>
        /\ h.act = "prepare" =>
               /\ h.at \in {"backup", "stage", "save"}
               /\ meta[h.op] = None
               /\ h.meta.state = "prepared"
               /\ h.at # "backup" => backup[h.op] = h.meta.old
        /\ h.act = "activate" =>
               /\ h.at \in {"install", "restart", "restore", "rerestart",
                            "restored", "broken", "save"}
               /\ SameTxn
               /\ h.meta.state = "activated"
               /\ meta[h.op].state = "prepared"
        /\ h.act = "rollback" =>
               /\ h.at \in {"putback", "bounce", "save"}
               /\ SameTxn
               /\ h.meta.state = "rolled_back"
               /\ backup[h.op] = h.meta.old
        /\ h.act = "commit" =>
               /\ h.at \in {"save", "dropbackup", "dropstaged"}
               /\ SameTxn
               /\ h.meta.state = "committed"
               /\ h.at # "save" => meta[h.op].state = "committed"
        /\ h.act = "abort" => h.at = "removing" /\ h.op \in doomed

BackupIsOld ==
    \A op \in Ops : meta[op] # None => backup[op] \in {None, meta[op].old}

Inv == TypeOK /\ RequestInv /\ BackupIsOld /\ BackupSurvives

\* What the request knows of the config file while nobody else writes it.
ConfigInv ==
    Serial /\ h # None =>
        /\ h.act = "activate" /\ h.at = "restart" => config = h.meta.new
        /\ h.act = "activate" /\ h.at = "save" =>
               config = h.meta.new /\ running = h.meta.new /\ h.op \in verified
        /\ h.at = "rerestart" => config = h.meta.old
        /\ h.at = "restored" => config = h.meta.old /\ running = h.meta.old
        /\ h.act = "rollback" /\ h.at # "putback" => config = h.meta.old
        /\ h.act = "commit" => h.op \in verified

SerialInv == ConfigInv /\ OnlyVerifiedCommits

-----------------------------------------------------------------------------
\* The invariant holds initially.
LEMMA InitInv == Init => Inv
  BY ContentsTyped DEF Init, Inv, TypeOK, RequestInv, BackupIsOld, BackupSurvives

\* The beginning of a request establishes what the request relies on.
LEMMA BeginInv == Inv /\ RequestBegins /\ UNCHANGED disturbed => Inv'
  <1> SUFFICES ASSUME Inv, RequestBegins, UNCHANGED disturbed PROVE Inv'  OBVIOUS
  <1> USE ContentsTyped DEF Inv
  <1>1. PICK op \in Ops :
            \/ \E raw \in Requested, expected \in Contents \cup {None} :
                   Prepare(op, raw, expected)
            \/ Activate(op)
            \/ Rollback(op)
            \/ Commit(op)
            \/ Abort(op)
    BY DEF RequestBegins
  <1>2. ASSUME NEW status \in Replies, Refuse(status) PROVE Inv'
    BY <1>2 DEF Refuse, files, history, TypeOK, RequestInv, SameTxn, BackupIsOld,
                BackupSurvives
  <1>3. ASSUME NEW raw \in Requested, NEW expected \in Contents \cup {None},
               Prepare(op, raw, expected)
        PROVE  Inv'
    BY <1>2, <1>3 DEF Prepare, Begin, files, TypeOK, RequestInv, SameTxn, BackupIsOld,
                BackupSurvives, Requests, Steps, Metas, States, Replies
  <1>4. CASE Activate(op)
    BY <1>2, <1>4 DEF Activate, Begin, files, history, TypeOK, RequestInv, SameTxn, BackupIsOld,
                BackupSurvives, Requests, Steps, Metas, States, Replies
  <1>5. CASE Rollback(op)
    BY <1>2, <1>5 DEF Rollback, Begin, files, history, TypeOK, RequestInv, SameTxn, BackupIsOld,
                BackupSurvives, Requests, Steps, Metas, States, Replies
  <1>6. CASE Commit(op)
    BY <1>2, <1>6 DEF Commit, Begin, files, history, TypeOK, RequestInv, SameTxn, BackupIsOld,
                BackupSurvives, Requests, Steps, Metas, States, Replies
  <1>7. CASE Abort(op)
    BY <1>2, <1>7 DEF Abort, Begin, files, TypeOK, RequestInv, SameTxn, BackupIsOld,
                BackupSurvives, Requests, Steps, Metas, States, Replies
  <1> QED  BY <1>1, <1>3, <1>4, <1>5, <1>6, <1>7

\* Every step of a request, and what happens around it, keeps the invariant.
LEMMA NextInv == Inv /\ [Next]_vars => Inv'
  <1> SUFFICES ASSUME Inv, [Next]_vars PROVE Inv'  OBVIOUS
  <1> USE ContentsTyped, NoneIsNew DEF Inv
  <1>0. disturbed' \subseteq {"fault", "unlocked"}
    BY DEF TypeOK, Next, Disturb, vars
  <1> USE <1>0
  <1>1. CASE RequestBegins /\ UNCHANGED disturbed
    BY <1>1, BeginInv
  <1>2. CASE WriteBackup
    BY <1>2 DEF WriteBackup, TypeOK, RequestInv, SameTxn, BackupIsOld, BackupSurvives,
                Requests, Steps, Metas, States, Replies, At, Goto, Finish,
                files, history, vars
  <1>3. CASE WriteStaged
    BY <1>3 DEF WriteStaged, TypeOK, RequestInv, SameTxn, BackupIsOld, BackupSurvives,
                Requests, Steps, Metas, States, Replies, At, Goto, Finish,
                files, history, vars
  <1>4. CASE Save
    <2> USE <1>4 DEF Save, At, Goto, Finish
    <2>1. /\ h \in Requests /\ h.at = "save" /\ h # None
          /\ h.op \in Ops /\ h.meta \in Metas
          /\ h.act \in {"prepare", "activate", "rollback", "commit"}
      BY DEF TypeOK, Requests, RequestInv
    <2>2. TypeOK'
      BY <2>1 DEF TypeOK, Requests, Steps, Replies
    <2>3. RequestInv'
      <3>1. CASE h.act = "commit"
        <4>1. h' = [h EXCEPT !.at = "dropbackup"]
          BY <3>1
        <4>2. h'.op = h.op /\ h'.meta = h.meta /\ h'.act = "commit" /\ h'.at = "dropbackup"
          BY <2>1, <3>1, <4>1 DEF Requests
        <4>3. meta'[h.op] = h.meta /\ h.meta.state = "committed"
          BY <2>1, <3>1 DEF TypeOK, RequestInv
        <4>4. h.meta # None
          BY <2>1, <3>1, <4>3 DEF RequestInv, SameTxn
        <4> QED  BY <4>2, <4>3, <4>4 DEF RequestInv, SameTxn
      <3>2. CASE h.act # "commit"
        BY <3>2 DEF RequestInv
      <3> QED  BY <3>1, <3>2
    <2>4. backup[h.op] \in {None, h.meta.old}
      BY <2>1 DEF RequestInv, SameTxn, BackupIsOld
    <2>5. h.meta.state # "committed" /\ h.op \notin doomed' =>
              backup[h.op] = h.meta.old
      BY <2>1 DEF RequestInv, SameTxn, BackupSurvives
    <2>6. \A op \in Ops : meta'[op] = IF op = h.op THEN h.meta ELSE meta[op]
      BY <2>1 DEF TypeOK
    <2>7. BackupIsOld'
      BY <2>4, <2>6 DEF BackupIsOld
    <2>8. BackupSurvives'
      BY <2>5, <2>6 DEF BackupSurvives
    <2> QED  BY <2>2, <2>3, <2>7, <2>8
  <1>5. CASE WriteFails
    BY <1>5 DEF WriteFails, TypeOK, RequestInv, SameTxn, BackupIsOld, BackupSurvives,
                Requests, Steps, Metas, States, Replies, At, Goto, Finish,
                files, history, vars
  <1>6. CASE Install
    BY <1>6 DEF Install, TypeOK, RequestInv, SameTxn, BackupIsOld, BackupSurvives,
                Requests, Steps, Metas, States, Replies, At, Goto, Finish,
                files, history, vars
  <1>7. CASE Restart
    BY <1>7 DEF Restart, Verified, TypeOK, RequestInv, SameTxn, BackupIsOld, BackupSurvives,
                Requests, Steps, Metas, States, Replies, At, Goto, Finish,
                files, history, vars
  <1>8. CASE Restore
    BY <1>8 DEF Restore, TypeOK, RequestInv, SameTxn, BackupIsOld, BackupSurvives,
                Requests, Steps, Metas, States, Replies, At, Goto, Finish,
                files, history, vars
  <1>9. CASE RestoreFails
    BY <1>9 DEF RestoreFails, TypeOK, RequestInv, SameTxn, BackupIsOld, BackupSurvives,
                Requests, Steps, Metas, States, Replies, At, Goto, Finish,
                files, history, vars
  <1>10. CASE Rerestart
    BY <1>10 DEF Rerestart, TypeOK, RequestInv, SameTxn, BackupIsOld, BackupSurvives,
                Requests, Steps, Metas, States, Replies, At, Goto, Finish,
                files, history, vars
  <1>11. CASE SaveFailed
    BY <1>11 DEF SaveFailed, TypeOK, RequestInv, SameTxn, BackupIsOld, BackupSurvives,
                Requests, Steps, Metas, States, Replies, At, Goto, Finish,
                files, history, vars
  <1>12. CASE PutBack
    BY <1>12 DEF PutBack, TypeOK, RequestInv, SameTxn, BackupIsOld, BackupSurvives,
                Requests, Steps, Metas, States, Replies, At, Goto, Finish,
                files, history, vars
  <1>13. CASE Bounce
    BY <1>13 DEF Bounce, TypeOK, RequestInv, SameTxn, BackupIsOld, BackupSurvives,
                Requests, Steps, Metas, States, Replies, At, Goto, Finish,
                files, history, vars
  <1>14. CASE DropBackup
    BY <1>14 DEF DropBackup, TypeOK, RequestInv, SameTxn, BackupIsOld, BackupSurvives,
                Requests, Steps, Metas, States, Replies, At, Goto, Finish,
                files, history, vars
  <1>15. CASE DropStaged
    BY <1>15 DEF DropStaged, TypeOK, RequestInv, SameTxn, BackupIsOld, BackupSurvives,
                Requests, Steps, Metas, States, Replies, At, Goto, Finish,
                files, history, vars
  <1>16. CASE RemoveOne
    BY <1>16 DEF RemoveOne, TypeOK, RequestInv, SameTxn, BackupIsOld, BackupSurvives,
                Requests, Steps, Metas, States, Replies, At, Goto, Finish,
                files, history, vars
  <1>17. CASE Removed
    BY <1>17 DEF Removed, TypeOK, RequestInv, SameTxn, BackupIsOld, BackupSurvives,
                Requests, Steps, Metas, States, Replies, At, Goto, Finish,
                files, history, vars
  <1>18. CASE LockedWrite
    BY <1>18 DEF LockedWrite, Write, TypeOK, RequestInv, SameTxn, BackupIsOld, BackupSurvives,
                Requests, Steps, Metas, States, Replies, At, Goto, Finish,
                files, history, vars
  <1>19. CASE UnlockedWrite
    BY <1>19 DEF UnlockedWrite, Write, TypeOK, RequestInv, SameTxn, BackupIsOld, BackupSurvives,
                Requests, Steps, Metas, States, Replies, At, Goto, Finish,
                files, history, vars
  <1>20. CASE Crash
    BY <1>20 DEF Crash, TypeOK, RequestInv, SameTxn, BackupIsOld, BackupSurvives,
                Requests, Steps, Metas, States, Replies, At, Goto, Finish,
                files, history, vars
  <1>21. CASE UNCHANGED vars
    BY <1>21 DEF TypeOK, RequestInv, SameTxn, BackupIsOld, BackupSurvives,
                Requests, Steps, Metas, States, Replies, At, Goto, Finish,
                files, history, vars
  <1>22. CASE SaveLost
    BY <1>22 DEF SaveLost, TypeOK, RequestInv, SameTxn, BackupIsOld, BackupSurvives,
                Requests, Steps, Metas, States, Replies, At, Goto, Finish,
                files, history, vars
  <1>23. CASE DropFails
    BY <1>23 DEF DropFails, TypeOK, RequestInv, SameTxn, BackupIsOld, BackupSurvives,
                Requests, Steps, Metas, States, Replies, At, Goto, Finish,
                files, history, vars
  <1> QED
    BY <1>1, <1>2, <1>3, <1>4, <1>5, <1>6, <1>7, <1>8, <1>9, <1>10, <1>11, <1>12, <1>13,
       <1>14, <1>15, <1>16, <1>17, <1>18, <1>19, <1>20, <1>21, <1>22, <1>23
       DEF Next, RequestGoesOn, Fault

\* Inv is inductive, so the transaction handlers keep it.
THEOREM Invariance == Spec => []Inv
  <1>1. Init => Inv
    BY InitInv
  <1>2. Inv /\ [Next]_vars => Inv'
    BY NextInv
  <1> QED  BY <1>1, <1>2, PTL DEF Spec

\* Every file, the request in progress and its answer have their types.
THEOREM TypeCorrect == Spec => []TypeOK
  <1>1. Inv => TypeOK
    BY DEF Inv
  <1> QED  BY <1>1, Invariance, PTL

\* The previous config of an open transaction is never lost: not by a crash
\* between two writes, a failed write, or another transaction.
THEOREM BackupDurable == Spec => []BackupSurvives
  <1>1. Inv => BackupSurvives
    BY DEF Inv
  <1> QED  BY <1>1, Invariance, PTL

-----------------------------------------------------------------------------
\* While the config was only written under inboundsMu, the steps of a request
\* find it as they left it, and only verified candidates are recorded.
LEMMA BeginSerial ==
    Inv /\ SerialInv /\ RequestBegins /\ UNCHANGED disturbed => SerialInv'
  <1> SUFFICES ASSUME Inv, SerialInv, RequestBegins, UNCHANGED disturbed, Serial
               PROVE  SerialInv'
    BY DEF SerialInv, ConfigInv, OnlyVerifiedCommits, Serial
  <1> USE NoneIsNew DEF SerialInv, Serial
  <1>1. PICK op \in Ops :
            \/ \E raw \in Requested, expected \in Contents \cup {None} :
                   Prepare(op, raw, expected)
            \/ Activate(op)
            \/ Rollback(op)
            \/ Commit(op)
            \/ Abort(op)
    BY DEF RequestBegins
  <1>2. ASSUME NEW status, Refuse(status) PROVE SerialInv'
    BY <1>2 DEF Refuse, files, history, ConfigInv, OnlyVerifiedCommits
  <1>3. ASSUME NEW raw \in Requested, NEW expected \in Contents \cup {None},
               Prepare(op, raw, expected)
        PROVE  SerialInv'
    <2>1. CASE meta[op] = None /\ ~(expected # None /\ expected # config)
      <3>1. /\ h' = [op |-> op, act |-> "prepare", at |-> "backup",
                     meta |-> [old |-> config, new |-> Norm[raw], state |-> "prepared"]]
            /\ verified' = verified \ {op}
            /\ meta' = meta
        BY <1>3, <2>1 DEF Prepare, Begin, files
      <3>2. ConfigInv'
        BY <3>1 DEF ConfigInv
      <3>3. OnlyVerifiedCommits'
        BY <2>1, <3>1 DEF OnlyVerifiedCommits
      <3> QED  BY <3>2, <3>3
    <2>2. CASE ~(meta[op] = None /\ ~(expected # None /\ expected # config))
      BY <1>2, <1>3, <2>2 DEF Prepare
    <2> QED  BY <2>1, <2>2
  <1>4. ASSUME NEW act, NEW at, NEW m, Begin(op, act, at, m),
               meta' = meta, verified' = verified,
               act = "activate" => at = "install",
               at \in {"install", "putback", "save", "removing"},
               act = "rollback" /\ at # "putback" => config = m.old,
               act = "commit" => op \in verified
        PROVE  SerialInv'
    <2>1. /\ h' = [op |-> op, act |-> act, at |-> at, meta |-> m]
          /\ config' = config
      BY <1>4 DEF Begin, files
    <2>2. ConfigInv'
      BY <1>4, <2>1 DEF ConfigInv
    <2>3. OnlyVerifiedCommits'
      BY <1>4 DEF OnlyVerifiedCommits
    <2> QED  BY <2>2, <2>3
  <1>5. ASSUME NEW act, NEW at, NEW m, Begin(op, act, at, m) PROVE meta' = meta
    BY <1>5 DEF Begin, files
  <1>6. CASE Activate(op)
    <2> DEFINE m == [meta[op] EXCEPT !.state = "activated"]
    <2>1. CASE Begin(op, "activate", "install", m) /\ UNCHANGED history
      <3>1. meta' = meta /\ verified' = verified
        BY <1>5, <2>1 DEF history
      <3> QED  BY <1>4, <2>1, <3>1
    <2>2. \/ \E status \in Replies : Refuse(status)
          \/ Begin(op, "activate", "install", m) /\ UNCHANGED history
      BY <1>6 DEF Activate, Replies
    <2> QED  BY <1>2, <2>1, <2>2
  <1>7. CASE Rollback(op)
    <2> DEFINE m == [meta[op] EXCEPT !.state = "rolled_back"]
               at == IF config = meta[op].old THEN "save" ELSE "putback"
    <2>1. CASE Begin(op, "rollback", at, m) /\ UNCHANGED history
      <3>1. meta' = meta /\ verified' = verified
        BY <1>5, <2>1 DEF history
      <3>2. m.old = meta[op].old
        BY <1>7 DEF Rollback, Inv, TypeOK, Metas
      <3> HIDE DEF m
      <3> QED  BY <1>4, <2>1, <3>1, <3>2
    <2>2. \/ \E status \in Replies : Refuse(status)
          \/ Begin(op, "rollback", at, m) /\ UNCHANGED history
      BY <1>7 DEF Rollback, Replies
    <2> QED  BY <1>2, <2>1, <2>2
  <1>8. CASE Commit(op)
    <2> DEFINE m == [meta[op] EXCEPT !.state = "committed"]
    <2>1. CASE Begin(op, "commit", "save", m) /\ UNCHANGED history /\ op \in verified
      <3>1. meta' = meta /\ verified' = verified
        BY <1>5, <2>1 DEF history
      <3> QED  BY <1>4, <2>1, <3>1
    <2>2. \/ \E status \in Replies : Refuse(status)
          \/ Begin(op, "commit", "save", m) /\ UNCHANGED history /\ op \in verified
      BY <1>8 DEF Commit, Replies, OnlyVerifiedCommits
    <2> QED  BY <1>2, <2>1, <2>2
  <1>9. CASE Abort(op)
    <2>1. CASE Begin(op, "abort", "removing", meta[op]) /\ UNCHANGED <<owner, verified>>
      <3>1. meta' = meta /\ verified' = verified
        BY <1>5, <2>1
      <3> QED  BY <1>4, <2>1, <3>1
    <2>2. \/ \E status \in Replies : Refuse(status)
          \/ Begin(op, "abort", "removing", meta[op]) /\ UNCHANGED <<owner, verified>>
      BY <1>9 DEF Abort, Replies
    <2> QED  BY <1>2, <2>1, <2>2
  <1> QED  BY <1>1, <1>3, <1>6, <1>7, <1>8, <1>9

LEMMA NextSerial == Inv /\ SerialInv /\ [Next]_vars => SerialInv'
  <1> SUFFICES ASSUME Inv, SerialInv, [Next]_vars, Serial' PROVE SerialInv'
    BY DEF SerialInv, ConfigInv, OnlyVerifiedCommits
  <1>0. Serial /\ ~Disturb("unlocked")
    BY DEF Serial, Next, Disturb, vars
  <1> USE NoneIsNew, <1>0 DEF SerialInv, Inv
  <1>1. CASE RequestBegins /\ UNCHANGED disturbed
    BY <1>1, BeginSerial
  <1>2. CASE WriteBackup
    BY <1>2 DEF WriteBackup, TypeOK, RequestInv, SameTxn, BackupIsOld, ConfigInv,
                OnlyVerifiedCommits, Requests, Steps, Metas, At, Goto, Finish,
                files, history, vars
  <1>3. CASE WriteStaged
    BY <1>3 DEF WriteStaged, TypeOK, RequestInv, SameTxn, BackupIsOld, ConfigInv,
                OnlyVerifiedCommits, Requests, Steps, Metas, At, Goto, Finish,
                files, history, vars
  <1>4. CASE Save
    BY <1>4 DEF Save, TypeOK, RequestInv, SameTxn, BackupIsOld, ConfigInv,
                OnlyVerifiedCommits, Requests, Steps, Metas, At, Goto, Finish,
                files, history, vars
  <1>5. CASE WriteFails
    BY <1>5 DEF WriteFails, TypeOK, RequestInv, SameTxn, BackupIsOld, ConfigInv,
                OnlyVerifiedCommits, Requests, Steps, Metas, At, Goto, Finish,
                files, history, vars
  <1>6. CASE Install
    BY <1>6 DEF Install, TypeOK, RequestInv, SameTxn, BackupIsOld, ConfigInv,
                OnlyVerifiedCommits, Requests, Steps, Metas, At, Goto, Finish,
                files, history, vars
  <1>7. CASE Restart
    BY <1>7 DEF Restart, Verified, TypeOK, RequestInv, SameTxn, BackupIsOld, ConfigInv,
                OnlyVerifiedCommits, Requests, Steps, Metas, At, Goto, Finish,
                files, history, vars
  <1>8. CASE Restore
    BY <1>8 DEF Restore, TypeOK, RequestInv, SameTxn, BackupIsOld, ConfigInv,
                OnlyVerifiedCommits, Requests, Steps, Metas, At, Goto, Finish,
                files, history, vars
  <1>9. CASE RestoreFails
    BY <1>9 DEF RestoreFails, TypeOK, RequestInv, SameTxn, BackupIsOld, ConfigInv,
                OnlyVerifiedCommits, Requests, Steps, Metas, At, Goto, Finish,
                files, history, vars
  <1>10. CASE Rerestart
    BY <1>10 DEF Rerestart, TypeOK, RequestInv, SameTxn, BackupIsOld, ConfigInv,
                OnlyVerifiedCommits, Requests, Steps, Metas, At, Goto, Finish,
                files, history, vars
  <1>11. CASE SaveFailed
    BY <1>11 DEF SaveFailed, TypeOK, RequestInv, SameTxn, BackupIsOld, ConfigInv,
                OnlyVerifiedCommits, Requests, Steps, Metas, At, Goto, Finish,
                files, history, vars
  <1>12. CASE PutBack
    BY <1>12 DEF PutBack, TypeOK, RequestInv, SameTxn, BackupIsOld, ConfigInv,
                OnlyVerifiedCommits, Requests, Steps, Metas, At, Goto, Finish,
                files, history, vars
  <1>13. CASE Bounce
    BY <1>13 DEF Bounce, TypeOK, RequestInv, SameTxn, BackupIsOld, ConfigInv,
                OnlyVerifiedCommits, Requests, Steps, Metas, At, Goto, Finish,
                files, history, vars
  <1>14. CASE DropBackup
    BY <1>14 DEF DropBackup, TypeOK, RequestInv, SameTxn, BackupIsOld, ConfigInv,
                OnlyVerifiedCommits, Requests, Steps, Metas, At, Goto, Finish,
                files, history, vars
  <1>15. CASE DropStaged
    BY <1>15 DEF DropStaged, TypeOK, RequestInv, SameTxn, BackupIsOld, ConfigInv,
                OnlyVerifiedCommits, Requests, Steps, Metas, At, Goto, Finish,
                files, history, vars
  <1>16. CASE RemoveOne
    BY <1>16 DEF RemoveOne, TypeOK, RequestInv, SameTxn, BackupIsOld, ConfigInv,
                OnlyVerifiedCommits, Requests, Steps, Metas, At, Goto, Finish,
                files, history, vars
  <1>17. CASE Removed
    BY <1>17 DEF Removed, TypeOK, RequestInv, SameTxn, BackupIsOld, ConfigInv,
                OnlyVerifiedCommits, Requests, Steps, Metas, At, Goto, Finish,
                files, history, vars
  <1>18. CASE LockedWrite
    BY <1>18 DEF LockedWrite, Write, TypeOK, RequestInv, SameTxn, BackupIsOld, ConfigInv,
                OnlyVerifiedCommits, Requests, Steps, Metas, At, Goto, Finish,
                files, history, vars
  <1>19. CASE Crash
    BY <1>19 DEF Crash, TypeOK, RequestInv, SameTxn, BackupIsOld, ConfigInv,
                OnlyVerifiedCommits, Requests, Steps, Metas, At, Goto, Finish,
                files, history, vars
  <1>20. CASE UNCHANGED vars
    BY <1>20 DEF TypeOK, RequestInv, SameTxn, BackupIsOld, ConfigInv,
                OnlyVerifiedCommits, Requests, Steps, Metas, At, Goto, Finish,
                files, history, vars
  <1>21. CASE SaveLost
    BY <1>21 DEF SaveLost, TypeOK, RequestInv, SameTxn, BackupIsOld, ConfigInv,
                OnlyVerifiedCommits, Requests, Steps, Metas, At, Goto, Finish,
                files, history, vars
  <1>22. CASE DropFails
    BY <1>22 DEF DropFails, TypeOK, RequestInv, SameTxn, BackupIsOld, ConfigInv,
                OnlyVerifiedCommits, Requests, Steps, Metas, At, Goto, Finish,
                files, history, vars
  <1> QED
    BY <1>0, <1>1, <1>2, <1>3, <1>4, <1>5, <1>6, <1>7, <1>8, <1>9, <1>10, <1>11, <1>12,
       <1>13, <1>14, <1>15, <1>16, <1>17, <1>18, <1>19, <1>20, <1>21, <1>22
       DEF Next, RequestGoesOn, Fault

\* Both invariants hold.
LEMMA SerialInvariance == Spec => [](Inv /\ SerialInv)
  <1>1. Init => Inv /\ SerialInv
    BY InitInv DEF Init, SerialInv, ConfigInv, OnlyVerifiedCommits
  <1>2. Inv /\ SerialInv /\ [Next]_vars => (Inv /\ SerialInv)'
    BY NextInv, NextSerial
  <1> QED  BY <1>1, <1>2, PTL DEF Spec

\* activate verifies the candidate: only a transaction whose candidate Xray
\* was started with is ever activated or committed, while every handler that
\* has written the config took inboundsMu.
THEOREM VerifiedCommits == Spec => []OnlyVerifiedCommits
  <1>1. Inv /\ SerialInv => OnlyVerifiedCommits
    BY DEF SerialInv
  <1> QED  BY <1>1, SerialInvariance, PTL

\* A request that goes on is not answered.
LEMMA GotoGoesOn ==
    ASSUME TypeOK, h # None, NEW at \in Steps, Goto(at)
    PROVE  h' # None
  <1>1. h \in Requests
    BY DEF TypeOK
  <1>2. h' \in Requests
    BY <1>1 DEF Goto, Requests
  <1> QED  BY <1>2, NoneIsNew

\* An activate or a rollback that succeeds is answered where it saves meta.json.
LEMMA AnswerSteps ==
    ASSUME Inv, [Next]_vars, h # None, h' = None, reply' \in {"ok", "rolled_back"},
           h.act \in {"activate", "rollback"}
    PROVE  \/ Save /\ reply' = "ok" /\ h.at = "save"
           \/ (SaveFailed \/ SaveLost) /\ (reply' = "rolled_back" => h.at = "restored")
                         /\ reply' # "ok" /\ h.act = "activate"
  <1> USE DEF Inv
  <1>1. CASE RequestBegins
    <2>1. h = None
      BY <1>1 DEF RequestBegins, Prepare, Activate, Rollback, Commit, Abort
    <2> QED  BY <2>1
  <1>2. CASE WriteBackup
    BY <1>2, GotoGoesOn DEF WriteBackup, At, Finish, RequestInv, Steps
  <1>3. CASE WriteStaged
    BY <1>3, GotoGoesOn DEF WriteStaged, At, Finish, RequestInv, Steps
  <1>4. CASE Save
    BY <1>4, GotoGoesOn DEF Save, At, Finish, RequestInv, Steps
  <1>5. CASE WriteFails
    BY <1>5, GotoGoesOn DEF WriteFails, At, Finish, RequestInv, Steps
  <1>6. CASE Install
    BY <1>6, GotoGoesOn DEF Install, At, Finish, RequestInv, Steps
  <1>7. CASE Restart
    BY <1>7, GotoGoesOn DEF Restart, At, Finish, RequestInv, Steps
  <1>8. CASE Restore
    BY <1>8, GotoGoesOn DEF Restore, At, Finish, RequestInv, Steps
  <1>9. CASE RestoreFails
    BY <1>9, GotoGoesOn DEF RestoreFails, At, Finish, RequestInv, Steps
  <1>10. CASE Rerestart
    BY <1>10, GotoGoesOn DEF Rerestart, At, Finish, RequestInv, Steps
  <1>11. CASE SaveFailed
    BY <1>11, GotoGoesOn DEF SaveFailed, At, Finish, RequestInv, Steps
  <1>12. CASE PutBack
    BY <1>12, GotoGoesOn DEF PutBack, At, Finish, RequestInv, Steps
  <1>13. CASE Bounce
    BY <1>13, GotoGoesOn DEF Bounce, At, Finish, RequestInv, Steps
  <1>14. CASE DropBackup
    BY <1>14, GotoGoesOn DEF DropBackup, At, Finish, RequestInv, Steps
  <1>15. CASE DropStaged
    BY <1>15, GotoGoesOn DEF DropStaged, At, Finish, RequestInv, Steps
  <1>16. CASE RemoveOne
    BY <1>16, GotoGoesOn DEF RemoveOne, At, Finish, RequestInv, Steps
  <1>17. CASE Removed
    BY <1>17, GotoGoesOn DEF Removed, At, Finish, RequestInv, Steps
  <1>18. CASE LockedWrite
    BY <1>18, NoneIsNew DEF LockedWrite, Write
  <1>19. CASE UnlockedWrite
    BY <1>19, NoneIsNew DEF UnlockedWrite, Write
  <1>20. CASE Crash
    BY <1>20, NoneIsNew DEF Crash, Replies
  <1>21. CASE UNCHANGED vars
    BY <1>21 DEF vars
  <1>22. CASE SaveLost
    BY <1>22, GotoGoesOn DEF SaveLost, At, Finish, RequestInv, Steps
  <1>23. CASE DropFails
    BY <1>23, GotoGoesOn DEF DropFails, At, Finish, RequestInv, Steps
  <1> QED
    BY <1>1, <1>2, <1>3, <1>4, <1>5, <1>6, <1>7, <1>8, <1>9, <1>10, <1>11, <1>12, <1>13,
       <1>14, <1>15, <1>16, <1>17, <1>18, <1>19, <1>20, <1>21, <1>22, <1>23
       DEF Next, RequestGoesOn, Fault

\* The answer of activate tells what is in the config file and what Xray runs,
\* while every handler that has written the config took inboundsMu.
THEOREM ActivateIsAllOrNothing == Spec => ActivateAllOrNothing
  <1>1. Inv /\ SerialInv /\ [Next]_vars =>
            [Serial /\ Answers("activate") =>
                /\ reply' = "ok" => <<config, running>> = <<h.meta.new, h.meta.new>>
                /\ reply' = "rolled_back" =>
                       <<config, running>> = <<h.meta.old, h.meta.old>>]_vars
    <2> SUFFICES ASSUME Inv, SerialInv, [Next]_vars, Serial, Answers("activate")
                 PROVE  /\ reply' = "ok" => <<config, running>> = <<h.meta.new, h.meta.new>>
                        /\ reply' = "rolled_back" =>
                               <<config, running>> = <<h.meta.old, h.meta.old>>
      OBVIOUS
    <2> QED  BY AnswerSteps DEF Answers, SerialInv, ConfigInv
  <1> QED  BY <1>1, SerialInvariance, PTL DEF ActivateAllOrNothing, Spec

\* A rollback that answers ok has left the config prepare found, while every
\* handler that has written the config took inboundsMu.
THEOREM RollbackIsExact == Spec => RollbackRestores
  <1>1. Inv /\ SerialInv /\ [Next]_vars =>
            [Serial /\ Answers("rollback") /\ reply' = "ok" => config = h.meta.old]_vars
    <2> SUFFICES ASSUME Inv, SerialInv, [Next]_vars, Serial,
                        Answers("rollback"), reply' = "ok"
                 PROVE  config = h.meta.old
      OBVIOUS
    <2> QED  BY AnswerSteps DEF Answers, SerialInv, ConfigInv
  <1> QED  BY <1>1, SerialInvariance, PTL DEF RollbackRestores, Spec
-----------------------------------------------------------------------------
\* While nothing has failed, a committed transaction has no backup left, except
\* within the commit that is about to remove it.
CommitInv ==
    Faultless => \A op \in Ops :
        meta[op] # None /\ meta[op].state = "committed" =>
            backup[op] = None \/ (h # None /\ h.op = op /\ h.at = "dropbackup")

LEMMA NextCommit == Inv /\ CommitInv /\ [Next]_vars => CommitInv'
  <1> SUFFICES ASSUME Inv, CommitInv, [Next]_vars, Faultless' PROVE CommitInv'
    BY DEF CommitInv
  <1>0. Faultless /\ ~Disturb("fault")
    BY DEF Faultless, Next, Disturb, vars
  <1> USE <1>0, NoneIsNew DEF Inv
  <1>1. CASE RequestBegins
    <2>1. h = None /\ UNCHANGED files
      BY <1>1 DEF RequestBegins, Prepare, Activate, Rollback, Commit, Abort, Begin, Refuse
    <2>2. \A op \in Ops :
              meta[op] # None /\ meta[op].state = "committed" => backup[op] = None
      BY <2>1 DEF CommitInv
    <2>3. meta' = meta /\ backup' = backup
      BY <2>1 DEF files
    <2> QED  BY <2>2, <2>3 DEF CommitInv
  <1>2. CASE WriteBackup
    BY <1>2 DEF WriteBackup, TypeOK, RequestInv, SameTxn, CommitInv, Requests, Metas,
                At, Goto, Finish, files, history
  <1>3. CASE WriteStaged
    BY <1>3 DEF WriteStaged, TypeOK, RequestInv, SameTxn, CommitInv, Requests, Metas,
                At, Goto, Finish, files, history
  <1>4. CASE Save
    <2>1. /\ h # None /\ h.at = "save" /\ h.op \in Ops /\ backup' = backup
          /\ meta' = [meta EXCEPT ![h.op] = h.meta]
          /\ h \in Requests
      BY <1>4 DEF Save, At, TypeOK, Requests
    <2>2. CASE h.act = "commit"
      <3>1. h' = [h EXCEPT !.at = "dropbackup"]
        BY <1>4, <2>2 DEF Save, Goto
      <3>2. h'.op = h.op /\ h'.at = "dropbackup" /\ h' \in Requests
        BY <2>1, <3>1 DEF Requests, Steps
      <3> QED  BY <2>1, <3>2 DEF CommitInv, TypeOK
    <2>3. CASE h.act # "commit"
      <3>1. h.meta.state # "committed"
        BY <2>1, <2>3 DEF RequestInv, Requests
      <3> QED  BY <2>1, <3>1 DEF CommitInv, TypeOK
    <2> QED  BY <2>2, <2>3
  <1>5. CASE Install
    BY <1>5 DEF Install, TypeOK, RequestInv, SameTxn, CommitInv, Requests, Metas,
                At, Goto, Finish, files, history
  <1>6. CASE Restart
    BY <1>6 DEF Restart, Verified, TypeOK, RequestInv, SameTxn, CommitInv, Requests, Metas,
                At, Goto, Finish, files, history
  <1>7. CASE Restore
    BY <1>7 DEF Restore, TypeOK, RequestInv, SameTxn, CommitInv, Requests, Metas,
                At, Goto, Finish, files, history
  <1>8. CASE Rerestart
    BY <1>8 DEF Rerestart, TypeOK, RequestInv, SameTxn, CommitInv, Requests, Metas,
                At, Goto, Finish, files, history
  <1>9. CASE SaveFailed
    BY <1>9 DEF SaveFailed, TypeOK, RequestInv, SameTxn, CommitInv, Requests, Metas,
                At, Goto, Finish, files, history
  <1>10. CASE PutBack
    BY <1>10 DEF PutBack, TypeOK, RequestInv, SameTxn, CommitInv, Requests, Metas,
                At, Goto, Finish, files, history
  <1>11. CASE Bounce
    BY <1>11 DEF Bounce, TypeOK, RequestInv, SameTxn, CommitInv, Requests, Metas,
                At, Goto, Finish, files, history
  <1>12. CASE DropBackup
    <2>1. /\ backup' = [backup EXCEPT ![h.op] = None]
          /\ meta' = meta /\ h # None
      BY <1>12 DEF DropBackup, At
    <2>2. backup'[h.op] = None /\ \A op \in Ops : op # h.op => backup'[op] = backup[op]
      BY <2>1 DEF TypeOK, Requests
    <2> QED  BY <2>1, <2>2 DEF CommitInv
  <1>13. CASE DropStaged
    BY <1>13 DEF DropStaged, TypeOK, RequestInv, SameTxn, CommitInv, Requests, Metas,
                At, Goto, Finish, files, history
  <1>14. CASE RemoveOne
    BY <1>14 DEF RemoveOne, TypeOK, RequestInv, SameTxn, CommitInv, Requests, Metas,
                At, Goto, Finish, files, history
  <1>15. CASE Removed
    BY <1>15 DEF Removed, TypeOK, RequestInv, SameTxn, CommitInv, Requests, Metas,
                At, Goto, Finish, files, history
  <1>16. CASE LockedWrite
    BY <1>16 DEF LockedWrite, Write, TypeOK, RequestInv, SameTxn, CommitInv, Requests, Metas,
                At, Goto, Finish, files, history
  <1>17. CASE UnlockedWrite
    BY <1>17 DEF UnlockedWrite, Write, TypeOK, RequestInv, SameTxn, CommitInv, Requests, Metas,
                At, Goto, Finish, files, history
  <1>18. CASE UNCHANGED vars
    BY <1>18 DEF CommitInv, files, vars
  <1> QED
    BY <1>0, <1>1, <1>2, <1>3, <1>4, <1>5, <1>6, <1>7, <1>8, <1>9, <1>10, <1>11, <1>12, <1>13, <1>14, <1>15, <1>16, <1>17, <1>18
       DEF Next, RequestGoesOn

\* commit is final: no rollback, activate or prepare takes a committed
\* transaction back, while the agent does not die and no write fails.
THEOREM CommitIsFinal == Spec => CommittedIsFinal
  <1>1. Init => CommitInv
    BY DEF Init, CommitInv
  <1>2. Inv /\ CommitInv /\ [Next]_vars =>
            [Faultless => \A op \in Ops :
                 meta[op] # None /\ meta[op].state = "committed" =>
                     meta'[op] = None \/ meta'[op].state = "committed"]_vars
    <2> SUFFICES ASSUME Inv, CommitInv, [Next]_vars, Faultless, NEW op \in Ops,
                        meta[op] # None, meta[op].state = "committed"
                 PROVE  meta'[op] = None \/ meta'[op].state = "committed"
      OBVIOUS
    <2>1. meta' = meta \/ Save \/ SaveFailed \/ RemoveOne
      BY DEF Next, RequestBegins, Prepare, Activate, Rollback, Commit, Abort, Begin, Refuse,
             RequestGoesOn, WriteBackup, WriteStaged, Install, Restart, Restore, Rerestart,
             PutBack, Bounce, DropBackup, DropStaged, Removed, LockedWrite, UnlockedWrite,
             Write, Fault, WriteFails, RestoreFails, SaveLost, DropFails, Crash, files, vars
    <2>2. CASE Save
      <3>1. h.op = op => h.act = "commit"
        BY <2>2, NoneIsNew DEF Save, At, Inv, TypeOK, RequestInv, SameTxn, CommitInv, Requests, Metas
      <3> QED  BY <2>2, <3>1 DEF Save, At, Inv, TypeOK, RequestInv
    <2>3. CASE SaveFailed
      <3>1. h.op # op
        BY <2>3 DEF SaveFailed, At, Inv, TypeOK, RequestInv, Requests
      <3> QED  BY <2>3, <3>1 DEF SaveFailed, Inv, TypeOK
    <2>4. CASE RemoveOne
      BY <2>4 DEF RemoveOne, Inv, TypeOK
    <2> QED  BY <2>1, <2>2, <2>3, <2>4
  <1> QED  BY <1>1, <1>2, InitInv, NextInv, NextCommit, PTL DEF CommittedIsFinal, Spec
=============================================================================
