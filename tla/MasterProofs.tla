---------------------------- MODULE MasterProofs -----------------------------
(***************************************************************************)
(* Proofs about what ties the agent to its master.                         *)
(*   MasterLink, for any set of addresses, any network and any thresholds: *)
(*     its type invariant, and that no reconnection asked for is slept     *)
(*     through.                                                            *)
(*   AgentSettings, for any number of changes, any environment and disks   *)
(*     that fail or not: its type invariant, what a write of config.yaml   *)
(*     keeps, that the agent starts again, and with which authorization.   *)
(***************************************************************************)
EXTENDS MasterLink, AgentSettings, TLAPS

\* Between the wait that consumed the signal and the next reading of url the
\* main goroutine does not wait: only there may a request have no signal.
WakeInv == owed => signal \/ pc \in {"top", "connect", "done"}

-----------------------------------------------------------------------------
LEMMA Thresholds == 0 \in 0 .. MaxFailures - 1 /\ 0 \in 0 .. MaxErrors - 1
  BY BoundAssumption

\* A failure counted and found below the threshold stays below it.
LEMMA CountBelow ==
  ASSUME NEW max \in Nat \ {0}, NEW n \in 0 .. max - 1, n + 1 # max
  PROVE  n + 1 \in 0 .. max - 1
  OBVIOUS

LEMMA LinkInitTyped == LinkInit => LinkTypeOK
  <1> SUFFICES ASSUME LinkInit PROVE LinkTypeOK
    OBVIOUS
  <1>1. MainTyped
    BY UrlAssumption, Thresholds DEF LinkInit, MainTyped
  <1>2. updates \in 0 .. MaxUpdates
    BY BoundAssumption DEF LinkInit
  <1>3. AddressTyped
    BY <1>2, UrlAssumption DEF LinkInit, AddressTyped
  <1>4. RecoveryTyped
    BY DEF LinkInit, RecoveryTyped
  <1> QED
    BY <1>1, <1>3, <1>4 DEF LinkTypeOK

\* Leaving connectAndRun keeps the main goroutine's state in shape.
LEMMA ReturnTyped ==
  ASSUME MainTyped, NEW auth \in BOOLEAN, Return(auth) PROVE MainTyped'
  <1> DEFINE count == IF auth THEN failures ELSE failures + 1
  <1>1. failures' \in 0 .. MaxFailures - 1
    <2>1. CASE failures' = failures
      BY <2>1 DEF MainTyped
    <2>2. CASE failures' = 0
      BY <2>2, Thresholds
    <2>3. CASE failures' = count /\ count # MaxFailures
      BY <2>3, CountBelow, BoundAssumption DEF MainTyped
    <2> QED
      BY <2>1, <2>2, <2>3 DEF Return
  <1>2. /\ dialed' = None /\ conn' = "none" /\ denied' = FALSE /\ errors' = errors
        /\ pc' \in {"done", "top", "wait"} /\ loop' \in {loop, "auto"}
    BY DEF Return
  <1> QED
    BY <1>1, <1>2 DEF MainTyped

LEMMA MainStepTyped == MainTyped /\ AddressTyped /\ RecoveryTyped /\ [LinkNext]_linkVars => MainTyped'
  <1> SUFFICES ASSUME MainTyped, AddressTyped, RecoveryTyped, [LinkNext]_linkVars PROVE MainTyped'
    OBVIOUS
  <1> USE Thresholds
  <1>1. CASE WebSocketTop
    BY <1>1 DEF WebSocketTop, MainTyped, AddressTyped, main, recovery, admin
  <1>2. CASE AutoTop
    BY <1>2 DEF AutoTop, MainTyped, AddressTyped, main, recovery, admin
  <1>3. CASE Connect
    BY <1>3 DEF Connect, MainTyped, AddressTyped, main, recovery, admin
  <1>4. CASE DialDone
    BY <1>4 DEF DialDone, MainTyped, AddressTyped, main, recovery, admin
  <1>5. CASE DialFails
    BY <1>5, ReturnTyped DEF DialFails
  <1>6. CASE Authenticated
    BY <1>6 DEF Authenticated, MainTyped, AddressTyped, main, recovery, admin
  <1>7. CASE AuthFails
    BY <1>7 DEF AuthFails, MainTyped, AddressTyped, main, recovery, admin
  <1>8. CASE RunEnds
    BY <1>8 DEF RunEnds, MainTyped, AddressTyped, main, recovery, admin
  <1>9. CASE Close
    BY <1>9, ReturnTyped DEF Close, MainTyped
  <1>10. CASE WaitEnds
    BY <1>10 DEF WaitEnds, MainTyped, AddressTyped, main, recovery, admin
  <1>11. CASE Wake
    BY <1>11 DEF Wake, MainTyped, AddressTyped, main, recovery, admin
  <1>12. CASE ReporterEnds
    BY <1>12 DEF ReporterEnds, MainTyped, AddressTyped, main, recovery, admin
  <1>13. CASE WaitReport
    BY <1>13 DEF WaitReport, MainTyped, AddressTyped, main, recovery, admin
  <1>14. CASE Report
    BY <1>14, BoundAssumption DEF Report, MainTyped, AddressTyped, main, recovery, admin
  <1>15. CASE Silence
    BY <1>15 DEF Silence, MainTyped, AddressTyped, main, recovery, admin
  <1>16. CASE RecoveryTick
    BY <1>16 DEF RecoveryTick, MainTyped, AddressTyped, main, recovery, admin
  <1>17. CASE RecoveryAnswer
    BY <1>17 DEF RecoveryAnswer, Advertised, MainTyped, AddressTyped, main, recovery, admin
  <1>18. CASE RecoverySwitch
    BY <1>18 DEF RecoverySwitch, Trigger, MainTyped, AddressTyped, main, recovery, admin
  <1>19. CASE RecoveryPersist
    BY <1>19 DEF RecoveryPersist, MainTyped, AddressTyped, main, recovery, admin
  <1>20. CASE RecoveryPersistFails
    BY <1>20 DEF RecoveryPersistFails, MainTyped, AddressTyped, main, recovery, admin
  <1>21. ASSUME NEW u \in Urls, UpdateMasterURL(u) PROVE MainTyped'
    BY <1>21 DEF UpdateMasterURL, MainTyped, AddressTyped, main, recovery, admin
  <1>22. ASSUME NEW u \in Urls, ApplyMasterURL(u) PROVE MainTyped'
    BY <1>22 DEF ApplyMasterURL, Trigger, MainTyped, AddressTyped, main, recovery, admin
  <1>23. CASE AddressChanges
    BY <1>23 DEF AddressChanges, Trigger, MainTyped, AddressTyped, main, recovery, admin
  <1>24. CASE NetworkChanges
    BY <1>24 DEF NetworkChanges, MainTyped, AddressTyped, main, recovery, admin
  <1>25. CASE Stop
    BY <1>25 DEF Stop, MainTyped, AddressTyped, main, recovery, admin
  <1>26. CASE UNCHANGED linkVars
    BY <1>26 DEF MainTyped, AddressTyped, main, recovery, admin, linkVars
  <1> QED
    BY <1>1, <1>2, <1>3, <1>4, <1>5, <1>6, <1>7, <1>8, <1>9, <1>10, <1>11, <1>12, <1>13, <1>14, <1>15, <1>16, <1>17, <1>18, <1>19, <1>20, <1>21, <1>22, <1>23, <1>24, <1>25, <1>26 DEF LinkNext, MainStep, RecoveryStep

LEMMA AddressStepTyped == AddressTyped /\ RecoveryTyped /\ [LinkNext]_linkVars => AddressTyped'
  <1> SUFFICES ASSUME AddressTyped, RecoveryTyped, [LinkNext]_linkVars PROVE AddressTyped'
    OBVIOUS
  <1>1. CASE WebSocketTop
    BY <1>1 DEF WebSocketTop, AddressTyped, RecoveryTyped, main, recovery, admin
  <1>2. CASE AutoTop
    BY <1>2 DEF AutoTop, AddressTyped, RecoveryTyped, main, recovery, admin
  <1>3. CASE Connect
    BY <1>3 DEF Connect, AddressTyped, RecoveryTyped, main, recovery, admin
  <1>4. CASE DialDone
    BY <1>4 DEF DialDone, AddressTyped, RecoveryTyped, main, recovery, admin
  <1>5. CASE DialFails
    BY <1>5 DEF DialFails, Return, AddressTyped, RecoveryTyped, main, recovery, admin
  <1>6. CASE Authenticated
    BY <1>6 DEF Authenticated, AddressTyped, RecoveryTyped, main, recovery, admin
  <1>7. CASE AuthFails
    BY <1>7 DEF AuthFails, AddressTyped, RecoveryTyped, main, recovery, admin
  <1>8. CASE RunEnds
    BY <1>8 DEF RunEnds, AddressTyped, RecoveryTyped, main, recovery, admin
  <1>9. CASE Close
    BY <1>9 DEF Close, Return, AddressTyped, RecoveryTyped, main, recovery, admin
  <1>10. CASE WaitEnds
    BY <1>10 DEF WaitEnds, AddressTyped, RecoveryTyped, main, recovery, admin
  <1>11. CASE Wake
    BY <1>11 DEF Wake, AddressTyped, RecoveryTyped, main, recovery, admin
  <1>12. CASE ReporterEnds
    BY <1>12 DEF ReporterEnds, AddressTyped, RecoveryTyped, main, recovery, admin
  <1>13. CASE WaitReport
    BY <1>13 DEF WaitReport, AddressTyped, RecoveryTyped, main, recovery, admin
  <1>14. CASE Report
    BY <1>14 DEF Report, AddressTyped, RecoveryTyped, main, recovery, admin
  <1>15. CASE Silence
    BY <1>15 DEF Silence, AddressTyped, RecoveryTyped, main, recovery, admin
  <1>16. CASE RecoveryTick
    BY <1>16 DEF RecoveryTick, AddressTyped, RecoveryTyped, main, recovery, admin
  <1>17. CASE RecoveryAnswer
    BY <1>17 DEF RecoveryAnswer, Advertised, AddressTyped, RecoveryTyped, main, recovery, admin
  <1>18. CASE RecoverySwitch
    BY <1>18 DEF RecoverySwitch, Trigger, AddressTyped, RecoveryTyped, main, recovery, admin
  <1>19. CASE RecoveryPersist
    BY <1>19 DEF RecoveryPersist, AddressTyped, RecoveryTyped, main, recovery, admin
  <1>20. CASE RecoveryPersistFails
    BY <1>20 DEF RecoveryPersistFails, AddressTyped, RecoveryTyped, main, recovery, admin
  <1>21. ASSUME NEW u \in Urls, UpdateMasterURL(u) PROVE AddressTyped'
    BY <1>21, BoundAssumption DEF UpdateMasterURL, AddressTyped, RecoveryTyped, main, recovery, admin
  <1>22. ASSUME NEW u \in Urls, ApplyMasterURL(u) PROVE AddressTyped'
    BY <1>22 DEF ApplyMasterURL, Trigger, AddressTyped, RecoveryTyped, main, recovery, admin
  <1>23. CASE AddressChanges
    BY <1>23 DEF AddressChanges, Trigger, AddressTyped, RecoveryTyped, main, recovery, admin
  <1>24. CASE NetworkChanges
    BY <1>24 DEF NetworkChanges, AddressTyped, RecoveryTyped, main, recovery, admin
  <1>25. CASE Stop
    BY <1>25 DEF Stop, AddressTyped, RecoveryTyped, main, recovery, admin
  <1>26. CASE UNCHANGED linkVars
    BY <1>26 DEF AddressTyped, RecoveryTyped, main, recovery, admin, linkVars
  <1> QED
    BY <1>1, <1>2, <1>3, <1>4, <1>5, <1>6, <1>7, <1>8, <1>9, <1>10, <1>11, <1>12, <1>13, <1>14, <1>15, <1>16, <1>17, <1>18, <1>19, <1>20, <1>21, <1>22, <1>23, <1>24, <1>25, <1>26 DEF LinkNext, MainStep, RecoveryStep

LEMMA RecoveryStepTyped == RecoveryTyped /\ [LinkNext]_linkVars => RecoveryTyped'
  <1> SUFFICES ASSUME RecoveryTyped, [LinkNext]_linkVars PROVE RecoveryTyped'
    OBVIOUS
  <1>1. CASE WebSocketTop
    BY <1>1 DEF WebSocketTop, RecoveryTyped, main, recovery, admin
  <1>2. CASE AutoTop
    BY <1>2 DEF AutoTop, RecoveryTyped, main, recovery, admin
  <1>3. CASE Connect
    BY <1>3 DEF Connect, RecoveryTyped, main, recovery, admin
  <1>4. CASE DialDone
    BY <1>4 DEF DialDone, RecoveryTyped, main, recovery, admin
  <1>5. CASE DialFails
    BY <1>5 DEF DialFails, Return, RecoveryTyped, main, recovery, admin
  <1>6. CASE Authenticated
    BY <1>6 DEF Authenticated, RecoveryTyped, main, recovery, admin
  <1>7. CASE AuthFails
    BY <1>7 DEF AuthFails, RecoveryTyped, main, recovery, admin
  <1>8. CASE RunEnds
    BY <1>8 DEF RunEnds, RecoveryTyped, main, recovery, admin
  <1>9. CASE Close
    BY <1>9 DEF Close, Return, RecoveryTyped, main, recovery, admin
  <1>10. CASE WaitEnds
    BY <1>10 DEF WaitEnds, RecoveryTyped, main, recovery, admin
  <1>11. CASE Wake
    BY <1>11 DEF Wake, RecoveryTyped, main, recovery, admin
  <1>12. CASE ReporterEnds
    BY <1>12 DEF ReporterEnds, RecoveryTyped, main, recovery, admin
  <1>13. CASE WaitReport
    BY <1>13 DEF WaitReport, RecoveryTyped, main, recovery, admin
  <1>14. CASE Report
    BY <1>14 DEF Report, RecoveryTyped, main, recovery, admin
  <1>15. CASE Silence
    BY <1>15 DEF Silence, RecoveryTyped, main, recovery, admin
  <1>16. CASE RecoveryTick
    BY <1>16 DEF RecoveryTick, RecoveryTyped, main, recovery, admin
  <1>17. CASE RecoveryAnswer
    BY <1>17 DEF RecoveryAnswer, Advertised, RecoveryTyped, main, recovery, admin
  <1>18. CASE RecoverySwitch
    BY <1>18 DEF RecoverySwitch, Trigger, RecoveryTyped, main, recovery, admin
  <1>19. CASE RecoveryPersist
    BY <1>19 DEF RecoveryPersist, RecoveryTyped, main, recovery, admin
  <1>20. CASE RecoveryPersistFails
    BY <1>20 DEF RecoveryPersistFails, RecoveryTyped, main, recovery, admin
  <1>21. ASSUME NEW u \in Urls, UpdateMasterURL(u) PROVE RecoveryTyped'
    BY <1>21 DEF UpdateMasterURL, RecoveryTyped, main, recovery, admin
  <1>22. ASSUME NEW u \in Urls, ApplyMasterURL(u) PROVE RecoveryTyped'
    BY <1>22 DEF ApplyMasterURL, Trigger, RecoveryTyped, main, recovery, admin
  <1>23. CASE AddressChanges
    BY <1>23 DEF AddressChanges, Trigger, RecoveryTyped, main, recovery, admin
  <1>24. CASE NetworkChanges
    BY <1>24 DEF NetworkChanges, RecoveryTyped, main, recovery, admin
  <1>25. CASE Stop
    BY <1>25 DEF Stop, RecoveryTyped, main, recovery, admin
  <1>26. CASE UNCHANGED linkVars
    BY <1>26 DEF RecoveryTyped, main, recovery, admin, linkVars
  <1> QED
    BY <1>1, <1>2, <1>3, <1>4, <1>5, <1>6, <1>7, <1>8, <1>9, <1>10, <1>11, <1>12, <1>13, <1>14, <1>15, <1>16, <1>17, <1>18, <1>19, <1>20, <1>21, <1>22, <1>23, <1>24, <1>25, <1>26 DEF LinkNext, MainStep, RecoveryStep

\* The agent's state keeps its shape: the counters of failures stay below
\* their thresholds, and a recovery that has begun to persist has an address.
THEOREM LinkTypeCorrect == LinkSpec => []LinkTypeOK
  <1>1. LinkTypeOK /\ [LinkNext]_linkVars => LinkTypeOK'
    BY MainStepTyped, AddressStepTyped, RecoveryStepTyped DEF LinkTypeOK
  <1> QED
    BY LinkInitTyped, <1>1, PTL DEF LinkSpec

-----------------------------------------------------------------------------
LEMMA WakeStep == LinkTypeOK /\ WakeInv /\ [LinkNext]_linkVars => WakeInv'
  <1> SUFFICES ASSUME LinkTypeOK, WakeInv, [LinkNext]_linkVars PROVE WakeInv'
    OBVIOUS
  <1>1. CASE WebSocketTop
    BY <1>1 DEF WebSocketTop, WakeInv, main, recovery, admin
  <1>2. CASE AutoTop
    BY <1>2 DEF AutoTop, WakeInv, main, recovery, admin
  <1>3. CASE Connect
    BY <1>3 DEF Connect, WakeInv, main, recovery, admin
  <1>4. CASE DialDone
    BY <1>4 DEF DialDone, WakeInv, main, recovery, admin
  <1>5. CASE DialFails
    BY <1>5 DEF DialFails, Return, WakeInv, main, recovery, admin
  <1>6. CASE Authenticated
    BY <1>6 DEF Authenticated, WakeInv, main, recovery, admin
  <1>7. CASE AuthFails
    BY <1>7 DEF AuthFails, WakeInv, main, recovery, admin
  <1>8. CASE RunEnds
    BY <1>8 DEF RunEnds, WakeInv, main, recovery, admin
  <1>9. CASE Close
    BY <1>9 DEF Close, Return, WakeInv, main, recovery, admin
  <1>10. CASE WaitEnds
    BY <1>10 DEF WaitEnds, WakeInv, main, recovery, admin
  <1>11. CASE Wake
    BY <1>11 DEF Wake, WakeInv, main, recovery, admin
  <1>12. CASE ReporterEnds
    BY <1>12 DEF ReporterEnds, WakeInv, main, recovery, admin
  <1>13. CASE WaitReport
    BY <1>13 DEF WaitReport, WakeInv, main, recovery, admin
  <1>14. CASE Report
    BY <1>14 DEF Report, WakeInv, main, recovery, admin
  <1>15. CASE Silence
    BY <1>15 DEF Silence, WakeInv, main, recovery, admin
  <1>16. CASE RecoveryTick
    BY <1>16 DEF RecoveryTick, WakeInv, main, recovery, admin
  <1>17. CASE RecoveryAnswer
    BY <1>17 DEF RecoveryAnswer, Advertised, WakeInv, main, recovery, admin
  <1>18. CASE RecoverySwitch
    BY <1>18 DEF RecoverySwitch, Trigger, WakeInv, main, recovery, admin
  <1>19. CASE RecoveryPersist
    BY <1>19 DEF RecoveryPersist, WakeInv, main, recovery, admin
  <1>20. CASE RecoveryPersistFails
    BY <1>20 DEF RecoveryPersistFails, WakeInv, main, recovery, admin
  <1>21. ASSUME NEW u \in Urls, UpdateMasterURL(u) PROVE WakeInv'
    BY <1>21 DEF UpdateMasterURL, WakeInv, main, recovery, admin
  <1>22. ASSUME NEW u \in Urls, ApplyMasterURL(u) PROVE WakeInv'
    BY <1>22 DEF ApplyMasterURL, Trigger, WakeInv, main, recovery, admin
  <1>23. CASE AddressChanges
    BY <1>23 DEF AddressChanges, Trigger, WakeInv, main, recovery, admin
  <1>24. CASE NetworkChanges
    BY <1>24 DEF NetworkChanges, WakeInv, main, recovery, admin
  <1>25. CASE Stop
    BY <1>25 DEF Stop, WakeInv, main, recovery, admin
  <1>26. CASE UNCHANGED linkVars
    BY <1>26 DEF WakeInv, main, recovery, admin, linkVars
  <1> QED
    BY <1>1, <1>2, <1>3, <1>4, <1>5, <1>6, <1>7, <1>8, <1>9, <1>10, <1>11, <1>12, <1>13, <1>14, <1>15, <1>16, <1>17, <1>18, <1>19, <1>20, <1>21, <1>22, <1>23, <1>24, <1>25, <1>26 DEF LinkNext, MainStep, RecoveryStep

\* A wait never outlasts a request to reconnect: a signal sent while nobody
\* waited is still in the channel when the agent waits the next time.
THEOREM WakeKept == LinkSpec => []NoLostWake
  <1>1. LinkInit => WakeInv
    BY DEF LinkInit, WakeInv
  <1>2. WakeInv => NoLostWake
    BY DEF WakeInv, NoLostWake
  <1> QED
    BY <1>1, <1>2, WakeStep, LinkTypeCorrect, PTL DEF LinkSpec

-----------------------------------------------------------------------------
(***************************************************************************)
(* AgentSettings.                                                          *)
(***************************************************************************)
Values == (UNION {Options[l] : l \in Lines}) \cup {Absent}

WriterTyped ==
  /\ wpc \in [Writers -> {"idle", "read", "open", "write", "rename", "after"}]
  /\ val \in [Writers -> Values]
  /\ \A w \in Writers : val[w] \in Options[Line[w]] \cup {Absent}
  /\ buf \in [Writers -> Contents]
  /\ orphan \in [Writers -> BOOLEAN]

ProcessTyped ==
  /\ file \in Contents /\ mem \in Contents /\ env \in Environments
  /\ running \in {"down", "booting", "up"} /\ exiting \in BOOLEAN
  /\ requests \in 0 .. MaxRequests

HistoryTyped ==
  /\ stored \in Contents /\ told \in Options.auth
  /\ mixed \in BOOLEAN /\ cut \in BOOLEAN /\ torn \in BOOLEAN

Typed == WriterTyped /\ ProcessTyped /\ HistoryTyped

\* The writers are goroutines: they end with the process.
DownInv == running = "down" => \A w \in Writers : wpc[w] = "idle"

\* Only the lines of the port and of the authorization may be taken away.
ValInv == \A w \in Writers : wpc[w] # "idle" => val[w] \in Options[Line[w]]

\* Until two writers overlap there is at most one between its read and its
\* write, and none has opened a file that was replaced.
AloneInv ==
  ~mixed => /\ \A w, o \in Writers : Holding(w) /\ Holding(o) => w = o
            /\ \A w \in Writers : ~orphan[w]

\* Until then, and until a write is cut short, the file is what was stored, but
\* for the moment in which it is truncated; and the one who will write it has a
\* copy with its own line changed.
FileInv ==
  ~mixed /\ ~torn =>
    /\ (\E w \in Writers : wpc[w] = "write") => file = Empty
    /\ (\A w \in Writers : wpc[w] # "write") => file = stored
    /\ \A w \in Writers : Holding(w) => buf[w] = [stored EXCEPT ![Line[w]] = val[w]]

\* What Load and Validate need was stored.
StoredInv == stored.whole = "yes" /\ stored.token # Absent /\ stored.url # Absent

\* The authorization config.yaml stands for.
AuthOf(c) == IF c.auth = Absent THEN "yes" ELSE c.auth

\* The one pushed last is stored, or the writer is on its way with it.
AuthInv ==
  ~cut /\ ~mixed =>
    /\ wpc["push"] \in {"idle", "after"} => AuthOf(stored) = told
    /\ wpc["push"] \notin {"idle", "after"} => val["push"] = told
    /\ running # "down" => mem.auth = told

Inv ==
  /\ Typed /\ DownInv /\ ValInv /\ (torn => cut)
  /\ AloneInv /\ FileInv /\ StoredInv /\ AuthInv

\* Which writer has which line.
LEMMA WhoWritesWhat ==
  /\ Writers = {"push", "recovery", "admin", "mode", "port", "boot"}
  /\ Lines = {"token", "url", "auth", "mode", "port", "whole"}
  /\ Line["push"] = "auth" /\ Line["recovery"] = "url" /\ Line["admin"] = "url"
  /\ Line["mode"] = "mode" /\ Line["port"] = "port" /\ Line["boot"] = "port"
  /\ \A w \in Writers : Line[w] \in Lines /\ Line[w] # "whole" /\ Line[w] # "token"
  /\ \A w \in Writers : Line[w] = "auth" => w = "push"
  BY DEF Writers, Line, Lines, Options

LEMMA OptionsAre ==
  /\ Options["token"] = {"old", "new"} /\ Options["url"] = {"home", "other"}
  /\ Options["auth"] = {"yes", "no"} /\ Options["mode"] = {"external", "embedded"}
  /\ Options["port"] = {"other", Absent} /\ Options["whole"] = {"yes"}
  /\ Absent \notin {"old", "new", "home", "other", "yes", "no", "external", "embedded"}
  BY DEF Options, Absent

LEMMA LineValues ==
  ASSUME NEW l \in Lines, NEW v \in Options[l] \cup {Absent} PROVE v \in Values
  <1>1. CASE v = Absent
    BY <1>1 DEF Values
  <1>2. CASE v \in Options[l]
    <2>1. \E V \in {Options[k] : k \in Lines} : v \in V
      BY <1>2, Zenon
    <2> QED
      BY <2>1, Zenon DEF Values
  <1> QED
    BY <1>1, <1>2

LEMMA InContents ==
  ASSUME NEW c, c \in [Lines -> Values], \A l \in Lines : c[l] \in Options[l] \cup {Absent}
  PROVE  c \in Contents
  BY DEF Contents, Values

LEMMA OfContents ==
  ASSUME NEW c \in Contents
  PROVE  c \in [Lines -> Values] /\ \A l \in Lines : c[l] \in Options[l] \cup {Absent}
  BY DEF Contents, Values

\* Changing one line.
LEMMA Edited ==
  ASSUME NEW c \in Contents, NEW l \in Lines, NEW v \in Options[l] \cup {Absent}
  PROVE  /\ [c EXCEPT ![l] = v] \in Contents
         /\ [c EXCEPT ![l] = v][l] = v
         /\ \A k \in Lines : k # l => [c EXCEPT ![l] = v][k] = c[k]
  <1> DEFINE d == [c EXCEPT ![l] = v]
  <1>1. v \in Values
    BY LineValues
  <1>2. c \in [Lines -> Values] /\ \A k \in Lines : c[k] \in Options[k] \cup {Absent}
    BY OfContents
  <1>3. d \in [Lines -> Values] /\ d[l] = v /\ \A k \in Lines : k # l => d[k] = c[k]
    BY <1>1, <1>2
  <1>4. \A k \in Lines : d[k] \in Options[k] \cup {Absent}
    BY <1>2, <1>3
  <1> QED
    BY <1>3, <1>4, InContents

LEMMA EmptyTyped == Empty \in Contents /\ Empty.token = Absent
  <1>1. Empty \in [Lines -> Values] /\ \A l \in Lines : Empty[l] \in Options[l] \cup {Absent}
    <2>1. "yes" \in Values /\ Absent \in Values
      BY WhoWritesWhat, OptionsAre DEF Values
    <2> QED
      BY <2>1, WhoWritesWhat, OptionsAre DEF Empty
  <1> QED
    BY <1>1, InContents, WhoWritesWhat DEF Empty

LEMMA InstalledTyped ==
  /\ Installed \in Contents /\ Installed.whole = "yes" /\ Installed.token # Absent
  /\ Installed.url # Absent /\ AuthOf(Installed) = "yes"
  <1>1. "yes" \in Values /\ Absent \in Values /\ "old" \in Values /\ "home" \in Values
        /\ "external" \in Values
    BY WhoWritesWhat, OptionsAre DEF Values
  <1>2. Installed \in [Lines -> Values]
    BY <1>1, WhoWritesWhat DEF Installed
  <1>3. \A l \in Lines : Installed[l] \in Options[l] \cup {Absent}
    BY WhoWritesWhat, OptionsAre DEF Installed
  <1> QED
    BY <1>2, <1>3, InContents, OptionsAre DEF Installed, AuthOf

LEMMA LoadedTyped ==
  ASSUME ProcessTyped
  PROVE  /\ Loaded \in Contents
         /\ Loaded.auth = AuthOf(file)
  <1>1. /\ env \in Contents /\ env["auth"] = Absent /\ file \in Contents
    BY SettingsAssumption DEF ProcessTyped
  <1>2. /\ \A l \in Lines : env[l] \in Options[l] \cup {Absent}
        /\ \A l \in Lines : file[l] \in Options[l] \cup {Absent}
    BY <1>1, OfContents
  <1>3. \A l \in Lines : Loaded[l] \in Options[l] \cup {Absent}
    BY <1>2, WhoWritesWhat, OptionsAre DEF Loaded, Given
  <1>4. Loaded \in [Lines -> Values]
    <2>1. \A l \in Lines : Loaded[l] \in Values
      BY <1>3, LineValues
    <2>2. Loaded = [l \in Lines |-> Loaded[l]]
      BY DEF Loaded
    <2> HIDE DEF Loaded
    <2> QED
      BY <2>1, <2>2
  <1>5. Loaded["auth"] = AuthOf(file)
    BY <1>1, WhoWritesWhat DEF Loaded, Given, AuthOf
  <1> QED
    BY <1>3, <1>4, <1>5, InContents

-----------------------------------------------------------------------------
(***************************************************************************)
(* What Starts and Ends do to the writers.                                 *)
(***************************************************************************)
LEMMA StartsDoes ==
  ASSUME WriterTyped, ProcessTyped, NEW w \in Writers, NEW v \in Options[Line[w]], Starts(w, v)
  PROVE  /\ wpc' = [wpc EXCEPT ![w] = "read"] /\ wpc'[w] = "read" /\ wpc[w] = "idle"
         /\ wpc' \in [Writers -> {"idle", "read", "open", "write", "rename", "after"}]
         /\ \A o \in Writers : o # w => wpc'[o] = wpc[o] /\ val'[o] = val[o]
         /\ val' \in [Writers -> Values] /\ val'[w] = v
         /\ \A o \in Writers : val'[o] \in Options[Line[o]] \cup {Absent}
         /\ requests' \in 0 .. MaxRequests /\ ~mixed
  <1>1. /\ wpc' = [wpc EXCEPT ![w] = "read"] /\ val' = [val EXCEPT ![w] = v]
        /\ wpc[w] = "idle" /\ ~mixed
    BY DEF Starts
  <1>2. v \in Values
    BY WhoWritesWhat, LineValues
  <1>3. requests' \in 0 .. MaxRequests
    BY SettingsAssumption DEF Starts, ProcessTyped
  <1>4. /\ wpc'[w] = "read"
        /\ wpc' \in [Writers -> {"idle", "read", "open", "write", "rename", "after"}]
        /\ \A o \in Writers : o # w => wpc'[o] = wpc[o]
    BY <1>1 DEF WriterTyped
  <1>5. /\ val' \in [Writers -> Values] /\ val'[w] = v
        /\ \A o \in Writers : o # w => val'[o] = val[o]
    BY <1>1, <1>2 DEF WriterTyped
  <1>6. \A o \in Writers : val'[o] \in Options[Line[o]] \cup {Absent}
    BY <1>5 DEF WriterTyped
  <1> QED
    BY <1>1, <1>3, <1>4, <1>5, <1>6

LEMMA EndsDoes ==
  ASSUME WriterTyped, NEW w \in Writers, Ends(w)
  PROVE  /\ WriterTyped'
         /\ wpc'[w] = "idle" /\ ~orphan'[w]
         /\ \A o \in Writers : o # w => /\ wpc'[o] = wpc[o] /\ val'[o] = val[o]
                                        /\ buf'[o] = buf[o] /\ orphan'[o] = orphan[o]
  <1>1. /\ wpc' = [wpc EXCEPT ![w] = "idle"] /\ val' = [val EXCEPT ![w] = Absent]
        /\ buf' = [buf EXCEPT ![w] = Empty] /\ orphan' = [orphan EXCEPT ![w] = FALSE]
    BY DEF Ends
  <1>2. Absent \in Values /\ Empty \in Contents
    BY EmptyTyped DEF Values
  <1>3. /\ wpc' \in [Writers -> {"idle", "read", "open", "write", "rename", "after"}]
        /\ wpc'[w] = "idle" /\ \A o \in Writers : o # w => wpc'[o] = wpc[o]
    BY <1>1 DEF WriterTyped
  <1>4. /\ val' \in [Writers -> Values] /\ val'[w] = Absent
        /\ \A o \in Writers : o # w => val'[o] = val[o]
    BY <1>1, <1>2 DEF WriterTyped
  <1>5. /\ buf' \in [Writers -> Contents] /\ \A o \in Writers : o # w => buf'[o] = buf[o]
    BY <1>1, <1>2 DEF WriterTyped
  <1>6. /\ orphan' \in [Writers -> BOOLEAN] /\ ~orphan'[w]
        /\ \A o \in Writers : o # w => orphan'[o] = orphan[o]
    BY <1>1 DEF WriterTyped
  <1>7. \A o \in Writers : val'[o] \in Options[Line[o]] \cup {Absent}
    BY <1>4 DEF WriterTyped
  <1> QED
    BY <1>3, <1>4, <1>5, <1>6, <1>7 DEF WriterTyped

\* A writer moves on in its own function.
LEMMA GoesOn ==
  ASSUME WriterTyped, NEW w \in Writers,
         NEW at \in {"idle", "read", "open", "write", "rename", "after"},
         wpc' = [wpc EXCEPT ![w] = at]
  PROVE  /\ wpc' \in [Writers -> {"idle", "read", "open", "write", "rename", "after"}]
         /\ wpc'[w] = at /\ \A o \in Writers : o # w => wpc'[o] = wpc[o]
  BY DEF WriterTyped

\* What Read does when it does not find the line to have the value already.
Copies(w) ==
  /\ buf' = [buf EXCEPT ![w] = [file EXCEPT ![Line[w]] = val[w]]]
  /\ wpc' = [wpc EXCEPT ![w] = IF w = "port" THEN "rename" ELSE "open"]
  /\ mixed' = (mixed \/ \E o \in Writers : Holding(o))
  /\ UNCHANGED <<val, orphan>>

LEMMA CopiesDoes ==
  ASSUME WriterTyped, ProcessTyped, NEW w \in Writers, Copies(w)
  PROVE  /\ WriterTyped'
         /\ wpc'[w] \in {"open", "rename"} /\ buf'[w] = [file EXCEPT ![Line[w]] = val[w]]
         /\ \A o \in Writers : o # w => wpc'[o] = wpc[o] /\ buf'[o] = buf[o]
  <1> DEFINE new == [file EXCEPT ![Line[w]] = val[w]]
  <1>1. new \in Contents
    <2>1. Line[w] \in Lines /\ val[w] \in Options[Line[w]] \cup {Absent} /\ file \in Contents
      BY WhoWritesWhat DEF WriterTyped, ProcessTyped
    <2> QED
      BY <2>1, Edited
  <1> HIDE DEF new
  <1>2. buf' = [buf EXCEPT ![w] = new] /\ UNCHANGED <<val, orphan>>
    BY DEF Copies, new
  <1>3. /\ buf' \in [Writers -> Contents] /\ buf'[w] = new
        /\ \A o \in Writers : o # w => buf'[o] = buf[o]
    BY <1>1, <1>2 DEF WriterTyped
  <1>4. /\ wpc' \in [Writers -> {"idle", "read", "open", "write", "rename", "after"}]
        /\ wpc'[w] \in {"open", "rename"} /\ \A o \in Writers : o # w => wpc'[o] = wpc[o]
    BY GoesOn DEF Copies
  <1> QED
    BY <1>2, <1>3, <1>4 DEF WriterTyped, new

LEMMA ReadEndsOrCopies ==
  ASSUME NEW w \in Writers, Read(w)
  PROVE  /\ wpc[w] = "read"
         /\ (Ends(w) /\ w # "push" /\ UNCHANGED mixed) \/ Copies(w)
         /\ UNCHANGED <<file, env, running, mem, exiting, requests, stored, told, cut, torn>>
  BY DEF Read, Copies

\* A line gets a value of its own.
LEMMA StoredEdited ==
  ASSUME WriterTyped, HistoryTyped, NEW w \in Writers
  PROVE  [stored EXCEPT ![Line[w]] = val[w]] \in Contents
  <1>1. Line[w] \in Lines /\ val[w] \in Options[Line[w]] \cup {Absent} /\ stored \in Contents
    BY WhoWritesWhat DEF WriterTyped, HistoryTyped
  <1> QED
    BY <1>1, Edited

\* No writer is in the file any more once the process has ended.
LEMMA EndedDoes ==
  ASSUME Typed, Ended
  PROVE  /\ WriterTyped' /\ \A w \in Writers : wpc'[w] = "idle" /\ ~orphan'[w]
         /\ running' = "down" /\ ProcessTyped' /\ HistoryTyped'
  <1>1. /\ wpc' = Idle /\ val' = NoValue /\ buf' = NoBuffer /\ orphan' = NoOrphan
        /\ running' = "down" /\ exiting' = FALSE /\ mem' = Installed
        /\ UNCHANGED <<file, env, requests, stored, told, mixed>>
        /\ cut' \in BOOLEAN /\ torn' \in BOOLEAN
    BY DEF Ended, Typed, HistoryTyped
  <1>2. Absent \in Values
    BY DEF Values
  <1>3. WriterTyped' /\ \A w \in Writers : wpc'[w] = "idle" /\ ~orphan'[w]
    BY <1>1, <1>2, EmptyTyped DEF Idle, NoValue, NoBuffer, NoOrphan, WriterTyped
  <1>4. ProcessTyped' /\ HistoryTyped'
    BY <1>1, InstalledTyped DEF Typed, ProcessTyped, HistoryTyped
  <1> QED
    BY <1>1, <1>3, <1>4

-----------------------------------------------------------------------------
(***************************************************************************)
(* The file, the writers and the history: what every step keeps of them.   *)
(***************************************************************************)
FilesInv ==
  /\ WriterTyped /\ DownInv /\ ValInv /\ (torn => cut)
  /\ AloneInv /\ FileInv /\ StoredInv

\* A writer that begins has nothing of the file yet.
LEMMA StartsKeeps ==
  ASSUME Inv, NEW w \in Writers, NEW v \in Options[Line[w]], Starts(w, v),
         UNCHANGED <<file, running, buf, orphan, stored, mixed, cut, torn>>, running # "down"
  PROVE  FilesInv'
  <1>1. /\ wpc'[w] = "read" /\ wpc[w] = "idle" /\ val'[w] = v
        /\ \A o \in Writers : o # w => wpc'[o] = wpc[o] /\ val'[o] = val[o]
    BY StartsDoes DEF Inv, Typed
  <1>2. WriterTyped'
    BY StartsDoes DEF Inv, Typed, WriterTyped
  <1>3. DownInv' /\ ValInv'
    BY <1>1 DEF Inv, DownInv, ValInv
  <1>4. \A o \in Writers : Holding(o)' => o # w /\ Holding(o)
    BY <1>1 DEF Holding
  <1>5. AloneInv'
    BY <1>4 DEF Inv, AloneInv
  <1>6. FileInv'
    BY <1>1, <1>4 DEF Inv, FileInv
  <1> QED
    BY <1>2, <1>3, <1>5, <1>6 DEF FilesInv, Inv, StoredInv

\* A writer that ends, and has not truncated the file it ends in.
LEMMA EndsKeeps ==
  ASSUME Inv, NEW w \in Writers, Ends(w), running' = running,
         UNCHANGED <<file, stored, mixed>>,
         torn' \in BOOLEAN, cut' \in BOOLEAN, torn => torn', torn' => cut',
         wpc[w] = "write" => torn' \/ orphan[w]
  PROVE  FilesInv'
  <1>1. /\ WriterTyped' /\ wpc'[w] = "idle" /\ ~orphan'[w]
        /\ \A o \in Writers : o # w => /\ wpc'[o] = wpc[o] /\ val'[o] = val[o]
                                       /\ buf'[o] = buf[o] /\ orphan'[o] = orphan[o]
    BY EndsDoes DEF Inv, Typed
  <1>2. DownInv' /\ ValInv'
    BY <1>1 DEF Inv, DownInv, ValInv
  <1>3. \A o \in Writers : Holding(o)' => o # w /\ Holding(o)
    BY <1>1 DEF Holding
  <1>4. AloneInv'
    BY <1>1, <1>3 DEF Inv, AloneInv
  <1>5. FileInv'
    <2> SUFFICES ASSUME ~mixed, ~torn'
                 PROVE  /\ (\E o \in Writers : wpc'[o] = "write") => file = Empty
                        /\ (\A o \in Writers : wpc'[o] # "write") => file = stored
                        /\ \A o \in Writers : Holding(o)' =>
                             buf'[o] = [stored EXCEPT ![Line[o]] = val'[o]]
      BY DEF FileInv
    <2>1. wpc[w] # "write"
      BY DEF Inv, AloneInv
    <2>2. ~torn
      OBVIOUS
    <2> QED
      BY <1>1, <1>3, <2>1, <2>2 DEF Inv, FileInv
  <1> QED
    BY <1>1, <1>2, <1>4, <1>5 DEF FilesInv, Inv, StoredInv

\* Storing a line: nobody stores an address or a text that Validate refuses.
LEMMA StoreKeeps ==
  ASSUME Inv, NEW w \in Writers, wpc[w] # "idle",
         stored' = [stored EXCEPT ![Line[w]] = val[w]]
  PROVE  /\ stored' \in Contents /\ StoredInv'
         /\ w = "push" => AuthOf(stored') = val[w]
         /\ w # "push" => AuthOf(stored') = AuthOf(stored)
  <1>1. /\ stored \in Contents /\ Line[w] \in Lines /\ val[w] \in Options[Line[w]]
    BY WhoWritesWhat DEF Inv, ValInv, Typed, HistoryTyped
  <1>2. /\ stored' \in Contents /\ stored'[Line[w]] = val[w]
        /\ \A k \in Lines : k # Line[w] => stored'[k] = stored[k]
    <2> DEFINE new == [stored EXCEPT ![Line[w]] = val[w]]
    <2>1. /\ new \in Contents /\ new[Line[w]] = val[w]
          /\ \A k \in Lines : k # Line[w] => new[k] = stored[k]
      <3>1. stored \in [Lines -> Values]
        BY <1>1, OfContents
      <3>2. new \in Contents
        BY <1>1, Edited
      <3> QED
        BY <1>1, <3>1, <3>2
    <2>2. stored' = new
      OBVIOUS
    <2> HIDE DEF new
    <2> QED
      BY <2>1, <2>2
  <1>3. stored'["whole"] = stored["whole"] /\ stored'["token"] = stored["token"]
    BY <1>2, WhoWritesWhat
  <1>4. stored'["url"] # Absent
    <2>1. CASE Line[w] = "url"
      BY <1>1, <1>2, <2>1, OptionsAre
    <2>2. CASE Line[w] # "url"
      BY <1>2, <2>2, WhoWritesWhat DEF Inv, StoredInv
    <2> QED
      BY <2>1, <2>2
  <1>5. StoredInv'
    BY <1>3, <1>4 DEF Inv, StoredInv
  <1>6. w = "push" => AuthOf(stored') = val[w]
    BY <1>1, <1>2, WhoWritesWhat, OptionsAre DEF AuthOf
  <1>7. w # "push" => AuthOf(stored') = AuthOf(stored)
    BY <1>2, WhoWritesWhat DEF AuthOf
  <1> QED
    BY <1>2, <1>5, <1>6, <1>7

LEMMA ReadKeeps ==
  ASSUME Inv, NEW w \in Writers, Read(w) PROVE FilesInv' /\ mixed' \in BOOLEAN
  <1>1. /\ wpc[w] = "read"
        /\ UNCHANGED <<file, env, running, mem, exiting, requests, stored, told, cut, torn>>
    BY ReadEndsOrCopies
  <1>2. CASE Ends(w) /\ UNCHANGED mixed
    BY <1>1, <1>2, EndsKeeps DEF Inv, Typed, HistoryTyped
  <1>3. CASE Copies(w)
    <2>1. /\ WriterTyped' /\ wpc'[w] \in {"open", "rename"}
          /\ buf'[w] = [file EXCEPT ![Line[w]] = val[w]]
          /\ \A o \in Writers : o # w => wpc'[o] = wpc[o] /\ buf'[o] = buf[o]
      BY <1>3, CopiesDoes DEF Inv, Typed
    <2>2. /\ UNCHANGED <<val, orphan>> /\ mixed' \in BOOLEAN
          /\ ~mixed' => ~mixed /\ \A o \in Writers : ~Holding(o)
      BY <1>3 DEF Copies, Inv, Typed, HistoryTyped
    <2>3. DownInv' /\ ValInv'
      BY <1>1, <2>1, <2>2 DEF Inv, DownInv, ValInv
    <2>4. ~mixed' => \A o \in Writers : Holding(o)' => o = w
      BY <2>1, <2>2 DEF Holding
    <2>5. AloneInv'
      BY <2>2, <2>4 DEF Inv, AloneInv
    <2>6. FileInv'
      <3> SUFFICES ASSUME ~mixed', ~torn
                   PROVE  /\ (\E o \in Writers : wpc'[o] = "write") => file = Empty
                          /\ (\A o \in Writers : wpc'[o] # "write") => file = stored
                          /\ \A o \in Writers : Holding(o)' =>
                               buf'[o] = [stored EXCEPT ![Line[o]] = val[o]]
        BY <1>1, <2>2 DEF FileInv
      <3>1. \A o \in Writers : wpc[o] # "write"
        BY <2>2 DEF Holding
      <3>2. file = stored
        BY <2>2, <3>1 DEF Inv, FileInv
      <3>3. \A o \in Writers : wpc'[o] # "write"
        BY <2>1, <3>1
      <3> QED
        BY <2>1, <2>4, <3>2, <3>3
    <2> QED
      BY <1>1, <2>1, <2>2, <2>3, <2>5, <2>6 DEF FilesInv, Inv, StoredInv
  <1> QED
    BY <1>2, <1>3, ReadEndsOrCopies

LEMMA TruncateKeeps ==
  ASSUME Inv, NEW w \in Writers, Truncate(w) PROVE FilesInv'
  <1>1. /\ wpc[w] = "open" /\ file' = Empty
        /\ UNCHANGED <<running, val, buf, orphan, stored, mixed, cut, torn>>
    BY DEF Truncate, history
  <1>2. /\ wpc' \in [Writers -> {"idle", "read", "open", "write", "rename", "after"}]
        /\ wpc'[w] = "write" /\ \A o \in Writers : o # w => wpc'[o] = wpc[o]
    BY GoesOn DEF Truncate, Inv, Typed
  <1>3. WriterTyped' /\ DownInv' /\ ValInv'
    BY <1>1, <1>2 DEF Inv, Typed, WriterTyped, DownInv, ValInv
  <1>4. \A o \in Writers : Holding(o)' <=> Holding(o)
    BY <1>1, <1>2 DEF Holding
  <1>5. AloneInv' /\ FileInv'
    BY <1>1, <1>2, <1>4 DEF Inv, AloneInv, FileInv
  <1> QED
    BY <1>1, <1>3, <1>5 DEF FilesInv, Inv, StoredInv

\* What one writer stores while it is the only one.
LEMMA StoredKeeps ==
  ASSUME Inv, NEW w \in Writers, Holding(w), wpc' = [wpc EXCEPT ![w] = "after"],
         stored' = [stored EXCEPT ![Line[w]] = val[w]],
         ~mixed /\ ~torn => file' = buf[w],
         UNCHANGED <<running, val, buf, mixed, cut, torn>>,
         orphan' \in [Writers -> BOOLEAN], ~mixed => \A o \in Writers : ~orphan'[o]
  PROVE  FilesInv'
  <1>1. /\ wpc' \in [Writers -> {"idle", "read", "open", "write", "rename", "after"}]
        /\ wpc'[w] = "after" /\ \A o \in Writers : o # w => wpc'[o] = wpc[o]
    BY GoesOn DEF Inv, Typed
  <1>2. wpc[w] # "idle"
    BY DEF Holding
  <1>3. WriterTyped' /\ DownInv' /\ ValInv'
    BY <1>1, <1>2 DEF Inv, Typed, WriterTyped, DownInv, ValInv
  <1>4. StoredInv'
    BY <1>2, StoreKeeps
  <1>5. ~mixed => \A o \in Writers : ~Holding(o)' /\ wpc'[o] # "write"
    BY <1>1 DEF Inv, AloneInv, Holding
  <1>6. AloneInv'
    BY <1>5 DEF AloneInv
  <1>7. ~mixed /\ ~torn => file' = stored'
    BY DEF Inv, FileInv
  <1>8. FileInv'
    BY <1>5, <1>7 DEF FileInv
  <1> QED
    BY <1>3, <1>4, <1>6, <1>8 DEF FilesInv, Inv

LEMMA WriteKeeps ==
  ASSUME Inv, NEW w \in Writers, Write(w) PROVE FilesInv' /\ file' \in Contents
  <1>1. /\ wpc[w] = "write" /\ wpc' = [wpc EXCEPT ![w] = "after"] /\ Holding(w)
        /\ UNCHANGED <<running, val, buf, orphan, mixed, cut, torn>>
    BY DEF Write, Holding
  <1>2. CASE ~orphan[w]
    <2>1. stored' = [stored EXCEPT ![Line[w]] = val[w]]
      BY <1>2 DEF Write
    <2>2. /\ file' = buf[w] \/ file' = [buf[w] EXCEPT !["whole"] = Absent]
          /\ file = Empty => file' = buf[w]
      BY <1>2 DEF Write
    <2>3. file' \in Contents
      <3>1. buf[w] \in Contents /\ "whole" \in Lines
        BY WhoWritesWhat DEF Inv, Typed, WriterTyped
      <3>2. [buf[w] EXCEPT !["whole"] = Absent] \in Contents
        BY <3>1, Edited
      <3> QED
        BY <2>2, <3>1, <3>2
    <2>4. ~mixed /\ ~torn => file' = buf[w]
      BY <1>1, <2>2 DEF Inv, FileInv
    <2>5. orphan' \in [Writers -> BOOLEAN] /\ (~mixed => \A o \in Writers : ~orphan'[o])
      BY <1>1 DEF Inv, Typed, WriterTyped, AloneInv
    <2> QED
      BY <1>1, <2>1, <2>3, <2>4, <2>5, StoredKeeps
  <1>3. CASE orphan[w]
    <2>1. mixed /\ UNCHANGED <<file, stored>>
      BY <1>3 DEF Write, Inv, AloneInv
    <2>2. /\ wpc' \in [Writers -> {"idle", "read", "open", "write", "rename", "after"}]
          /\ wpc'[w] = "after" /\ \A o \in Writers : o # w => wpc'[o] = wpc[o]
      BY <1>1, GoesOn DEF Inv, Typed
    <2>3. WriterTyped' /\ DownInv' /\ ValInv'
      BY <1>1, <2>2 DEF Inv, Typed, WriterTyped, DownInv, ValInv
    <2>4. AloneInv' /\ FileInv'
      BY <1>1, <2>1 DEF AloneInv, FileInv
    <2> QED
      BY <1>1, <2>1, <2>3, <2>4 DEF FilesInv, Inv, StoredInv, Typed, ProcessTyped
  <1> QED
    BY <1>2, <1>3

LEMMA RenameKeeps ==
  ASSUME Inv, NEW w \in Writers, Rename(w) PROVE FilesInv' /\ file' \in Contents /\ cut' \in BOOLEAN
  <1>1. wpc[w] = "rename" /\ UNCHANGED <<running, mixed, torn>> /\ Holding(w)
    BY DEF Rename, Holding
  <1>2. CASE file' = buf[w]
             /\ wpc' = [wpc EXCEPT ![w] = "after"]
             /\ stored' = [stored EXCEPT ![Line[w]] = val[w]]
             /\ orphan' = [o \in Writers |-> orphan[o] \/ wpc[o] = "write"]
             /\ UNCHANGED <<val, buf, cut>>
    <2>1. ~mixed => \A o \in Writers : wpc[o] # "write"
      BY <1>1 DEF Inv, AloneInv, Holding
    <2>2. orphan' \in [Writers -> BOOLEAN] /\ (~mixed => \A o \in Writers : ~orphan'[o])
      BY <1>2, <2>1 DEF Inv, Typed, WriterTyped, AloneInv
    <2>3. FilesInv'
      BY <1>1, <1>2, <2>2, StoredKeeps
    <2> QED
      BY <1>2, <2>3 DEF Inv, Typed, WriterTyped, HistoryTyped
  <1>3. CASE Ends(w) /\ cut' = TRUE /\ UNCHANGED <<file, stored>>
    BY <1>1, <1>3, EndsKeeps DEF Inv, Typed, HistoryTyped, ProcessTyped
  <1> QED
    BY <1>2, <1>3 DEF Rename

\* The end of the process: whoever had truncated the file has cut it short.
LEMMA EndedKeeps ==
  ASSUME Inv, Ended PROVE FilesInv'
  <1>1. /\ WriterTyped' /\ \A w \in Writers : wpc'[w] = "idle" /\ ~orphan'[w]
        /\ running' = "down"
    BY EndedDoes DEF Inv
  <1>2. /\ UNCHANGED <<file, stored, mixed>>
        /\ cut' = (cut \/ \E w \in Writers : wpc[w] \notin {"idle", "after"})
        /\ torn' = (torn \/ \E w \in Writers : wpc[w] = "write" /\ ~orphan[w])
    BY DEF Ended
  <1>3. torn' => cut'
    BY <1>2 DEF Inv
  <1>4. DownInv' /\ ValInv' /\ AloneInv'
    BY <1>1 DEF DownInv, ValInv, AloneInv, Holding
  <1>5. ~mixed /\ ~torn' => file = stored
    BY <1>2 DEF Inv, AloneInv, FileInv
  <1>6. FileInv'
    BY <1>1, <1>2, <1>5 DEF FileInv, Holding
  <1> QED
    BY <1>1, <1>2, <1>3, <1>4, <1>6 DEF FilesInv, Inv, StoredInv

LEMMA NothingKeeps ==
  ASSUME Inv, UNCHANGED <<file, writer, stored, mixed, cut, torn>>,
         running' = "down" => running = "down"
  PROVE  FilesInv'
  BY DEF Inv, Typed, FilesInv, writer, WriterTyped, DownInv, ValInv, AloneInv, FileInv, StoredInv,
         Holding

-----------------------------------------------------------------------------
\* The process and the history keep their types.
LEMMA RestTyped ==
  ASSUME Inv, [Next]_vars PROVE ProcessTyped' /\ HistoryTyped'
  <1> USE SettingsAssumption DEF Inv, Typed, ProcessTyped, HistoryTyped, history, writer
  <1>1. /\ "auth" \in Lines /\ "token" \in Lines /\ "url" \in Lines /\ "port" \in Lines
        /\ \A v \in Options.auth : v \in Options["auth"]
    BY WhoWritesWhat
  <1>2. ASSUME NEW v \in Pushes, Push(v) PROVE ProcessTyped' /\ HistoryTyped'
    <2>1. v \in Options["auth"] /\ Line["push"] = "auth" /\ "push" \in Writers
      BY WhoWritesWhat
    <2>2. requests' \in 0 .. MaxRequests
      BY <1>2, <2>1, StartsDoes DEF Push
    <2>3. mem' \in Contents
      BY <1>1, <1>2, <2>1, Edited DEF Push
    <2> QED
      BY <1>2, <2>1, <2>2, <2>3 DEF Push
  <1>3. CASE Recover
    <2>1. "other" \in Options[Line["recovery"]] /\ "recovery" \in Writers
      BY WhoWritesWhat, OptionsAre
    <2>2. requests' \in 0 .. MaxRequests
      BY <1>3, <2>1, StartsDoes DEF Recover
    <2> QED
      BY <1>3, <2>2 DEF Recover
  <1>4. ASSUME NEW w \in Writers, NEW v \in Options[Line[w]], Request(w, v)
        PROVE  ProcessTyped' /\ HistoryTyped'
    <2>1. requests' \in 0 .. MaxRequests
      BY <1>4, StartsDoes DEF Request
    <2> QED
      BY <1>4, <2>1 DEF Request
  <1>5. CASE TokenUpdate
    <2>1. mem' \in Contents
      BY <1>1, <1>5, Edited, OptionsAre DEF TokenUpdate
    <2> QED
      BY <1>5, <2>1 DEF TokenUpdate
  <1>6. ASSUME NEW w \in Writers, Read(w) PROVE ProcessTyped' /\ HistoryTyped'
    BY <1>6, ReadKeeps, ReadEndsOrCopies
  <1>7. ASSUME NEW w \in Writers, Truncate(w) PROVE ProcessTyped' /\ HistoryTyped'
    BY <1>7, EmptyTyped DEF Truncate
  <1>8. ASSUME NEW w \in Writers, Write(w) PROVE ProcessTyped' /\ HistoryTyped'
    <2>1. file' \in Contents
      BY <1>8, WriteKeeps
    <2>2. stored' \in Contents
      BY <1>8, StoredEdited DEF Write
    <2> QED
      BY <1>8, <2>1, <2>2 DEF Write
  <1>9. ASSUME NEW w \in Writers, WriteFails(w) PROVE ProcessTyped' /\ HistoryTyped'
    BY <1>9 DEF WriteFails
  <1>10. ASSUME NEW w \in Writers, Rename(w) PROVE ProcessTyped' /\ HistoryTyped'
    <2>1. file' \in Contents /\ cut' \in BOOLEAN
      BY <1>10, RenameKeeps
    <2>2. stored' \in Contents
      BY <1>10, StoredEdited DEF Rename
    <2> QED
      BY <1>10, <2>1, <2>2 DEF Rename
  <1>11. ASSUME NEW w \in Writers, After(w) PROVE ProcessTyped' /\ HistoryTyped'
    <2>1. mem' \in Contents
      <3>1. CASE Line[w] = "url"
        <4>1. val[w] \in Options["url"] \cup {Absent}
          BY <3>1 DEF WriterTyped
        <4> QED
          BY <1>1, <1>11, <3>1, <4>1, Edited DEF After
      <3>2. CASE Line[w] # "url"
        BY <1>11, <3>2 DEF After
      <3> QED
        BY <3>1, <3>2
    <2>2. exiting' \in BOOLEAN
      BY <1>11 DEF After
    <2> QED
      BY <1>11, <2>1, <2>2 DEF After
  <1>12. CASE Exit \/ Crash
    BY <1>12, EndedDoes DEF Exit, Crash
  <1>13. CASE Start
    BY <1>13, LoadedTyped DEF Start
  <1>14. CASE AvoidPort
    <2>1. "other" \in Options[Line["boot"]] /\ "boot" \in Writers /\ "other" \in Options["port"]
      BY WhoWritesWhat, OptionsAre
    <2>2. requests' \in 0 .. MaxRequests
      BY <1>14, <2>1, StartsDoes DEF AvoidPort
    <2>3. mem' \in Contents
      BY <1>1, <1>14, <2>1, Edited DEF AvoidPort
    <2> QED
      BY <1>14, <2>2, <2>3 DEF AvoidPort
  <1>15. CASE Listen
    BY <1>15 DEF Listen
  <1>16. CASE UNCHANGED vars
    BY <1>16 DEF vars
  <1> QED
    BY <1>2, <1>3, <1>4, <1>5, <1>6, <1>7, <1>8, <1>9, <1>10, <1>11, <1>12, <1>13, <1>14,
       <1>15, <1>16 DEF Next, WriterStep

\* FilesInv is kept by every step.
LEMMA FilesStep ==
  ASSUME Inv, [Next]_vars PROVE FilesInv'
  <1>1. ASSUME NEW v \in Pushes, Push(v) PROVE FilesInv'
    <2>1. v \in Options[Line["push"]] /\ "push" \in Writers
      BY SettingsAssumption, WhoWritesWhat
    <2> QED
      BY <1>1, <2>1, StartsKeeps DEF Push
  <1>2. CASE Recover
    <2>1. "other" \in Options[Line["recovery"]] /\ "recovery" \in Writers
      BY WhoWritesWhat, OptionsAre
    <2> QED
      BY <1>2, <2>1, StartsKeeps DEF Recover, history
  <1>3. ASSUME NEW w \in Writers, NEW v \in Options[Line[w]], Request(w, v) PROVE FilesInv'
    BY <1>3, StartsKeeps DEF Request, history
  <1>4. CASE AvoidPort
    <2>1. "other" \in Options[Line["boot"]] /\ "boot" \in Writers
      BY WhoWritesWhat, OptionsAre
    <2> QED
      BY <1>4, <2>1, StartsKeeps DEF AvoidPort, history
  <1>5. CASE TokenUpdate \/ Start \/ Listen \/ UNCHANGED vars
    BY <1>5, NothingKeeps DEF TokenUpdate, Start, Listen, vars, history
  <1>6. ASSUME NEW w \in Writers, Read(w) \/ Truncate(w) \/ Write(w) \/ Rename(w)
        PROVE  FilesInv'
    BY <1>6, ReadKeeps, TruncateKeeps, WriteKeeps, RenameKeeps
  <1>7. ASSUME NEW w \in Writers, After(w) PROVE FilesInv'
    BY <1>7, EndsKeeps DEF After, history, Inv, Typed, HistoryTyped
  <1>8. ASSUME NEW w \in Writers, WriteFails(w) PROVE FilesInv'
    BY <1>8, EndsKeeps DEF WriteFails, Inv, Typed, HistoryTyped, WriterTyped
  <1>9. CASE Exit \/ Crash
    BY <1>9, EndedKeeps DEF Exit, Crash
  <1> QED
    BY <1>1, <1>2, <1>3, <1>4, <1>5, <1>6, <1>7, <1>8, <1>9 DEF Next, WriterStep

\* The authorization, step by step.
LEMMA AuthStep ==
  ASSUME Inv, [Next]_vars PROVE AuthInv'
  <1> DEFINE quiet == UNCHANGED <<stored, told, mixed, cut>>
  <1>0. "push" \in Writers /\ Line["push"] = "auth" /\ "auth" \in Lines /\ Absent # "auth"
    BY WhoWritesWhat, OptionsAre DEF Absent
  <1>1. ASSUME NEW v \in Pushes, Push(v) PROVE AuthInv'
    <2>1. v \in Options[Line["push"]]
      BY <1>0, SettingsAssumption
    <2>2. wpc'["push"] = "read" /\ val'["push"] = v
      BY <1>0, <1>1, <2>1, StartsDoes DEF Push, Inv, Typed
    <2>3. mem'["auth"] = v /\ told' = v
      BY <1>0, <1>1, Edited, OfContents DEF Push, Inv, Typed, ProcessTyped
    <2> QED
      BY <2>2, <2>3 DEF AuthInv
  <1>2. ASSUME NEW w \in Writers, w # "push", NEW v \in Options[Line[w]], Starts(w, v),
               running' = running \/ running # "down", mem'.auth = mem.auth, quiet
        PROVE  AuthInv'
    <2>1. wpc'["push"] = wpc["push"] /\ val'["push"] = val["push"]
      BY <1>0, <1>2, StartsDoes DEF Inv, Typed
    <2> QED
      BY <1>2, <2>1 DEF AuthInv, Inv
  <1>3. CASE Recover
    <2>1. "other" \in Options[Line["recovery"]] /\ "recovery" \in Writers
      BY WhoWritesWhat, OptionsAre
    <2> QED
      BY <1>2, <1>3, <2>1 DEF Recover, history
  <1>4. ASSUME NEW w \in Writers, NEW v \in Options[Line[w]], Request(w, v) PROVE AuthInv'
    <2>1. w # "push"
      BY <1>4 DEF Request
    <2> QED
      BY <1>2, <1>4, <2>1 DEF Request, history
  <1>5. CASE AvoidPort
    <2>1. "other" \in Options[Line["boot"]] /\ "boot" \in Writers
      BY WhoWritesWhat, OptionsAre
    <2>2. mem'["auth"] = mem["auth"]
      BY <1>0, <1>5, OfContents DEF AvoidPort, Inv, Typed, ProcessTyped
    <2> QED
      BY <1>2, <1>5, <2>1, <2>2 DEF AvoidPort, history
  <1>6. CASE TokenUpdate
    <2>1. mem'["auth"] = mem["auth"]
      BY <1>0, <1>6, OfContents DEF TokenUpdate, Inv, Typed, ProcessTyped
    <2> QED
      BY <1>6, <2>1 DEF TokenUpdate, AuthInv, Inv, writer, history
  <1>7. CASE Listen \/ UNCHANGED vars
    BY <1>7 DEF Listen, vars, AuthInv, Inv, writer, history
  <1>8. CASE Start
    <2>1. UNCHANGED <<wpc, val, stored, told, mixed, cut>> /\ mem' = Loaded /\ running = "down"
      BY <1>8 DEF Start, writer, history
    <2>2. \A w \in Writers : wpc[w] = "idle"
      BY <2>1 DEF Inv, DownInv
    <2>3. ~cut /\ ~mixed => file = stored
      BY <2>2 DEF Inv, FileInv
    <2>4. ~cut /\ ~mixed => Loaded.auth = AuthOf(stored)
      BY <2>3, LoadedTyped DEF Inv, Typed
    <2> QED
      BY <1>0, <2>1, <2>2, <2>4 DEF AuthInv, Inv
  <1>9. ASSUME NEW w \in Writers, Read(w) PROVE AuthInv'
    <2>1. /\ UNCHANGED <<running, mem, stored, told, cut>> /\ wpc[w] = "read"
          /\ (Ends(w) /\ w # "push" /\ UNCHANGED mixed) \/ Copies(w)
      BY <1>9, ReadEndsOrCopies
    <2>2. CASE Ends(w) /\ w # "push" /\ UNCHANGED mixed
      <3>1. wpc'["push"] = wpc["push"] /\ val'["push"] = val["push"]
        BY <1>0, <2>2, EndsDoes DEF Inv, Typed
      <3> QED
        BY <2>1, <2>2, <3>1 DEF AuthInv, Inv
    <2>3. CASE Copies(w)
      <3>1. val' = val /\ mixed' = (mixed \/ \E o \in Writers : Holding(o))
        BY <2>3 DEF Copies
      <3>2. \/ wpc'["push"] = wpc["push"]
            \/ wpc["push"] = "read" /\ wpc'["push"] \in {"open", "rename"}
        <4>1. /\ wpc'[w] \in {"open", "rename"}
              /\ \A o \in Writers : o # w => wpc'[o] = wpc[o]
          BY <2>3, CopiesDoes DEF Inv, Typed
        <4> QED
          BY <1>0, <2>1, <4>1
      <3> QED
        BY <2>1, <3>1, <3>2 DEF AuthInv, Inv
    <2> QED
      BY <2>1, <2>2, <2>3
  <1>10. ASSUME NEW w \in Writers, Truncate(w) PROVE AuthInv'
    <2>1. /\ UNCHANGED <<running, mem, val, stored, told, mixed, cut>>
          /\ wpc[w] = "open" /\ wpc' = [wpc EXCEPT ![w] = "write"]
      BY <1>10 DEF Truncate, history
    <2>2. \/ wpc'["push"] = wpc["push"]
          \/ wpc["push"] = "open" /\ wpc'["push"] = "write"
      <3>1. wpc'[w] = "write" /\ \A o \in Writers : o # w => wpc'[o] = wpc[o]
        BY <2>1, GoesOn DEF Inv, Typed
      <3> QED
        BY <1>0, <2>1, <3>1
    <2> QED
      BY <2>1, <2>2 DEF AuthInv, Inv
  <1>11. ASSUME NEW w \in Writers, wpc[w] \in {"write", "rename"},
                wpc' = [wpc EXCEPT ![w] = "after"],
                stored' = [stored EXCEPT ![Line[w]] = val[w]],
                UNCHANGED <<running, mem, val, told, mixed, cut>>
         PROVE  AuthInv'
    <2>1. /\ wpc'[w] = "after" /\ \A o \in Writers : o # w => wpc'[o] = wpc[o]
      BY <1>11, GoesOn DEF Inv, Typed
    <2>2. /\ w = "push" => AuthOf(stored') = val[w]
          /\ w # "push" => AuthOf(stored') = AuthOf(stored)
      BY <1>11, StoreKeeps
    <2>3. CASE w = "push"
      BY <1>11, <2>1, <2>2, <2>3 DEF AuthInv, Inv
    <2>4. CASE w # "push"
      BY <1>0, <1>11, <2>1, <2>2, <2>4 DEF AuthInv, Inv
    <2> QED
      BY <2>3, <2>4
  <1>12. ASSUME NEW w \in Writers, Write(w) PROVE AuthInv'
    <2>1. CASE orphan[w]
      <3>1. mixed' = mixed /\ mixed
        BY <1>12, <2>1 DEF Write, Inv, AloneInv
      <3> QED
        BY <3>1 DEF AuthInv
    <2>2. CASE ~orphan[w]
      BY <1>11, <1>12, <2>2 DEF Write
    <2> QED
      BY <2>1, <2>2
  <1>13. ASSUME NEW w \in Writers, Rename(w) PROVE AuthInv'
    <2>1. CASE cut' = TRUE
      BY <2>1 DEF AuthInv
    <2>2. CASE cut' # TRUE
      BY <1>11, <1>13, <2>2 DEF Rename
    <2> QED
      BY <2>1, <2>2
  <1>14. ASSUME NEW w \in Writers, WriteFails(w) PROVE AuthInv'
    BY <1>14 DEF WriteFails, AuthInv
  <1>15. ASSUME NEW w \in Writers, After(w) PROVE AuthInv'
    <2>1. /\ wpc[w] = "after" /\ Ends(w) /\ running' = running /\ quiet
      BY <1>15 DEF After, history
    <2>2. mem'["auth"] = mem["auth"]
      BY <1>0, <1>15, OfContents DEF After, Inv, Typed, ProcessTyped
    <2>3. wpc'[w] = "idle" /\ \A o \in Writers : o # w => wpc'[o] = wpc[o] /\ val'[o] = val[o]
      BY <2>1, EndsDoes DEF Inv, Typed
    <2>4. CASE w = "push"
      BY <2>1, <2>2, <2>3, <2>4 DEF AuthInv, Inv
    <2>5. CASE w # "push"
      BY <1>0, <2>1, <2>2, <2>3, <2>5 DEF AuthInv, Inv
    <2> QED
      BY <2>4, <2>5
  <1>16. CASE Exit \/ Crash
    <2>1. Ended
      BY <1>16 DEF Exit, Crash
    <2>2. /\ UNCHANGED <<stored, told, mixed>>
          /\ cut' = (cut \/ \E w \in Writers : wpc[w] \notin {"idle", "after"})
      BY <2>1 DEF Ended
    <2>3. wpc'["push"] = "idle" /\ running' = "down"
      BY <1>0, <2>1, EndedDoes DEF Inv
    <2>4. ~cut' => ~cut /\ wpc["push"] \in {"idle", "after"}
      BY <1>0, <2>2
    <2> QED
      BY <2>2, <2>3, <2>4 DEF AuthInv, Inv
  <1> QED
    BY <1>1, <1>3, <1>4, <1>5, <1>6, <1>7, <1>8, <1>9, <1>10, <1>12, <1>13, <1>14,
       <1>15, <1>16 DEF Next, WriterStep

LEMMA InitInv == Init => Inv
  <1> SUFFICES ASSUME Init PROVE Inv
    OBVIOUS
  <1>1. WriterTyped
    BY EmptyTyped DEF Init, Idle, NoValue, NoBuffer, NoOrphan, WriterTyped, Values
  <1>2. ProcessTyped
    <2>1. requests \in 0 .. MaxRequests
      BY SettingsAssumption DEF Init
    <2>2. exiting \in BOOLEAN
      BY DEF Init
    <2> QED
      BY <2>1, <2>2, InstalledTyped DEF Init, ProcessTyped
  <1>3. HistoryTyped
    BY InstalledTyped, WhoWritesWhat, OptionsAre DEF Init, HistoryTyped
  <1>4. \A w \in Writers : wpc[w] = "idle" /\ ~orphan[w]
    BY DEF Init, Idle, NoOrphan
  <1>5. DownInv /\ ValInv /\ AloneInv /\ FileInv
    BY <1>4 DEF DownInv, ValInv, AloneInv, FileInv, Holding, Init
  <1>6. StoredInv /\ (torn => cut)
    BY InstalledTyped DEF Init, StoredInv
  <1>7. AuthInv
    BY <1>4, InstalledTyped, WhoWritesWhat DEF Init, AuthInv
  <1> QED
    BY <1>1, <1>2, <1>3, <1>5, <1>6, <1>7 DEF Inv, Typed

\* Inv is inductive.
THEOREM Invariance == Spec => []Inv
  <1>1. Inv /\ [Next]_vars => Inv'
    BY RestTyped, FilesStep, AuthStep DEF Inv, Typed, FilesInv
  <1> QED
    BY <1>1, InitInv, PTL DEF Spec

\* The settings, the writers and the file keep their types.
THEOREM TypeCorrect == Spec => []TypeOK
  <1>1. Inv => TypeOK
    BY DEF Inv, Typed, WriterTyped, ProcessTyped, HistoryTyped, TypeOK
  <1> QED
    BY <1>1, Invariance, PTL

\* Whoever rewrites the whole file takes nothing back that another has written,
\* as long as writers do not overlap and os.WriteFile is not cut short.
THEOREM NoLostSetting == Spec => []NothingLost
  <1>1. Inv => NothingLost
    <2> SUFFICES ASSUME Inv, ~mixed, ~torn, \A w \in Writers : ~Holding(w) PROVE file = stored
      BY DEF NothingLost
    <2>1. \A w \in Writers : wpc[w] # "write"
      BY DEF Holding
    <2> QED
      BY <2>1 DEF Inv, FileInv
  <1> QED
    BY <1>1, Invariance, PTL

\* Wherever the process dies, the file it leaves can be started from, unless
\* os.WriteFile was cut short or writers overlapped.
THEOREM CanStart == Spec => []StartsAgain
  <1>1. Inv => StartsAgain
    <2> SUFFICES ASSUME Inv, running = "down", ~torn, ~mixed PROVE Loadable
      BY DEF StartsAgain
    <2>1. \A w \in Writers : wpc[w] # "write"
      BY DEF Inv, DownInv
    <2>2. file = stored
      BY <2>1 DEF Inv, FileInv
    <2> QED
      BY <2>2 DEF Inv, StoredInv, Loadable, Given
  <1> QED
    BY <1>1, Invariance, PTL

\* The agent goes by the authorization pushed last, also after it was started
\* again, unless the write was cut short or overlapped with another.
THEOREM KeepsAuthorization == Spec => []AuthorizationSurvives
  <1>1. Inv => AuthorizationSurvives
    BY DEF Inv, AuthInv, AuthorizationSurvives
  <1> QED
    BY <1>1, Invariance, PTL

=============================================================================
