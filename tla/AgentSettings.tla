---------------------------- MODULE AgentSettings ----------------------------
(***************************************************************************)
(* config.yaml, the file the agent starts from, and those who rewrite it   *)
(* while the agent runs: pushes of the master (handleConfigUpdate), the    *)
(* fallback to the recovery address (both through persistConfigField), the *)
(* handlers that switch the Xray mode, the port and the master, and the    *)
(* start that avoids an occupied port.  Each reads the file, changes its   *)
(* line and writes the whole file back; there is no lock.  Two of them end *)
(* the process, which systemd starts again.                                *)
(*                                                                         *)
(* The file is a function from settings to values: the other lines are not *)
(* told apart from that of the token, which nobody writes.  Variables of   *)
(* the environment take precedence over the file at the start.  The path   *)
(* given at the start is taken to be the one of persistConfigField.        *)
(***************************************************************************)
EXTENDS Naturals, FiniteSets

CONSTANTS
  Pushes,       \* what handleConfigUpdate may be told: subset of the options of auth
  MaxRequests,  \* bound: changes of settings
  Environments, \* what the environment may set: functions from Lines, or Absent
  CanFail       \* whether writes of the disk may fail

\* The lines of the file.  "whole" is the text itself: "yes", or Absent when
\* two writes have left a mixture that is no YAML.
Absent == "absent"
Options ==
  [token |-> {"old", "new"}, url |-> {"home", "other"}, auth |-> {"yes", "no"},
   mode |-> {"external", "embedded"}, port |-> {"other", Absent}, whole |-> {"yes"}]
Lines == DOMAIN Options
Contents == {c \in [Lines -> (UNION {Options[l] : l \in Lines}) \cup {Absent}] :
               \A l \in Lines : c[l] \in Options[l] \cup {Absent}}
ASSUME SettingsAssumption ==
  /\ Pushes \subseteq Options.auth /\ MaxRequests \in Nat /\ CanFail \in BOOLEAN
  /\ Environments \subseteq Contents /\ \A e \in Environments : e.auth = Absent

Empty == [l \in Lines |-> IF l = "whole" THEN "yes" ELSE Absent]

\* Who writes, and which line.
Line == [push |-> "auth", recovery |-> "url", admin |-> "url",
         mode |-> "mode", port |-> "port", boot |-> "port"]
Writers == DOMAIN Line

VARIABLES
  file,      \* config.yaml
  env,       \* the environment of the process
  running,   \* the process: "down", "booting" (until it listens), "up"
  mem,       \* the settings the process has
  wpc,       \* where each writer is
  val,       \* the value it sets
  buf,       \* what it will write
  orphan,    \* it has opened a file that was replaced since
  exiting,   \* os.Exit is due
  requests,  \* changes so far
  stored,    \* history: the value written last to each line
  told,      \* history: the authorization the master has pushed last
  mixed,     \* history: two writers have overlapped between read and write
  cut,       \* history: a writer did not get to its end
  torn       \* history: the one cut had already truncated the file

writer == <<wpc, val, buf, orphan>>
history == <<stored, told, mixed, cut, torn>>
vars == <<file, env, running, mem, writer, exiting, requests, history>>

TypeOK ==
  /\ file \in Contents /\ mem \in Contents /\ env \in Environments
  /\ running \in {"down", "booting", "up"}
  /\ wpc \in [Writers -> {"idle", "read", "open", "write", "rename", "after"}]
  /\ \A w \in Writers : val[w] \in Options[Line[w]] \cup {Absent}
  /\ \A w \in Writers : buf[w] \in Contents
  /\ orphan \in [Writers -> BOOLEAN] /\ exiting \in BOOLEAN
  /\ requests \in 0 .. MaxRequests /\ told \in Options.auth
  /\ stored \in Contents
  /\ mixed \in BOOLEAN /\ cut \in BOOLEAN /\ torn \in BOOLEAN

-----------------------------------------------------------------------------
Installed == [token |-> "old", url |-> "home", auth |-> Absent, mode |-> "external",
              port |-> Absent, whole |-> "yes"]

\* Load, MergeEnv and applyDefaults; Validate wants a token and an address.
Given(l) == IF env[l] # Absent THEN env[l] ELSE file[l]
Loadable == file.whole = "yes" /\ Given("token") # Absent /\ Given("url") # Absent
LoadedIfPresent == [l \in Lines |->
  IF l = "auth" THEN "yes"
  ELSE IF l = "mode" /\ Given(l) = Absent THEN "external" ELSE Given(l)]
LoadedOnce == [l \in Lines |->
  IF l = "mode" THEN "external"
  ELSE IF l = "auth" /\ file[l] = Absent THEN "yes" ELSE Given(l)]
Loaded == [l \in Lines |->
            IF Given(l) # Absent THEN Given(l)
            ELSE IF l = "auth" THEN "yes" ELSE IF l = "mode" THEN "external" ELSE Absent]

Idle == [w \in Writers |-> "idle"]
NoValue == [w \in Writers |-> Absent]
NoBuffer == [w \in Writers |-> Empty]
NoOrphan == [w \in Writers |-> FALSE]

Init ==
  /\ file = Installed /\ env \in Environments /\ running = "down" /\ mem = Installed
  /\ wpc = Idle /\ val = NoValue /\ buf = NoBuffer /\ orphan = NoOrphan
  /\ exiting = FALSE /\ requests = 0
  /\ stored = Installed /\ told = "yes" /\ mixed = FALSE /\ cut = FALSE /\ torn = FALSE

\* Between its read and its write a writer has an old copy of the file.
Holding(w) == wpc[w] \in {"open", "write", "rename"}

\* Bound: after an overlap, where nothing is said of the file, no change begins
\* any more and the process does not die.
Starts(w, v) ==
  /\ ~mixed /\ requests < MaxRequests /\ requests' = requests + 1
  /\ wpc[w] = "idle"
  /\ wpc' = [wpc EXCEPT ![w] = "read"] /\ val' = [val EXCEPT ![w] = v]

\* A writer that is done, however it ended.
Ends(w) ==
  /\ wpc' = [wpc EXCEPT ![w] = "idle"] /\ val' = [val EXCEPT ![w] = Absent]
  /\ buf' = [buf EXCEPT ![w] = Empty] /\ orphan' = [orphan EXCEPT ![w] = FALSE]

(***************************************************************************)
(* Requests.                                                               *)
(***************************************************************************)

\* handleConfigUpdate: the setting in memory changes first, and nothing is
\* done when it has the value already.
Push(v) ==
  /\ running = "up" /\ v # mem.auth
  /\ Starts("push", v)
  /\ mem' = [mem EXCEPT !.auth = v] /\ told' = v
  /\ UNCHANGED <<file, env, running, buf, orphan, exiting, stored, mixed, cut, torn>>

\* The fallback to the recovery address, once per address.
Recover ==
  /\ running = "up" /\ mem.url = "home"
  /\ Starts("recovery", "other")
  /\ UNCHANGED <<file, env, running, mem, buf, orphan, exiting, history>>

\* HandleUpdateMasterURL, HandleSwitchXrayMode and HandleSwitchListenPort.
Request(w, v) ==
  /\ running = "up" /\ w \in {"admin", "mode", "port"} /\ v \in Options[Line[w]]
  /\ Starts(w, v)
  /\ UNCHANGED <<file, env, running, mem, buf, orphan, exiting, history>>

\* handleTokenUpdate: only the process has the new token.
TokenUpdate ==
  /\ running = "up" /\ mem.token = "old"
  /\ mem' = [mem EXCEPT !.token = "new"]
  /\ UNCHANGED <<file, env, running, writer, exiting, requests, history>>

(***************************************************************************)
(* Writing the file.                                                       *)
(***************************************************************************)
ReadMemory(w) ==
  /\ wpc[w] = "read"
  /\ IF w \in {"admin", "port"} /\ file[Line[w]] = val[w]
     THEN Ends(w) /\ UNCHANGED mixed
     ELSE /\ buf' = [buf EXCEPT ![w] = [mem EXCEPT ![Line[w]] = val[w]]]
          /\ wpc' = [wpc EXCEPT ![w] = IF w = "port" THEN "rename" ELSE "open"]
          /\ mixed' = (mixed \/ \E o \in Writers : Holding(o))
          /\ UNCHANGED <<val, orphan>>
  /\ UNCHANGED <<file, env, running, mem, exiting, requests, stored, told, cut, torn>>

\* Two of the handlers do nothing when the line has the value.
Read(w) ==
  /\ wpc[w] = "read"
  /\ IF w \in {"admin", "port"} /\ file[Line[w]] = val[w]
     THEN Ends(w) /\ UNCHANGED mixed
     ELSE /\ buf' = [buf EXCEPT ![w] = [file EXCEPT ![Line[w]] = val[w]]]
          /\ wpc' = [wpc EXCEPT ![w] = IF w = "port" THEN "rename" ELSE "open"]
          /\ mixed' = (mixed \/ \E o \in Writers : Holding(o))
          /\ UNCHANGED <<val, orphan>>
  /\ UNCHANGED <<file, env, running, mem, exiting, requests, stored, told, cut, torn>>

\* os.WriteFile opens the file and truncates it ...
Truncate(w) ==
  /\ wpc[w] = "open"
  /\ file' = Empty
  /\ wpc' = [wpc EXCEPT ![w] = "write"]
  /\ UNCHANGED <<env, running, mem, val, buf, orphan, exiting, requests, history>>

\* ... and writes from the beginning: what another one has written meanwhile
\* may stick out behind.
Write(w) ==
  /\ wpc[w] = "write"
  /\ IF orphan[w] THEN UNCHANGED <<file, stored>>
     ELSE /\ file' \in {buf[w]} \cup
               (IF file = Empty THEN {} ELSE {[buf[w] EXCEPT !.whole = Absent]})
          /\ stored' = [stored EXCEPT ![Line[w]] = val[w]]
  /\ wpc' = [wpc EXCEPT ![w] = "after"]
  /\ UNCHANGED <<env, running, mem, val, buf, orphan, exiting, requests, told, mixed,
                 cut, torn>>

\* The disk is full: an error for the caller, and an empty file.
WriteFails(w) ==
  /\ CanFail /\ wpc[w] = "write"
  /\ Ends(w) /\ cut' = TRUE /\ torn' = (torn \/ ~orphan[w])
  /\ UNCHANGED <<file, env, running, mem, exiting, requests, stored, told, mixed>>

RenameByCopy(w) ==
  /\ wpc[w] = "rename"
  /\ IF file # Empty
     THEN file' = Empty /\ UNCHANGED <<wpc, stored>>
     ELSE /\ file' = buf[w] /\ wpc' = [wpc EXCEPT ![w] = "after"]
          /\ stored' = [stored EXCEPT ![Line[w]] = val[w]]
  /\ UNCHANGED <<env, running, mem, val, buf, orphan, exiting, requests, told, mixed,
                 cut, torn>>

\* atomicWriteConfig: a temporary file takes the name; a failure changes
\* nothing.
Rename(w) ==
  /\ wpc[w] = "rename"
  /\ \/ /\ file' = buf[w] /\ wpc' = [wpc EXCEPT ![w] = "after"]
        /\ stored' = [stored EXCEPT ![Line[w]] = val[w]]
        /\ orphan' = [o \in Writers |-> orphan[o] \/ wpc[o] = "write"]
        /\ UNCHANGED <<val, buf, cut>>
     \/ CanFail /\ Ends(w) /\ cut' = TRUE /\ UNCHANGED <<file, stored>>
  /\ UNCHANGED <<env, running, mem, exiting, requests, told, mixed, torn>>

\* What follows a write.  A new address is used from then on (300 ms later
\* for the handler); a switch ends the process half a second later, except
\* when Xray cannot be installed for the external mode.
After(w) ==
  /\ wpc[w] = "after"
  /\ Ends(w)
  /\ mem' = IF Line[w] = "url" THEN [mem EXCEPT !.url = val[w]] ELSE mem
  /\ \/ w \in {"mode", "port"} /\ exiting' = TRUE
     \/ (w \notin {"mode", "port"} \/ val[w] = "external") /\ UNCHANGED exiting
  /\ UNCHANGED <<file, env, running, requests, history>>

(***************************************************************************)
(* The process.                                                            *)
(***************************************************************************)
\* The process ends; writers stop where they are.
Ended ==
  /\ running' = "down" /\ exiting' = FALSE /\ mem' = Installed
  /\ wpc' = Idle /\ val' = NoValue /\ buf' = NoBuffer /\ orphan' = NoOrphan
  /\ cut' = (cut \/ \E w \in Writers : wpc[w] \notin {"idle", "after"})
  /\ torn' = (torn \/ \E w \in Writers : wpc[w] = "write" /\ ~orphan[w])
  /\ UNCHANGED <<file, env, requests, stored, told, mixed>>

Exit == exiting /\ Ended

Crash == running # "down" /\ ~mixed /\ Ended

\* Load and Validate are fatal; systemd tries again.
Start ==
  /\ running = "down" /\ Loadable
  /\ running' = "booting" /\ mem' = Loaded
  /\ UNCHANGED <<file, env, writer, exiting, requests, history>>

\* The port stays occupied: take another one and write it down.
AvoidPort ==
  /\ running = "booting" /\ mem.port = Absent
  /\ Starts("boot", "other")
  /\ mem' = [mem EXCEPT !.port = "other"]
  /\ UNCHANGED <<file, env, running, buf, orphan, exiting, history>>

\* Listening; the goroutines of the client start.
Listen ==
  /\ running = "booting" /\ wpc["boot"] = "idle"
  /\ running' = "up"
  /\ UNCHANGED <<file, env, mem, writer, exiting, requests, history>>

-----------------------------------------------------------------------------
WriterStep(w) == Read(w) \/ Truncate(w) \/ Write(w) \/ Rename(w) \/ After(w)

Next ==
  \/ \E v \in Pushes : Push(v)
  \/ Recover \/ TokenUpdate
  \/ \E w \in Writers : \E v \in Options[Line[w]] : Request(w, v)
  \/ \E w \in Writers : WriterStep(w) \/ WriteFails(w)
  \/ Exit \/ Crash \/ Start \/ AvoidPort \/ Listen

\* Handlers go on, the process that calls os.Exit ends, systemd starts it, and
\* it does not crash each time before it listens.
Fairness ==
  /\ \A w \in Writers : WF_vars(WriterStep(w))
  /\ WF_vars(Exit) /\ WF_vars(Start) /\ SF_vars(Listen)

Spec == Init /\ [][Next]_vars /\ Fairness

-----------------------------------------------------------------------------
\* The agent can start again after whatever happened, unless a write by
\* os.WriteFile was cut short or two writers overlapped.  In particular a
\* switch of the port never costs the file, wherever the process dies.
StartsAgain == running = "down" => Loadable \/ torn \/ mixed

\* The authorization the master pushed last is the one the agent goes by,
\* also after restarts for other switches, unless its write was cut short or
\* overlapped with another.
AuthorizationSurvives ==
  running = "up" => mem.auth = told \/ cut \/ mixed

\* Every line has the value written to it last, whoever wrote which other
\* line since: a whole-file write takes nothing back, as long as writers do
\* not overlap and os.WriteFile is not cut short.
NothingLost ==
  ~mixed /\ ~torn /\ (\A w \in Writers : ~Holding(w)) => file = stored

\* A switch that was accepted is in force some time later.
SwitchTakesEffect ==
  \A w \in {"mode", "port"} : \A v \in Options[Line[w]] :
    exiting /\ file[Line[w]] = v /\ env[Line[w]] = Absent
      ~> \/ running = "up" /\ mem[Line[w]] = v
         \/ file[Line[w]] # v \/ mixed \/ torn
=============================================================================
