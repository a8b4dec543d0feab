----------------------------- MODULE ReverseRpc -----------------------------
(***************************************************************************)
(* The WebSocket between two dials, and the calls the master makes over it *)
(* (ws_rpc.go, runMessageLoop, handleMessage, writeEncrypted).  A reader   *)
(* fills a queue and drops what does not fit; the message loop takes calls *)
(* from it and leaves each to goroutines: one runs the HTTP handler, one   *)
(* waits for it or for the timeout and answers.  A stream sends a frame at *)
(* every Flush of its handler.  A probe of domains waits for its dials,    *)
(* which have timeouts, and answers.                                       *)
(*                                                                         *)
(* A writer takes the session of the moment and encrypts, and writes later *)
(* to the connection its call came over.  Connections may break at any     *)
(* time; what is written then is lost.  Handlers may run for ever.         *)
(***************************************************************************)
EXTENDS Naturals, Sequences, FiniteSets

CONSTANTS
  Calls,      \* requests of the master
  MaxConns,   \* bound: connections
  QueueSize,  \* messages the queue holds (10 in the code)
  MaxFrames,  \* bound: frames of a stream
  CanPanic    \* whether a handler may panic

ASSUME RpcAssumption ==
  /\ MaxConns \in Nat /\ QueueSize \in Nat \ {0} /\ MaxFrames \in Nat /\ CanPanic \in BOOLEAN

Conns == 1 .. MaxConns
\* The two goroutines of a call that write.
Writers == Calls \X {"handler", "answer"}
Kinds == {"buffer", "stream", "probe"}
Nothing == [kind |-> "none", n |-> 0, sess |-> 0]

VARIABLES
  conn, phase,  \* the connection dialled last; "off", "kx", "loop" or "closing"
  open, alive,  \* connections not closed; those that have not broken
  session,      \* c.wsSession: the connection it belongs to, 0 for nil
  kind,         \* of each call: "buffer", "stream" or "probe"
  call,         \* where a call is
  via,          \* the connection it came over
  serve,        \* the goroutine of the handler: "none", "run", "done"
  made,         \* frames made so far
  answer,       \* the goroutine that answers: "none", "wait", "reply", "sending", "done"
  late,         \* it has met the timeout
  pend,         \* what a goroutine has encrypted and not yet written
  got,          \* what the master has received of a call
  dead          \* the agent has panicked

link == <<conn, phase, open, alive, session>>
work == <<serve, made, answer, late, pend>>
asked == <<kind, call, via>>
vars == <<link, asked, work, got, dead>>

Frames == [kind : {"data", "ok", "error"}, n : 0 .. MaxFrames + 1, sess : 0 .. MaxConns]

TypeOK ==
  /\ conn \in 0 .. MaxConns /\ phase \in {"off", "kx", "loop", "closing"}
  /\ open \subseteq Conns /\ alive \subseteq open /\ session \in 0 .. MaxConns
  /\ kind \in [Calls -> Kinds]
  /\ call \in [Calls -> {"new", "sent", "queued", "dropped", "taken"}]
  /\ via \in [Calls -> 0 .. MaxConns]
  /\ serve \in [Calls -> {"none", "run", "done"}] /\ made \in [Calls -> 0 .. MaxFrames + 1]
  /\ answer \in [Calls -> {"none", "wait", "reply", "sending", "done"}]
  /\ late \in [Calls -> BOOLEAN] /\ pend \in [Writers -> Frames \cup {Nothing}]
  /\ got \in [Calls -> Seq(Frames)]
  /\ dead \in BOOLEAN

-----------------------------------------------------------------------------
All(x) == [c \in Calls |-> x]
NoWrites == [w \in Writers |-> Nothing]

Init ==
  /\ conn = 0 /\ phase = "off" /\ open = {} /\ alive = {} /\ session = 0
  /\ kind \in [Calls -> Kinds] /\ call = All("new") /\ via = All(0)
  /\ serve = All("none") /\ made = All(0) /\ answer = All("none") /\ late = All(FALSE)
  /\ pend = NoWrites /\ got = All(<<>>) /\ dead = FALSE

(***************************************************************************)
(* The connection.                                                         *)
(***************************************************************************)
Dial ==
  /\ ~dead /\ phase = "off" /\ conn < MaxConns
  /\ conn' = conn + 1 /\ phase' = "kx"
  /\ open' = open \cup {conn + 1} /\ alive' = alive \cup {conn + 1}
  /\ UNCHANGED <<session, asked, work, got, dead>>

\* performKeyExchange and authenticate.
KeyExchange ==
  /\ ~dead /\ phase = "kx" /\ conn \in alive
  /\ session' = conn /\ phase' = "loop"
  /\ UNCHANGED <<conn, open, alive, asked, work, got, dead>>

Break ==
  /\ ~dead /\ conn \in alive /\ alive' = alive \ {conn}
  /\ UNCHANGED <<conn, phase, open, session, asked, work, got, dead>>

\* connectAndRun returns, for an error of its own or because the connection has
\* broken: first the session goes ...
Leave ==
  /\ ~dead /\ phase \in {"kx", "loop"}
  /\ session' = 0 /\ phase' = "closing"
  /\ UNCHANGED <<conn, open, alive, asked, work, got, dead>>

LeaveOpen ==
  /\ ~dead /\ phase = "closing" /\ phase' = "off"
  /\ call' = [c \in Calls |-> IF call[c] \in {"sent", "queued"} THEN "dropped" ELSE call[c]]
  /\ UNCHANGED <<conn, session, open, alive, kind, via, work, got, dead>>

\* ... then the connection is closed; what is queued is lost.
Close ==
  /\ ~dead /\ phase = "closing" /\ phase' = "off"
  /\ open' = open \ {conn} /\ alive' = alive \ {conn}
  /\ call' = [c \in Calls |-> IF call[c] \in {"sent", "queued"} THEN "dropped" ELSE call[c]]
  /\ UNCHANGED <<conn, session, kind, via, work, got, dead>>

(***************************************************************************)
(* Calls on their way in.                                                  *)
(***************************************************************************)
Send(c) ==
  /\ ~dead /\ phase = "loop" /\ conn \in alive /\ call[c] = "new"
  /\ call' = [call EXCEPT ![c] = "sent"] /\ via' = [via EXCEPT ![c] = conn]
  /\ UNCHANGED <<link, kind, work, got, dead>>

\* The reader, which never waits for the message loop.
Queued == {c \in Calls : call[c] = "queued"}

Receive(c) ==
  /\ ~dead /\ phase \in {"loop", "closing"} /\ via[c] \in alive /\ call[c] = "sent"
  /\ call' = [call EXCEPT ![c] = IF Cardinality(Queued) < QueueSize THEN "queued" ELSE "dropped"]
  /\ UNCHANGED <<link, kind, via, work, got, dead>>

\* handleMessage starts a goroutine and returns.
Take(c) ==
  /\ ~dead /\ phase = "loop" /\ call[c] = "queued"
  /\ call' = [call EXCEPT ![c] = "taken"]
  /\ serve' = [serve EXCEPT ![c] = "run"] /\ answer' = [answer EXCEPT ![c] = "wait"]
  /\ UNCHANGED <<link, kind, via, made, late, pend, got, dead>>

(***************************************************************************)
(* Writing.                                                                *)
(***************************************************************************)
\* writeEncrypted takes the session; without one the message stays plain.
Encrypted(k, n) == [kind |-> k, n |-> n, sess |-> session]
Idle(w) == pend[w] = Nothing

\* The write itself.  An error is only logged.
Write(w) ==
  LET c == w[1] IN
  /\ ~dead /\ ~Idle(w) /\ pend' = [pend EXCEPT ![w] = Nothing]
  /\ got' = IF via[c] \in alive THEN [got EXCEPT ![c] = Append(@, pend[w])] ELSE got
  /\ answer' = IF pend[w].kind = "data" THEN answer ELSE [answer EXCEPT ![c] = "done"]
  /\ UNCHANGED <<link, asked, serve, made, late, dead>>

(***************************************************************************)
(* The handler.                                                            *)
(***************************************************************************)
Flush(c) ==
  /\ ~dead /\ kind[c] = "stream" /\ serve[c] = "run" /\ Idle(<<c, "handler">>)
  /\ made[c] < MaxFrames /\ made' = [made EXCEPT ![c] = made[c] + 1]
  /\ pend' = [pend EXCEPT ![<<c, "handler">>] = Encrypted("data", made[c] + 1)]
  /\ UNCHANGED <<link, asked, serve, answer, late, got, dead>>

Return(c) ==
  /\ ~dead /\ serve[c] = "run" /\ Idle(<<c, "handler">>)
  /\ serve' = [serve EXCEPT ![c] = "done"]
  /\ UNCHANGED <<link, asked, made, answer, late, pend, got, dead>>

\* A probe has its last dial behind it.
Dialled(c) == kind[c] = "probe" /\ Return(c)

\* The recover is in the other goroutine: the agent ends, and with it the
\* model.
Panic(c) ==
  /\ CanPanic /\ ~dead /\ kind[c] # "probe" /\ serve[c] = "run" /\ dead' = TRUE
  /\ phase' = "off" /\ open' = {} /\ alive' = {} /\ session' = 0
  /\ call' = All("dropped") /\ via' = All(0)
  /\ serve' = All("none") /\ made' = All(0) /\ answer' = All("none") /\ late' = All(FALSE)
  /\ pend' = NoWrites /\ got' = All(<<>>)
  /\ UNCHANGED <<conn, kind>>

(***************************************************************************)
(* The answer.                                                             *)
(***************************************************************************)
\* The handler has returned.  What a stream has not flushed is sent first.
DoneEarly(c) ==
  /\ ~dead /\ answer[c] = "wait"
  /\ answer' = [answer EXCEPT ![c] = "reply"]
  /\ UNCHANGED <<link, asked, serve, made, late, pend, got, dead>>

Done(c) ==
  /\ ~dead /\ answer[c] = "wait" /\ serve[c] = "done"
  /\ answer' = [answer EXCEPT ![c] = "reply"]
  /\ \/ kind[c] = "stream" /\ made' = [made EXCEPT ![c] = made[c] + 1]
        /\ pend' = [pend EXCEPT ![<<c, "answer">>] = Encrypted("data", made[c] + 1)]
     \/ UNCHANGED <<made, pend>>
  /\ UNCHANGED <<link, asked, serve, late, got, dead>>

TimeoutOfBuffer(c) ==
  /\ ~dead /\ kind[c] = "buffer" /\ answer[c] = "wait"
  /\ late' = [late EXCEPT ![c] = TRUE] /\ answer' = [answer EXCEPT ![c] = "reply"]
  /\ UNCHANGED <<link, asked, serve, made, pend, got, dead>>

\* The handler goes on; nobody waits for it any more.  When it has returned at
\* the same time, select takes either.
Timeout(c) ==
  /\ ~dead /\ kind[c] # "probe" /\ answer[c] = "wait"
  /\ late' = [late EXCEPT ![c] = TRUE] /\ answer' = [answer EXCEPT ![c] = "reply"]
  /\ UNCHANGED <<link, asked, serve, made, pend, got, dead>>

\* A second answer of the call, after the timeout.
ReplyAgain(c) ==
  /\ ~dead /\ Idle(<<c, "answer">>)
  /\ answer[c] = "reply" \/ (answer[c] = "done" /\ late[c] /\ serve[c] = "done")
  /\ answer' = [answer EXCEPT ![c] = "sending"] /\ late' = [late EXCEPT ![c] = FALSE]
  /\ pend' = [pend EXCEPT ![<<c, "answer">>] =
                Encrypted(IF late[c] /\ answer[c] = "reply" THEN "error" ELSE "ok", 0)]
  /\ UNCHANGED <<link, asked, serve, made, got, dead>>

Reply(c) ==
  /\ ~dead /\ answer[c] = "reply" /\ Idle(<<c, "answer">>)
  /\ answer' = [answer EXCEPT ![c] = "sending"]
  /\ pend' = [pend EXCEPT ![<<c, "answer">>] = Encrypted(IF late[c] THEN "error" ELSE "ok", 0)]
  /\ UNCHANGED <<link, asked, serve, made, late, got, dead>>

-----------------------------------------------------------------------------
Progress(c) ==
  \/ Receive(c) \/ Take(c) \/ Done(c) \/ Timeout(c) \/ Reply(c)
  \/ Dialled(c)

Next ==
  \/ Dial \/ KeyExchange \/ Break \/ Leave \/ Close
  \/ \E c \in Calls : Send(c) \/ Flush(c) \/ Return(c) \/ Panic(c) \/ Progress(c)
  \/ \E w \in Writers : Write(w)

\* Goroutines and timers run and the dials of a probe end; writes have a
\* deadline.  Nothing is assumed of handlers, of the master or the network.
Fairness ==
  /\ \A c \in Calls : WF_vars(Progress(c))
  /\ \A w \in Writers : WF_vars(Write(w))

Spec == Init /\ [][Next]_vars /\ Fairness

-----------------------------------------------------------------------------
Ends(s) == {i \in DOMAIN s : s[i].kind # "data"}
\* The frames of data among the first i
Data(s, i) == {j \in 1 .. i : s[j].kind = "data"}

\* A call is answered once.  Nothing comes after the answer except frames of a
\* stream whose timeout has passed.
OneAnswer ==
  \A c \in Calls :
    /\ Cardinality(Ends(got[c])) <= 1
    /\ Ends(got[c]) \subseteq {Len(got[c])} \/ late[c]

\* The frames of a stream arrive in order without a gap, although two
\* goroutines write them, and an answer of success comes after all of them.
StreamComplete ==
  \A c \in Calls :
    /\ \A i \in DOMAIN got[c] : got[c][i].kind = "data" => got[c][i].n = Cardinality(Data(got[c], i))
    /\ (\E i \in DOMAIN got[c] : got[c][i].kind = "ok") =>
         Cardinality(Data(got[c], Len(got[c]))) = made[c]

\* What the master receives over a connection is encrypted with the session of
\* this connection, or not at all; calls outlive their connection, and never
\* use the session of the next one.
OwnSession ==
  \A c \in Calls : \A i \in DOMAIN got[c] : got[c][i].sess \in {0, via[c]}

\* A call the message loop can take is answered, whatever its handler and the
\* handlers of other calls do, unless the connection has gone.
Answered ==
  \A c \in Calls :
    call[c] = "queued" ~> Ends(got[c]) # {} \/ via[c] \notin alive \/ phase = "closing" \/ dead
=============================================================================
