--------------------------- MODULE ReverseRpcProofs ---------------------------
(***************************************************************************)
(* Proofs about ReverseRpc for any calls, connections, queue and frames:   *)
(* its type invariant, that a call is answered once, that no frame uses    *)
(* the session of another connection, and that streams are complete.       *)
(***************************************************************************)
EXTENDS ReverseRpc, FiniteSetTheorems, TLAPS

Roles == {"handler", "answer"}

\* There is one live connection at most, and the session is its own.
LinkInv ==
  /\ alive \subseteq {conn}
  /\ phase = "off" => alive = {}
  /\ session # 0 => session = conn /\ phase = "loop"

\* Goroutines belong to calls that were taken.
CallInv ==
  \A c \in Calls :
    /\ via[c] <= conn
    /\ call[c] # "taken" =>
         /\ serve[c] = "none" /\ answer[c] = "none" /\ got[c] = <<>>
         /\ pend[<<c, "handler">>] = Nothing /\ pend[<<c, "answer">>] = Nothing

\* What a stream has not flushed is one frame more.
MadeInv == \A c \in Calls : answer[c] \in {"none", "wait"} => made[c] <= MaxFrames

\* What was encrypted is for the connection of the call, or for one that has
\* gone.
PendInv ==
  \A c \in Calls, h \in Roles : pend[<<c, h>>].sess \in {0, via[c]} \/ via[c] \notin alive

\* The stages of an answer: who may still write what.
HandlerInv ==
  \A c \in Calls :
    /\ pend[<<c, "handler">>].kind \in {"none", "data"}
    /\ serve[c] = "done" => pend[<<c, "handler">>] = Nothing
    /\ answer[c] \in {"reply", "sending", "done"} => serve[c] = "done" \/ late[c]
AnswerInv ==
  \A c \in Calls :
    /\ answer[c] # "done" => Ends(got[c]) = {}
    /\ answer[c] \in {"none", "wait", "done"} => pend[<<c, "answer">>] = Nothing
    /\ answer[c] = "reply" => pend[<<c, "answer">>].kind \in {"none", "data"}
    /\ answer[c] = "sending" => pend[<<c, "answer">>].kind \in {"ok", "error"}

IInv ==
  /\ TypeOK /\ LinkInv /\ CallInv /\ MadeInv /\ PendInv /\ HandlerInv /\ AnswerInv
  /\ OwnSession /\ OneAnswer

-----------------------------------------------------------------------------
LEMMA WritersTyped ==
  /\ \A c \in Calls : <<c, "handler">> \in Writers /\ <<c, "answer">> \in Writers
  /\ \A w \in Writers : w[1] \in Calls /\ (w = <<w[1], "handler">> \/ w = <<w[1], "answer">>)
  BY DEF Writers

\* The end frames after one more frame has arrived.
LEMMA EndsAppend ==
  ASSUME NEW s \in Seq(Frames), NEW f \in Frames
  PROVE  Ends(Append(s, f)) = IF f.kind = "data" THEN Ends(s) ELSE Ends(s) \cup {Len(s) + 1}
  <1>1. /\ Append(s, f) \in Seq(Frames) /\ DOMAIN s = 1 .. Len(s)
        /\ DOMAIN Append(s, f) = 1 .. Len(s) + 1 /\ Len(s) \in Nat
    OBVIOUS
  <1>2. /\ Append(s, f)[Len(s) + 1] = f
        /\ \A i \in 1 .. Len(s) : Append(s, f)[i] = s[i]
    OBVIOUS
  <1>3. 1 .. Len(s) + 1 = (1 .. Len(s)) \cup {Len(s) + 1}
    BY <1>1
  <1> QED  BY <1>1, <1>2, <1>3 DEF Ends

LEMMA NoEnds == Ends(<<>>) = {} /\ Cardinality(Ends(<<>>)) = 0
  <1>1. Ends(<<>>) = {}
    BY DEF Ends
  <1>2. Cardinality({}) = 0
    BY FS_EmptySet
  <1> QED  BY <1>1, <1>2

LEMMA Numbers ==
  ASSUME IInv
  PROVE  conn \in Nat /\ \A c \in Calls : via[c] \in Nat
  <1>1. conn \in 0 .. MaxConns /\ \A c \in Calls : via[c] \in 0 .. MaxConns
    BY DEF IInv, TypeOK
  <1> QED  BY <1>1, RpcAssumption

LEMMA Stages ==
  ASSUME IInv
  PROVE  /\ serve \in [Calls -> {"none", "run", "done"}]
         /\ answer \in [Calls -> {"none", "wait", "reply", "sending", "done"}]
         /\ got \in [Calls -> Seq(Frames)]
  BY DEF IInv, TypeOK

LEMMA AnswerTyped ==
  ASSUME IInv, NEW c \in Calls
  PROVE  answer[c] \in {"none", "wait", "reply", "sending", "done"}
  BY DEF IInv, TypeOK

LEMMA NothingToWrite == Nothing \notin Frames /\ Nothing.kind = "none" /\ Nothing.sess = 0
  BY DEF Nothing, Frames

\* The session a message is encrypted with is that of its call, or its call's
\* connection has gone.
LEMMA EncryptedTyped ==
  ASSUME IInv, NEW c \in Calls, NEW n \in 0 .. MaxFrames + 1, NEW k \in {"data", "ok", "error"}
  PROVE  /\ Encrypted(k, n) \in Frames /\ Encrypted(k, n) # Nothing
         /\ Encrypted(k, n).kind = k
         /\ Encrypted(k, n).sess \in {0, via[c]} \/ via[c] \notin alive
  BY NothingToWrite DEF IInv, TypeOK, LinkInv, Encrypted, Frames

LEMMA InitHolds == Init => IInv
  <1> SUFFICES ASSUME Init PROVE IInv
    OBVIOUS
  <1>a. pend \in [Writers -> Frames \cup {Nothing}]
    BY DEF Init, NoWrites
  <1>b. 0 \in 0 .. MaxConns /\ 0 \in 0 .. MaxFrames + 1
    BY RpcAssumption
  <1>c. got \in [Calls -> Seq(Frames)]
    BY DEF Init, All
  <1>1. TypeOK
    BY <1>a, <1>b, <1>c DEF Init, TypeOK, All
  <1>2. LinkInv /\ CallInv /\ MadeInv
    BY RpcAssumption, WritersTyped DEF Init, LinkInv, CallInv, MadeInv, All, NoWrites
  <1>3. PendInv /\ HandlerInv
    BY NothingToWrite, WritersTyped DEF Init, Roles, PendInv, HandlerInv, All, NoWrites
  <1>4. AnswerInv
    BY NothingToWrite, WritersTyped, NoEnds DEF Init, AnswerInv, All, NoWrites
  <1>5. OwnSession
    BY DEF Init, OwnSession, All
  <1>6. OneAnswer
    BY NoEnds DEF Init, OneAnswer, All
  <1> QED  BY <1>1, <1>2, <1>3, <1>4, <1>5, <1>6 DEF IInv

-----------------------------------------------------------------------------
\* Steps that write nothing to the master leave what it has received.
LEMMA GotKept ==
  ASSUME IInv, UNCHANGED <<got, via>>, \A c \in Calls : late[c] => late'[c]
  PROVE  OwnSession' /\ OneAnswer'
  BY DEF IInv, OwnSession, OneAnswer

\* Steps of the connection leave the goroutines.
LEMMA WorkKept ==
  ASSUME IInv, UNCHANGED <<kind, via, work, got>>, alive' \subseteq alive \cup {conn + 1}
  PROVE  MadeInv' /\ PendInv' /\ HandlerInv' /\ AnswerInv' /\ OwnSession' /\ OneAnswer'
  <1>1. MadeInv' /\ HandlerInv' /\ AnswerInv'
    BY DEF IInv, MadeInv, HandlerInv, AnswerInv, work
  <1>2. OwnSession' /\ OneAnswer'
    BY GotKept DEF work
  <1>3. PendInv'
    <2> SUFFICES ASSUME NEW c \in Calls, NEW h \in Roles
                 PROVE  pend[<<c, h>>].sess \in {0, via[c]} \/ via[c] \notin alive'
      BY DEF PendInv, work
    <2>1. conn \in Nat /\ via[c] \in Nat /\ via[c] <= conn
      BY Numbers DEF IInv, CallInv
    <2>2. via[c] \notin alive => via[c] \notin alive'
      BY <2>1
    <2> QED  BY <2>2 DEF IInv, PendInv
  <1> QED  BY <1>1, <1>2, <1>3

\* A connection is dialled.
LEMMA DialKeeps == IInv /\ Dial => IInv'
  <1> SUFFICES ASSUME IInv, Dial PROVE IInv'
    OBVIOUS
  <1>1. TypeOK'
    BY RpcAssumption DEF IInv, TypeOK, Conns, Dial, asked, work
  <1>2. LinkInv'
    BY DEF IInv, TypeOK, LinkInv, Dial
  <1>3. CallInv'
    <2>1. conn' = conn + 1 /\ UNCHANGED <<via, call, serve, answer, got, pend>>
      BY DEF Dial, asked, work
    <2>2. ASSUME NEW c \in Calls PROVE via[c] <= conn + 1
      <3>1. conn \in Nat /\ via[c] \in Nat
        BY Numbers
      <3>2. via[c] <= conn
        BY DEF IInv, CallInv
      <3> QED  BY <3>1, <3>2
    <2> QED  BY <2>1, <2>2 DEF IInv, CallInv
  <1>4. MadeInv' /\ PendInv' /\ HandlerInv' /\ AnswerInv' /\ OwnSession' /\ OneAnswer'
    BY WorkKept DEF Dial, asked
  <1> QED  BY <1>1, <1>2, <1>3, <1>4 DEF IInv

\* The session is agreed on.
LEMMA KeyExchangeKeeps == IInv /\ KeyExchange => IInv'
  <1> SUFFICES ASSUME IInv, KeyExchange PROVE IInv'
    OBVIOUS
  <1>1. TypeOK'
    BY RpcAssumption DEF IInv, TypeOK, Conns, KeyExchange, asked, work
  <1>2. LinkInv'
    BY DEF IInv, TypeOK, LinkInv, KeyExchange
  <1>3. CallInv'
    BY Numbers DEF IInv, CallInv, KeyExchange, asked, work
  <1>4. MadeInv' /\ PendInv' /\ HandlerInv' /\ AnswerInv' /\ OwnSession' /\ OneAnswer'
    BY WorkKept DEF KeyExchange, asked
  <1> QED  BY <1>1, <1>2, <1>3, <1>4 DEF IInv

\* The connection breaks.
LEMMA BreakKeeps == IInv /\ Break => IInv'
  <1> SUFFICES ASSUME IInv, Break PROVE IInv'
    OBVIOUS
  <1>1. TypeOK'
    BY RpcAssumption DEF IInv, TypeOK, Conns, Break, asked, work
  <1>2. LinkInv'
    BY DEF IInv, TypeOK, LinkInv, Break
  <1>3. CallInv'
    BY Numbers DEF IInv, CallInv, Break, asked, work
  <1>4. MadeInv' /\ PendInv' /\ HandlerInv' /\ AnswerInv' /\ OwnSession' /\ OneAnswer'
    BY WorkKept DEF Break, asked
  <1> QED  BY <1>1, <1>2, <1>3, <1>4 DEF IInv

\* The session goes.
LEMMA LeaveKeeps == IInv /\ Leave => IInv'
  <1> SUFFICES ASSUME IInv, Leave PROVE IInv'
    OBVIOUS
  <1>1. TypeOK'
    BY RpcAssumption DEF IInv, TypeOK, Conns, Leave, asked, work
  <1>2. LinkInv'
    BY DEF IInv, TypeOK, LinkInv, Leave
  <1>3. CallInv'
    BY Numbers DEF IInv, CallInv, Leave, asked, work
  <1>4. MadeInv' /\ PendInv' /\ HandlerInv' /\ AnswerInv' /\ OwnSession' /\ OneAnswer'
    BY WorkKept DEF Leave, asked
  <1> QED  BY <1>1, <1>2, <1>3, <1>4 DEF IInv

\* The connection is closed.
LEMMA CloseKeeps == IInv /\ Close => IInv'
  <1> SUFFICES ASSUME IInv, Close PROVE IInv'
    OBVIOUS
  <1>1. TypeOK'
    BY DEF IInv, TypeOK, Close, work
  <1>2. LinkInv'
    BY DEF IInv, TypeOK, LinkInv, Close
  <1>3. CallInv'
    BY DEF IInv, TypeOK, CallInv, Close, work
  <1>4. MadeInv' /\ PendInv' /\ HandlerInv' /\ AnswerInv' /\ OwnSession' /\ OneAnswer'
    BY WorkKept DEF Close
  <1> QED  BY <1>1, <1>2, <1>3, <1>4 DEF IInv

\* A call is sent: nothing was done for it before.
LEMMA SendKeeps ==
  ASSUME IInv, NEW c \in Calls, Send(c)
  PROVE  IInv'
  <1>1. TypeOK'
    BY DEF IInv, TypeOK, Send, Conns, link, work
  <1>2. LinkInv' /\ MadeInv' /\ HandlerInv' /\ AnswerInv' /\ OneAnswer'
    BY DEF IInv, LinkInv, MadeInv, HandlerInv, AnswerInv, OneAnswer, Send, link, work
  <1>a. \A x \in Calls : /\ via'[x] = IF x = c THEN conn ELSE via[x]
                         /\ call'[x] = IF x = c THEN "sent" ELSE call[x]
    BY DEF IInv, TypeOK, Send
  <1>b. call[c] # "taken" /\ conn \in Nat /\ UNCHANGED <<conn, alive, serve, answer, got, pend>>
    BY RpcAssumption DEF IInv, TypeOK, Send, link, work
  <1>n. /\ got[c] = <<>> /\ serve[c] = "none" /\ answer[c] = "none"
        /\ \A h \in Roles : pend[<<c, h>>] = Nothing
    BY <1>b DEF IInv, CallInv, Roles
  <1>3. CallInv'
    <2> SUFFICES ASSUME NEW x \in Calls
                 PROVE  /\ via'[x] <= conn
                        /\ call'[x] # "taken" =>
                             /\ serve[x] = "none" /\ answer[x] = "none" /\ got[x] = <<>>
                             /\ pend[<<x, "handler">>] = Nothing /\ pend[<<x, "answer">>] = Nothing
      BY <1>b DEF CallInv
    <2>1. CASE x = c
      BY <2>1, <1>a, <1>b, <1>n DEF Roles
    <2>2. CASE x # c
      BY <2>2, <1>a DEF IInv, CallInv
    <2> QED  BY <2>1, <2>2
  <1>4. PendInv'
    BY <1>a, <1>b, <1>n, NothingToWrite DEF IInv, PendInv
  <1>5. OwnSession'
    BY <1>a, <1>b, <1>n DEF IInv, OwnSession
  <1> QED  BY <1>1, <1>2, <1>3, <1>4, <1>5 DEF IInv

\* The reader takes the call, or drops it.
LEMMA ReceiveKeeps ==
  ASSUME IInv, NEW c \in Calls, Receive(c)
  PROVE  IInv'
  <1>1. TypeOK'
    BY DEF IInv, TypeOK, Receive, link, work
  <1>2. LinkInv' /\ MadeInv' /\ HandlerInv' /\ AnswerInv' /\ OneAnswer'
    BY DEF IInv, LinkInv, MadeInv, HandlerInv, AnswerInv, OneAnswer, Receive, link, work
  <1>3. CallInv'
    BY DEF IInv, TypeOK, CallInv, Receive, link, work
  <1>4. PendInv' /\ OwnSession'
    BY DEF IInv, PendInv, OwnSession, Receive, link, work
  <1> QED  BY <1>1, <1>2, <1>3, <1>4 DEF IInv

\* The message loop starts the goroutines.
LEMMA TakeKeeps ==
  ASSUME IInv, NEW c \in Calls, Take(c)
  PROVE  IInv'
  <1>x. \A x \in Calls : /\ serve'[x] = IF x = c THEN "run" ELSE serve[x]
                         /\ answer'[x] = IF x = c THEN "wait" ELSE answer[x]
                         /\ got'[x] = got[x]
    BY Stages DEF Take
  <1>l. \A x \in Calls : late[x] => late'[x]
    BY DEF IInv, TypeOK, Take
  <1>y. call[c] # "taken" /\ UNCHANGED pend
    BY DEF Take, Idle
  <1>1. TypeOK'
    BY RpcAssumption DEF IInv, TypeOK, Take, link, asked
  <1>2. LinkInv'
    BY DEF IInv, LinkInv, Take, link
  <1>3. CallInv'
    BY WritersTyped DEF IInv, TypeOK, CallInv, Roles, Take, link, asked
  <1>4. MadeInv'
    BY RpcAssumption DEF IInv, TypeOK, MadeInv, CallInv, Take
  <1>5. PendInv'
    BY <1>x DEF IInv, PendInv, Roles, Take, link, asked
  <1>6. HandlerInv'
    <2> SUFFICES ASSUME NEW x \in Calls
                 PROVE  /\ pend'[<<x, "handler">>].kind \in {"none", "data"}
                        /\ serve'[x] = "done" => pend'[<<x, "handler">>] = Nothing
                        /\ answer'[x] \in {"reply", "sending", "done"} => serve'[x] = "done" \/ late'[x]
      BY DEF HandlerInv
    <2>1. CASE x = c
      BY <2>1, <1>x, <1>l, <1>y, NothingToWrite DEF IInv, HandlerInv, CallInv
    <2>2. CASE x # c
      BY <2>2, <1>x, <1>l, <1>y, NothingToWrite DEF IInv, HandlerInv
    <2> QED  BY <2>1, <2>2
  <1>7. AnswerInv'
    <2> SUFFICES ASSUME NEW x \in Calls
                 PROVE  /\ answer'[x] # "done" => Ends(got[x]) = {}
                        /\ answer'[x] \in {"none", "wait", "done"} => pend'[<<x, "answer">>] = Nothing
                        /\ answer'[x] = "reply" => pend'[<<x, "answer">>].kind \in {"none", "data"}
                        /\ answer'[x] = "sending" => pend'[<<x, "answer">>].kind \in {"ok", "error"}
      BY <1>x DEF AnswerInv
    <2>1. CASE x = c
      BY <2>1, <1>x, <1>y, NothingToWrite DEF IInv, AnswerInv, CallInv
    <2>2. CASE x # c
      BY <2>2, <1>x, <1>y, NothingToWrite DEF IInv, AnswerInv
    <2> QED  BY <2>1, <2>2
  <1>8. OwnSession' /\ OneAnswer'
    BY GotKept DEF IInv, TypeOK, Take, asked
  <1> QED  BY <1>1, <1>2, <1>3, <1>4, <1>5, <1>6, <1>7, <1>8 DEF IInv

\* A handler flushes a frame.
LEMMA FlushKeeps ==
  ASSUME IInv, NEW c \in Calls, Flush(c)
  PROVE  IInv'
  <1>0. made[c] + 1 \in 0 .. MaxFrames
    BY RpcAssumption DEF IInv, TypeOK, Flush
  <1> DEFINE f == Encrypted("data", made[c] + 1)
  <1>f. f \in Frames /\ f # Nothing /\ f.kind = "data" /\ (f.sess \in {0, via[c]} \/ via[c] \notin alive)
    BY <1>0, EncryptedTyped, RpcAssumption
  <1>q. pend' = [pend EXCEPT ![<<c, "handler">>] = f]
    BY DEF Flush
  <1> HIDE DEF f
  <1>p. /\ pend' \in [Writers -> Frames \cup {Nothing}]
        /\ \A x \in Calls :
             /\ pend'[<<x, "handler">>] = IF x = c THEN f ELSE pend[<<x, "handler">>]
             /\ pend'[<<x, "answer">>] = pend[<<x, "answer">>]
    <2>1. pend \in [Writers -> Frames \cup {Nothing}]
      BY DEF IInv, TypeOK
    <2> QED  BY <1>f, <1>q, <2>1 DEF Writers, Roles
  <1>x. \A x \in Calls : /\ serve'[x] = serve[x]
                         /\ answer'[x] = answer[x]
                         /\ got'[x] = got[x]
    BY Stages DEF Flush
  <1>l. \A x \in Calls : late[x] => late'[x]
    BY DEF IInv, TypeOK, Flush
  <1>y. serve[c] = "run"
    BY DEF Flush, Idle
  <1>1. TypeOK'
    BY <1>0, <1>f, <1>p, RpcAssumption DEF IInv, TypeOK, Flush, link, asked
  <1>2. LinkInv'
    BY DEF IInv, LinkInv, Flush, link
  <1>3. CallInv'
    BY <1>0, <1>f, <1>p, WritersTyped DEF IInv, TypeOK, CallInv, Roles, Flush, link, asked
  <1>4. MadeInv'
    BY <1>0, <1>f, <1>p, RpcAssumption DEF IInv, TypeOK, MadeInv, CallInv, Flush
  <1>5. PendInv'
    BY <1>0, <1>f, <1>p, <1>x DEF IInv, PendInv, Roles, Flush, link, asked
  <1>6. HandlerInv'
    <2> SUFFICES ASSUME NEW x \in Calls
                 PROVE  /\ pend'[<<x, "handler">>].kind \in {"none", "data"}
                        /\ serve'[x] = "done" => pend'[<<x, "handler">>] = Nothing
                        /\ answer'[x] \in {"reply", "sending", "done"} => serve'[x] = "done" \/ late'[x]
      BY DEF HandlerInv
    <2>1. CASE x = c
      BY <2>1, <1>x, <1>l, <1>y, <1>0, <1>f, <1>p, NothingToWrite DEF IInv, HandlerInv, CallInv
    <2>2. CASE x # c
      BY <2>2, <1>x, <1>l, <1>y, <1>0, <1>f, <1>p, NothingToWrite DEF IInv, HandlerInv
    <2> QED  BY <2>1, <2>2
  <1>7. AnswerInv'
    <2> SUFFICES ASSUME NEW x \in Calls
                 PROVE  /\ answer'[x] # "done" => Ends(got[x]) = {}
                        /\ answer'[x] \in {"none", "wait", "done"} => pend'[<<x, "answer">>] = Nothing
                        /\ answer'[x] = "reply" => pend'[<<x, "answer">>].kind \in {"none", "data"}
                        /\ answer'[x] = "sending" => pend'[<<x, "answer">>].kind \in {"ok", "error"}
      BY <1>x DEF AnswerInv
    <2>1. CASE x = c
      BY <2>1, <1>x, <1>y, <1>0, <1>f, <1>p, NothingToWrite DEF IInv, AnswerInv, CallInv
    <2>2. CASE x # c
      BY <2>2, <1>x, <1>y, <1>0, <1>f, <1>p, NothingToWrite DEF IInv, AnswerInv
    <2> QED  BY <2>1, <2>2
  <1>8. OwnSession' /\ OneAnswer'
    BY GotKept DEF IInv, TypeOK, Flush, asked
  <1> QED  BY <1>1, <1>2, <1>3, <1>4, <1>5, <1>6, <1>7, <1>8 DEF IInv

\* A handler returns.
LEMMA ReturnKeeps ==
  ASSUME IInv, NEW c \in Calls, Return(c)
  PROVE  IInv'
  <1>x. \A x \in Calls : /\ serve'[x] = IF x = c THEN "done" ELSE serve[x]
                         /\ answer'[x] = answer[x]
                         /\ got'[x] = got[x]
    BY Stages DEF Return
  <1>l. \A x \in Calls : late[x] => late'[x]
    BY DEF IInv, TypeOK, Return
  <1>y. pend[<<c, "handler">>] = Nothing /\ UNCHANGED pend
    BY DEF Return, Idle
  <1>1. TypeOK'
    BY RpcAssumption DEF IInv, TypeOK, Return, link, asked
  <1>2. LinkInv'
    BY DEF IInv, LinkInv, Return, link
  <1>3. CallInv'
    BY WritersTyped DEF IInv, TypeOK, CallInv, Roles, Return, link, asked
  <1>4. MadeInv'
    BY RpcAssumption DEF IInv, TypeOK, MadeInv, CallInv, Return
  <1>5. PendInv'
    BY <1>x DEF IInv, PendInv, Roles, Return, link, asked
  <1>6. HandlerInv'
    <2> SUFFICES ASSUME NEW x \in Calls
                 PROVE  /\ pend'[<<x, "handler">>].kind \in {"none", "data"}
                        /\ serve'[x] = "done" => pend'[<<x, "handler">>] = Nothing
                        /\ answer'[x] \in {"reply", "sending", "done"} => serve'[x] = "done" \/ late'[x]
      BY DEF HandlerInv
    <2>1. CASE x = c
      BY <2>1, <1>x, <1>l, <1>y, NothingToWrite DEF IInv, HandlerInv, CallInv
    <2>2. CASE x # c
      BY <2>2, <1>x, <1>l, <1>y, NothingToWrite DEF IInv, HandlerInv
    <2> QED  BY <2>1, <2>2
  <1>7. AnswerInv'
    <2> SUFFICES ASSUME NEW x \in Calls
                 PROVE  /\ answer'[x] # "done" => Ends(got[x]) = {}
                        /\ answer'[x] \in {"none", "wait", "done"} => pend'[<<x, "answer">>] = Nothing
                        /\ answer'[x] = "reply" => pend'[<<x, "answer">>].kind \in {"none", "data"}
                        /\ answer'[x] = "sending" => pend'[<<x, "answer">>].kind \in {"ok", "error"}
      BY <1>x DEF AnswerInv
    <2>1. CASE x = c
      BY <2>1, <1>x, <1>y, NothingToWrite DEF IInv, AnswerInv, CallInv
    <2>2. CASE x # c
      BY <2>2, <1>x, <1>y, NothingToWrite DEF IInv, AnswerInv
    <2> QED  BY <2>1, <2>2
  <1>8. OwnSession' /\ OneAnswer'
    BY GotKept DEF IInv, TypeOK, Return, asked
  <1> QED  BY <1>1, <1>2, <1>3, <1>4, <1>5, <1>6, <1>7, <1>8 DEF IInv

\* The handler has returned; what it had not flushed is encrypted.
LEMMA DoneKeeps ==
  ASSUME IInv, NEW c \in Calls, Done(c)
  PROVE  IInv'
  <1>0. made[c] + 1 \in 0 .. MaxFrames + 1
    BY RpcAssumption DEF IInv, TypeOK, MadeInv, Done
  <1> DEFINE f == Encrypted("data", made[c] + 1)
  <1>f. f \in Frames /\ f # Nothing /\ f.kind = "data" /\ (f.sess \in {0, via[c]} \/ via[c] \notin alive)
    BY <1>0, EncryptedTyped
  <1>q. pend' = [pend EXCEPT ![<<c, "answer">>] = f] \/ pend' = pend
    BY DEF Done
  <1>m. made' \in [Calls -> 0 .. MaxFrames + 1]
    BY <1>0 DEF IInv, TypeOK, Done
  <1> HIDE DEF f
  <1>p. /\ pend' \in [Writers -> Frames \cup {Nothing}]
        /\ \A x \in Calls :
             /\ pend'[<<x, "answer">>] \in {pend[<<x, "answer">>], IF x = c THEN f ELSE pend[<<x, "answer">>]}
             /\ pend'[<<x, "handler">>] = pend[<<x, "handler">>]
    <2>1. pend \in [Writers -> Frames \cup {Nothing}]
      BY DEF IInv, TypeOK
    <2> QED  BY <1>f, <1>q, <2>1 DEF Writers, Roles
  <1>x. \A x \in Calls : /\ serve'[x] = serve[x]
                         /\ answer'[x] = IF x = c THEN "reply" ELSE answer[x]
                         /\ got'[x] = got[x]
    BY Stages DEF Done
  <1>l. \A x \in Calls : late[x] => late'[x]
    BY DEF IInv, TypeOK, Done
  <1>y. answer[c] = "wait" /\ serve[c] = "done"
    BY DEF Done, Idle
  <1>1. TypeOK'
    BY <1>f, <1>p, <1>m, RpcAssumption DEF IInv, TypeOK, Done, link, asked
  <1>2. LinkInv'
    BY DEF IInv, LinkInv, Done, link
  <1>3. CallInv'
    BY <1>f, <1>p, <1>m, WritersTyped DEF IInv, TypeOK, CallInv, Roles, Done, link, asked
  <1>4. MadeInv'
    BY <1>f, <1>p, <1>m, RpcAssumption DEF IInv, TypeOK, MadeInv, CallInv, Done
  <1>5. PendInv'
    BY <1>f, <1>p, <1>m, <1>x DEF IInv, PendInv, Roles, Done, link, asked
  <1>6. HandlerInv'
    <2> SUFFICES ASSUME NEW x \in Calls
                 PROVE  /\ pend'[<<x, "handler">>].kind \in {"none", "data"}
                        /\ serve'[x] = "done" => pend'[<<x, "handler">>] = Nothing
                        /\ answer'[x] \in {"reply", "sending", "done"} => serve'[x] = "done" \/ late'[x]
      BY DEF HandlerInv
    <2>1. CASE x = c
      BY <2>1, <1>x, <1>l, <1>y, <1>f, <1>p, <1>m, NothingToWrite DEF IInv, HandlerInv, CallInv
    <2>2. CASE x # c
      BY <2>2, <1>x, <1>l, <1>y, <1>f, <1>p, <1>m, NothingToWrite DEF IInv, HandlerInv
    <2> QED  BY <2>1, <2>2
  <1>7. AnswerInv'
    <2> SUFFICES ASSUME NEW x \in Calls
                 PROVE  /\ answer'[x] # "done" => Ends(got[x]) = {}
                        /\ answer'[x] \in {"none", "wait", "done"} => pend'[<<x, "answer">>] = Nothing
                        /\ answer'[x] = "reply" => pend'[<<x, "answer">>].kind \in {"none", "data"}
                        /\ answer'[x] = "sending" => pend'[<<x, "answer">>].kind \in {"ok", "error"}
      BY <1>x DEF AnswerInv
    <2>1. CASE x = c
      BY <2>1, <1>x, <1>y, <1>f, <1>p, <1>m, NothingToWrite DEF IInv, AnswerInv, CallInv
    <2>2. CASE x # c
      BY <2>2, <1>x, <1>y, <1>f, <1>p, <1>m, NothingToWrite DEF IInv, AnswerInv
    <2> QED  BY <2>1, <2>2
  <1>8. OwnSession' /\ OneAnswer'
    BY GotKept DEF IInv, TypeOK, Done, asked
  <1> QED  BY <1>1, <1>2, <1>3, <1>4, <1>5, <1>6, <1>7, <1>8 DEF IInv

\* The timeout.
LEMMA TimeoutKeeps ==
  ASSUME IInv, NEW c \in Calls, Timeout(c)
  PROVE  IInv'
  <1>x. \A x \in Calls : /\ serve'[x] = serve[x]
                         /\ answer'[x] = IF x = c THEN "reply" ELSE answer[x]
                         /\ got'[x] = got[x]
    BY Stages DEF Timeout
  <1>l. \A x \in Calls : late[x] => late'[x]
    BY DEF IInv, TypeOK, Timeout
  <1>z. late'[c]
    BY DEF IInv, TypeOK, Timeout
  <1>y. answer[c] = "wait" /\ UNCHANGED pend
    BY DEF Timeout, Idle
  <1>1. TypeOK'
    BY RpcAssumption DEF IInv, TypeOK, Timeout, link, asked
  <1>2. LinkInv'
    BY DEF IInv, LinkInv, Timeout, link
  <1>3. CallInv'
    BY WritersTyped DEF IInv, TypeOK, CallInv, Roles, Timeout, link, asked
  <1>4. MadeInv'
    BY RpcAssumption DEF IInv, TypeOK, MadeInv, CallInv, Timeout
  <1>5. PendInv'
    BY <1>x DEF IInv, PendInv, Roles, Timeout, link, asked
  <1>6. HandlerInv'
    <2> SUFFICES ASSUME NEW x \in Calls
                 PROVE  /\ pend'[<<x, "handler">>].kind \in {"none", "data"}
                        /\ serve'[x] = "done" => pend'[<<x, "handler">>] = Nothing
                        /\ answer'[x] \in {"reply", "sending", "done"} => serve'[x] = "done" \/ late'[x]
      BY DEF HandlerInv
    <2>1. CASE x = c
      BY <2>1, <1>x, <1>l, <1>z, <1>y, NothingToWrite DEF IInv, HandlerInv, CallInv
    <2>2. CASE x # c
      BY <2>2, <1>x, <1>l, <1>z, <1>y, NothingToWrite DEF IInv, HandlerInv
    <2> QED  BY <2>1, <2>2
  <1>7. AnswerInv'
    <2> SUFFICES ASSUME NEW x \in Calls
                 PROVE  /\ answer'[x] # "done" => Ends(got[x]) = {}
                        /\ answer'[x] \in {"none", "wait", "done"} => pend'[<<x, "answer">>] = Nothing
                        /\ answer'[x] = "reply" => pend'[<<x, "answer">>].kind \in {"none", "data"}
                        /\ answer'[x] = "sending" => pend'[<<x, "answer">>].kind \in {"ok", "error"}
      BY <1>x DEF AnswerInv
    <2>1. CASE x = c
      BY <2>1, <1>x, <1>y, NothingToWrite DEF IInv, AnswerInv, CallInv
    <2>2. CASE x # c
      BY <2>2, <1>x, <1>y, NothingToWrite DEF IInv, AnswerInv
    <2> QED  BY <2>1, <2>2
  <1>8. OwnSession' /\ OneAnswer'
    BY GotKept DEF IInv, TypeOK, Timeout, asked
  <1> QED  BY <1>1, <1>2, <1>3, <1>4, <1>5, <1>6, <1>7, <1>8 DEF IInv

\* The answer is encrypted.
LEMMA ReplyKeeps ==
  ASSUME IInv, NEW c \in Calls, Reply(c)
  PROVE  IInv'
  <1> DEFINE f == Encrypted(IF late[c] THEN "error" ELSE "ok", 0)
  <1>f. f \in Frames /\ f # Nothing /\ f.kind \in {"ok", "error"} /\ (f.sess \in {0, via[c]} \/ via[c] \notin alive)
    BY EncryptedTyped, RpcAssumption
  <1>q. pend' = [pend EXCEPT ![<<c, "answer">>] = f]
    BY DEF Reply
  <1> HIDE DEF f
  <1>p. /\ pend' \in [Writers -> Frames \cup {Nothing}]
        /\ \A x \in Calls :
             /\ pend'[<<x, "answer">>] = IF x = c THEN f ELSE pend[<<x, "answer">>]
             /\ pend'[<<x, "handler">>] = pend[<<x, "handler">>]
    <2>1. pend \in [Writers -> Frames \cup {Nothing}]
      BY DEF IInv, TypeOK
    <2> QED  BY <1>f, <1>q, <2>1 DEF Writers, Roles
  <1>x. \A x \in Calls : /\ serve'[x] = serve[x]
                         /\ answer'[x] = IF x = c THEN "sending" ELSE answer[x]
                         /\ got'[x] = got[x]
    BY Stages DEF Reply
  <1>l. \A x \in Calls : late[x] => late'[x]
    BY DEF IInv, TypeOK, Reply
  <1>y. answer[c] = "reply" /\ pend[<<c, "answer">>] = Nothing
    BY DEF Reply, Idle
  <1>1. TypeOK'
    BY <1>f, <1>p, RpcAssumption DEF IInv, TypeOK, Reply, link, asked
  <1>2. LinkInv'
    BY DEF IInv, LinkInv, Reply, link
  <1>3. CallInv'
    BY <1>f, <1>p, WritersTyped DEF IInv, TypeOK, CallInv, Roles, Reply, link, asked
  <1>4. MadeInv'
    BY <1>f, <1>p, RpcAssumption DEF IInv, TypeOK, MadeInv, CallInv, Reply
  <1>5. PendInv'
    <2>1. UNCHANGED <<via, alive>>
      BY DEF Reply, link, asked
    <2>2. ASSUME NEW x \in Calls
          PROVE  pend'[<<x, "answer">>].sess \in {0, via[x]} \/ via[x] \notin alive
      BY <1>f, <1>p DEF IInv, PendInv, Roles
    <2>3. ASSUME NEW x \in Calls
          PROVE  pend'[<<x, "handler">>].sess \in {0, via[x]} \/ via[x] \notin alive
      BY <1>p DEF IInv, PendInv, Roles
    <2> QED  BY <2>1, <2>2, <2>3 DEF PendInv, Roles
  <1>6. HandlerInv'
    <2> SUFFICES ASSUME NEW x \in Calls
                 PROVE  /\ pend'[<<x, "handler">>].kind \in {"none", "data"}
                        /\ serve'[x] = "done" => pend'[<<x, "handler">>] = Nothing
                        /\ answer'[x] \in {"reply", "sending", "done"} => serve'[x] = "done" \/ late'[x]
      BY DEF HandlerInv
    <2>1. CASE x = c
      BY <2>1, <1>x, <1>l, <1>y, <1>f, <1>p, NothingToWrite DEF IInv, HandlerInv, CallInv
    <2>2. CASE x # c
      BY <2>2, <1>x, <1>l, <1>y, <1>f, <1>p, NothingToWrite DEF IInv, HandlerInv
    <2> QED  BY <2>1, <2>2
  <1>7. AnswerInv'
    <2> SUFFICES ASSUME NEW x \in Calls
                 PROVE  /\ answer'[x] # "done" => Ends(got[x]) = {}
                        /\ answer'[x] \in {"none", "wait", "done"} => pend'[<<x, "answer">>] = Nothing
                        /\ answer'[x] = "reply" => pend'[<<x, "answer">>].kind \in {"none", "data"}
                        /\ answer'[x] = "sending" => pend'[<<x, "answer">>].kind \in {"ok", "error"}
      BY <1>x DEF AnswerInv
    <2>1. CASE x = c
      BY <2>1, <1>x, <1>y, <1>f, <1>p, NothingToWrite DEF IInv, AnswerInv, CallInv
    <2>2. CASE x # c
      BY <2>2, <1>x, <1>y, <1>f, <1>p, NothingToWrite DEF IInv, AnswerInv
    <2> QED  BY <2>1, <2>2
  <1>8. OwnSession' /\ OneAnswer'
    BY GotKept DEF IInv, TypeOK, Reply, asked
  <1> QED  BY <1>1, <1>2, <1>3, <1>4, <1>5, <1>6, <1>7, <1>8 DEF IInv

\* The agent ends.
LEMMA PanicKeeps ==
  ASSUME IInv, NEW c \in Calls, Panic(c)
  PROVE  IInv'
  <1>1. TypeOK'
    BY RpcAssumption DEF IInv, TypeOK, Panic, All, NoWrites
  <1>2. LinkInv' /\ CallInv' /\ MadeInv'
    BY RpcAssumption, WritersTyped DEF IInv, TypeOK, LinkInv, CallInv, MadeInv, Panic, All, NoWrites
  <1>3. PendInv' /\ HandlerInv'
    BY NothingToWrite, WritersTyped DEF PendInv, HandlerInv, Panic, All, NoWrites
  <1>4. AnswerInv'
    BY NothingToWrite, WritersTyped, NoEnds DEF AnswerInv, Panic, All, NoWrites
  <1>5. OwnSession'
    BY DEF Panic, OwnSession, All
  <1>6. OneAnswer'
    BY NoEnds DEF Panic, OneAnswer, All
  <1> QED  BY <1>1, <1>2, <1>3, <1>4, <1>5, <1>6 DEF IInv

\* A frame is written: it arrives, or its connection has gone.
LEMMA WriteKeeps ==
  ASSUME IInv, NEW w \in Writers, Write(w)
  PROVE  IInv'
  <1> DEFINE c == w[1]
             f == pend[w]
             h == w[2]
  <1>w. c \in Calls /\ h \in Roles /\ w = <<c, h>>
    BY DEF Writers, Roles
  <1>f. f \in Frames /\ f # Nothing
    BY DEF IInv, TypeOK, Write, Idle
  <1>p. /\ pend' = [pend EXCEPT ![w] = Nothing]
        /\ got' = IF via[c] \in alive THEN [got EXCEPT ![c] = Append(@, f)] ELSE got
        /\ answer' = IF f.kind = "data" THEN answer ELSE [answer EXCEPT ![c] = "done"]
        /\ UNCHANGED <<link, asked, serve, made, late, dead>>
    BY DEF Write
  <1>k. f.kind \in {"data", "ok", "error"}
    BY <1>f DEF Frames
  <1>t. call[c] = "taken"
    BY <1>w, <1>f DEF IInv, CallInv, Roles
  <1>e. f.kind # "data" => h = "answer" /\ answer[c] = "sending"
    BY <1>w, <1>f, <1>k, AnswerTyped DEF IInv, HandlerInv, AnswerInv, Roles
  <1>d. f.kind = "data" => answer[c] # "done" \/ late[c]
    BY <1>w, <1>f, <1>k DEF IInv, HandlerInv, AnswerInv, Roles
  <1>s. f.sess \in {0, via[c]} \/ via[c] \notin alive
    BY <1>w DEF IInv, PendInv
  <1>n. f.kind = "data" => ~(h = "answer" /\ answer[c] = "sending")
    BY <1>w, <1>f, <1>k DEF IInv, AnswerInv
  <1> HIDE DEF c, f, h
  <1>q. /\ pend' \in [Writers -> Frames \cup {Nothing}]
        /\ \A x \in Calls :
             /\ pend'[<<x, "handler">>] = IF x = c /\ h = "handler" THEN Nothing ELSE pend[<<x, "handler">>]
             /\ pend'[<<x, "answer">>] = IF x = c /\ h = "answer" THEN Nothing ELSE pend[<<x, "answer">>]
    <2>1. pend \in [Writers -> Frames \cup {Nothing}]
      BY DEF IInv, TypeOK
    <2> QED  BY <1>w, <1>p, <2>1 DEF Writers, Roles
  <1>a. /\ answer' \in [Calls -> {"none", "wait", "reply", "sending", "done"}]
        /\ \A x \in Calls : answer'[x] = IF x = c /\ f.kind # "data" THEN "done" ELSE answer[x]
    BY <1>w, <1>p DEF IInv, TypeOK
  <1>g. /\ got' \in [Calls -> Seq(Frames)]
        /\ \A x \in Calls : got'[x] = IF x = c /\ via[c] \in alive THEN Append(got[x], f) ELSE got[x]
    <2>1. got \in [Calls -> Seq(Frames)] /\ Append(got[c], f) \in Seq(Frames)
      BY <1>w, <1>f DEF IInv, TypeOK
    <2> QED  BY <1>w, <1>p, <2>1
  <1>1. TypeOK'
    BY <1>q, <1>a, <1>g, <1>p DEF IInv, TypeOK, link, asked
  <1>2. LinkInv'
    BY <1>p DEF IInv, LinkInv, link
  <1>3. CallInv'
    <2> SUFFICES ASSUME NEW x \in Calls, call[x] # "taken"
                 PROVE  /\ serve[x] = "none" /\ answer'[x] = "none" /\ got'[x] = <<>>
                        /\ pend'[<<x, "handler">>] = Nothing /\ pend'[<<x, "answer">>] = Nothing
      BY <1>p DEF IInv, CallInv, link, asked
    <2>1. x # c
      BY <1>t
    <2> QED  BY <2>1, <1>q, <1>a, <1>g DEF IInv, CallInv
  <1>4. MadeInv'
    BY <1>a, <1>p DEF IInv, MadeInv
  <1>5. PendInv'
    <2>1. UNCHANGED <<via, alive>>
      BY <1>p DEF link, asked
    <2>2. ASSUME NEW x \in Calls
          PROVE  pend'[<<x, "answer">>].sess \in {0, via[x]} \/ via[x] \notin alive
      BY <1>q, NothingToWrite DEF IInv, PendInv, Roles
    <2>3. ASSUME NEW x \in Calls
          PROVE  pend'[<<x, "handler">>].sess \in {0, via[x]} \/ via[x] \notin alive
      BY <1>q, NothingToWrite DEF IInv, PendInv, Roles
    <2> QED  BY <2>1, <2>2, <2>3 DEF PendInv, Roles
  <1>6. HandlerInv'
    <2> SUFFICES ASSUME NEW x \in Calls
                 PROVE  /\ pend'[<<x, "handler">>].kind \in {"none", "data"}
                        /\ serve[x] = "done" => pend'[<<x, "handler">>] = Nothing
                        /\ answer'[x] \in {"reply", "sending", "done"} => serve[x] = "done" \/ late[x]
      BY <1>p DEF HandlerInv
    <2>1. pend'[<<x, "handler">>] \in {Nothing, pend[<<x, "handler">>]}
      BY <1>q
    <2>2. answer'[x] # answer[x] => answer[x] = "sending"
      BY <1>a, <1>e
    <2> QED  BY <2>1, <2>2, NothingToWrite DEF IInv, HandlerInv
  <1>h. \A x \in Calls :
          Ends(got'[x]) = IF x = c /\ via[c] \in alive /\ f.kind # "data"
                          THEN Ends(got[x]) \cup {Len(got[x]) + 1} ELSE Ends(got[x])
    <2>1. \A x \in Calls : got[x] \in Seq(Frames)
      BY DEF IInv, TypeOK
    <2> QED  BY <1>f, <1>g, <2>1, EndsAppend
  <1>7. AnswerInv'
    <2>1. \A x \in Calls : answer'[x] # "done" => Ends(got'[x]) = {}
      BY <1>a, <1>h DEF IInv, AnswerInv
    <2>2. \A x \in Calls :
            /\ answer'[x] \in {"none", "wait", "done"} => pend'[<<x, "answer">>] = Nothing
            /\ answer'[x] = "reply" => pend'[<<x, "answer">>].kind \in {"none", "data"}
            /\ answer'[x] = "sending" => pend'[<<x, "answer">>].kind \in {"ok", "error"}
      BY <1>a, <1>q, <1>e, <1>n, NothingToWrite DEF IInv, AnswerInv, Roles
    <2> QED  BY <2>1, <2>2 DEF AnswerInv
  <1>8. OwnSession'
    <2> SUFFICES ASSUME NEW x \in Calls, NEW i \in DOMAIN got'[x]
                 PROVE  got'[x][i].sess \in {0, via[x]}
      BY <1>p DEF OwnSession, asked
    <2>1. CASE got'[x] = got[x]
      BY <2>1 DEF IInv, OwnSession
    <2>2. CASE got'[x] = Append(got[x], f) /\ x = c /\ via[c] \in alive
      <3>1. got[x] \in Seq(Frames) /\ i \in 1 .. Len(got[x]) + 1
        BY <2>2, <1>f DEF IInv, TypeOK
      <3>2. CASE i = Len(got[x]) + 1
        BY <3>1, <3>2, <2>2, <1>s
      <3>3. CASE i \in 1 .. Len(got[x])
        <4>1. got'[x][i] = got[x][i] /\ i \in DOMAIN got[x]
          BY <3>1, <3>3, <2>2
        <4> QED  BY <4>1 DEF IInv, OwnSession
      <3> QED  BY <3>1, <3>2, <3>3
    <2> QED  BY <2>1, <2>2, <1>g
  <1>9. OneAnswer'
    <2> SUFFICES ASSUME NEW x \in Calls
                 PROVE  /\ Cardinality(Ends(got'[x])) <= 1
                        /\ Ends(got'[x]) \subseteq {Len(got'[x])} \/ late[x]
      BY <1>p DEF OneAnswer
    <2>1. CASE got'[x] = got[x]
      BY <2>1 DEF IInv, OneAnswer
    <2>2. CASE got'[x] = Append(got[x], f) /\ x = c /\ via[c] \in alive /\ f.kind # "data"
      <3>1. Ends(got[x]) = {}
        BY <2>2, <1>e DEF IInv, AnswerInv
      <3>2. Ends(got'[x]) = {Len(got[x]) + 1}
        BY <2>2, <3>1, <1>h
      <3>4. Len(got'[x]) = Len(got[x]) + 1
        <4>1. got[x] \in Seq(Frames)
          BY DEF IInv, TypeOK
        <4> QED  BY <4>1, <2>2, <1>f
      <3>3. Cardinality({Len(got[x]) + 1}) = 1
        BY FS_Singleton
      <3> QED  BY <3>2, <3>3, <3>4
    <2>3. CASE got'[x] = Append(got[x], f) /\ x = c /\ f.kind = "data"
      <3>1. Ends(got'[x]) = Ends(got[x])
        BY <2>3, <1>h
      <3>2. Ends(got[x]) = {} \/ late[x]
        BY <2>3, <1>d DEF IInv, AnswerInv
      <3> QED  BY <3>1, <3>2 DEF IInv, OneAnswer
    <2> QED  BY <2>1, <2>2, <2>3, <1>g
  <1> QED  BY <1>1, <1>2, <1>3, <1>4, <1>5, <1>6, <1>7, <1>8, <1>9 DEF IInv

-----------------------------------------------------------------------------
LEMMA Invariance == Spec => []IInv
  <1>1. IInv /\ UNCHANGED vars => IInv'
    <2> SUFFICES ASSUME IInv, UNCHANGED vars PROVE IInv'
      OBVIOUS
    <2>1. TypeOK'
      BY DEF IInv, TypeOK, vars, link, asked, work
    <2>2. LinkInv' /\ CallInv'
      BY DEF IInv, LinkInv, CallInv, vars, link, asked, work
    <2>3. MadeInv' /\ PendInv' /\ HandlerInv' /\ AnswerInv' /\ OwnSession' /\ OneAnswer'
      BY WorkKept DEF vars, link, asked
    <2> QED  BY <2>1, <2>2, <2>3 DEF IInv
  <1>2. IInv /\ Next => IInv'
    <2> SUFFICES ASSUME IInv, Next PROVE IInv'
      OBVIOUS
    <2>1. CASE Dial \/ KeyExchange \/ Break \/ Leave \/ Close
      BY <2>1, DialKeeps, KeyExchangeKeeps, BreakKeeps, LeaveKeeps, CloseKeeps
    <2>2. ASSUME NEW c \in Calls, Send(c) \/ Flush(c) \/ Return(c) \/ Panic(c) \/ Progress(c)
          PROVE  IInv'
      BY <2>2, SendKeeps, FlushKeeps, ReturnKeeps, PanicKeeps, ReceiveKeeps, TakeKeeps, DoneKeeps,
         TimeoutKeeps, ReplyKeeps DEF Progress, Dialled
    <2>3. ASSUME NEW w \in Writers, Write(w) PROVE IInv'
      BY <2>3, WriteKeeps
    <2> QED  BY <2>1, <2>2, <2>3 DEF Next
  <1> QED  BY InitHolds, <1>1, <1>2, PTL DEF Spec

\* The state of the connection, of the queue and of every goroutine keeps its
\* shape: no stream makes a frame more than it may.
THEOREM TypeCorrect == Spec => []TypeOK
  <1>1. IInv => TypeOK
    BY DEF IInv
  <1> QED  BY <1>1, Invariance, PTL

\* handleWSRequest: the goroutine that waits and the handler that may outlive
\* its timeout send one answer between them.
THEOREM AnsweredOnce == Spec => []OneAnswer
  <1>1. IInv => OneAnswer
    BY DEF IInv
  <1> QED  BY <1>1, Invariance, PTL

\* writeEncrypted: a call that outlives its connection never has the session of
\* the next one on its frames.
THEOREM SessionIsOwn == Spec => []OwnSession
  <1>1. IInv => OwnSession
    BY DEF IInv
  <1> QED  BY <1>1, Invariance, PTL

-----------------------------------------------------------------------------
(***************************************************************************)
(* That a stream arrives complete and in order: of its two writers only    *)
(* one has a frame in hand at a time, the frame made last, and while the   *)
(* connection lives the master has all the others.                         *)
(***************************************************************************)
Count(s) == Cardinality(Data(s, Len(s)))
Waiting(c) == pend[<<c, "handler">>].kind = "data" \/ pend[<<c, "answer">>].kind = "data"
SentOk(c) == \E i \in DOMAIN got[c] : got[c][i].kind = "ok"

FrameInv(c) ==
  /\ call[c] # "taken" => made[c] = 0
  /\ pend[<<c, "handler">>].kind = "data" => pend[<<c, "handler">>].n = made[c]
  /\ pend[<<c, "answer">>].kind = "data" => pend[<<c, "answer">>].n = made[c] /\ serve[c] = "done"
  /\ via[c] \in alive => Count(got[c]) = IF Waiting(c) THEN made[c] - 1 ELSE made[c]

\* Success is only answered for a call that has not met its timeout.
OkInv(c) == (pend[<<c, "answer">>].kind = "ok" => ~late[c]) /\ (SentOk(c) => ~late[c])

CompleteInv(c) ==
  /\ \A i \in DOMAIN got[c] : got[c][i].kind = "data" => got[c][i].n = Cardinality(Data(got[c], i))
  /\ SentOk(c) => Count(got[c]) = made[c]

StreamInv == \A c \in Calls : FrameInv(c) /\ OkInv(c) /\ CompleteInv(c)

LEMMA DataFinite ==
  ASSUME NEW s, NEW i \in Nat
  PROVE  IsFiniteSet(Data(s, i)) /\ Cardinality(Data(s, i)) \in Nat
  <1>1. Data(s, i) \subseteq 1 .. i
    BY DEF Data
  <1>2. IsFiniteSet(1 .. i)
    BY FS_Interval
  <1>3. IsFiniteSet(Data(s, i))
    BY <1>1, <1>2, FS_Subset
  <1> QED  BY <1>3, FS_CardinalityType

\* How many frames of data there are after one more frame.
LEMMA CountAppend ==
  ASSUME NEW s \in Seq(Frames), NEW f \in Frames
  PROVE  /\ Count(s) \in Nat
         /\ \A i \in 1 .. Len(s) : Data(Append(s, f), i) = Data(s, i)
         /\ Count(Append(s, f)) = IF f.kind = "data" THEN Count(s) + 1 ELSE Count(s)
         /\ Cardinality(Data(Append(s, f), Len(s) + 1)) = Count(Append(s, f))
  <1> DEFINE t == Append(s, f)
             n == Len(s)
  <1>1. /\ n \in Nat /\ Len(t) = n + 1 /\ t[n + 1] = f
        /\ \A i \in 1 .. n : t[i] = s[i]
    OBVIOUS
  <1> HIDE DEF t, n
  <1>2. ASSUME NEW i \in 1 .. n PROVE Data(t, i) = Data(s, i)
    BY <1>1 DEF Data
  <1>3. 1 .. n + 1 = (1 .. n) \cup {n + 1}
    BY <1>1
  <1>4. Data(t, n + 1) = IF f.kind = "data" THEN Data(s, n) \cup {n + 1} ELSE Data(s, n)
    BY <1>1, <1>3 DEF Data
  <1>5. IsFiniteSet(Data(s, n)) /\ Cardinality(Data(s, n)) \in Nat
    BY <1>1, DataFinite
  <1>6. n + 1 \notin Data(s, n)
    BY <1>1 DEF Data
  <1>7. Cardinality(Data(s, n) \cup {n + 1}) = Cardinality(Data(s, n)) + 1
    BY <1>5, <1>6, FS_AddElement
  <1>8. Cardinality(Data(t, n + 1)) = IF f.kind = "data" THEN Cardinality(Data(s, n)) + 1
                                      ELSE Cardinality(Data(s, n))
    BY <1>4, <1>7
  <1>9. Count(s) = Cardinality(Data(s, n)) /\ Count(t) = Cardinality(Data(t, n + 1))
    BY <1>1 DEF Count, n
  <1> QED  BY <1>2, <1>5, <1>8, <1>9 DEF t, n

LEMMA CountNone == Count(<<>>) = 0
  <1>1. Len(<<>>) = 0
    OBVIOUS
  <1>2. 1 .. 0 = {}
    OBVIOUS
  <1>3. Data(<<>>, 0) = {}
    BY <1>2 DEF Data
  <1> QED  BY <1>1, <1>3, FS_EmptySet DEF Count

\* Success is answered by a handler that has returned.
LEMMA OkIsDone ==
  ASSUME IInv, NEW c \in Calls, SentOk(c), ~late[c]
  PROVE  answer[c] = "done" /\ serve[c] = "done"
  <1>1. Ends(got[c]) # {}
    BY DEF SentOk, Ends
  <1> QED  BY <1>1 DEF IInv, AnswerInv, HandlerInv

\* A call that a step has nothing to do with.
LEMMA OtherStreams ==
  ASSUME NEW c \in Calls, FrameInv(c), OkInv(c), CompleteInv(c),
         via[c] \in alive' => via[c] \in alive, call'[c] # "taken" => call[c] # "taken",
         UNCHANGED <<via[c], made[c], late[c], got[c], pend[<<c, "handler">>], pend[<<c, "answer">>]>>,
         serve[c] = "done" => serve'[c] = "done"
  PROVE  (FrameInv(c) /\ OkInv(c) /\ CompleteInv(c))'
  <1>1. Waiting(c)' = Waiting(c) /\ SentOk(c)' = SentOk(c)
    BY DEF Waiting, SentOk
  <1>2. FrameInv(c)'
    BY <1>1 DEF FrameInv
  <1>3. OkInv(c)'
    BY <1>1 DEF OkInv
  <1>4. CompleteInv(c)'
    BY <1>1 DEF CompleteInv
  <1> QED  BY <1>2, <1>3, <1>4

\* The steps of the connection and of the reader leave every stream.
LEMMA LinkKeepsStreams ==
  ASSUME IInv, StreamInv, UNCHANGED <<via, work, got>>, alive' \subseteq alive \cup {conn + 1},
         \A c \in Calls : call'[c] # "taken" => call[c] # "taken"
  PROVE  StreamInv'
  <1> SUFFICES ASSUME NEW c \in Calls PROVE (FrameInv(c) /\ OkInv(c) /\ CompleteInv(c))'
    BY DEF StreamInv
  <1>1. conn \in Nat /\ via[c] \in Nat /\ via[c] <= conn
    BY Numbers DEF IInv, CallInv
  <1>2. via[c] \in alive' => via[c] \in alive
    BY <1>1
  <1> QED  BY <1>2, OtherStreams DEF StreamInv, work

\* A call starts with nothing made and nothing received.
LEMMA SendKeepsStreams ==
  ASSUME IInv, StreamInv, NEW c \in Calls, Send(c)
  PROVE  StreamInv'
  <1> SUFFICES ASSUME NEW x \in Calls PROVE (FrameInv(x) /\ OkInv(x) /\ CompleteInv(x))'
    BY DEF StreamInv
  <1>1. /\ call[c] = "new" /\ UNCHANGED <<alive, serve, made, late, pend, got>>
        /\ \A y \in Calls : y # c => via'[y] = via[y] /\ call'[y] = call[y]
    BY DEF IInv, TypeOK, Send, link, work
  <1>2. CASE x # c
    BY <1>1, <1>2, OtherStreams DEF StreamInv
  <1>3. CASE x = c
    <2>1. /\ got'[x] = <<>> /\ made'[x] = 0
          /\ pend'[<<x, "handler">>] = Nothing /\ pend'[<<x, "answer">>] = Nothing
      BY <1>1, <1>3 DEF IInv, CallInv, StreamInv, FrameInv
    <2>2. ~Waiting(x)' /\ ~SentOk(x)'
      BY <2>1, NothingToWrite DEF Waiting, SentOk
    <2>3. FrameInv(x)'
      BY <2>1, <2>2, NothingToWrite, CountNone DEF FrameInv
    <2>4. OkInv(x)' /\ CompleteInv(x)'
      BY <2>1, <2>2, NothingToWrite DEF OkInv, CompleteInv
    <2> QED  BY <2>3, <2>4
  <1> QED  BY <1>2, <1>3

\* The goroutines start, the handler returns.
LEMMA ServeKeepsStreams ==
  ASSUME IInv, StreamInv, NEW c \in Calls, Take(c) \/ Return(c)
  PROVE  StreamInv'
  <1> SUFFICES ASSUME NEW x \in Calls PROVE (FrameInv(x) /\ OkInv(x) /\ CompleteInv(x))'
    BY DEF StreamInv
  <1>1. UNCHANGED <<alive, via, made, late, pend, got>>
    BY DEF Take, Return, link, asked
  <1>2. call'[x] # "taken" => call[x] # "taken"
    BY DEF IInv, TypeOK, Take, Return, asked
  <1>3. serve[x] = "done" => serve'[x] = "done"
    <2>1. CASE Return(c)
      BY <2>1, Stages DEF Return
    <2>2. CASE Take(c)
      <3>1. serve[c] = "none"
        BY <2>2 DEF Take, IInv, CallInv
      <3>2. x # c => serve'[x] = serve[x]
        BY <2>2, Stages DEF Take
      <3> QED  BY <3>1, <3>2
    <2> QED  BY <2>1, <2>2
  <1> QED  BY <1>1, <1>2, <1>3, OtherStreams DEF StreamInv

\* A handler flushes: it has no other frame in hand, and nor has the goroutine
\* that answers, which waits for it.
LEMMA FlushKeepsStreams ==
  ASSUME IInv, StreamInv, NEW c \in Calls, Flush(c)
  PROVE  StreamInv'
  <1> SUFFICES ASSUME NEW x \in Calls PROVE (FrameInv(x) /\ OkInv(x) /\ CompleteInv(x))'
    BY DEF StreamInv
  <1> DEFINE f == Encrypted("data", made[c] + 1)
  <1>1. /\ serve[c] = "run" /\ pend[<<c, "handler">>] = Nothing
        /\ made' = [made EXCEPT ![c] = made[c] + 1]
        /\ pend' = [pend EXCEPT ![<<c, "handler">>] = f]
        /\ UNCHANGED <<alive, via, call, serve, late, got>>
    BY DEF Flush, Idle, link, asked
  <1>2. f.kind = "data" /\ f.n = made[c] + 1
    BY DEF Encrypted
  <1> HIDE DEF f
  <1>3. /\ pend'[<<c, "handler">>] = f
        /\ \A y \in Calls : /\ pend'[<<y, "answer">>] = pend[<<y, "answer">>]
                            /\ y # c => pend'[<<y, "handler">>] = pend[<<y, "handler">>]
    <2>1. pend \in [Writers -> Frames \cup {Nothing}]
      BY DEF IInv, TypeOK
    <2> QED  BY <1>1, <2>1 DEF Writers
  <1>m. made'[c] = made[c] + 1 /\ made[c] \in Nat /\ \A y \in Calls : y # c => made'[y] = made[y]
    <2>1. made \in [Calls -> 0 .. MaxFrames + 1]
      BY DEF IInv, TypeOK
    <2>2. made[c] \in Nat
      BY <2>1, RpcAssumption
    <2>3. made'[c] = made[c] + 1 /\ \A y \in Calls : y # c => made'[y] = made[y]
      BY <1>1, <2>1
    <2> QED  BY <2>2, <2>3
  <1>4. CASE x # c
    <2>1. UNCHANGED <<via[x], made[x], late[x], got[x], pend[<<x, "handler">>], pend[<<x, "answer">>]>>
      BY <1>1, <1>3, <1>m, <1>4
    <2> QED  BY <1>1, <2>1, OtherStreams DEF StreamInv
  <1>5. CASE x = c
    <2>1. FrameInv(c) /\ OkInv(c) /\ CompleteInv(c)
      BY DEF StreamInv
    <2>2. call[c] = "taken"
      BY <1>1 DEF IInv, CallInv
    <2>3. pend[<<c, "answer">>].kind # "data" /\ ~Waiting(c)
      BY <1>1, <2>1, NothingToWrite DEF FrameInv, Waiting
    <2>4. Waiting(c)'
      BY <1>2, <1>3 DEF Waiting
    <2>5. FrameInv(c)'
      BY <1>1, <1>2, <1>3, <1>m, <2>1, <2>2, <2>3, <2>4 DEF FrameInv
    <2>6. OkInv(c)'
      BY <1>1, <1>3, <2>1 DEF OkInv, SentOk
    <2>7. ~SentOk(c)
      BY <1>1, <2>1, OkIsDone DEF OkInv
    <2>8. CompleteInv(c)'
      BY <1>1, <2>1, <2>7 DEF CompleteInv, SentOk
    <2> QED  BY <1>5, <2>5, <2>6, <2>8
  <1> QED  BY <1>4, <1>5

\* What a stream has not flushed is the last frame; the handler has written all
\* of its own.
LEMMA DoneKeepsStreams ==
  ASSUME IInv, StreamInv, NEW c \in Calls, Done(c)
  PROVE  StreamInv'
  <1>1. answer[c] = "wait" /\ serve[c] = "done" /\ UNCHANGED <<alive, via, call, serve, late, got>>
    BY DEF Done, link, asked
  <1>2. CASE UNCHANGED <<made, pend>>
    BY <1>1, <1>2, OtherStreams DEF StreamInv
  <1>3. CASE /\ made' = [made EXCEPT ![c] = made[c] + 1]
             /\ pend' = [pend EXCEPT ![<<c, "answer">>] = Encrypted("data", made[c] + 1)]
    <2> SUFFICES ASSUME NEW x \in Calls PROVE (FrameInv(x) /\ OkInv(x) /\ CompleteInv(x))'
      BY DEF StreamInv
    <2> DEFINE f == Encrypted("data", made[c] + 1)
    <2>1. /\ made' = [made EXCEPT ![c] = made[c] + 1]
          /\ pend' = [pend EXCEPT ![<<c, "answer">>] = f]
      BY <1>3
    <2>2. f.kind = "data" /\ f.n = made[c] + 1
      BY DEF Encrypted
    <2> HIDE DEF f
    <2>3. /\ pend'[<<c, "answer">>] = f
          /\ \A y \in Calls : /\ pend'[<<y, "handler">>] = pend[<<y, "handler">>]
                              /\ y # c => pend'[<<y, "answer">>] = pend[<<y, "answer">>]
      <3>1. pend \in [Writers -> Frames \cup {Nothing}]
        BY DEF IInv, TypeOK
      <3> QED  BY <2>1, <3>1 DEF Writers
    <2>4. /\ made'[c] = made[c] + 1 /\ made[c] \in Nat
          /\ \A y \in Calls : y # c => made'[y] = made[y]
      <3>1. made \in [Calls -> 0 .. MaxFrames + 1]
        BY DEF IInv, TypeOK
      <3>2. made[c] \in Nat
        BY <3>1, RpcAssumption
      <3>3. made'[c] = made[c] + 1 /\ \A y \in Calls : y # c => made'[y] = made[y]
        BY <2>1, <3>1
      <3> QED  BY <3>2, <3>3
    <2>5. CASE x # c
      <3>1. UNCHANGED <<via[x], made[x], late[x], got[x], pend[<<x, "handler">>], pend[<<x, "answer">>]>>
        <4>1. UNCHANGED <<via[x], late[x], got[x]>>
          BY <1>1
        <4>2. UNCHANGED <<pend[<<x, "handler">>], pend[<<x, "answer">>]>>
          BY <2>3, <2>5
        <4>3. UNCHANGED made[x]
          BY <2>4, <2>5
        <4> QED  BY <4>1, <4>2, <4>3
      <3> QED  BY <1>1, <3>1, OtherStreams DEF StreamInv
    <2>6. CASE x = c
      <3>1. FrameInv(c) /\ OkInv(c) /\ CompleteInv(c)
        BY DEF StreamInv
      <3>2. call[c] = "taken"
        BY <1>1 DEF IInv, CallInv
      <3>3. pend[<<c, "handler">>] = Nothing /\ pend[<<c, "answer">>] = Nothing
        BY <1>1 DEF IInv, HandlerInv, AnswerInv
      <3>4. ~Waiting(c) /\ Waiting(c)'
        BY <2>2, <2>3, <3>3, NothingToWrite DEF Waiting
      <3>5. FrameInv(c)'
        <4>1. /\ pend'[<<c, "handler">>] = Nothing /\ call'[c] = "taken" /\ serve'[c] = "done"
              /\ pend'[<<c, "answer">>].n = made'[c]
          <5>1. pend'[<<c, "handler">>] = Nothing /\ call'[c] = "taken" /\ serve'[c] = "done"
            BY <1>1, <2>3, <3>2, <3>3
          <5>2. pend'[<<c, "answer">>].n = made'[c]
            BY <2>2, <2>3, <2>4
          <5> QED  BY <5>1, <5>2
        <4>2. via'[c] \in alive' => Count(got[c])' = made'[c] - 1
          BY <1>1, <2>4, <3>1, <3>4 DEF FrameInv
        <4> QED  BY <3>4, <4>1, <4>2, NothingToWrite DEF FrameInv
      <3>6. OkInv(c)'
        BY <1>1, <2>2, <2>3, <3>1 DEF OkInv, SentOk
      <3>7. ~SentOk(c)
        BY <1>1, <3>1, OkIsDone DEF OkInv
      <3>8. CompleteInv(c)'
        BY <1>1, <3>1, <3>7 DEF CompleteInv, SentOk
      <3> QED  BY <2>6, <3>5, <3>6, <3>8
    <2> QED  BY <2>5, <2>6
  <1> QED  BY <1>2, <1>3 DEF Done

\* Whoever meets the timeout has not answered yet.
LEMMA TimeoutKeepsStreams ==
  ASSUME IInv, StreamInv, NEW c \in Calls, Timeout(c)
  PROVE  StreamInv'
  <1> SUFFICES ASSUME NEW x \in Calls PROVE (FrameInv(x) /\ OkInv(x) /\ CompleteInv(x))'
    BY DEF StreamInv
  <1>1. /\ answer[c] = "wait" /\ UNCHANGED <<alive, via, call, serve, made, pend, got>>
        /\ \A y \in Calls : y # c => late'[y] = late[y]
    BY DEF IInv, TypeOK, Timeout, link, asked
  <1>2. CASE x # c
    BY <1>1, <1>2, OtherStreams DEF StreamInv
  <1>3. CASE x = c
    <2>1. FrameInv(c) /\ OkInv(c) /\ CompleteInv(c)
      BY DEF StreamInv
    <2>2. ~SentOk(c)
      BY <1>1, <2>1, OkIsDone DEF OkInv
    <2>3. pend[<<c, "answer">>].kind # "ok"
      BY <1>1, NothingToWrite DEF IInv, AnswerInv
    <2>4. FrameInv(c)' /\ CompleteInv(c)'
      BY <1>1, <2>1 DEF FrameInv, CompleteInv, Waiting, SentOk
    <2>5. OkInv(c)'
      BY <1>1, <2>2, <2>3 DEF OkInv, SentOk
    <2> QED  BY <1>3, <2>4, <2>5
  <1> QED  BY <1>2, <1>3

\* The answer itself is no frame of the stream.
LEMMA ReplyKeepsStreams ==
  ASSUME IInv, StreamInv, NEW c \in Calls, Reply(c)
  PROVE  StreamInv'
  <1> SUFFICES ASSUME NEW x \in Calls PROVE (FrameInv(x) /\ OkInv(x) /\ CompleteInv(x))'
    BY DEF StreamInv
  <1> DEFINE f == Encrypted(IF late[c] THEN "error" ELSE "ok", 0)
  <1>1. /\ pend[<<c, "answer">>] = Nothing /\ pend' = [pend EXCEPT ![<<c, "answer">>] = f]
        /\ UNCHANGED <<alive, via, call, serve, made, late, got>>
    BY DEF Reply, Idle, link, asked
  <1>2. f.kind # "data" /\ (f.kind = "ok" => ~late[c])
    BY DEF Encrypted
  <1> HIDE DEF f
  <1>3. /\ pend'[<<c, "answer">>] = f
        /\ \A y \in Calls : /\ pend'[<<y, "handler">>] = pend[<<y, "handler">>]
                            /\ y # c => pend'[<<y, "answer">>] = pend[<<y, "answer">>]
    <2>1. pend \in [Writers -> Frames \cup {Nothing}]
      BY DEF IInv, TypeOK
    <2> QED  BY <1>1, <2>1 DEF Writers
  <1>4. CASE x # c
    <2>1. UNCHANGED <<via[x], made[x], late[x], got[x], pend[<<x, "handler">>], pend[<<x, "answer">>]>>
      BY <1>1, <1>3, <1>4
    <2> QED  BY <1>1, <2>1, OtherStreams DEF StreamInv
  <1>5. CASE x = c
    <2>1. FrameInv(c) /\ OkInv(c) /\ CompleteInv(c)
      BY DEF StreamInv
    <2>2. Waiting(c)' = Waiting(c)
      BY <1>1, <1>2, <1>3, NothingToWrite DEF Waiting
    <2>3. FrameInv(c)'
      BY <1>1, <1>2, <1>3, <2>1, <2>2 DEF FrameInv
    <2>4. OkInv(c)' /\ CompleteInv(c)'
      BY <1>1, <1>2, <1>3, <2>1 DEF OkInv, CompleteInv, SentOk
    <2> QED  BY <1>5, <2>3, <2>4
  <1> QED  BY <1>4, <1>5

\* A frame arrives where the last one ended, and an answer of success when
\* nobody has a frame in hand.
LEMMA WriteKeepsStreams ==
  ASSUME IInv, StreamInv, NEW w \in Writers, Write(w)
  PROVE  StreamInv'
  <1> SUFFICES ASSUME NEW x \in Calls PROVE (FrameInv(x) /\ OkInv(x) /\ CompleteInv(x))'
    BY DEF StreamInv
  <1> DEFINE c == w[1]
             h == w[2]
             f == pend[w]
  <1>1. c \in Calls /\ h \in Roles /\ w = <<c, h>>
    BY DEF Writers, Roles
  <1>2. f \in Frames /\ f # Nothing /\ f.kind \in {"data", "ok", "error"}
    BY DEF IInv, TypeOK, Write, Idle, Frames
  <1>3. /\ pend' = [pend EXCEPT ![w] = Nothing]
        /\ got' = IF via[c] \in alive THEN [got EXCEPT ![c] = Append(@, f)] ELSE got
        /\ UNCHANGED <<alive, via, call, serve, made, late>>
    BY DEF Write, link, asked
  <1> HIDE DEF c, h, f
  <1>4. \A y \in Calls :
          /\ pend'[<<y, "handler">>] = IF y = c /\ h = "handler" THEN Nothing ELSE pend[<<y, "handler">>]
          /\ pend'[<<y, "answer">>] = IF y = c /\ h = "answer" THEN Nothing ELSE pend[<<y, "answer">>]
    <2>1. pend \in [Writers -> Frames \cup {Nothing}]
      BY DEF IInv, TypeOK
    <2> QED  BY <1>1, <1>3, <2>1 DEF Writers, Roles
  <1>5. \A y \in Calls : got'[y] = IF y = c /\ via[c] \in alive THEN Append(got[y], f) ELSE got[y]
    BY <1>1, <1>3, Stages
  <1>6. CASE x # c
    <2>1. UNCHANGED <<got[x], pend[<<x, "handler">>], pend[<<x, "answer">>]>>
      BY <1>4, <1>5, <1>6
    <2> QED  BY <1>3, <2>1, OtherStreams DEF StreamInv
  <1>7. CASE x = c
    <2>1. FrameInv(c) /\ OkInv(c) /\ CompleteInv(c)
      BY <1>1 DEF StreamInv
    <2>2. got[c] \in Seq(Frames)
      BY <1>1, Stages
    <2>3. made[c] \in Nat
      BY <1>1, RpcAssumption DEF IInv, TypeOK
    <2>4. f = pend[<<c, h>>] /\ (h = "handler" => f.kind = "data")
      BY <1>1, <1>2 DEF f, IInv, HandlerInv
    \* Who writes a frame has the only one; who answers with success has none
    \* beside it.
    <2>5. CASE f.kind = "data"
      <3>1. pend[<<c, "handler">>].kind = "data" => serve[c] # "done"
        BY <1>1, NothingToWrite DEF IInv, HandlerInv
      <3>2. ~Waiting(c)'
        BY <1>1, <1>4, <2>1, <2>4, <2>5, <3>1, NothingToWrite DEF Waiting, FrameInv, Roles
      <3>3. Waiting(c) /\ f.n = made[c]
        BY <1>1, <2>1, <2>4, <2>5 DEF Waiting, FrameInv, Roles
      <3>4. CASE via[c] \in alive
        <4>1. got'[c] = Append(got[c], f)
          BY <1>1, <1>5, <3>4
        <4>2. Count(got[c]) = made[c] - 1
          BY <2>1, <3>3, <3>4 DEF FrameInv
        <4>3. Count(got[c])' = made[c]
          BY <1>2, <2>2, <2>3, <2>5, <4>1, <4>2, CountAppend
        <4>4. ~SentOk(c)
          <5>1. SentOk(c) => Count(got[c]) = made[c]
            BY <2>1 DEF CompleteInv
          <5> QED  BY <2>3, <4>2, <5>1
        <4>5. ~SentOk(c)'
          BY <1>2, <2>2, <2>5, <4>1, <4>4 DEF SentOk
        <4>6. ASSUME NEW i \in DOMAIN got'[c], got'[c][i].kind = "data"
              PROVE  got'[c][i].n = Cardinality(Data(got'[c], i))
          <5>1. i \in 1 .. Len(got[c]) + 1
            BY <1>2, <2>2, <4>1
          <5>2. CASE i = Len(got[c]) + 1
            <6>1. got'[c][i] = f
              BY <1>2, <2>2, <4>1, <5>2
            <6>2. Cardinality(Data(got'[c], i)) = Count(got'[c])
              BY <1>2, <2>2, <4>1, <5>2, CountAppend
            <6> QED  BY <3>3, <4>3, <6>1, <6>2
          <5>3. CASE i \in 1 .. Len(got[c])
            <6>1. got'[c][i] = got[c][i] /\ i \in DOMAIN got[c]
              BY <1>2, <2>2, <4>1, <5>3
            <6>2. Data(got'[c], i) = Data(got[c], i)
              BY <1>2, <2>2, <4>1, <5>3, CountAppend
            <6> QED  BY <2>1, <4>6, <6>1, <6>2 DEF CompleteInv
          <5> QED  BY <5>1, <5>2, <5>3
        <4>7. FrameInv(c)'
          BY <1>3, <2>1, <3>2, <4>3 DEF FrameInv, Waiting
        <4>8. OkInv(c)'
          BY <1>3, <1>4, <2>1, <4>5, NothingToWrite DEF OkInv
        <4>9. CompleteInv(c)'
          BY <4>5, <4>6 DEF CompleteInv
        <4> QED  BY <1>7, <4>7, <4>8, <4>9
      <3>5. CASE via[c] \notin alive
        <4>1. got'[c] = got[c]
          BY <1>1, <1>5, <3>5
        <4>2. FrameInv(c)'
          BY <1>3, <2>1, <3>2, <3>5 DEF FrameInv, Waiting
        <4>3. OkInv(c)' /\ CompleteInv(c)'
          BY <1>1, <1>3, <1>4, <2>1, <4>1, NothingToWrite DEF OkInv, CompleteInv, SentOk
        <4> QED  BY <1>7, <4>2, <4>3
      <3> QED  BY <3>4, <3>5
    <2>6. CASE f.kind # "data"
      <3>1. h = "answer" /\ pend'[<<c, "answer">>] = Nothing /\ pend'[<<c, "handler">>] = pend[<<c, "handler">>]
        BY <1>1, <1>4, <2>4, <2>6 DEF Roles
      <3>2. Waiting(c)' = Waiting(c)
        BY <2>4, <2>6, <3>1, NothingToWrite DEF Waiting
      <3>3. answer[c] = "sending"
        BY <1>1, <1>2, <2>4, <2>6, <3>1, AnswerTyped DEF IInv, AnswerInv
      <3>4. ~SentOk(c)
        <4>1. Ends(got[c]) = {}
          BY <1>1, <3>3 DEF IInv, AnswerInv
        <4> QED  BY <4>1 DEF SentOk, Ends
      <3>5. f.kind = "ok" => ~late[c] /\ ~Waiting(c)
        <4>1. f.kind = "ok" => ~late[c]
          BY <2>1, <2>4, <3>1 DEF OkInv
        <4>2. ~late[c] => pend[<<c, "handler">>] = Nothing
          BY <1>1, <3>3 DEF IInv, HandlerInv
        <4> QED  BY <2>4, <2>6, <3>1, <4>1, <4>2, NothingToWrite DEF Waiting
      <3>6. CASE via[c] \in alive
        <4>1. got'[c] = Append(got[c], f)
          BY <1>1, <1>5, <3>6
        <4>2. Count(got[c])' = Count(got[c])
          BY <1>2, <2>2, <2>6, <4>1, CountAppend
        <4>3. SentOk(c)' => f.kind = "ok"
          BY <1>2, <2>2, <3>4, <4>1 DEF SentOk
        <4>4. ASSUME NEW i \in DOMAIN got'[c], got'[c][i].kind = "data"
              PROVE  got'[c][i].n = Cardinality(Data(got'[c], i))
          <5>1. i \in 1 .. Len(got[c]) + 1 /\ (i = Len(got[c]) + 1 => got'[c][i] = f)
            BY <1>2, <2>2, <4>1
          <5>2. i \in 1 .. Len(got[c])
            BY <2>2, <2>6, <4>4, <5>1
          <5>3. got'[c][i] = got[c][i] /\ i \in DOMAIN got[c]
            BY <1>2, <2>2, <4>1, <5>2
          <5>4. Data(got'[c], i) = Data(got[c], i)
            BY <1>2, <2>2, <4>1, <5>2, CountAppend
          <5> QED  BY <2>1, <4>4, <5>3, <5>4 DEF CompleteInv
        <4>5. FrameInv(c)'
          BY <1>3, <2>1, <3>1, <3>2, <4>2, NothingToWrite DEF FrameInv
        <4>6. OkInv(c)'
          BY <1>3, <3>1, <3>5, <4>3, NothingToWrite DEF OkInv
        <4>7. SentOk(c)' => Count(got[c])' = made'[c]
          BY <1>3, <2>1, <3>5, <3>6, <4>2, <4>3 DEF FrameInv
        <4>8. CompleteInv(c)'
          BY <4>4, <4>7 DEF CompleteInv
        <4> QED  BY <1>7, <4>5, <4>6, <4>8
      <3>7. CASE via[c] \notin alive
        <4>1. got'[c] = got[c]
          BY <1>1, <1>5, <3>7
        <4>2. FrameInv(c)'
          BY <1>3, <2>1, <3>1, <3>7, NothingToWrite DEF FrameInv
        <4>3. OkInv(c)' /\ CompleteInv(c)'
          BY <1>3, <2>1, <3>1, <4>1, NothingToWrite DEF OkInv, CompleteInv, SentOk
        <4> QED  BY <1>7, <4>2, <4>3
      <3> QED  BY <3>6, <3>7
    <2> QED  BY <2>5, <2>6
  <1> QED  BY <1>6, <1>7

\* Nothing is left of the streams of an agent that has ended.
LEMMA PanicKeepsStreams ==
  ASSUME IInv, StreamInv, NEW c \in Calls, Panic(c)
  PROVE  StreamInv'
  <1> SUFFICES ASSUME NEW x \in Calls PROVE (FrameInv(x) /\ OkInv(x) /\ CompleteInv(x))'
    BY DEF StreamInv
  <1>1. /\ alive' = {} /\ got'[x] = <<>> /\ made'[x] = 0
        /\ pend'[<<x, "handler">>] = Nothing /\ pend'[<<x, "answer">>] = Nothing
    BY WritersTyped DEF Panic, All, NoWrites
  <1>2. ~SentOk(x)'
    BY <1>1 DEF SentOk
  <1>3. FrameInv(x)'
    BY <1>1, NothingToWrite DEF FrameInv
  <1>4. OkInv(x)' /\ CompleteInv(x)'
    BY <1>1, <1>2, NothingToWrite DEF OkInv, CompleteInv
  <1> QED  BY <1>3, <1>4

\* A stream of handleWSStreamRequest reaches the master in the order of its
\* flushes and without a gap, as long as its connection lives, and success is
\* never answered before the last of its frames; for any number of calls, frames
\* and connections.
THEOREM StreamsComplete == Spec => []StreamComplete
  <1>1. Init => StreamInv
    <2> SUFFICES ASSUME Init, NEW c \in Calls PROVE FrameInv(c) /\ OkInv(c) /\ CompleteInv(c)
      BY DEF StreamInv
    <2>1. /\ alive = {} /\ got[c] = <<>> /\ made[c] = 0
          /\ pend[<<c, "handler">>] = Nothing /\ pend[<<c, "answer">>] = Nothing
      BY WritersTyped DEF Init, All, NoWrites
    <2>2. ~SentOk(c)
      BY <2>1 DEF SentOk
    <2>3. FrameInv(c)
      BY <2>1, NothingToWrite DEF FrameInv
    <2>4. OkInv(c) /\ CompleteInv(c)
      BY <2>1, <2>2, NothingToWrite DEF OkInv, CompleteInv
    <2> QED  BY <2>3, <2>4
  <1>2. IInv /\ StreamInv /\ [Next]_vars => StreamInv'
    <2> SUFFICES ASSUME IInv, StreamInv, [Next]_vars PROVE StreamInv'
      OBVIOUS
    <2>1. CASE Dial \/ KeyExchange \/ Break \/ Leave
      <3>1. UNCHANGED <<call, via, work, got>> /\ alive' \subseteq alive \cup {conn + 1}
        BY <2>1 DEF Dial, KeyExchange, Break, Leave, asked
      <3> QED  BY <3>1, LinkKeepsStreams
    <2>2. CASE Close
      <3>1. \A c \in Calls : call'[c] # "taken" => call[c] # "taken"
        BY <2>2 DEF Close
      <3> QED  BY <2>2, <3>1, LinkKeepsStreams DEF Close
    <2>3. ASSUME NEW c \in Calls, Receive(c) PROVE StreamInv'
      <3>1. \A x \in Calls : call'[x] # "taken" => call[x] # "taken"
        BY <2>3 DEF IInv, TypeOK, Receive
      <3> QED  BY <2>3, <3>1, LinkKeepsStreams DEF Receive, link
    <2>4. ASSUME NEW c \in Calls, Send(c) \/ Flush(c) \/ Return(c) \/ Panic(c) PROVE StreamInv'
      BY <2>4, SendKeepsStreams, FlushKeepsStreams, ServeKeepsStreams, PanicKeepsStreams
    <2>5. ASSUME NEW c \in Calls, Progress(c) PROVE StreamInv'
      BY <2>3, <2>5, ServeKeepsStreams, DoneKeepsStreams, TimeoutKeepsStreams, ReplyKeepsStreams
         DEF Progress, Dialled
    <2>6. ASSUME NEW w \in Writers, Write(w) PROVE StreamInv'
      BY <2>6, WriteKeepsStreams
    <2>7. CASE UNCHANGED vars
      BY <2>7, LinkKeepsStreams DEF vars, link, asked
    <2> QED  BY <2>1, <2>2, <2>4, <2>5, <2>6, <2>7 DEF Next
  <1>3. StreamInv => StreamComplete
    BY DEF StreamInv, CompleteInv, StreamComplete, SentOk, Count
  <1> QED  BY <1>1, <1>2, <1>3, Invariance, PTL DEF Spec
=============================================================================
