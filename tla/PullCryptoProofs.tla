-------------------------- MODULE PullCryptoProofs --------------------------
(***************************************************************************)
(* Proofs about PullCrypto for every width of the window and any number of *)
(* goroutines, sessions and envelopes.                                     *)
(*                                                                         *)
(* Check lets a number through only if it is not in the window, and a      *)
(* number that passed stays in the window or falls behind it (MarkExact,   *)
(* FreshIsNew).  So two goroutines never hold the same number of the same  *)
(* session, and none holds an envelope that was served (OnceInv).          *)
(***************************************************************************)
EXTENDS PullCrypto, TLAPS

Numbers(s) == {e.seq : e \in passed[s]}

OnceInv ==
    /\ \A h \in Handlers : handler[h].at = "checked" =>
          /\ handler[h].session \in Sessions
          /\ handler[h].envelope \in passed[handler[h].session]
          /\ handler[h].envelope.key = handler[h].session =>
                handler[h].envelope \notin served
    /\ \A g, h \in Handlers :
          /\ handler[g].at = "checked" /\ handler[h].at = "checked"
          /\ handler[g].session = handler[h].session
          /\ handler[g].envelope = handler[h].envelope
          => g = h
    /\ \A e \in served : e.key \in Sessions /\ e \in passed[e.key]

LoadedInv ==
    \A h \in Handlers : handler[h].at = "loaded" =>
        handler[h].session \in Sessions /\ handler[h].envelope \in Envelopes

\* The bound in Ask counts the exchanges that are under way.
AskInv == made + asks <= MaxSessions

Inv == TypeOK /\ AskInv /\ LoadedInv /\ WindowExact /\ OnceInv

-----------------------------------------------------------------------------
(***************************************************************************)
(* The window.                                                             *)
(***************************************************************************)
\* What Check answers yes to is not among the numbers of the window.
LEMMA FreshIsNew ==
    ASSUME NEW N \in Nat, NEW w \in Windows(0 .. N), NEW S \in SUBSET (1 .. N),
           Exact(w, S), NEW q \in 1 .. N, Fresh(w, q)
    PROVE  q \notin S
  <1> USE WidthIsPositive
  <1>1. CASE q > w.max
    BY <1>1 DEF Exact, Windows
  <1>2. CASE w.max - q < W /\ w.max - q \notin w.bits /\ ~(q > w.max)
    <2> DEFINE i == w.max - q
    <2>1. i \in 0 .. W - 1 /\ i < w.max /\ w.max - i = q
      BY <1>2 DEF Windows
    <2>2. i \in w.bits <=> i < w.max /\ w.max - i \in S
      BY <2>1 DEF Exact
    <2> QED
      BY <1>2, <2>1, <2>2
  <1> QED
    BY <1>1, <1>2 DEF Fresh

\* The window stays a window when a number is marked.
LEMMA MarkType ==
    ASSUME NEW N \in Nat, NEW w \in Windows(0 .. N), NEW q \in 1 .. N, Fresh(w, q)
    PROVE  Mark(w, q) \in Windows(0 .. N)
  <1> USE WidthIsPositive
  <1>1. CASE q > w.max
    BY <1>1 DEF Mark, Windows, Shifted
  <1>2. CASE ~(q > w.max)
    <2>1. w.max - q \in 0 .. W - 1
      BY <1>2 DEF Fresh, Windows
    <2> QED
      BY <1>2, <2>1 DEF Mark, Windows
  <1> QED
    BY <1>1, <1>2

\* A number that is marked is added to the numbers of the window, and nothing
\* else changes, whether the window moves or not.
LEMMA MarkExact ==
    ASSUME NEW N \in Nat, NEW w \in Windows(0 .. N), NEW S \in SUBSET (1 .. N),
           Exact(w, S), NEW q \in 1 .. N, Fresh(w, q)
    PROVE  Exact(Mark(w, q), S \cup {q})
  <1> USE WidthIsPositive
  <1> DEFINE v == Mark(w, q)
  <1>0. w.max \in 0 .. N /\ w.bits \in SUBSET (0 .. W - 1)
    BY DEF Windows
  <1>1. CASE q > w.max
    <2>1. v.max = q /\ v.bits = Shifted(w.bits, q - w.max) \cup {0}
      BY <1>1 DEF Mark
    <2>2. ASSUME NEW i \in 0 .. W - 1
          PROVE  i \in v.bits <=> i < q /\ q - i \in S \cup {q}
      <3>1. CASE i = 0
        BY <2>1, <3>1
      <3>2. CASE i # 0
        <4> DEFINE d == q - w.max
        <4>1. i \in v.bits <=> \E j \in w.bits : i = j + d
          BY <2>1, <3>2 DEF Shifted
        <4>2. CASE i < d
          <5>1. ~ \E j \in w.bits : i = j + d
            BY <4>2, <1>0, <1>1
          <5>2. q - i > w.max /\ q - i # q
            BY <4>2, <3>2, <1>0, <1>1
          <5> QED
            BY <4>1, <5>1, <5>2, <1>0 DEF Exact
        <4>3. CASE ~(i < d)
          <5> DEFINE j == i - d
          <5>1. j \in 0 .. W - 1 /\ w.max - j = q - i /\ (j < w.max <=> i < q)
            BY <4>3, <1>0, <1>1
          <5>2. (\E k \in w.bits : i = k + d) <=> j \in w.bits
            BY <5>1, <1>0, <1>1
          <5>3. j \in w.bits <=> j < w.max /\ w.max - j \in S
            BY <5>1 DEF Exact
          <5>4. q - i # q
            BY <3>2
          <5> QED
            BY <4>1, <5>1, <5>2, <5>3, <5>4
        <4> QED
          BY <4>2, <4>3
      <3> QED
        BY <3>1, <3>2
    <2>3. \A p \in S \cup {q} : p <= q
      BY <1>1, <1>0 DEF Exact
    <2> QED
      BY <2>1, <2>2, <2>3 DEF Exact
  <1>2. CASE ~(q > w.max)
    <2>1. v.max = w.max /\ v.bits = w.bits \cup {w.max - q}
      BY <1>2 DEF Mark, Windows
    <2>2. ASSUME NEW i \in 0 .. W - 1
          PROVE  i \in v.bits <=> i < w.max /\ w.max - i \in S \cup {q}
      <3>1. i \in w.bits <=> i < w.max /\ w.max - i \in S
        BY DEF Exact
      <3>2. i = w.max - q <=> i < w.max /\ w.max - i = q
        BY <1>0, <1>2
      <3> QED
        BY <2>1, <3>1, <3>2
    <2> QED
      BY <2>1, <2>2, <1>2, <1>0 DEF Exact
  <1> QED
    BY <1>1, <1>2

\* To mark a number changes the window.
LEMMA MarkMoves ==
    ASSUME NEW N \in Nat, NEW w \in Windows(0 .. N), NEW q \in 1 .. N, Fresh(w, q)
    PROVE  Mark(w, q) # w
  <1>1. CASE q > w.max
    BY <1>1 DEF Mark, Windows
  <1>2. CASE ~(q > w.max)
    <2>1. w.max - q \notin w.bits
      BY <1>2 DEF Fresh
    <2>2. Mark(w, q).bits = w.bits \cup {w.max - q}
      BY <1>2 DEF Mark, Windows
    <2> QED
      BY <2>1, <2>2
  <1> QED
    BY <1>1, <1>2

\* What Check answers no to has passed, or is behind the window.
LEMMA StaleHasPassed ==
    ASSUME NEW N \in Nat, NEW w \in Windows(0 .. N), NEW S \in SUBSET (1 .. N),
           Exact(w, S), NEW q \in 1 .. N, ~Fresh(w, q)
    PROVE  q \in S \/ \E r \in S : r >= q + W
  <1> USE WidthIsPositive
  <1>1. w.max \in 0 .. N /\ q <= w.max /\ w.max \in S
    BY DEF Fresh, Exact, Windows
  <1>2. CASE w.max - q < W
    <2>1. w.max - q \in w.bits
      BY <1>1, <1>2 DEF Fresh
    <2>2. w.max - q \in 0 .. W - 1 /\ w.max - (w.max - q) = q
      BY <1>1, <1>2
    <2>3. q \in S
      BY <2>1, <2>2 DEF Exact
    <2> QED
      BY <2>3
  <1>3. CASE ~(w.max - q < W)
    <2>1. w.max >= q + W
      BY <1>1, <1>3
    <2> QED
      BY <1>1, <2>1
  <1> QED
    BY <1>2, <1>3

-----------------------------------------------------------------------------
(***************************************************************************)
(* The invariant.                                                          *)
(***************************************************************************)
LEMMA InitInv == Init => Inv
  <1> SUFFICES ASSUME Init PROVE Inv  OBVIOUS
  <1> USE BoundsTyped, WidthIsPositive
  <1>1. TypeOK
    BY DEF Init, TypeOK, Windows, EmptyWindow, Idle, NoEnvelope
  <1>2. WindowExact
    BY DEF Init, WindowExact, Exact, EmptyWindow
  <1>3. AskInv /\ LoadedInv /\ OnceInv
    BY DEF Init, AskInv, LoadedInv, OnceInv, Idle
  <1> QED
    BY <1>1, <1>2, <1>3 DEF Inv

\* The actions of the master and of the cache leave the goroutines alone.
LEMMA OutsideInv ==
    ASSUME Inv, TypeOK', AskInv', UNCHANGED <<window, handler, history>>
    PROVE  Inv'
  BY DEF Inv, LoadedInv, WindowExact, OnceInv, history

LEMMA OutsideType ==
    ASSUME TypeOK, AskInv,
           \/ Ask \/ Forget \/ Seal \/ Exchange \/ Tick \/ Cleanup
           \/ \E s \in Sessions : Adopt(s)
    PROVE  TypeOK' /\ AskInv' /\ UNCHANGED <<window, handler, history>>
  <1> USE BoundsTyped DEF AskInv, history
  <1>0. /\ made \in 0 .. MaxSessions /\ asks \in 0 .. MaxSessions
        /\ left \in 0 .. Ttl /\ held \in 0 .. MaxSessions
    BY DEF TypeOK
  <1>1. CASE Ask
    <2>1. asks' \in 0 .. MaxSessions /\ AskInv'
      BY <1>0, <1>1 DEF Ask, entry
    <2> QED
      BY <1>1, <2>1 DEF Ask, TypeOK, entry
  <1>2. CASE Forget
    <2>1. held' \in 0 .. MaxSessions
      BY <1>2 DEF Forget
    <2> QED
      BY <1>2, <2>1 DEF Forget, TypeOK, entry
  <1>3. CASE Seal
    <2>0. held \in Sessions
      BY <1>0, <1>3 DEF Seal, Sessions
    <2>1. sent[held] \in 0 .. MaxSeq
      BY <2>0 DEF TypeOK
    <2>2. sent[held] + 1 \in 0 .. MaxSeq
      <3>1. sent[held] < MaxSeq
        BY <1>3 DEF Seal
      <3> QED
        BY <2>1, <3>1
    <2>3. sent' \in [Sessions -> 0 .. MaxSeq]
      BY <2>2, <1>3 DEF Seal, TypeOK
    <2> QED
      BY <1>3, <2>3 DEF Seal, TypeOK, entry
  <1>4. CASE Exchange
    <2>1. made' \in 0 .. MaxSessions /\ made' \in Sessions
          /\ asks' \in 0 .. MaxSessions /\ AskInv' /\ left' \in 0 .. Ttl
      BY <1>0, <1>4 DEF Exchange, Sessions
    <2>2. replies' \in SUBSET Sessions /\ cache' \in 0 .. MaxSessions
      BY <2>1, <1>4 DEF Exchange, TypeOK
    <2> QED
      BY <1>4, <2>1, <2>2 DEF Exchange, TypeOK
  <1>5. CASE Tick
    <2>1. left' \in 0 .. Ttl
      BY <1>0, <1>5 DEF Tick
    <2> QED
      BY <1>5, <2>1 DEF Tick, TypeOK, master
  <1>6. CASE Cleanup
    <2>1. cache' \in 0 .. MaxSessions
      BY <1>6 DEF Cleanup
    <2> QED
      BY <1>6, <2>1 DEF Cleanup, TypeOK, master
  <1>7. ASSUME NEW s \in Sessions, Adopt(s)
        PROVE  TypeOK' /\ AskInv' /\ UNCHANGED <<window, handler, history>>
    <2>1. s \in 0 .. MaxSessions
      BY DEF Sessions
    <2>2. held' \in 0 .. MaxSessions
      BY <1>0, <1>7, <2>1 DEF Adopt
    <2>3. replies' \in SUBSET Sessions
      BY <1>7 DEF Adopt, TypeOK
    <2> QED
      BY <1>7, <2>2, <2>3 DEF Adopt, TypeOK, entry
  <1> QED
    BY <1>1, <1>2, <1>3, <1>4, <1>5, <1>6, <1>7

\* A goroutine moves on and the others stay where they are.
LEMMA HandlerAt ==
    ASSUME TypeOK, NEW h \in Handlers,
           NEW a \in {"idle", "loaded", "checked"},
           handler' = [handler EXCEPT ![h].at = a]
    PROVE  /\ handler'[h].at = a
           /\ handler'[h].envelope = handler[h].envelope
           /\ handler'[h].session = handler[h].session
           /\ \A g \in Handlers : g # h => handler'[g] = handler[g]
           /\ handler' \in [Handlers ->
                  [at : {"idle", "loaded", "checked"},
                   envelope : Envelopes \cup {NoEnvelope}, session : 0 .. MaxSessions]]
  BY DEF TypeOK

LEMMA ArriveInv ==
    ASSUME Inv, NEW h \in Handlers, NEW e \in Envelopes, Arrive(h, e)
    PROVE  Inv'
  <1> USE DEF Inv
  <1>0. cache \in Sessions
    BY DEF Arrive, Cached, TypeOK, Sessions
  <1>1. /\ handler'[h] = [at |-> "loaded", envelope |-> e, session |-> cache]
        /\ \A g \in Handlers : g # h => handler'[g] = handler[g]
    BY DEF Arrive, TypeOK
  <1>2. TypeOK'
    <2>1. [at |-> "loaded", envelope |-> e, session |-> cache] \in
              [at : {"idle", "loaded", "checked"},
               envelope : Envelopes \cup {NoEnvelope}, session : 0 .. MaxSessions]
      BY DEF TypeOK
    <2> QED
      BY <2>1 DEF Arrive, TypeOK, entry, master, history
  <1>3. AskInv' /\ WindowExact'
    BY DEF Arrive, AskInv, WindowExact, entry, master, history
  <1>4. LoadedInv'
    BY <1>0, <1>1 DEF LoadedInv
  <1>5. OnceInv'
    BY <1>1 DEF OnceInv, Arrive, history
  <1> QED
    BY <1>2, <1>3, <1>4, <1>5

\* One goroutine ends, or all of them do.
LEMMA HandlerEnds ==
    ASSUME TypeOK,
           \/ \E h \in Handlers : handler' = [handler EXCEPT ![h] = Idle]
           \/ handler' = [h \in Handlers |-> Idle]
    PROVE  /\ handler' \in [Handlers ->
                  [at : {"idle", "loaded", "checked"},
                   envelope : Envelopes \cup {NoEnvelope}, session : 0 .. MaxSessions]]
           /\ \A g \in Handlers : handler'[g] = Idle \/ handler'[g] = handler[g]
           /\ \A g \in Handlers : handler'[g].at # "idle" => handler'[g] = handler[g]
  <1>1. Idle \in [at : {"idle", "loaded", "checked"},
                  envelope : Envelopes \cup {NoEnvelope}, session : 0 .. MaxSessions]
    BY BoundsTyped DEF Idle
  <1>2. CASE \E h \in Handlers : handler' = [handler EXCEPT ![h] = Idle]
    BY <1>1, <1>2 DEF TypeOK, Idle
  <1>3. CASE handler' = [h \in Handlers |-> Idle]
    BY <1>1, <1>3 DEF Idle
  <1> QED
    BY <1>2, <1>3

\* The only step that changes a window.
LEMMA CheckInv ==
    ASSUME Inv, NEW h \in Handlers, Check(h)
    PROVE  Inv'
  <1> USE DEF Inv
  <1> DEFINE s == handler[h].session
             e == handler[h].envelope
  <1>0. s \in Sessions /\ e \in Envelopes
    BY DEF Check, LoadedInv
  <1>1. AskInv' /\ UNCHANGED <<entry, master, served>>
    BY DEF Check, AskInv, entry, master
  <1>2. CASE Fresh(window[s], e.seq)
    <2>1. /\ handler' = [handler EXCEPT ![h].at = "checked"]
          /\ window' = [window EXCEPT ![s] = Mark(window[s], e.seq)]
          /\ passed' = [passed EXCEPT ![s] = passed[s] \cup {e}]
      BY <1>2 DEF Check
    <2>2. /\ handler'[h].at = "checked" /\ handler'[h].envelope = e
          /\ handler'[h].session = s
          /\ \A g \in Handlers : g # h => handler'[g] = handler[g]
      BY <2>1, HandlerAt
    <2>3. /\ window[s] \in Windows(0 .. MaxSeq)
          /\ Numbers(s) \in SUBSET (1 .. MaxSeq)
          /\ e.seq \in 1 .. MaxSeq
          /\ Exact(window[s], Numbers(s))
      <3>1. window[s] \in Windows(0 .. MaxSeq) /\ passed[s] \in SUBSET Envelopes
        BY <1>0 DEF TypeOK
      <3>2. Numbers(s) \in SUBSET (1 .. MaxSeq) /\ e.seq \in 1 .. MaxSeq
        BY <1>0, <3>1 DEF Envelopes, Numbers
      <3>3. Exact(window[s], Numbers(s))
        BY <1>0 DEF WindowExact, Numbers
      <3> QED
        BY <3>1, <3>2, <3>3
    <2>4. e.seq \notin Numbers(s)
      BY <1>2, <2>3, FreshIsNew, BoundsTyped
    <2>5. Mark(window[s], e.seq) \in Windows(0 .. MaxSeq)
      BY <1>2, <2>3, MarkType, BoundsTyped
    <2>6. Exact(Mark(window[s], e.seq), Numbers(s) \cup {e.seq})
      BY <1>2, <2>3, MarkExact, BoundsTyped
    <2>7. TypeOK'
      <3>1. window' \in [Sessions -> Windows(0 .. MaxSeq)]
        BY <2>1, <2>5 DEF TypeOK
      <3>2. passed' \in [Sessions -> SUBSET Envelopes]
        BY <2>1, <1>0 DEF TypeOK
      <3>3. handler' \in [Handlers ->
                  [at : {"idle", "loaded", "checked"},
                   envelope : Envelopes \cup {NoEnvelope}, session : 0 .. MaxSessions]]
        BY <2>1, HandlerAt
      <3> QED
        BY <3>1, <3>2, <3>3, <1>1 DEF TypeOK, entry, master
    <2>8. WindowExact'
      <3>1. {f.seq : f \in passed'[s]} = Numbers(s) \cup {e.seq}
        BY <2>1, <1>0 DEF TypeOK, Numbers
      <3>2. window'[s] = Mark(window[s], e.seq)
        BY <2>1, <1>0 DEF TypeOK
      <3>3. \A t \in Sessions : t # s => window'[t] = window[t] /\ passed'[t] = passed[t]
        BY <2>1 DEF TypeOK
      <3> QED
        BY <2>6, <3>1, <3>2, <3>3 DEF WindowExact
    <2>9. LoadedInv'
      BY <2>2 DEF LoadedInv
    <2>10. OnceInv'
      <3>1. e \notin passed[s]
        BY <2>4 DEF Numbers
      <3>2. \A t \in Sessions : passed[t] \subseteq passed'[t]
        BY <2>1 DEF TypeOK
      <3>3. e \in passed'[s]
        BY <2>1, <1>0 DEF TypeOK
      <3>4. \A g \in Handlers : g # h /\ handler[g].at = "checked" /\ handler[g].session = s
                => handler[g].envelope # e
        BY <3>1 DEF OnceInv
      <3>5. e.key = s => e \notin served
        BY <3>1 DEF OnceInv
      <3> QED
        BY <1>0, <1>1, <2>2, <3>2, <3>3, <3>4, <3>5 DEF OnceInv
    <2> QED
      BY <1>1, <2>7, <2>8, <2>9, <2>10
  <1>3. CASE ~Fresh(window[s], e.seq)
    <2>1. handler' = [handler EXCEPT ![h] = Idle] /\ UNCHANGED <<window, passed>>
      BY <1>3 DEF Check
    <2>2. /\ handler' \in [Handlers ->
                  [at : {"idle", "loaded", "checked"},
                   envelope : Envelopes \cup {NoEnvelope}, session : 0 .. MaxSessions]]
          /\ \A g \in Handlers : handler'[g].at # "idle" => handler'[g] = handler[g]
      BY <2>1, HandlerEnds
    <2>3. TypeOK'
      BY <1>1, <2>1, <2>2 DEF TypeOK, entry, master
    <2>4. WindowExact'
      BY <2>1 DEF WindowExact
    <2>5. LoadedInv'
      BY <2>2 DEF LoadedInv
    <2>6. OnceInv'
      BY <1>1, <2>1, <2>2 DEF OnceInv
    <2> QED
      BY <1>1, <2>3, <2>4, <2>5, <2>6
  <1> QED
    BY <1>2, <1>3

LEMMA OpenInv ==
    ASSUME Inv, NEW h \in Handlers, Open(h)
    PROVE  Inv'
  <1> USE DEF Inv
  <1> DEFINE e == handler[h].envelope
  <1>0. AskInv' /\ UNCHANGED <<entry, window, master, passed>>
    BY DEF Open, AskInv, entry, master
  <1>1. handler[h].at = "checked" /\ handler[h].session \in Sessions
        /\ e \in passed[handler[h].session] /\ e \in Envelopes
    BY DEF Open, OnceInv, TypeOK
  <1>2. handler' = [handler EXCEPT ![h] = Idle]
    BY DEF Open
  <1>3. /\ handler' \in [Handlers ->
                  [at : {"idle", "loaded", "checked"},
                   envelope : Envelopes \cup {NoEnvelope}, session : 0 .. MaxSessions]]
        /\ \A g \in Handlers : handler'[g].at # "idle" => handler'[g] = handler[g]
    BY <1>2, HandlerEnds
  <1>4. handler'[h].at = "idle"
    BY <1>2 DEF TypeOK, Idle
  <1>5. served' = served \/ (served' = served \cup {e} /\ e.key = handler[h].session)
    BY DEF Open
  <1>6. TypeOK'
    BY <1>0, <1>1, <1>3, <1>5 DEF TypeOK, entry, master
  <1>7. OnceInv'
    BY <1>0, <1>1, <1>3, <1>4, <1>5 DEF OnceInv
  <1> QED
    BY <1>0, <1>3, <1>6, <1>7 DEF WindowExact, LoadedInv

LEMMA RestartInv ==
    ASSUME Inv, Restart
    PROVE  Inv'
  <1> USE DEF Inv
  <1>1. cache' = 0 /\ left' = 0 /\ UNCHANGED <<made, window, master, history>>
    BY DEF Restart
  <1>2. /\ handler' \in [Handlers ->
                  [at : {"idle", "loaded", "checked"},
                   envelope : Envelopes \cup {NoEnvelope}, session : 0 .. MaxSessions]]
        /\ \A g \in Handlers : handler'[g].at # "idle" => handler'[g] = handler[g]
    BY HandlerEnds DEF Restart
  <1>3. TypeOK'
    <2>1. 0 \in 0 .. MaxSessions /\ 0 \in 0 .. Ttl
      BY BoundsTyped
    <2> QED
      BY <1>1, <1>2, <2>1 DEF TypeOK, master, history
  <1>4. AskInv' /\ WindowExact'
    BY <1>1 DEF AskInv, WindowExact, master, history
  <1>5. LoadedInv' /\ OnceInv'
    BY <1>1, <1>2 DEF LoadedInv, OnceInv, history
  <1> QED
    BY <1>3, <1>4, <1>5

-----------------------------------------------------------------------------
(***************************************************************************)
(* Theorems                                                                *)
(***************************************************************************)
LEMMA NextInv == Inv /\ [Next]_vars => Inv'
  <1> SUFFICES ASSUME Inv, [Next]_vars PROVE Inv'  OBVIOUS
  <1>1. CASE \/ Ask \/ Forget \/ Seal \/ Exchange \/ Tick \/ Cleanup
             \/ \E s \in Sessions : Adopt(s)
    BY <1>1, OutsideType, OutsideInv DEF Inv
  <1>2. CASE \E h \in Handlers, e \in Envelopes : Arrive(h, e)
    BY <1>2, ArriveInv
  <1>3. CASE \E h \in Handlers : Check(h) \/ Open(h)
    BY <1>3, CheckInv, OpenInv
  <1>4. CASE Restart
    BY <1>4, RestartInv
  <1>5. CASE UNCHANGED vars
    BY <1>5 DEF vars, entry, master, history, Inv, TypeOK, AskInv, LoadedInv,
                WindowExact, OnceInv
  <1> QED
    BY <1>1, <1>2, <1>3, <1>4, <1>5 DEF Next

\* Every reachable state of the channel satisfies the invariant.
THEOREM Invariance == Spec => []Inv
  BY InitInv, NextInv, PTL DEF Spec

\* The variables keep their types: no position of a bitmap leaves the word.
THEOREM TypeCorrect == Spec => []TypeOK
  BY Invariance, PTL DEF Inv

\* securechan.go, replayWindow.Check: the bitmap is exact for every width and
\* every order of arrival.
THEOREM WindowIsExact == Spec => []WindowExact
  BY Invariance, PTL DEF Inv

\* securechan.go, Decrypt: no envelope is served twice.
THEOREM NoReplay == Spec => ServedOnce
  <1>1. Inv => \A h \in Handlers :
                   Open(h) /\ handler[h].envelope.key = handler[h].session =>
                       handler[h].envelope \notin served
    BY DEF Inv, OnceInv, Open
  <1> QED
    BY <1>1, Invariance, PTL DEF Spec, ServedOnce

\* securechan.go, replayWindow.Check: an envelope is refused only when its
\* number, or one at least W higher, has passed.
THEOREM RefusesOnlyPassed == Spec => RefusedOnlyIfPassed
  <1>1. Inv => \A h \in Handlers :
                  LET q == handler[h].envelope.seq
                  IN  Check(h) /\ UNCHANGED window =>
                          \E p \in passed[handler[h].session] : p.seq = q \/ p.seq >= q + W
    <2> SUFFICES ASSUME Inv, NEW h \in Handlers, Check(h), UNCHANGED window
                 PROVE  LET q == handler[h].envelope.seq
                        IN  \E p \in passed[handler[h].session] :
                                p.seq = q \/ p.seq >= q + W
      OBVIOUS
    <2> DEFINE s == handler[h].session
               q == handler[h].envelope.seq
               w == window[s]
    <2>1. s \in Sessions /\ handler[h].envelope \in Envelopes
      BY DEF Inv, LoadedInv, Check
    <2>2. w \in Windows(0 .. MaxSeq) /\ q \in 1 .. MaxSeq /\ Exact(w, Numbers(s))
          /\ Numbers(s) \in SUBSET (1 .. MaxSeq)
      BY <2>1 DEF Inv, TypeOK, Envelopes, WindowExact, Numbers
    <2>3. ~Fresh(w, q)
      <3>1. Mark(w, q) # w \/ ~Fresh(w, q)
        BY <2>2, MarkMoves, BoundsTyped
      <3>2. Fresh(w, q) => window'[s] = Mark(w, q)
        BY <2>1 DEF Check, Inv, TypeOK
      <3> QED
        BY <3>1, <3>2
    <2>4. q \in Numbers(s) \/ \E r \in Numbers(s) : r >= q + W
      BY <2>2, <2>3, StaleHasPassed, BoundsTyped
    <2> QED
      BY <2>4 DEF Numbers
  <1> QED
    BY <1>1, Invariance, PTL DEF Spec, RefusedOnlyIfPassed
=============================================================================
