----------------------------- MODULE PullCrypto -----------------------------
(***************************************************************************)
(* Encrypted requests of the master to the agent over HTTP                 *)
(* (internal/handler/crypto_middleware.go with securechan.Session and      *)
(* securechan.SessionCache), for one token.                                *)
(*                                                                         *)
(* A key exchange makes a new session and puts it into the cache, where it *)
(* lives for a fixed time.  An encrypted request is decrypted with the     *)
(* session that is cached when it arrives: its number is looked up and     *)
(* marked in the window of that session first, under recvMu, and only then *)
(* the envelope is opened, which fails when it was sealed in another       *)
(* session.  Every request is handled by a goroutine of its own.           *)
(*                                                                         *)
(* The master is not part of the repository.  It is modelled as the agent  *)
(* uses it, and as the agent itself behaves when it is the client          *)
(* (internal/agent/client.go, doEncryptedHTTP).  Envelope q of session s   *)
(* may be lost, delayed, overtaken, or delivered again, in any session.    *)
(* An encrypted request without a body is not decrypted: it does not touch *)
(* the window and is left out, as are the numbers of the responses.        *)
(***************************************************************************)
EXTENDS ReplayWindow

CONSTANTS
    Handlers,       \* goroutines of the HTTP server
    MaxSessions,    \* bound on the key exchanges
    MaxSeq,         \* bound on the envelopes of a session
    Ttl             \* lifetime of a cache entry, in ticks (1 hour)

ASSUME BoundsTyped ==
    MaxSessions \in Nat /\ MaxSeq \in Nat /\ Ttl \in Nat \ {0}

VARIABLES
    cache,      \* the session in the cache, 0 for none
    left,       \* what is left of the lifetime of the entry
    made,       \* sessions made so far
    window,     \* window[s]: the replay window of session s
    handler,    \* what a goroutine is doing
    held,       \* the session the master uses, 0 for none
    asks,       \* key exchanges of the master that have not arrived
    replies,    \* sessions whose key exchange has not been answered
    sent,       \* sent[s]: envelopes the master has sealed in session s
    passed,     \* history: passed[s], the envelopes that passed window s
    served      \* history: the envelopes that were served

entry == <<cache, left, made>>
master == <<held, asks, replies, sent>>
history == <<passed, served>>
vars == <<entry, window, handler, master, history>>

Sessions == 1 .. MaxSessions
Envelopes == [key : Sessions, seq : 1 .. MaxSeq]
NoEnvelope == [key |-> 0, seq |-> 0]
Idle == [at |-> "idle", envelope |-> NoEnvelope, session |-> 0]

Init ==
    /\ cache = 0 /\ left = 0 /\ made = 0
    /\ window = [s \in Sessions |-> EmptyWindow]
    /\ handler = [h \in Handlers |-> Idle]
    /\ held = 0 /\ asks = 0 /\ replies = {}
    /\ sent = [s \in Sessions |-> 0]
    /\ passed = [s \in Sessions |-> {}]
    /\ served = {}

(***************************************************************************)
(* The master.  A key exchange or an answer that is lost stays under way.  *)
(***************************************************************************)
Ask ==
    /\ held = 0
    /\ made + asks < MaxSessions
    /\ asks' = asks + 1
    /\ UNCHANGED <<entry, window, handler, held, replies, sent, history>>

Adopt(s) ==
    /\ s \in replies
    /\ replies' = replies \ {s}
    /\ held' = s
    /\ UNCHANGED <<entry, window, handler, asks, sent, history>>

\* The master has restarted, or was told that there is no session (412).
Forget ==
    /\ held # 0
    /\ held' = 0
    /\ UNCHANGED <<entry, window, handler, asks, replies, sent, history>>

Seal ==
    /\ held # 0
    /\ sent[held] < MaxSeq
    /\ sent' = [sent EXCEPT ![held] = @ + 1]
    /\ UNCHANGED <<entry, window, handler, held, asks, replies, history>>

(***************************************************************************)
(* The cache.                                                              *)
(***************************************************************************)
\* Mutant: Get leaves the expiry to cleanupLoop.
CachedUntilCleanup == cache # 0

Cached == cache # 0 /\ left > 0

\* A request with X-Key-Exchange
Exchange ==
    /\ asks > 0
    /\ asks' = asks - 1
    /\ made' = made + 1
    /\ cache' = made'
    /\ left' = Ttl
    /\ replies' = replies \cup {made'}
    /\ UNCHANGED <<window, handler, held, sent, history>>

Tick ==
    /\ left > 0
    /\ left' = left - 1
    /\ UNCHANGED <<cache, made, window, handler, master, history>>

\* cleanupLoop
Cleanup ==
    /\ cache # 0
    /\ left = 0
    /\ cache' = 0
    /\ UNCHANGED <<left, made, window, handler, master, history>>

\* The agent restarts.
Restart ==
    /\ cache' = 0
    /\ left' = 0
    /\ handler' = [h \in Handlers |-> Idle]
    /\ UNCHANGED <<made, window, master, history>>

(***************************************************************************)
(* A request with X-Encrypted and a body.                                  *)
(***************************************************************************)
\* cache.Get; without a session the answer is 412 and nothing changes.
Arrive(h, e) ==
    /\ handler[h].at = "idle"
    /\ e.seq <= sent[e.key]
    /\ Cached
    /\ handler' = [handler EXCEPT ![h] = [at |-> "loaded", envelope |-> e, session |-> cache]]
    /\ UNCHANGED <<entry, window, master, history>>

\* Mutant: the number is not marked.
CheckUnmarked(h) ==
    /\ handler[h].at = "loaded"
    /\ LET s == handler[h].session
           e == handler[h].envelope
       IN  IF Fresh(window[s], e.seq)
           THEN /\ passed' = [passed EXCEPT ![s] = @ \cup {e}]
                /\ handler' = [handler EXCEPT ![h].at = "checked"]
                /\ UNCHANGED window
           ELSE /\ handler' = [handler EXCEPT ![h] = Idle]
                /\ UNCHANGED <<window, passed>>
    /\ UNCHANGED <<entry, master, served>>

\* Decrypt: Check under recvMu
Check(h) ==
    /\ handler[h].at = "loaded"
    /\ LET s == handler[h].session
           e == handler[h].envelope
       IN  IF Fresh(window[s], e.seq)
           THEN /\ window' = [window EXCEPT ![s] = Mark(@, e.seq)]
                /\ passed' = [passed EXCEPT ![s] = @ \cup {e}]
                /\ handler' = [handler EXCEPT ![h].at = "checked"]
           ELSE /\ handler' = [handler EXCEPT ![h] = Idle]
                /\ UNCHANGED <<window, passed>>
    /\ UNCHANGED <<entry, master, served>>

\* Decrypt: Open; the request is served, and answered in the same session, or
\* refused with 400.
Open(h) ==
    /\ handler[h].at = "checked"
    /\ handler' = [handler EXCEPT ![h] = Idle]
    /\ served' = IF handler[h].envelope.key = handler[h].session
                 THEN served \cup {handler[h].envelope}
                 ELSE served
    /\ UNCHANGED <<entry, window, master, passed>>

Next ==
    \/ Ask \/ Forget \/ Seal
    \/ \E s \in Sessions : Adopt(s)
    \/ Exchange \/ Tick \/ Cleanup \/ Restart
    \/ \E h \in Handlers :
          \/ \E e \in Envelopes : Arrive(h, e)
          \/ Check(h) \/ Open(h)

Spec == Init /\ [][Next]_vars

\* Time passes.  Nothing is assumed of the network or of the master.
FairSpec == Spec /\ WF_vars(Tick)

-----------------------------------------------------------------------------
(***************************************************************************)
(* Properties                                                              *)
(***************************************************************************)
TypeOK ==
    /\ cache \in 0 .. MaxSessions
    /\ left \in 0 .. Ttl
    /\ made \in 0 .. MaxSessions
    /\ window \in [Sessions -> Windows(0 .. MaxSeq)]
    /\ handler \in [Handlers ->
           [at : {"idle", "loaded", "checked"},
            envelope : Envelopes \cup {NoEnvelope}, session : 0 .. MaxSessions]]
    /\ held \in 0 .. MaxSessions
    /\ asks \in 0 .. MaxSessions
    /\ replies \in SUBSET Sessions
    /\ sent \in [Sessions -> 0 .. MaxSeq]
    /\ passed \in [Sessions -> SUBSET Envelopes]
    /\ served \in SUBSET Envelopes

\* securechan.go, Decrypt: no envelope is served twice, however often, in
\* whatever order and by how many goroutines it is received, across key
\* exchanges and restarts.
ServedOnce ==
    [][\A h \in Handlers :
          Open(h) /\ handler[h].envelope.key = handler[h].session =>
              handler[h].envelope \notin served]_vars

\* securechan.go, replayWindow: the bitmap says exactly which of the last W
\* numbers, counted from the highest that passed, have passed.
WindowExact ==
    \A s \in Sessions : Exact(window[s], {e.seq : e \in passed[s]})

\* replayWindow: an envelope that was lost on the way or overtaken is let
\* through as long as it is less than W numbers behind; one is refused only
\* when its number, or one at least W higher, has passed that window before.
RefusedOnlyIfPassed ==
    [][\A h \in Handlers :
          LET q == handler[h].envelope.seq
          IN  Check(h) /\ UNCHANGED window =>
                  \E p \in passed[handler[h].session] : p.seq = q \/ p.seq >= q + W]_vars

\* crypto_middleware.go: the master and the agent may come to use different
\* sessions, when exchanges overtake each other.  Its requests are then refused
\* with 400, which does not make it negotiate again, but not for ever: the
\* entry expires, and 412 does.
Agreed == held # 0 /\ Cached => held = cache
Reconciled == ~Agreed ~> Agreed
=============================================================================
