------------------------- MODULE XrayLifecycleProofs -------------------------
(***************************************************************************)
(* Proofs about XrayLifecycle, for any requests, orders and deaths of the  *)
(* agent.  That never two Xrays run rests on who may be in the middle of a *)
(* restart: the one who holds embeddedMu, or the goroutine of main, which  *)
(* holds nothing but is alone until the agent is up.  A stop holds nothing *)
(* either; it takes only an instance that is published, and nobody binds   *)
(* another while one is.                                                   *)
(***************************************************************************)
EXTENDS XrayLifecycle, TLAPS

\* The steps of restartEmbeddedXray, lazyStartEmbeddedXray and of the start at
\* boot that replace the instance
Critical == {"clear", "close", "bind", "publish", "handle", "release"}

LockInv == \A p \in Procs : pc[p] \in Critical => lock = p \/ p = "main"

\* Until the agent is up, main is alone; afterwards it rests.
MainInv ==
  /\ running # "up" => lock = None /\ \A p \in Procs : p # "main" => pc[p] = "idle"
  /\ pc["main"] # "idle" => running = "boot"
  /\ \/ pc["main"] \in {"idle", "bind", "publish", "handle", "release"}
     \/ pc["main"] \in {"deploy", "signal", "stop"} /\ op["main"] = "stop"

\* A start begins without a published instance.
PublishedInv ==
  /\ \A p \in Procs : pc[p] \in {"bind", "publish"} => ~published
  /\ ~handle /\ published => \E p \in Procs : pc[p] = "handle"
  /\ running = "down" => ~handle /\ ~published

\* The attempts of a start are counted from 0.
TriesInv ==
  /\ \A p \in Procs : pc[p] \in {"remove", "lock", "clear", "close"} => tries[p] = 0
  /\ \A p \in Procs : pc[p] = "bind" => tries[p] < MaxTries
  /\ running = "down" => \A p \in Procs : tries[p] = 0

IInv == TypeOK /\ LockInv /\ MainInv /\ PublishedInv /\ TriesInv /\ OneXray

-----------------------------------------------------------------------------
Places == {"idle", "lock", "clear", "close", "bind", "publish", "handle",
           "release", "deploy", "remove", "signal", "stop"}

\* Two goroutines are never both in the middle of a restart.
LEMMA OneCritical ==
  ASSUME IInv, NEW p \in Procs, NEW q \in Procs,
         pc[p] \in Critical, pc[q] \in Critical
  PROVE  p = q
  <1>1. CASE lock = p /\ lock = q
    BY <1>1
  <1>2. CASE p = "main" /\ q # "main"
    <2>1. pc[p] # "idle" /\ pc[q] # "idle"
      BY DEF Critical
    <2> QED  BY <1>2, <2>1 DEF IInv, MainInv
  <1>3. CASE q = "main" /\ p # "main"
    <2>1. pc[p] # "idle" /\ pc[q] # "idle"
      BY DEF Critical
    <2> QED  BY <1>3, <2>1 DEF IInv, MainInv
  <1> QED  BY <1>1, <1>2, <1>3 DEF IInv, LockInv

\* How many run, in the words of a case distinction.
LEMMA Running ==
  ASSUME IInv
  PROVE  /\ published => live = 1
         /\ (\E p \in Procs : pc[p] = "publish") => live = 1
         /\ ~published /\ (\A p \in Procs : pc[p] # "publish") => live = 0
  BY DEF IInv, OneXray

\* The constants and the counters of a state.
LEMMA Typed ==
  ASSUME IInv
  PROVE  /\ pc \in [Procs -> Places] /\ op \in [Procs -> Orders]
         /\ stopped \in [Procs -> BOOLEAN] /\ tries \in [Procs -> 0 .. MaxTries]
         /\ lock \in Procs \cup {None} /\ live \in Nat /\ MaxTries \in Nat \ {0}
         /\ "main" \in Procs /\ None \notin Procs
  BY LifecycleAssumption DEF IInv, TypeOK, Places, Procs, None

\* The fallback file is written.
LEMMA DeployKeeps ==
  ASSUME IInv, NEW p \in Procs, Deploy(p)
  PROVE  IInv'
  <1>1. TypeOK'
    BY Typed, Running DEF IInv, TypeOK, Places, PublishedInv, TriesInv, MainInv, Deploy, Goto, xray, web, count, proc
  <1>2. LockInv'
    BY Typed, OneCritical DEF IInv, LockInv, MainInv, Critical, Deploy, Goto
  <1>3. MainInv'
    BY Typed DEF IInv, LockInv, MainInv, Deploy, Goto
  <1>4. PublishedInv'
    BY Typed, OneCritical DEF IInv, PublishedInv, MainInv, Critical, Deploy, Goto, xray
  <1>5. TriesInv'
    BY Typed DEF IInv, TriesInv, MainInv, Deploy, Goto
  <1>6. OneXray'
    BY Typed, OneCritical, Running DEF IInv, OneXray, PublishedInv, Critical, Deploy, Goto, xray
  <1> QED  BY <1>1, <1>2, <1>3, <1>4, <1>5, <1>6 DEF IInv

\* The fallback file is removed.
LEMMA RemoveKeeps ==
  ASSUME IInv, NEW p \in Procs, Remove(p)
  PROVE  IInv'
  <1>1. TypeOK'
    BY Typed, Running DEF IInv, TypeOK, Places, PublishedInv, TriesInv, MainInv, Remove, Goto, xray, web, count, proc
  <1>2. LockInv'
    BY Typed, OneCritical DEF IInv, LockInv, MainInv, Critical, Remove, Goto
  <1>3. MainInv'
    BY Typed DEF IInv, LockInv, MainInv, Remove, Goto
  <1>4. PublishedInv'
    BY Typed, OneCritical DEF IInv, PublishedInv, MainInv, Critical, Remove, Goto, xray
  <1>5. TriesInv'
    BY Typed DEF IInv, TriesInv, MainInv, Remove, Goto
  <1>6. OneXray'
    BY Typed, OneCritical, Running DEF IInv, OneXray, PublishedInv, Critical, Remove, Goto, xray
  <1> QED  BY <1>1, <1>2, <1>3, <1>4, <1>5, <1>6 DEF IInv

\* nginx is told.
LEMMA SignalKeeps ==
  ASSUME IInv, NEW p \in Procs, Signal(p)
  PROVE  IInv'
  <1>1. TypeOK'
    BY Typed, Running DEF IInv, TypeOK, Places, PublishedInv, TriesInv, MainInv, Signal, Goto, xray, web, count, proc
  <1>2. LockInv'
    BY Typed, OneCritical DEF IInv, LockInv, MainInv, Critical, Signal, Goto
  <1>3. MainInv'
    BY Typed DEF IInv, LockInv, MainInv, Signal, Goto
  <1>4. PublishedInv'
    BY Typed, OneCritical DEF IInv, PublishedInv, MainInv, Critical, Signal, Goto, xray
  <1>5. TriesInv'
    BY Typed DEF IInv, TriesInv, MainInv, Signal, Goto
  <1>6. OneXray'
    BY Typed, OneCritical, Running DEF IInv, OneXray, PublishedInv, Critical, Signal, Goto, xray
  <1> QED  BY <1>1, <1>2, <1>3, <1>4, <1>5, <1>6 DEF IInv

\* An instance that is published is stopped.
LEMMA StopKeeps ==
  ASSUME IInv, NEW p \in Procs, Stop(p)
  PROVE  IInv'
  <1>1. TypeOK'
    <2>1. live' \in Nat /\ published' \in BOOLEAN
      <3>1. CASE handle /\ published
        <4>1. live = 1
          BY <3>1, Running
        <4>2. live' \in Nat
          BY <3>1, <4>1 DEF Stop
        <4>3. published' \in BOOLEAN
          BY <3>1 DEF Stop
        <4> QED  BY <4>2, <4>3
      <3>2. CASE ~(handle /\ published)
        BY <3>2, Typed DEF IInv, TypeOK, Stop
      <3> QED  BY <3>1, <3>2
    <2>2. pc' \in [Procs -> Places] /\ running' \in {"down", "boot", "up"}
      BY Typed DEF IInv, TypeOK, Places, Stop, Goto
    <2> QED  BY <2>1, <2>2 DEF IInv, TypeOK, Places, Stop, web, count
  <1>2. LockInv'
    BY Typed, OneCritical DEF IInv, LockInv, MainInv, Critical, Stop, Goto
  <1>3. MainInv'
    BY Typed DEF IInv, LockInv, MainInv, Stop, Goto
  <1>4. PublishedInv'
    BY Typed, OneCritical DEF IInv, PublishedInv, MainInv, Critical, Stop, Goto, xray
  <1>5. TriesInv'
    BY Typed DEF IInv, TriesInv, MainInv, Stop, Goto
  <1>6. OneXray'
    BY Typed, OneCritical, Running DEF IInv, OneXray, PublishedInv, Critical, Stop, Goto, xray
  <1> QED  BY <1>1, <1>2, <1>3, <1>4, <1>5, <1>6 DEF IInv

\* embeddedMu is taken.
LEMMA LockKeeps ==
  ASSUME IInv, NEW p \in Procs, Lock(p)
  PROVE  IInv'
  <1>1. TypeOK'
    BY Typed, Running DEF IInv, TypeOK, Places, PublishedInv, TriesInv, MainInv, Lock, Goto, xray, web, count, proc
  <1>2. LockInv'
    BY Typed, OneCritical DEF IInv, LockInv, MainInv, Critical, Lock, Goto
  <1>3. MainInv'
    BY Typed DEF IInv, LockInv, MainInv, Lock, Goto
  <1>4. PublishedInv'
    BY Typed, OneCritical DEF IInv, PublishedInv, MainInv, Critical, Lock, Goto, xray
  <1>5. TriesInv'
    BY Typed DEF IInv, TriesInv, MainInv, Lock, Goto
  <1>6. OneXray'
    BY Typed, OneCritical, Running DEF IInv, OneXray, PublishedInv, Critical, Lock, Goto, xray
  <1> QED  BY <1>1, <1>2, <1>3, <1>4, <1>5, <1>6 DEF IInv

\* nginx makes room.
LEMMA ClearKeeps ==
  ASSUME IInv, NEW p \in Procs, Clear(p)
  PROVE  IInv'
  <1>1. TypeOK'
    BY Typed, Running DEF IInv, TypeOK, Places, PublishedInv, TriesInv, MainInv, Clear, Goto, NginxStop, NginxActive, NeedsPort443, xray, web, count, proc
  <1>2. LockInv'
    BY Typed, OneCritical DEF IInv, LockInv, MainInv, Critical, Clear, Goto
  <1>3. MainInv'
    BY Typed DEF IInv, LockInv, MainInv, Clear, Goto
  <1>4. PublishedInv'
    BY Typed, OneCritical DEF IInv, PublishedInv, MainInv, Critical, Clear, Goto, xray
  <1>5. TriesInv'
    BY Typed DEF IInv, TriesInv, MainInv, Clear, Goto
  <1>6. OneXray'
    BY Typed, OneCritical, Running DEF IInv, OneXray, PublishedInv, Critical, Clear, Goto, xray
  <1> QED  BY <1>1, <1>2, <1>3, <1>4, <1>5, <1>6 DEF IInv

\* Restart stops the instance, if there is one.
LEMMA CloseKeeps ==
  ASSUME IInv, NEW p \in Procs, Close(p)
  PROVE  IInv'
  <1>1. TypeOK'
    <2>1. live' \in Nat /\ published' \in BOOLEAN
      <3>1. CASE published
        <4>1. live = 1
          BY <3>1, Running
        <4>2. live' \in Nat
          BY <3>1, <4>1 DEF Close
        <4>3. published' \in BOOLEAN
          BY <3>1 DEF Close
        <4> QED  BY <4>2, <4>3
      <3>2. CASE ~(published)
        BY <3>2, Typed DEF IInv, TypeOK, Close
      <3> QED  BY <3>1, <3>2
    <2>2. pc' \in [Procs -> Places]
      BY Typed DEF Places, Close, Goto
    <2> QED  BY <2>1, <2>2 DEF IInv, TypeOK, Places, Close, web, count
  <1>2. LockInv'
    BY Typed, OneCritical DEF IInv, LockInv, MainInv, Critical, Close, Goto
  <1>3. MainInv'
    BY Typed DEF IInv, LockInv, MainInv, Close, Goto
  <1>4. PublishedInv'
    BY Typed, OneCritical DEF IInv, PublishedInv, MainInv, Critical, Close, Goto, xray
  <1>5. TriesInv'
    BY Typed DEF IInv, TriesInv, MainInv, Close, Goto
  <1>6. OneXray'
    BY Typed, OneCritical, Running DEF IInv, OneXray, PublishedInv, Critical, Close, Goto, xray
  <1> QED  BY <1>1, <1>2, <1>3, <1>4, <1>5, <1>6 DEF IInv

\* An instance has started.
LEMMA BindKeeps ==
  ASSUME IInv, NEW p \in Procs, Bind(p)
  PROVE  IInv'
  <1>1. TypeOK'
    BY Typed, Running DEF IInv, TypeOK, Places, PublishedInv, TriesInv, MainInv, Bind, Goto, xray, web, count, proc
  <1>2. LockInv'
    BY Typed, OneCritical DEF IInv, LockInv, MainInv, Critical, Bind, Goto
  <1>3. MainInv'
    BY Typed DEF IInv, LockInv, MainInv, Bind, Goto
  <1>4. PublishedInv'
    BY Typed, OneCritical DEF IInv, PublishedInv, MainInv, Critical, Bind, Goto, xray
  <1>5. TriesInv'
    BY Typed DEF IInv, TriesInv, MainInv, Bind, Goto
  <1>6. OneXray'
    BY Typed, OneCritical, Running DEF IInv, OneXray, PublishedInv, Critical, Bind, Goto, xray
  <1> QED  BY <1>1, <1>2, <1>3, <1>4, <1>5, <1>6 DEF IInv

\* No instance has started.
LEMMA BindFailsKeeps ==
  ASSUME IInv, NEW p \in Procs, BindFails(p)
  PROVE  IInv'
  <1>1. TypeOK'
    <2>1. tries[p] < MaxTries
      BY DEF IInv, TriesInv, BindFails
    <2>2. tries' \in [Procs -> 0 .. MaxTries]
      BY <2>1, Typed DEF BindFails
    <2>3. pc' \in [Procs -> Places] /\ harm' \subseteq Harms
      BY Typed DEF IInv, TypeOK, Places, Harms, BindFails, Goto
    <2> QED  BY <2>2, <2>3 DEF IInv, TypeOK, Places, BindFails, xray, web, count
  <1>2. LockInv'
    BY Typed, OneCritical DEF IInv, LockInv, MainInv, Critical, BindFails, Goto
  <1>3. MainInv'
    BY Typed DEF IInv, LockInv, MainInv, BindFails, Goto
  <1>4. PublishedInv'
    BY Typed, OneCritical DEF IInv, PublishedInv, MainInv, Critical, BindFails, Goto, xray
  <1>5. TriesInv'
    BY Typed DEF IInv, TriesInv, MainInv, BindFails, Goto
  <1>6. OneXray'
    BY Typed, OneCritical, Running DEF IInv, OneXray, PublishedInv, Critical, BindFails, Goto, xray
  <1> QED  BY <1>1, <1>2, <1>3, <1>4, <1>5, <1>6 DEF IInv

\* The instance is published.
LEMMA PublishKeeps ==
  ASSUME IInv, NEW p \in Procs, Publish(p)
  PROVE  IInv'
  <1>1. TypeOK'
    BY Typed, Running DEF IInv, TypeOK, Places, PublishedInv, TriesInv, MainInv, Publish, Goto, xray, web, count, proc
  <1>2. LockInv'
    BY Typed, OneCritical DEF IInv, LockInv, MainInv, Critical, Publish, Goto
  <1>3. MainInv'
    BY Typed DEF IInv, LockInv, MainInv, Publish, Goto
  <1>4. PublishedInv'
    BY Typed, OneCritical DEF IInv, PublishedInv, MainInv, Critical, Publish, Goto, xray
  <1>5. TriesInv'
    BY Typed DEF IInv, TriesInv, MainInv, Publish, Goto
  <1>6. OneXray'
    BY Typed, OneCritical, Running DEF IInv, OneXray, PublishedInv, Critical, Publish, Goto, xray
  <1> QED  BY <1>1, <1>2, <1>3, <1>4, <1>5, <1>6 DEF IInv

\* h.embeddedXray is set.
LEMMA HandleKeeps ==
  ASSUME IInv, NEW p \in Procs, Handle(p)
  PROVE  IInv'
  <1>1. TypeOK'
    BY Typed, Running DEF IInv, TypeOK, Places, PublishedInv, TriesInv, MainInv, Handle, Goto, xray, web, count, proc
  <1>2. LockInv'
    BY Typed, OneCritical DEF IInv, LockInv, MainInv, Critical, Handle, Goto
  <1>3. MainInv'
    BY Typed DEF IInv, LockInv, MainInv, Handle, Goto
  <1>4. PublishedInv'
    BY Typed, OneCritical DEF IInv, PublishedInv, MainInv, Critical, Handle, Goto, xray
  <1>5. TriesInv'
    BY Typed DEF IInv, TriesInv, MainInv, Handle, Goto
  <1>6. OneXray'
    BY Typed, OneCritical, Running DEF IInv, OneXray, PublishedInv, Critical, Handle, Goto, xray
  <1> QED  BY <1>1, <1>2, <1>3, <1>4, <1>5, <1>6 DEF IInv

\* The restart is over.
LEMMA ReleaseKeeps ==
  ASSUME IInv, NEW p \in Procs, Release(p)
  PROVE  IInv'
  <1>1. TypeOK'
    <2>1. pc' \in [Procs -> Places] /\ running' \in {"down", "boot", "up"}
      BY Typed DEF IInv, TypeOK, Places, Release, Goto
    <2>2. nginx' \in {"down", "up", "serving", "quitting"}
      BY DEF IInv, TypeOK, Release, NginxStart
    <2>3. lock' \in Procs \cup {None} /\ stopped' \in [Procs -> BOOLEAN]
      BY Typed DEF Release
    <2>4. harm' \subseteq Harms
      BY DEF IInv, TypeOK, Harms, Release
    <2> QED  BY <2>1, <2>2, <2>3, <2>4 DEF IInv, TypeOK, Places, Release, xray, count
  <1>2. LockInv'
    BY Typed, OneCritical DEF IInv, LockInv, MainInv, Critical, Release, Goto
  <1>3. MainInv'
    BY Typed DEF IInv, LockInv, MainInv, Release, Goto
  <1>4. PublishedInv'
    BY Typed, OneCritical DEF IInv, PublishedInv, MainInv, Critical, Release, Goto, xray
  <1>5. TriesInv'
    BY Typed DEF IInv, TriesInv, MainInv, Release, Goto
  <1>6. OneXray'
    BY Typed, OneCritical, Running DEF IInv, OneXray, PublishedInv, Critical, Release, Goto, xray
  <1> QED  BY <1>1, <1>2, <1>3, <1>4, <1>5, <1>6 DEF IInv

\* An order begins, with its first step.
LEMMA BeginKeeps ==
  ASSUME IInv, NEW p \in Procs, p # "main", NEW o \in Orders, Begin(p, o),
         auth' \in BOOLEAN, UNCHANGED <<running, tunnel, xray, lock, stopped, web, crashes>>
  PROVE  IInv'
  <1>1. First(o) \in {"lock", "remove", "deploy", "stop"}
    BY DEF First, Orders
  <1>2. /\ running = "up" /\ pc' = [pc EXCEPT ![p] = First(o)]
        /\ op' = [op EXCEPT ![p] = o] /\ tries' = [tries EXCEPT ![p] = 0]
    BY DEF Begin
  <1>3. TypeOK'
    <2>1. pc' \in [Procs -> Places] /\ op' \in [Procs -> Orders]
          /\ tries' \in [Procs -> 0 .. MaxTries]
      BY <1>1, <1>2, Typed DEF Places
    <2>2. wanted' \in BOOLEAN /\ orders' \in 0 .. MaxOrders
      BY LifecycleAssumption DEF IInv, TypeOK, Begin
    <2>3. harm' \subseteq Harms
      BY DEF IInv, TypeOK, Harms, Begin
    <2> QED  BY <2>1, <2>2, <2>3 DEF IInv, TypeOK, Places, xray, web
  <1>4. LockInv'
    BY <1>1, <1>2, Typed DEF IInv, LockInv, Critical
  <1>5. MainInv'
    BY <1>1, <1>2, Typed DEF IInv, MainInv
  <1>6. PublishedInv'
    <2>1. pc[p] = "idle"
      BY DEF Begin
    <2> QED  BY <1>1, <1>2, <2>1, Typed DEF IInv, PublishedInv, xray
  <1>7. TriesInv'
    BY <1>1, <1>2, Typed DEF IInv, TriesInv
  <1>8. OneXray'
    <2>1. pc[p] = "idle"
      BY DEF Begin
    <2> QED  BY <1>1, <1>2, <2>1, Typed DEF IInv, OneXray, xray
  <1> QED  BY <1>3, <1>4, <1>5, <1>6, <1>7, <1>8 DEF IInv

\* The master changes the authorization.
LEMMA PushKeeps ==
  ASSUME IInv, Push
  PROVE  IInv'
  <1> DEFINE o == IF auth THEN "stop" ELSE "start"
  <1>1. o \in Orders /\ "push" \in Procs /\ "push" # "main"
    BY DEF Orders, Procs
  <1>2. Begin("push", o) /\ UNCHANGED <<running, tunnel, xray, lock, stopped, web, crashes>>
    BY DEF Push
  <1>3. auth' \in BOOLEAN
    BY DEF IInv, TypeOK, Push
  <1> HIDE DEF o
  <1> QED  BY <1>1, <1>2, <1>3, BeginKeeps

\* A request asks for something.
LEMMA AskKeeps ==
  ASSUME IInv, NEW p \in Admins, NEW o \in Orders, Ask(p, o)
  PROVE  IInv'
  <1>1. p \in Procs /\ p # "main"
    BY LifecycleAssumption DEF Procs
  <1>2. auth' \in BOOLEAN
    BY DEF IInv, TypeOK, Ask
  <1> QED  BY <1>1, <1>2, BeginKeeps DEF Ask

\* nginx has read its config.
LEMMA ReloadedKeeps ==
  ASSUME IInv, Reloaded
  PROVE  IInv'
  <1>1. UNCHANGED <<running, auth, tunnel, xray, lock, proc, fallback, wanted, harm, count>>
    BY DEF Reloaded
  <1>2. nginx' \in {"down", "up", "serving", "quitting"} /\ reload' \in BOOLEAN
    BY DEF IInv, TypeOK, Reloaded
  <1>3. TypeOK'
    BY <1>1, <1>2 DEF IInv, TypeOK, xray, proc, count
  <1>4. LockInv' /\ MainInv' /\ PublishedInv' /\ TriesInv' /\ OneXray'
    BY <1>1 DEF IInv, LockInv, MainInv, PublishedInv, TriesInv, OneXray, xray, proc
  <1> QED  BY <1>3, <1>4 DEF IInv

\* nginx has quit.
LEMMA QuitKeeps ==
  ASSUME IInv, Quit
  PROVE  IInv'
  <1>1. UNCHANGED <<running, auth, tunnel, xray, lock, proc, reload, fallback, wanted, harm, count>>
    BY DEF Quit
  <1>2. nginx' \in {"down", "up", "serving", "quitting"}
    BY DEF Quit
  <1>3. TypeOK'
    BY <1>1, <1>2 DEF IInv, TypeOK, xray, proc, count
  <1>4. LockInv' /\ MainInv' /\ PublishedInv' /\ TriesInv' /\ OneXray'
    BY <1>1 DEF IInv, LockInv, MainInv, PublishedInv, TriesInv, OneXray, xray, proc
  <1> QED  BY <1>3, <1>4 DEF IInv

\* The agent dies, and Xray with it.
LEMMA DieKeeps ==
  ASSUME IInv, Die
  PROVE  IInv'
  <1>1. /\ running' = "down" /\ handle' = FALSE /\ published' = FALSE /\ live' = 0
        /\ lock' = None /\ pc' = [p \in Procs |-> "idle"]
        /\ tries' = [p \in Procs |-> 0] /\ stopped' = [p \in Procs |-> FALSE]
    BY DEF Die
  <1>2. TypeOK'
    <2>1. crashes' \in 0 .. MaxCrashes
      BY LifecycleAssumption DEF IInv, TypeOK, Die
    <2>2. harm' \subseteq Harms
      BY DEF IInv, TypeOK, Harms, Die
    <2>3. tries' \in [Procs -> 0 .. MaxTries] /\ stopped' \in [Procs -> BOOLEAN]
          /\ pc' \in [Procs -> Places]
      BY <1>1, Typed DEF Places
    <2>4. /\ auth' \in BOOLEAN /\ tunnel' \in Tunnels /\ op' \in [Procs -> Orders]
          /\ wanted' \in BOOLEAN /\ orders' \in 0 .. MaxOrders
          /\ nginx' \in {"down", "up", "serving", "quitting"}
          /\ reload' \in BOOLEAN /\ fallback' \in BOOLEAN
      BY DEF IInv, TypeOK, Die, web
    <2> QED  BY <1>1, <2>1, <2>2, <2>3, <2>4 DEF TypeOK, Places
  <1>3. LockInv' /\ MainInv' /\ PublishedInv' /\ TriesInv'
    BY <1>1, Typed DEF LockInv, MainInv, PublishedInv, TriesInv, Critical
  <1>4. OneXray'
    BY <1>1 DEF OneXray
  <1> QED  BY <1>2, <1>3, <1>4 DEF IInv

\* The agent starts: main binds, or puts nginx in the place of Xray.
LEMMA BootKeeps ==
  ASSUME IInv, Boot
  PROVE  IInv'
  <1> DEFINE at == IF auth THEN "bind" ELSE First("stop")
             order == IF auth THEN "start" ELSE "stop"
  <1>1. /\ running = "down" /\ running' = "boot"
        /\ pc' = [pc EXCEPT !["main"] = at] /\ op' = [op EXCEPT !["main"] = order]
        /\ UNCHANGED <<auth, tunnel, xray, lock, stopped, tries, web, count>>
    BY DEF Boot, Goto
  <1>2. /\ at \in {"bind", "deploy", "stop"} /\ order \in Orders
        /\ at # "bind" => order = "stop"
    BY DEF First, Orders
  <1> HIDE DEF at, order
  <1>3. TypeOK'
    <2>1. pc' \in [Procs -> Places] /\ op' \in [Procs -> Orders]
      BY <1>1, <1>2, Typed DEF Places
    <2>2. harm' \subseteq Harms /\ wanted' \in BOOLEAN
      BY DEF IInv, TypeOK, Harms, Boot
    <2> QED  BY <1>1, <2>1, <2>2 DEF IInv, TypeOK, Places, xray, web, count
  <1>4. LockInv'
    BY <1>1, <1>2, Typed DEF IInv, LockInv, MainInv, Critical
  <1>5. MainInv'
    BY <1>1, <1>2, Typed DEF IInv, MainInv
  <1>6. PublishedInv'
    BY <1>1, <1>2, Typed DEF IInv, PublishedInv, MainInv, xray
  <1>7. TriesInv'
    BY <1>1, <1>2, Typed DEF IInv, TriesInv, MainInv
  <1>8. OneXray'
    BY <1>1, <1>2, Typed DEF IInv, OneXray, MainInv, xray
  <1> QED  BY <1>3, <1>4, <1>5, <1>6, <1>7, <1>8 DEF IInv

-----------------------------------------------------------------------------
\* The invariant holds from the start, and every step keeps it.
LEMMA Invariance == Spec => []IInv
  <1>1. Init => IInv
    <2> SUFFICES ASSUME Init PROVE IInv
      OBVIOUS
    <2>1. TypeOK
      <3>1. /\ pc \in [Procs -> Places] /\ op \in [Procs -> Orders]
            /\ stopped \in [Procs -> BOOLEAN] /\ tries \in [Procs -> 0 .. MaxTries]
        BY LifecycleAssumption DEF Init, Places, Orders
      <3>2. 0 \in 0 .. MaxOrders /\ 0 \in 0 .. MaxCrashes /\ 0 \in Nat
        BY LifecycleAssumption
      <3> QED  BY <3>1, <3>2 DEF Init, TypeOK, Places
    <2>2. LockInv /\ MainInv /\ PublishedInv /\ TriesInv /\ OneXray
      BY DEF Init, LockInv, MainInv, PublishedInv, TriesInv, OneXray, Critical, Procs
    <2> QED  BY <2>1, <2>2 DEF IInv
  <1>2. IInv /\ [Next]_vars => IInv'
    <2> SUFFICES ASSUME IInv, [Next]_vars PROVE IInv'
      OBVIOUS
    <2>1. ASSUME NEW p \in Procs, Step(p) PROVE IInv'
      BY <2>1, DeployKeeps, RemoveKeeps, SignalKeeps, StopKeeps, LockKeeps, ClearKeeps,
         CloseKeeps, BindKeeps, BindFailsKeeps, PublishKeeps, HandleKeeps, ReleaseKeeps DEF Step
    <2>2. CASE UNCHANGED vars
      BY <2>2 DEF vars, xray, proc, web, count, IInv, TypeOK, LockInv, MainInv, PublishedInv,
                  TriesInv, OneXray
    <2> QED  BY <2>1, <2>2, PushKeeps, AskKeeps, BootKeeps, DieKeeps, ReloadedKeeps, QuitKeeps
                DEF Next
  <1> QED  BY <1>1, <1>2, PTL DEF Spec

\* The state of the goroutines, of Xray and of nginx keeps its shape: no
\* instance is counted that is not there, and no start is tried more often than
\* Restart says.
THEOREM TypeCorrect == Spec => []TypeOK
  <1>1. IInv => TypeOK
    BY DEF IInv
  <1> QED  BY <1>1, Invariance, PTL

\* embeddedMu, the start at boot and the stops that hold no lock: there is never
\* a second Xray, nor one that nobody has a handle of.
THEOREM NeverTwo == Spec => []OneXray
  <1>1. IInv => OneXray
    BY DEF IInv
  <1> QED  BY <1>1, Invariance, PTL

-----------------------------------------------------------------------------
(***************************************************************************)
(* That the last order decides, while nothing has failed, died or clashed: *)
(* every order in progress wants what was wanted last, and Xray runs, or   *)
(* does not, or somebody is about to see to it.                            *)
(***************************************************************************)
Calm == harm \cap {"clash", "failed", "died"} = {}

Starting == {"remove", "signal", "lock", "clear", "close", "bind", "publish"}
Stopping == {"deploy", "signal", "stop"}

\* Who is on the way of a start, and who of a stop.
PlaceInv ==
  /\ \A p \in Procs : pc[p] \in (Starting \cup {"handle", "release"}) \ {"signal"} => op[p] # "stop"
  /\ \A p \in Procs : pc[p] \in Stopping \ {"signal"} => op[p] = "stop"

\* Only a start that has not given up counts attempts.
CleanInv == \A p \in Procs : pc[p] # "bind" => tries[p] = 0

AgreeInv == \A p \in Procs : pc[p] # "idle" => (op[p] # "stop" <=> wanted)

\* After its start an instance stays published until the restart is over.
KeptInv == \A p \in Procs : pc[p] \in {"handle", "release"} => published

\* What is wanted is so, or somebody is at it.
EffectInv ==
  running # "down" =>
    /\ wanted => published \/ \E p \in Procs : pc[p] \in Starting
    /\ ~wanted => ~published \/ \E p \in Procs : pc[p] \in Stopping

OrderInv == Calm => PlaceInv /\ CleanInv /\ AgreeInv /\ KeptInv /\ EffectInv

\* A step of a goroutine under a calm sky, with all it may rely on.
LEMMA CalmBefore == ASSUME Calm', harm \subseteq harm' PROVE Calm
  BY DEF Calm

\* The steps of nginx's files and of the lock move a goroutine along its way.
LEMMA OnTheWay ==
  ASSUME IInv, OrderInv, NEW p \in Procs, Deploy(p) \/ Remove(p) \/ Signal(p) \/ Lock(p) \/ Clear(p)
  PROVE  OrderInv'
  <1> SUFFICES ASSUME Calm' PROVE (PlaceInv /\ CleanInv /\ AgreeInv /\ KeptInv /\ EffectInv)'
    BY DEF OrderInv
  <1> DEFINE to == CASE Deploy(p) \/ Remove(p) -> "signal"
                     [] Lock(p) -> "clear"
                     [] Clear(p) -> IF handle THEN "close" ELSE "bind"
                     [] OTHER -> IF op[p] = "stop" THEN "stop" ELSE "lock"
  <1>1. Calm /\ PlaceInv /\ CleanInv /\ AgreeInv /\ KeptInv /\ EffectInv
    BY CalmBefore DEF OrderInv, Deploy, Remove, Signal, Lock, Clear
  <1>2. /\ pc[p] \in {"deploy", "remove", "signal", "lock", "clear"}
        /\ pc' = [pc EXCEPT ![p] = to]
        /\ UNCHANGED <<running, xray, op, tries, wanted>>
    BY <1>1 DEF Deploy, Remove, Signal, Lock, Clear, Goto, CleanInv, xray
  <1>3. /\ op[p] = "stop" => pc[p] \in Stopping /\ to \in Stopping
        /\ op[p] # "stop" => pc[p] \in Starting /\ to \in Starting
    BY <1>1 DEF PlaceInv, Stopping, Starting, Deploy, Remove, Signal, Lock, Clear
  <1>4. to = "signal" \/ (op[p] = "stop" /\ to = "stop") \/ (op[p] # "stop" /\ to \in {"lock", "clear", "close", "bind"})
    BY <1>1 DEF PlaceInv, Stopping, Starting, Deploy, Remove, Signal, Lock, Clear
  <1> HIDE DEF to
  <1>5. pc'[p] = to /\ \A q \in Procs : q # p => pc'[q] = pc[q]
    BY <1>2, Typed
  <1>6. PlaceInv'
    BY <1>1, <1>2, <1>4, <1>5 DEF PlaceInv, Starting, Stopping
  <1>7. CleanInv'
    BY <1>1, <1>2, <1>5 DEF CleanInv
  <1>8. AgreeInv'
    BY <1>1, <1>2, <1>5 DEF AgreeInv
  <1>9. KeptInv'
    BY <1>1, <1>2, <1>4, <1>5 DEF KeptInv, xray
  <1>10. EffectInv'
    BY <1>1, <1>2, <1>3, <1>5 DEF EffectInv, AgreeInv, xray, Starting, Stopping
  <1> QED  BY <1>6, <1>7, <1>8, <1>9, <1>10

\* A stop leaves nothing published, since what was started has a handle by then.
LEMMA StopDecides ==
  ASSUME IInv, OrderInv, NEW p \in Procs, Stop(p)
  PROVE  OrderInv'
  <1> SUFFICES ASSUME Calm' PROVE (PlaceInv /\ CleanInv /\ AgreeInv /\ KeptInv /\ EffectInv)'
    BY DEF OrderInv
  <1>1. Calm /\ PlaceInv /\ CleanInv /\ AgreeInv /\ KeptInv /\ EffectInv
    BY CalmBefore DEF OrderInv, Stop
  <1>2. /\ pc[p] = "stop" /\ pc' = [pc EXCEPT ![p] = "idle"]
        /\ published' = (published /\ ~handle)
        /\ UNCHANGED <<op, tries, wanted>>
    BY DEF IInv, TypeOK, Stop, Goto
  <1>3. op[p] = "stop" /\ ~wanted
    BY <1>1, <1>2 DEF PlaceInv, AgreeInv, Stopping
  <1>4. pc'[p] = "idle" /\ \A q \in Procs : q # p => pc'[q] = pc[q]
    BY <1>2, Typed
  <1>5. ~published'
    <2>1. ASSUME published, ~handle PROVE FALSE
      <3>1. PICK q \in Procs : pc[q] = "handle"
        BY <2>1 DEF IInv, PublishedInv
      <3>2. op[q] # "stop"
        BY <1>1, <3>1 DEF PlaceInv, Starting
      <3> QED  BY <1>1, <1>3, <3>1, <3>2 DEF AgreeInv
    <2> QED  BY <1>2, <2>1
  <1>6. PlaceInv'
    BY <1>1, <1>2, <1>4 DEF PlaceInv, Starting, Stopping
  <1>7. CleanInv'
    BY <1>1, <1>2, <1>4 DEF CleanInv
  <1>8. AgreeInv'
    BY <1>1, <1>2, <1>4 DEF AgreeInv
  <1>9. KeptInv'
    <2>1. \A q \in Procs : pc[q] \notin {"handle", "release"}
      BY <1>1, <1>3 DEF PlaceInv, AgreeInv, Starting
    <2> QED  BY <1>4, <2>1 DEF KeptInv
  <1>10. EffectInv'
    BY <1>2, <1>3, <1>5 DEF EffectInv
  <1> QED  BY <1>6, <1>7, <1>8, <1>9, <1>10

\* A restart that has closed the old instance binds the next one, and one that
\* has bound it publishes it.
LEMMA ReplaceDecides ==
  ASSUME IInv, OrderInv, NEW p \in Procs, Close(p) \/ Bind(p) \/ Publish(p) \/ Handle(p)
  PROVE  OrderInv'
  <1> SUFFICES ASSUME Calm' PROVE (PlaceInv /\ CleanInv /\ AgreeInv /\ KeptInv /\ EffectInv)'
    BY DEF OrderInv
  <1>1. Calm /\ PlaceInv /\ CleanInv /\ AgreeInv /\ KeptInv /\ EffectInv
    BY CalmBefore DEF OrderInv, Close, Bind, Publish, Handle
  <1>2. PICK to \in {"bind", "publish", "handle", "release"} : pc' = [pc EXCEPT ![p] = to]
    BY DEF Close, Bind, Publish, Handle, Goto
  <1>3. /\ pc[p] \in {"close", "bind", "publish", "handle"}
        /\ UNCHANGED <<running, op, wanted>>
        /\ \A q \in Procs : tries'[q] = tries[q] \/ tries'[q] = 0
        /\ to # "bind" => tries'[p] = 0
        /\ to \in {"bind", "publish"} \/ published'
    BY <1>1, <1>2, Typed DEF Close, Bind, Publish, Handle, Goto, CleanInv, KeptInv
  <1>4. pc'[p] = to /\ \A q \in Procs : q # p => pc'[q] = pc[q]
    BY <1>2, Typed
  <1>5. \A q \in Procs : q # p => pc[q] \notin Critical
    BY <1>3, OneCritical DEF Critical
  <1>6. op[p] # "stop" /\ wanted
    BY <1>1, <1>3 DEF PlaceInv, AgreeInv, Starting
  <1>7. PlaceInv'
    BY <1>1, <1>3, <1>4, <1>6 DEF PlaceInv, Starting, Stopping
  <1>8. CleanInv'
    BY <1>1, <1>3, <1>4 DEF CleanInv
  <1>9. AgreeInv'
    BY <1>1, <1>3, <1>4, <1>6 DEF AgreeInv
  <1>10. KeptInv'
    BY <1>3, <1>4, <1>5 DEF KeptInv, Critical
  <1>11. EffectInv'
    BY <1>3, <1>4, <1>6 DEF EffectInv, Starting
  <1> QED  BY <1>7, <1>8, <1>9, <1>10, <1>11

\* A start that fails tries again, or is no longer calm.
LEMMA BindFailsDecides ==
  ASSUME IInv, OrderInv, NEW p \in Procs, BindFails(p)
  PROVE  OrderInv'
  <1> SUFFICES ASSUME Calm' PROVE (PlaceInv /\ CleanInv /\ AgreeInv /\ KeptInv /\ EffectInv)'
    BY DEF OrderInv
  <1>1. Calm /\ PlaceInv /\ CleanInv /\ AgreeInv /\ KeptInv /\ EffectInv
    BY CalmBefore DEF OrderInv, BindFails
  <1>2. pc[p] = "bind" /\ UNCHANGED <<running, pc, op, wanted, xray>>
    BY DEF Calm, BindFails
  <1>3. \A q \in Procs : q # p => tries'[q] = tries[q]
    BY Typed DEF BindFails
  <1>4. CleanInv'
    BY <1>1, <1>2, <1>3 DEF CleanInv
  <1>5. PlaceInv' /\ AgreeInv' /\ KeptInv' /\ EffectInv'
    BY <1>1, <1>2 DEF PlaceInv, AgreeInv, KeptInv, EffectInv, xray
  <1> QED  BY <1>4, <1>5

\* A restart that is over leaves what it has published.
LEMMA ReleaseDecides ==
  ASSUME IInv, OrderInv, NEW p \in Procs, Release(p)
  PROVE  OrderInv'
  <1> SUFFICES ASSUME Calm' PROVE (PlaceInv /\ CleanInv /\ AgreeInv /\ KeptInv /\ EffectInv)'
    BY DEF OrderInv
  <1>1. Calm /\ PlaceInv /\ CleanInv /\ AgreeInv /\ KeptInv /\ EffectInv
    BY CalmBefore DEF OrderInv, Release
  <1>2. pc[p] = "release" /\ tries[p] = 0 /\ published
    BY <1>1 DEF Release, CleanInv, KeptInv
  <1>3. /\ pc' = [pc EXCEPT ![p] = "idle"]
        /\ UNCHANGED <<op, tries, wanted, published>>
    BY <1>2 DEF Release, Goto, xray
  <1>4. pc'[p] = "idle" /\ \A q \in Procs : q # p => pc'[q] = pc[q]
    BY <1>3, Typed
  <1>5. wanted
    BY <1>1, <1>2 DEF PlaceInv, AgreeInv, Starting
  <1>6. PlaceInv'
    BY <1>1, <1>3, <1>4 DEF PlaceInv, Starting, Stopping
  <1>7. CleanInv'
    BY <1>1, <1>2, <1>3, <1>4 DEF CleanInv
  <1>8. AgreeInv'
    BY <1>1, <1>3, <1>4 DEF AgreeInv
  <1>9. KeptInv'
    BY <1>2, <1>3 DEF KeptInv
  <1>10. EffectInv'
    BY <1>2, <1>3, <1>5 DEF EffectInv
  <1> QED  BY <1>6, <1>7, <1>8, <1>9, <1>10

\* An order that clashes with none in progress is the one that decides.
LEMMA BeginDecides ==
  ASSUME IInv, OrderInv, NEW p \in Procs, NEW o \in Orders, Begin(p, o),
         UNCHANGED <<running, xray>>
  PROVE  OrderInv'
  <1> SUFFICES ASSUME Calm' PROVE (PlaceInv /\ CleanInv /\ AgreeInv /\ KeptInv /\ EffectInv)'
    BY DEF OrderInv
  <1>1. Calm /\ PlaceInv /\ CleanInv /\ AgreeInv /\ KeptInv /\ EffectInv
    BY CalmBefore DEF OrderInv, Begin
  <1>2. \A q \in Procs : pc[q] # "idle" => o # "stop" /\ op[q] # "stop"
    BY DEF Calm, Begin
  <1>3. /\ pc[p] = "idle" /\ pc' = [pc EXCEPT ![p] = First(o)]
        /\ op' = [op EXCEPT ![p] = o] /\ tries' = [tries EXCEPT ![p] = 0]
        /\ wanted' = (o # "stop")
    BY DEF Begin
  <1>4. /\ o = "stop" => First(o) \in {"deploy", "stop"}
        /\ o # "stop" => First(o) \in {"remove", "lock"}
    BY DEF First, Orders
  <1>5. /\ pc'[p] = First(o) /\ op'[p] = o /\ tries'[p] = 0
        /\ \A q \in Procs : q # p => pc'[q] = pc[q] /\ op'[q] = op[q] /\ tries'[q] = tries[q]
    BY <1>3, Typed
  <1>6. PlaceInv'
    BY <1>1, <1>4, <1>5 DEF PlaceInv, Starting, Stopping
  <1>7. CleanInv'
    BY <1>1, <1>5 DEF CleanInv
  <1>8. AgreeInv'
    BY <1>2, <1>3, <1>5 DEF AgreeInv
  <1>9. KeptInv'
    BY <1>1, <1>4, <1>5 DEF KeptInv, xray
  <1>10. EffectInv'
    BY <1>3, <1>4, <1>5 DEF EffectInv, Starting, Stopping
  <1> QED  BY <1>6, <1>7, <1>8, <1>9, <1>10

\* The start of the agent is an order of its own.
LEMMA BootDecides ==
  ASSUME IInv, OrderInv, Boot
  PROVE  OrderInv'
  <1> SUFFICES ASSUME Calm' PROVE (PlaceInv /\ CleanInv /\ AgreeInv /\ KeptInv /\ EffectInv)'
    BY DEF OrderInv
  <1> DEFINE at == IF auth THEN "bind" ELSE First("stop")
             order == IF auth THEN "start" ELSE "stop"
  <1>1. running = "down" /\ \A p \in Procs : tries[p] = 0
    BY DEF Boot, IInv, TriesInv
  <1>2. \A p \in Procs : pc[p] = "idle"
    BY <1>1 DEF IInv, MainInv
  <1>3. /\ pc' = [pc EXCEPT !["main"] = at] /\ op' = [op EXCEPT !["main"] = order]
        /\ UNCHANGED <<xray, tries>> /\ wanted' = auth
    BY DEF Boot, Goto
  <1>4. /\ auth => at = "bind" /\ order = "start"
        /\ ~auth => at \in {"deploy", "stop"} /\ order = "stop"
    BY DEF First
  <1> HIDE DEF at, order
  <1>5. /\ pc'["main"] = at /\ op'["main"] = order
        /\ \A q \in Procs : q # "main" => pc'[q] = "idle"
    BY <1>2, <1>3, Typed
  <1>6. PlaceInv'
    BY <1>4, <1>5 DEF PlaceInv, Starting, Stopping
  <1>7. CleanInv'
    BY <1>1, <1>3 DEF CleanInv
  <1>8. AgreeInv'
    BY <1>3, <1>4, <1>5 DEF AgreeInv
  <1>9. KeptInv'
    BY <1>4, <1>5 DEF KeptInv
  <1>10. EffectInv'
    BY <1>3, <1>4, <1>5, Typed DEF EffectInv, Starting, Stopping
  <1> QED  BY <1>6, <1>7, <1>8, <1>9, <1>10

\* A death of the agent ends every order; it is calm only when there is none.
LEMMA DieDecides ==
  ASSUME IInv, OrderInv, Die
  PROVE  OrderInv'
  <1>1. \A p \in Procs : pc'[p] = "idle" /\ tries'[p] = 0
    BY DEF Die
  <1>2. running' = "down"
    BY DEF Die
  <1> QED
    BY <1>1, <1>2
       DEF OrderInv, PlaceInv, CleanInv, AgreeInv, KeptInv, EffectInv, Starting, Stopping

\* A step that leaves orders and instances alone.
LEMMA UntouchedDecides ==
  ASSUME OrderInv, UNCHANGED <<running, xray, proc, wanted, harm>>
  PROVE  OrderInv'
  BY DEF OrderInv, Calm, PlaceInv, CleanInv, AgreeInv, KeptInv, EffectInv, xray, proc

\* The invariant of the orders holds throughout.
LEMMA CalmAlways == Spec => []OrderInv
  <1>1. Init => OrderInv
    <2> SUFFICES ASSUME Init PROVE PlaceInv /\ CleanInv /\ AgreeInv /\ KeptInv /\ EffectInv
      BY DEF OrderInv
    <2> QED
      BY DEF Init, PlaceInv, CleanInv, AgreeInv, KeptInv, EffectInv, Starting, Stopping
  <1>2. IInv /\ OrderInv /\ [Next]_vars => OrderInv'
    <2> SUFFICES ASSUME IInv, OrderInv, [Next]_vars PROVE OrderInv'
      OBVIOUS
    <2>1. ASSUME NEW p \in Procs, Step(p) PROVE OrderInv'
      BY <2>1, OnTheWay, StopDecides, ReplaceDecides, BindFailsDecides, ReleaseDecides DEF Step
    <2>2. CASE Push
      <3>1. PICK o \in Orders : Begin("push", o) /\ UNCHANGED <<running, xray>>
        BY <2>2 DEF Push, Orders
      <3> QED  BY <3>1, BeginDecides DEF Procs
    <2>3. ASSUME NEW p \in Admins, NEW o \in Orders, Ask(p, o) PROVE OrderInv'
      BY <2>3, BeginDecides DEF Ask, Procs
    <2>4. CASE Reloaded \/ Quit
      BY <2>4, UntouchedDecides DEF Reloaded, Quit
    <2>5. CASE UNCHANGED vars
      BY <2>5, UntouchedDecides DEF vars
    <2> QED  BY <2>1, <2>2, <2>3, <2>4, <2>5, BootDecides, DieDecides DEF Next
  <1> QED  BY <1>1, <1>2, Invariance, PTL DEF Spec

\* When everything has come to rest the last order is carried out: Xray runs if
\* it was to run and is stopped if it was a stop, for any number of orders,
\* requests and attempts, as long as no start failed, no stop overlapped another
\* order and the agent did not die in the middle of one.
THEOREM LastOneDecides == Spec => []LastOrderDecides
  <1>1. IInv /\ OrderInv => LastOrderDecides
    <2> SUFFICES ASSUME IInv, OrderInv, Quiet, Calm PROVE live > 0 <=> wanted
      BY DEF LastOrderDecides, Calm
    <2>1. running # "down" /\ \A p \in Procs : pc[p] = "idle"
      BY DEF Quiet
    <2>2. published <=> wanted
      BY <2>1 DEF OrderInv, EffectInv, Starting, Stopping
    <2> QED  BY <2>1, <2>2, Running
  <1> QED  BY <1>1, Invariance, CalmAlways, PTL

-----------------------------------------------------------------------------
(***************************************************************************)
(* That someone serves 443, while nothing at all has spoilt the order of   *)
(* things: a restart that has made room brings nginx back, and it comes    *)
(* back with the config that fits who listens on 443; whoever changes the  *)
(* fallback file sees to it that nginx reads it.                           *)
(***************************************************************************)
\* A restart between the stop and the start of nginx
Making == {"close", "bind", "publish", "handle", "release"}

\* A start that has not stopped nginx yet
Coming(p) == op[p] # "stop" /\ pc[p] \in {"signal", "lock", "clear"}

\* A stop has nobody beside it.
AloneInv ==
  \A p, q \in Procs : pc[p] # "idle" /\ pc[q] # "idle" /\ op[p] = "stop" => p = q

\* nginx is away exactly while a restart is about to bring it back; the start
\* at boot does not touch it.
RoomInv ==
  /\ \A p \in Procs : stopped[p] => pc[p] \in Making
  /\ \A p \in Procs : pc[p] \in Making => stopped[p] \/ p = "main"
  /\ nginx \in {"quitting", "down"} <=> \E p \in Procs : stopped[p]

\* The fallback file is there when Xray is to be stopped, but for the step in
\* which an order changes it.
FileInv ==
  /\ \A p \in Procs : pc[p] \notin {"idle", "remove", "deploy"} => (fallback <=> op[p] = "stop")
  /\ wanted /\ fallback => \E p \in Procs : pc[p] = "remove"
  /\ ~wanted /\ ~fallback => \E p \in Procs : pc[p] = "deploy"

\* What nginx has not read yet does not keep Xray and nginx from changing
\* places: a reload waits only where Xray is stopped or being stopped, or where
\* a start is about to stop nginx anyway.
TellInv ==
  /\ reload => nginx \in {"up", "serving"}
  /\ reload => \/ fallback /\ ~published
               \/ \E p \in Procs : Coming(p) \/ pc[p] = "stop"
  /\ nginx = "serving" /\ ~fallback => \E p \in Procs : Coming(p)
  /\ nginx = "up" /\ fallback => reload \/ \E p \in Procs : pc[p] = "signal" /\ op[p] = "stop"

ServeInv == tunnel /\ harm = {} => AloneInv /\ RoomInv /\ FileInv /\ TellInv

\* What a step may rely on that leaves no harm behind.
LEMMA NoHarmBefore ==
  ASSUME IInv, OrderInv, ServeInv, tunnel', tunnel' = tunnel, harm' = {}, harm \subseteq harm'
  PROVE  /\ tunnel /\ harm = {}
         /\ PlaceInv /\ CleanInv /\ AgreeInv /\ KeptInv
         /\ AloneInv /\ RoomInv /\ FileInv /\ TellInv
  <1>1. harm = {} /\ tunnel
    OBVIOUS
  <1>2. Calm
    BY <1>1 DEF Calm
  <1> QED  BY <1>1, <1>2 DEF OrderInv, ServeInv

\* A goroutine that goes on with its order stays as alone as it was.
LEMMA AloneGoesOn ==
  ASSUME IInv, AloneInv, NEW p \in Procs, pc[p] # "idle", op' = op,
         \A q \in Procs : q # p => pc'[q] = pc[q]
  PROVE  AloneInv'
  BY DEF AloneInv

\* The file that makes nginx serve 443 is written or removed.
LEMMA FilesServe ==
  ASSUME IInv, OrderInv, ServeInv, NEW p \in Procs, Deploy(p) \/ Remove(p)
  PROVE  ServeInv'
  <1> SUFFICES ASSUME tunnel', harm' = {} PROVE (AloneInv /\ RoomInv /\ FileInv /\ TellInv)'
    BY DEF ServeInv
  <1>1. /\ PlaceInv /\ AgreeInv /\ AloneInv /\ RoomInv /\ FileInv /\ TellInv
    BY NoHarmBefore DEF Deploy, Remove
  <1>2. /\ pc' = [pc EXCEPT ![p] = "signal"]
        /\ UNCHANGED <<op, stopped, nginx, reload, wanted, published>>
    BY DEF Deploy, Remove, Goto, xray
  <1>3. pc'[p] = "signal" /\ \A q \in Procs : q # p => pc'[q] = pc[q]
    BY <1>2, Typed
  <1>4. /\ pc[p] \in {"deploy", "remove"}
        /\ pc[p] = "deploy" => fallback' /\ op[p] = "stop" /\ ~wanted
        /\ pc[p] = "remove" => ~fallback' /\ op[p] # "stop" /\ wanted
    BY <1>1 DEF Deploy, Remove, PlaceInv, AgreeInv, Starting, Stopping
  <1>5. AloneInv'
    BY <1>1, <1>2, <1>3, <1>4, AloneGoesOn
  <1>6. RoomInv'
    BY <1>1, <1>2, <1>3, <1>4 DEF RoomInv, Making
  <1>7. FileInv'
    <2>1. \A q \in Procs : pc[q] # "idle" => (op[q] # "stop" <=> wanted)
      BY <1>1 DEF AgreeInv
    <2> QED  BY <1>1, <1>2, <1>3, <1>4, <2>1 DEF FileInv
  <1>8. TellInv'
    <2>1. CASE pc[p] = "remove"
      <3>1. Coming(p)'
        BY <1>2, <1>3, <1>4, <2>1 DEF Coming
      <3> QED  BY <1>1, <1>2, <1>4, <2>1, <3>1 DEF TellInv
    <2>2. CASE pc[p] = "deploy"
      <3>1. \A q \in Procs : ~Coming(q) /\ pc[q] # "stop"
        BY <1>1, <1>4, <2>2 DEF AloneInv, Coming
      <3> QED  BY <1>1, <1>2, <1>3, <1>4, <2>2, <3>1 DEF TellInv
    <2> QED  BY <1>4, <2>1, <2>2
  <1> QED  BY <1>5, <1>6, <1>7, <1>8

\* nginx is told to read the file.
LEMMA SignalServes ==
  ASSUME IInv, OrderInv, ServeInv, NEW p \in Procs, Signal(p)
  PROVE  ServeInv'
  <1> SUFFICES ASSUME tunnel', harm' = {} PROVE (AloneInv /\ RoomInv /\ FileInv /\ TellInv)'
    BY DEF ServeInv
  <1>1. CleanInv /\ AloneInv /\ RoomInv /\ FileInv /\ TellInv
    BY NoHarmBefore DEF Signal
  <1> DEFINE to == IF op[p] = "stop" THEN "stop" ELSE "lock"
  <1>2. /\ pc[p] = "signal" /\ pc' = [pc EXCEPT ![p] = to]
        /\ reload' = (reload \/ nginx \in {"up", "serving"})
        /\ UNCHANGED <<op, stopped, nginx, fallback, wanted, published>>
    <2>1. pc[p] = "signal"
      BY DEF Signal
    <2>2. tries[p] = 0
      BY <1>1, <2>1 DEF CleanInv
    <2>3. tries[p] > 0 <=> FALSE
      BY <2>2
    <2>4. pc' = [pc EXCEPT ![p] = to]
      BY <2>3, Zenon DEF Signal, Goto
    <2> QED  BY <2>1, <2>4 DEF Signal, xray
  <1>3. pc'[p] = to /\ \A q \in Procs : q # p => pc'[q] = pc[q]
    BY <1>2, Typed
  <1>4. AloneInv'
    BY <1>1, <1>2, <1>3, AloneGoesOn
  <1>5. RoomInv'
    BY <1>1, <1>2, <1>3 DEF RoomInv, Making
  <1>6. FileInv'
    BY <1>1, <1>2, <1>3 DEF FileInv
  <1>7. TellInv'
    <2>1. CASE op[p] = "stop"
      <3>1. pc'[p] = "stop" /\ fallback'
        BY <1>1, <1>2, <1>3, <2>1 DEF FileInv
      <3>2. (nginx = "up" => reload') /\ (reload' => nginx \in {"up", "serving"})
        BY <1>1, <1>2 DEF TellInv
      <3> QED  BY <1>2, <3>1, <3>2 DEF TellInv
    <2>2. CASE op[p] # "stop"
      <3>1. Coming(p)' /\ ~fallback'
        BY <1>1, <1>2, <1>3, <2>2 DEF FileInv, Coming
      <3>2. reload' => nginx \in {"up", "serving"}
        BY <1>1, <1>2 DEF TellInv
      <3> QED  BY <1>2, <3>1, <3>2 DEF TellInv
    <2> QED  BY <2>1, <2>2
  <1> QED  BY <1>4, <1>5, <1>6, <1>7

\* A start that waits for embeddedMu is still coming when it has it.
LEMMA LockServes ==
  ASSUME IInv, OrderInv, ServeInv, NEW p \in Procs, Lock(p)
  PROVE  ServeInv'
  <1> SUFFICES ASSUME tunnel', harm' = {} PROVE (AloneInv /\ RoomInv /\ FileInv /\ TellInv)'
    BY DEF ServeInv
  <1>1. AloneInv /\ RoomInv /\ FileInv /\ TellInv
    BY NoHarmBefore DEF Lock
  <1>2. /\ pc[p] = "lock" /\ pc' = [pc EXCEPT ![p] = "clear"]
        /\ UNCHANGED <<op, stopped, nginx, reload, fallback, wanted, published>>
    BY DEF Lock, Goto, xray, web
  <1>3. pc'[p] = "clear" /\ \A q \in Procs : q # p => pc'[q] = pc[q]
    BY <1>2, Typed
  <1>4. AloneInv'
    BY <1>1, <1>2, <1>3, AloneGoesOn
  <1>5. RoomInv'
    BY <1>1, <1>2, <1>3 DEF RoomInv, Making
  <1>6. FileInv'
    BY <1>1, <1>2, <1>3 DEF FileInv
  <1>7. TellInv'
    <2>1. \A q \in Procs : Coming(q) => Coming(q)'
      BY <1>2, <1>3 DEF Coming
    <2> QED  BY <1>1, <1>2, <1>3, <2>1 DEF TellInv
  <1> QED  BY <1>4, <1>5, <1>6, <1>7

\* nginx is there to make room: whoever sent it away held embeddedMu and has
\* brought it back.
LEMMA ClearServes ==
  ASSUME IInv, OrderInv, ServeInv, NEW p \in Procs, Clear(p)
  PROVE  ServeInv'
  <1> SUFFICES ASSUME tunnel', harm' = {} PROVE (AloneInv /\ RoomInv /\ FileInv /\ TellInv)'
    BY DEF ServeInv
  <1>1. /\ tunnel /\ PlaceInv /\ AloneInv /\ RoomInv /\ FileInv /\ TellInv
    BY NoHarmBefore DEF Clear
  <1>2. pc[p] = "clear"
    BY DEF Clear
  <1>3. \A q \in Procs : q # p => pc[q] \notin Critical
    BY <1>2, OneCritical DEF Critical
  <1>4. \A q \in Procs : ~stopped[q]
    BY <1>1, <1>2, <1>3 DEF RoomInv, Making, Critical
  <1>5. nginx # "down"
    BY <1>1, <1>4 DEF RoomInv
  <1>6. /\ nginx' = "quitting" /\ ~reload' /\ stopped' = [stopped EXCEPT ![p] = TRUE]
        /\ UNCHANGED <<op, fallback, wanted, published>>
    BY <1>1, <1>5 DEF Clear, NginxActive, NeedsPort443, NginxStop, xray
  <1>7. PICK to \in {"close", "bind"} : pc' = [pc EXCEPT ![p] = to]
    BY DEF Clear, Goto
  <1>8. pc'[p] = to /\ \A q \in Procs : q # p => pc'[q] = pc[q]
    BY <1>7, Typed
  <1>9. stopped'[p] /\ \A q \in Procs : q # p => stopped'[q] = stopped[q]
    BY <1>6, Typed
  <1>10. AloneInv'
    BY <1>1, <1>2, <1>6, <1>8, AloneGoesOn
  <1>11. RoomInv'
    <2>1. \A q \in Procs : q # p => pc'[q] \notin Making
      BY <1>3, <1>8 DEF Making, Critical
    <2>2. pc'[p] \in Making
      BY <1>8 DEF Making
    <2> QED  BY <1>4, <1>6, <1>9, <2>1, <2>2 DEF RoomInv
  <1>12. FileInv'
    BY <1>1, <1>2, <1>6, <1>8 DEF FileInv
  <1>13. TellInv'
    BY <1>6 DEF TellInv
  <1> QED  BY <1>10, <1>11, <1>12, <1>13

\* While nginx is away the instance is replaced; at boot nginx stays.
LEMMA ReplaceServes ==
  ASSUME IInv, OrderInv, ServeInv, NEW p \in Procs,
         Close(p) \/ Bind(p) \/ BindFails(p) \/ Publish(p) \/ Handle(p)
  PROVE  ServeInv'
  <1> SUFFICES ASSUME tunnel', harm' = {} PROVE (AloneInv /\ RoomInv /\ FileInv /\ TellInv)'
    BY DEF ServeInv
  <1>1. /\ PlaceInv /\ AloneInv /\ RoomInv /\ FileInv /\ TellInv
    BY NoHarmBefore DEF Close, Bind, BindFails, Publish, Handle
  <1>2. PICK to \in {"bind", "publish", "handle", "release"} : pc' = [pc EXCEPT ![p] = to]
    <2>1. CASE BindFails(p)
      <3>1. pc' = pc /\ pc[p] = "bind"
        BY <2>1 DEF BindFails
      <3>2. pc' = [pc EXCEPT ![p] = "bind"]
        BY <3>1, Typed
      <3> QED  BY <3>2
    <2> QED  BY <2>1 DEF Close, Bind, Publish, Handle, Goto
  <1>3. pc'[p] = to /\ \A q \in Procs : q # p => pc'[q] = pc[q]
    BY <1>2, Typed
  <1>4. /\ pc[p] \in {"close", "bind", "publish", "handle"}
        /\ UNCHANGED <<op, stopped, nginx, reload, fallback, wanted>>
    BY DEF Close, Bind, BindFails, Publish, Handle, web
  <1>5. op[p] # "stop" /\ ~fallback
    BY <1>1, <1>4 DEF PlaceInv, Starting, FileInv
  <1>6. AloneInv'
    BY <1>1, <1>3, <1>4, AloneGoesOn
  <1>7. RoomInv'
    BY <1>1, <1>3, <1>4 DEF RoomInv, Making
  <1>8. FileInv'
    BY <1>1, <1>3, <1>4, <1>5 DEF FileInv
  <1>9. TellInv'
    <2>1. \A q \in Procs : (Coming(q) => Coming(q)') /\ (pc[q] = "stop" => pc'[q] = "stop")
      BY <1>3, <1>4 DEF Coming
    <2> QED  BY <1>1, <1>4, <1>5, <2>1 DEF TellInv
  <1> QED  BY <1>6, <1>7, <1>8, <1>9

\* nginx comes back once it is gone, without the fallback file.
LEMMA ReleaseServes ==
  ASSUME IInv, OrderInv, ServeInv, NEW p \in Procs, Release(p)
  PROVE  ServeInv'
  <1> SUFFICES ASSUME tunnel', harm' = {} PROVE (AloneInv /\ RoomInv /\ FileInv /\ TellInv)'
    BY DEF ServeInv
  <1>1. /\ PlaceInv /\ CleanInv /\ AloneInv /\ RoomInv /\ FileInv /\ TellInv
    BY NoHarmBefore DEF Release
  <1>2. pc[p] = "release" /\ UNCHANGED <<op, reload, fallback, wanted, published>>
    BY DEF Release, xray
  <1>3. tries[p] > 0 <=> FALSE
    BY <1>1, <1>2 DEF CleanInv
  <1>4. pc' = [pc EXCEPT ![p] = "idle"]
    BY <1>3, Zenon DEF Release, Goto
  <1>5. pc'[p] = "idle" /\ \A q \in Procs : q # p => pc'[q] = pc[q]
    BY <1>4, Typed
  <1>6. op[p] # "stop" /\ ~fallback
    BY <1>1, <1>2 DEF PlaceInv, Starting, FileInv
  <1>7. stopped' = [stopped EXCEPT ![p] = FALSE]
    BY DEF Release
  <1>8. ~stopped'[p] /\ \A q \in Procs : q # p => stopped'[q] = stopped[q]
    BY <1>7, Typed
  <1>9. \A q \in Procs : q # p => pc[q] \notin Critical
    BY <1>2, OneCritical DEF Critical
  <1>10. \A q \in Procs : ~stopped'[q]
    BY <1>1, <1>8, <1>9 DEF RoomInv, Making, Critical
  <1>11. \/ stopped[p] /\ nginx = "down" /\ nginx' = "up" /\ ~reload
         \/ ~stopped[p] /\ nginx' = nginx /\ nginx \in {"up", "serving"}
    <2>1. CASE stopped[p]
      <3>1. nginx # "quitting"
        BY <2>1 DEF Release
      <3>2. nginx = "down" /\ ~reload
        BY <1>1, <2>1, <3>1 DEF RoomInv, TellInv
      <3> QED  BY <1>6, <2>1, <3>2 DEF Release, NginxStart, NginxActive
    <2>2. CASE ~stopped[p]
      <3>1. \A q \in Procs : ~stopped[q]
        BY <1>8, <1>10, <2>2
      <3> QED  BY <1>1, <2>2, <3>1 DEF IInv, TypeOK, RoomInv, Release
    <2> QED  BY <2>1, <2>2
  <1>12. AloneInv'
    BY <1>1, <1>2, <1>5, AloneGoesOn
  <1>13. RoomInv'
    <2>1. \A q \in Procs : pc'[q] \in Making => q = "main"
      <3>1. \A q \in Procs : pc'[q] \notin Making
        BY <1>5, <1>9 DEF Making, Critical
      <3> QED  BY <3>1
    <2> QED  BY <1>10, <1>11, <2>1 DEF RoomInv
  <1>14. FileInv'
    BY <1>1, <1>2, <1>5, <1>6 DEF FileInv
  <1>15. TellInv'
    <2>1. \A q \in Procs : (Coming(q) => Coming(q)') /\ (pc[q] = "stop" => pc'[q] = "stop")
      BY <1>2, <1>5 DEF Coming
    <2> QED  BY <1>1, <1>2, <1>6, <1>11, <2>1 DEF TellInv
  <1> QED  BY <1>12, <1>13, <1>14, <1>15

\* What a stop leaves to nginx: the file, and nothing published.
LEMMA StopServes ==
  ASSUME IInv, OrderInv, ServeInv, NEW p \in Procs, Stop(p)
  PROVE  ServeInv'
  <1> SUFFICES ASSUME tunnel', harm' = {} PROVE (AloneInv /\ RoomInv /\ FileInv /\ TellInv)'
    BY DEF ServeInv
  <1>1. /\ PlaceInv /\ AloneInv /\ RoomInv /\ FileInv /\ TellInv
    BY NoHarmBefore DEF Stop
  <1>2. /\ pc[p] = "stop" /\ pc' = [pc EXCEPT ![p] = "idle"]
        /\ published' = (published /\ ~handle)
        /\ UNCHANGED <<op, stopped, nginx, reload, fallback, wanted>>
    BY DEF IInv, TypeOK, Stop, Goto, web
  <1>3. pc'[p] = "idle" /\ \A q \in Procs : q # p => pc'[q] = pc[q]
    BY <1>2, Typed
  <1>4. op[p] = "stop" /\ fallback
    BY <1>1, <1>2 DEF PlaceInv, Stopping, FileInv
  <1>5. \A q \in Procs : q # p => pc[q] = "idle"
    BY <1>1, <1>2, <1>4 DEF AloneInv
  <1>6. ~published'
    <2>1. ASSUME published, ~handle PROVE FALSE
      <3>1. PICK q \in Procs : pc[q] = "handle"
        BY <2>1 DEF IInv, PublishedInv
      <3> QED  BY <1>2, <1>5, <3>1
    <2> QED  BY <1>2, <2>1
  <1>7. \A q \in Procs : pc'[q] = "idle"
    BY <1>3, <1>5
  <1>8. AloneInv'
    BY <1>7 DEF AloneInv
  <1>9. RoomInv'
    BY <1>1, <1>2, <1>5, <1>7 DEF RoomInv, Making
  <1>10. FileInv'
    BY <1>1, <1>2, <1>4, <1>5, <1>7 DEF FileInv
  <1>11. TellInv'
    BY <1>1, <1>2, <1>4, <1>5, <1>6 DEF TellInv
  <1> QED  BY <1>8, <1>9, <1>10, <1>11

\* A start begins with the removal of the file and a stop with its writing; a
\* restart beside the file is noted.
LEMMA BeginServes ==
  ASSUME IInv, OrderInv, ServeInv, NEW p \in Procs, NEW o \in Orders, Begin(p, o),
         UNCHANGED <<tunnel, xray, stopped, web>>
  PROVE  ServeInv'
  <1> SUFFICES ASSUME tunnel', harm' = {} PROVE (AloneInv /\ RoomInv /\ FileInv /\ TellInv)'
    BY DEF ServeInv
  <1>1. /\ tunnel /\ AloneInv /\ RoomInv /\ FileInv /\ TellInv
    BY NoHarmBefore DEF Begin
  <1>2. \A q \in Procs : pc[q] # "idle" => o # "stop" /\ op[q] # "stop"
    BY DEF Begin
  <1>3. ~(o = "restart" /\ fallback)
    BY DEF Begin
  <1>4. /\ pc[p] = "idle" /\ pc' = [pc EXCEPT ![p] = First(o)]
        /\ op' = [op EXCEPT ![p] = o] /\ wanted' = (o # "stop")
        /\ UNCHANGED <<stopped, nginx, reload, fallback, published>>
    BY DEF Begin, web, xray
  <1>5. /\ o = "stop" => First(o) = "deploy"
        /\ o = "start" => First(o) = "remove"
        /\ o = "restart" => First(o) = "lock"
    BY <1>1 DEF First, NeedsPort443
  <1>6. o \in {"start", "stop", "restart"}
    BY DEF Orders
  <1>7. /\ pc'[p] = First(o) /\ op'[p] = o
        /\ \A q \in Procs : q # p => pc'[q] = pc[q] /\ op'[q] = op[q]
    BY <1>4, Typed
  <1>8. First(o) \in {"deploy", "remove", "lock"}
    BY <1>5, <1>6
  <1>9. AloneInv'
    BY <1>2, <1>7 DEF AloneInv
  <1>10. RoomInv'
    BY <1>1, <1>4, <1>7, <1>8 DEF RoomInv, Making
  <1>11. FileInv'
    <2>1. \A q \in Procs : pc'[q] \notin {"idle", "remove", "deploy"} => (fallback <=> op'[q] = "stop")
      BY <1>1, <1>3, <1>5, <1>6, <1>7 DEF FileInv
    <2>2. wanted' /\ fallback => pc'[p] = "remove"
      BY <1>3, <1>4, <1>5, <1>6, <1>7
    <2>3. ~wanted' => pc'[p] = "deploy"
      BY <1>4, <1>5, <1>7
    <2> QED  BY <1>4, <2>1, <2>2, <2>3 DEF FileInv
  <1>12. TellInv'
    <2>1. \A q \in Procs : pc[q] # "idle" => pc'[q] = pc[q] /\ op'[q] = op[q]
      BY <1>4, <1>7
    <2>2. \A q \in Procs : (Coming(q) => Coming(q)') /\ (pc[q] = "stop" => pc'[q] = "stop")
                         /\ (pc[q] = "signal" /\ op[q] = "stop" => pc'[q] = "signal" /\ op'[q] = "stop")
      BY <2>1 DEF Coming
    <2> QED  BY <1>1, <1>4, <2>2 DEF TellInv
  <1> QED  BY <1>9, <1>10, <1>11, <1>12

\* The agent finds nginx and the file as its last run left them.
LEMMA BootServes ==
  ASSUME IInv, OrderInv, ServeInv, Boot
  PROVE  ServeInv'
  <1> SUFFICES ASSUME tunnel', harm' = {} PROVE (AloneInv /\ RoomInv /\ FileInv /\ TellInv)'
    BY DEF ServeInv
  <1>1. /\ tunnel /\ RoomInv /\ FileInv /\ TellInv
    BY NoHarmBefore DEF Boot
  <1> DEFINE at == IF auth THEN "bind" ELSE "deploy"
             order == IF auth THEN "start" ELSE "stop"
  <1>2. \A p \in Procs : pc[p] = "idle"
    BY DEF Boot, IInv, MainInv
  <1>3. ~(auth /\ fallback)
    BY DEF Boot
  <1>4. First("stop") = "deploy"
    BY <1>1 DEF First, NeedsPort443
  <1>5. /\ pc' = [pc EXCEPT !["main"] = at] /\ op' = [op EXCEPT !["main"] = order]
        /\ wanted' = auth /\ UNCHANGED <<stopped, nginx, reload, fallback, published>>
    BY <1>4 DEF Boot, Goto, web, xray
  <1>6. /\ pc'["main"] = at /\ op'["main"] = order
        /\ \A q \in Procs : q # "main" => pc'[q] = "idle"
    BY <1>2, <1>5, Typed
  <1>7. AloneInv'
    BY <1>6 DEF AloneInv
  <1>8. RoomInv'
    BY <1>1, <1>2, <1>5, <1>6 DEF RoomInv, Making
  <1>9. FileInv'
    BY <1>3, <1>5, <1>6, Typed DEF FileInv
  <1>10. TellInv'
    <2>1. \A q \in Procs : ~Coming(q) /\ pc[q] # "stop" /\ pc[q] # "signal"
      BY <1>2 DEF Coming
    <2> QED  BY <1>1, <1>5, <2>1 DEF TellInv
  <1> QED  BY <1>7, <1>8, <1>9, <1>10

\* A death in the middle of an order is noted; another leaves nginx as it is.
LEMMA DieServes ==
  ASSUME IInv, OrderInv, ServeInv, Die
  PROVE  ServeInv'
  <1> SUFFICES ASSUME tunnel', harm' = {} PROVE (AloneInv /\ RoomInv /\ FileInv /\ TellInv)'
    BY DEF ServeInv
  <1>1. /\ RoomInv /\ FileInv /\ TellInv
    BY NoHarmBefore DEF Die
  <1>2. \A p \in Procs : pc[p] = "idle" /\ pc'[p] = "idle" /\ ~stopped'[p]
    BY DEF Die
  <1>3. ~published' /\ UNCHANGED <<op, nginx, reload, fallback, wanted>>
    BY DEF Die, web
  <1>4. AloneInv'
    BY <1>2 DEF AloneInv
  <1>5. RoomInv'
    BY <1>1, <1>2, <1>3 DEF RoomInv, Making
  <1>6. FileInv'
    BY <1>1, <1>2, <1>3 DEF FileInv
  <1>7. TellInv'
    <2>1. \A q \in Procs : ~Coming(q) /\ pc[q] # "stop" /\ pc[q] # "signal"
      BY <1>2 DEF Coming
    <2> QED  BY <1>1, <1>3, <2>1 DEF TellInv
  <1> QED  BY <1>4, <1>5, <1>6, <1>7

\* nginx reads the file when Xray is not in its way.
LEMMA ReloadedServes ==
  ASSUME IInv, OrderInv, ServeInv, Reloaded
  PROVE  ServeInv'
  <1> SUFFICES ASSUME tunnel', harm' = {} PROVE (AloneInv /\ RoomInv /\ FileInv /\ TellInv)'
    BY DEF ServeInv
  <1>1. /\ tunnel /\ AloneInv /\ RoomInv /\ FileInv /\ TellInv
    BY NoHarmBefore DEF Reloaded
  <1>2. /\ reload /\ ~reload' /\ UNCHANGED <<pc, op, stopped, fallback, wanted, published>>
    BY DEF Reloaded, xray, proc
  <1>3. ~(fallback /\ Holds443)
    <2> SUFFICES ASSUME fallback, live > 0, \A q \in Procs : pc[q] # "stop" PROVE FALSE
      BY DEF Reloaded, Holds443
    <2>1. \A q \in Procs : pc[q] # "publish" /\ ~Coming(q)
      <3>1. \A q \in Procs : pc[q] # "publish"
        BY <1>1, NoHarmBefore DEF FileInv, PlaceInv, Starting, Reloaded
      <3>2. \A q \in Procs : ~Coming(q)
        BY <1>1 DEF FileInv, Coming
      <3> QED  BY <3>1, <3>2
    <2>2. published
      <3>1. live # 0
        BY Typed
      <3> QED  BY <2>1, <3>1, Running
    <2> QED  BY <1>1, <1>2, <2>1, <2>2 DEF TellInv
  <1>4. nginx' = IF fallback THEN "serving" ELSE "up"
    BY <1>3 DEF Reloaded
  <1>5. nginx \in {"up", "serving"}
    BY <1>1, <1>2 DEF TellInv
  <1>6. AloneInv' /\ FileInv'
    BY <1>1, <1>2 DEF AloneInv, FileInv
  <1>7. RoomInv'
    BY <1>1, <1>2, <1>4, <1>5 DEF RoomInv
  <1>8. TellInv'
    BY <1>2, <1>4 DEF TellInv
  <1> QED  BY <1>6, <1>7, <1>8

\* Its last connection has ended.
LEMMA QuitServes ==
  ASSUME IInv, OrderInv, ServeInv, Quit
  PROVE  ServeInv'
  <1> SUFFICES ASSUME tunnel', harm' = {} PROVE (AloneInv /\ RoomInv /\ FileInv /\ TellInv)'
    BY DEF ServeInv
  <1>1. /\ AloneInv /\ RoomInv /\ FileInv /\ TellInv
    BY NoHarmBefore DEF Quit
  <1>2. /\ nginx = "quitting" /\ nginx' = "down"
        /\ UNCHANGED <<pc, op, stopped, reload, fallback, wanted, published>>
    BY DEF Quit, proc, xray
  <1>3. AloneInv' /\ FileInv'
    BY <1>1, <1>2 DEF AloneInv, FileInv
  <1>4. RoomInv'
    BY <1>1, <1>2 DEF RoomInv
  <1>5. TellInv'
    BY <1>1, <1>2 DEF TellInv
  <1> QED  BY <1>3, <1>4, <1>5

\* Someone serves 443 in tunnel mode and nginx runs behind it whenever
\* everything has come to rest, for any number of requests, orders and attempts,
\* as long as nothing has spoilt the order of things: the restart of RestartXray,
\* the fallback file that StopXray and the start write and remove, and the
\* reload of nginx fit together.
THEOREM AlwaysServed == Spec => []PortServed
  <1>1. Init => ServeInv
    <2> SUFFICES ASSUME Init PROVE AloneInv /\ RoomInv /\ FileInv /\ TellInv
      BY DEF ServeInv
    <2>1. (\A p \in Procs : pc[p] = "idle") /\ \A p \in Procs : ~stopped[p]
      BY DEF Init
    <2>2. nginx = "up" /\ ~fallback /\ ~reload /\ wanted
      BY DEF Init
    <2>3. AloneInv /\ RoomInv
      BY <2>1, <2>2 DEF AloneInv, RoomInv, Making
    <2>4. FileInv /\ TellInv
      BY <2>1, <2>2 DEF FileInv, TellInv
    <2> QED  BY <2>3, <2>4
  <1>2. IInv /\ OrderInv /\ ServeInv /\ [Next]_vars => ServeInv'
    <2> SUFFICES ASSUME IInv, OrderInv, ServeInv, [Next]_vars PROVE ServeInv'
      OBVIOUS
    <2>1. ASSUME NEW p \in Procs, Step(p) PROVE ServeInv'
      BY <2>1, FilesServe, SignalServes, StopServes, LockServes, ClearServes, ReplaceServes,
         ReleaseServes DEF Step
    <2>2. CASE Push
      <3>1. PICK o \in Orders : Begin("push", o)
        BY <2>2 DEF Push, Orders
      <3> QED  BY <2>2, <3>1, BeginServes DEF Procs, Push
    <2>3. ASSUME NEW p \in Admins, NEW o \in Orders, Ask(p, o) PROVE ServeInv'
      BY <2>3, BeginServes DEF Ask, Procs
    <2>4. CASE UNCHANGED vars
      BY <2>4 DEF vars, xray, proc, web, ServeInv, AloneInv, RoomInv, FileInv, TellInv, Coming
    <2> QED  BY <2>1, <2>2, <2>3, <2>4, BootServes, DieServes, ReloadedServes, QuitServes DEF Next
  <1>3. IInv /\ OrderInv /\ LastOrderDecides /\ ServeInv => PortServed
    <2> SUFFICES ASSUME IInv, OrderInv, LastOrderDecides, ServeInv, Quiet, tunnel, harm = {}
                 PROVE  nginx \in {"up", "serving"} /\ (live > 0 <=> nginx # "serving")
      BY DEF PortServed
    <2>1. RoomInv /\ FileInv /\ TellInv
      BY DEF ServeInv
    <2>2. ~reload /\ \A p \in Procs : pc[p] = "idle"
      BY DEF Quiet
    <2>3. live > 0 <=> wanted
      BY DEF LastOrderDecides
    <2>4. fallback <=> ~wanted
      BY <2>1, <2>2 DEF FileInv, IInv, TypeOK
    <2>5. nginx \in {"up", "serving"}
      BY <2>1, <2>2 DEF RoomInv, Making, IInv, TypeOK
    <2>6. nginx = "serving" <=> fallback
      BY <2>1, <2>2, <2>5 DEF TellInv, Coming
    <2> QED  BY <2>3, <2>4, <2>5, <2>6
  <1> QED  BY <1>1, <1>2, <1>3, Invariance, CalmAlways, LastOneDecides, PTL DEF Spec
=============================================================================
