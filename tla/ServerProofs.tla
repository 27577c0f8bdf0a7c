---------------------------- MODULE ServerProofs ----------------------------
(***************************************************************************)
(* Proofs about Server for any pool, any number of endpoints and any       *)
(* connections.  The invariant of the first part is about control: who is  *)
(* where while acceptors are bound, threads run and join() waits for them. *)
(* The second part is about the order in which io_services are dealt out.  *)
(***************************************************************************)
EXTENDS Server, FiniteSetTheorems, TLAPS

(* run() has not been reached: listen_and_serve is still in                *)
(* bind_and_listen or start_accept, has failed, or was never called.       *)
Starting == main.at \in {"idle", "resolve", "bind", "failed", "accept"}

(* The loops of the main thread stay inside their containers.              *)
MainOk ==
  /\ main.at \in {"bind", "close"} => main.i \in Acceptors
  /\ main.at = "accept" => main.i \in Acceptors \/ main.i = Endpoints + 1
  /\ main.at = "clear" => main.i \in Services

(* Until run() there is one thread, and no handler is under way.           *)
StartingOk ==
  Starting =>
    /\ joiner.at = "none"
    /\ next \in Services
    /\ \A i \in Services : run[i] = "ready"
    /\ \A a \in Acceptors :
         /\ pc[a] = "idle"
         /\ acc[a] # "closed"
         /\ pend[a] = IF main.at = "accept" /\ a < main.i /\ acc[a] = "open"
                      THEN "wait" ELSE "no"

(* An accept loop is one accept or one handler, on an acceptor that was    *)
(* bound; it goes on until stop() or until its thread ends.                *)
LoopOk ==
  \A a \in Acceptors :
    /\ pc[a] # "idle" => pend[a] = "no"
    /\ pc[a] # "idle" \/ pend[a] # "no" => acc[a] # "none"
    /\ main.at = "serving" => acc[a] # "closed"
    /\ main.at = "serving" /\ acc[a] = "open" /\ run[home[a]] = "running"
         => pc[a] # "idle" \/ pend[a] # "no"

(* A thread whose io_service::run has returned has left nothing behind.    *)
ExitedOk ==
  \A i \in Services : run[i] = "exited" =>
    /\ \A a \in Acceptors : home[a] = i => pc[a] = "idle" /\ pend[a] = "no"
    /\ \A c \in Conns : conn[c].st = "open" => conn[c].svc # i

(* join() has only come past threads that have exited.                     *)
JoinOk ==
  /\ joiner.at = "wait" => \A i \in Services : i < joiner.i => run[i] = "exited"
  /\ joiner.at = "joined" => \A i \in Services : run[i] = "exited"

(* The inductive invariant.                                                *)
IndInv == TypeOK /\ MainOk /\ StartingOk /\ LoopOk /\ ExitedOk /\ JoinOk

-----------------------------------------------------------------------------
(* Indices of services and of acceptors.                                   *)
LEMMA Indices ==
  /\ 0 \in Services /\ 1 \in Acceptors /\ Endpoints \in Nat
  /\ \A i \in Services : /\ i \in Nat /\ Advance(i) \in Services /\ Advance(i) \in Nat
                         /\ i < PoolSize - 1 => i + 1 \in Services
  /\ \A a \in Acceptors : /\ a \in Nat /\ a + 1 \in Nat /\ ~(a < 1) /\ a < Endpoints + 1
                          /\ a < Endpoints => a + 1 \in Acceptors
                          /\ ~(a < Endpoints) => a = Endpoints
BY PoolSizeAssumption, EndpointsAssumption DEF Services, Acceptors, Advance

(* get_io_service before run() returns a service of the pool.              *)
LEMMA GiveOk ==
  ASSUME IndInv, Starting, next' = Advance(next), Give(next)
  PROVE  /\ next \in Services /\ next' \in Services /\ next' \in Nat
         /\ given' \in [Services -> Nat]
<1>1. next \in Services /\ next' \in Services /\ next' \in Nat
  BY Indices DEF IndInv, StartingOk
<1>2. given' \in [Services -> Nat]
  BY <1>1 DEF IndInv, TypeOK, Give
<1> QED  BY <1>1, <1>2

(* bind_and_listen resolves the address.                                   *)
LEMMA ResolveOk ==
  ASSUME IndInv, NEW ok \in BOOLEAN, Resolve(ok)
  PROVE  IndInv'
<1>1. /\ next' \in Services /\ next' \in Nat /\ given' \in [Services -> Nat]
      /\ main.at = "resolve"
  BY GiveOk DEF Resolve, Starting
<1>2. main' \in Caller /\ main'.at \in {"bind", "failed"} /\ joiner' = joiner
  BY DEF Resolve, Goto, Caller
<1>3. TypeOK'
  BY <1>1, <1>2 DEF IndInv, TypeOK, Resolve, accept
<1>4. MainOk'
  BY Indices DEF MainOk, Resolve, Goto
<1>5. StartingOk'
  BY <1>1, <1>2 DEF IndInv, StartingOk, Starting, Resolve, accept
<1>6. LoopOk' /\ ExitedOk' /\ JoinOk'
  BY <1>2 DEF IndInv, LoopOk, ExitedOk, JoinOk, Resolve, accept
<1> QED  BY <1>3, <1>4, <1>5, <1>6 DEF IndInv

(* bind_and_listen binds one endpoint.                                     *)
LEMMA BindOk ==
  ASSUME IndInv, NEW result \in {"ok", "skip", "throw"}, Bind(result)
  PROVE  IndInv'
<1> DEFINE a == main.i
<1>1. /\ next \in Services /\ next' \in Services /\ next' \in Nat
      /\ given' \in [Services -> Nat] /\ main.at = "bind"
      /\ a \in Acceptors /\ a + 1 \in Nat /\ (a < Endpoints => a + 1 \in Acceptors)
  BY GiveOk, Indices DEF Bind, Starting, IndInv, MainOk
<1>2. /\ main' \in Caller /\ joiner' = joiner
      /\ \/ main'.at = "failed"
         \/ main'.at = "bind" /\ main'.i \in Acceptors
         \/ main'.at = "accept" /\ main'.i = 1
  <2>1. CASE result = "throw"  BY <2>1 DEF Bind, Goto, Caller
  <2>2. CASE result # "throw" /\ a < Endpoints
    BY <1>1, <2>2 DEF Bind, Goto, Caller
  <2>3. CASE result # "throw" /\ ~(a < Endpoints)
    BY <2>3 DEF Bind, Goto, Caller
  <2> QED  BY <2>1, <2>2, <2>3
<1>3. TypeOK'
  BY <1>1, <1>2 DEF IndInv, TypeOK, Bind
<1>4. MainOk'
  BY <1>2, Indices DEF MainOk
<1>5. StartingOk'
  BY <1>1, <1>2, Indices DEF IndInv, StartingOk, Starting, Bind, TypeOK
<1>6. LoopOk'
  <2>1. pc' = pc /\ pend' = pend  BY DEF Bind
  <2>2. \A b \in Acceptors : pc[b] = "idle" /\ pend[b] = "no"
    BY <1>1 DEF IndInv, StartingOk, Starting
  <2> QED  BY <1>2, <2>1, <2>2 DEF LoopOk
<1>7. ExitedOk' /\ JoinOk'
  BY <1>1, <1>2 DEF IndInv, ExitedOk, JoinOk, StartingOk, Starting, Bind
<1> QED  BY <1>3, <1>4, <1>5, <1>6, <1>7 DEF IndInv

(* start_accept for one acceptor.                                          *)
LEMMA StartAcceptOk ==
  ASSUME IndInv, StartAccept
  PROVE  IndInv'
<1> DEFINE a == main.i
<1>1. /\ main.at = "accept" /\ a \in Acceptors /\ a \in Nat /\ a + 1 \in Nat
      /\ a + 1 \in Acceptors \/ a + 1 = Endpoints + 1
  BY Indices DEF StartAccept, IndInv, MainOk
<1>2. /\ main' \in Caller /\ main'.at = "accept" /\ main'.i = a + 1 /\ joiner' = joiner
  BY <1>1 DEF StartAccept, Goto, Caller
<1>3. /\ next' \in Services /\ next' \in Nat /\ given' \in [Services -> Nat]
      /\ slot' \in [Acceptors -> Services]
  <2>1. CASE acc[a] = "open"
    BY <1>1, <2>1, GiveOk DEF StartAccept, Starting, IndInv, TypeOK
  <2>2. CASE acc[a] # "open"
    BY <1>1, <2>2 DEF StartAccept, Starting, IndInv, TypeOK, StartingOk
  <2> QED  BY <2>1, <2>2
<1>4. pend' = [pend EXCEPT ![a] = IF acc[a] = "open" THEN "wait" ELSE @]
  BY <1>1 DEF StartAccept, IndInv, TypeOK
<1>5. TypeOK'
  BY <1>1, <1>2, <1>3, <1>4 DEF IndInv, TypeOK, StartAccept
<1>6. MainOk'
  BY <1>1, <1>2 DEF MainOk
<1>7. StartingOk'
  <2>1. ASSUME NEW b \in Acceptors
        PROVE  pend'[b] = IF b < main'.i /\ acc[b] = "open" THEN "wait" ELSE "no"
    <3>1. pend[b] = IF b < a /\ acc[b] = "open" THEN "wait" ELSE "no"
      BY <1>1, <2>1 DEF IndInv, StartingOk, Starting
    <3>2. b \in Nat  BY <2>1, Indices
    <3>3. pend'[b] = IF b = a /\ acc[a] = "open" THEN "wait" ELSE pend[b]
      BY <1>1, <1>4, <2>1 DEF IndInv, TypeOK
    <3> QED  BY <1>1, <1>2, <3>1, <3>2, <3>3
  <2> QED  BY <1>1, <1>2, <1>3, <2>1 DEF IndInv, StartingOk, Starting, StartAccept
<1>8. LoopOk' /\ ExitedOk' /\ JoinOk'
  BY <1>1, <1>2, <1>4
     DEF IndInv, LoopOk, ExitedOk, JoinOk, StartingOk, Starting, StartAccept, TypeOK
<1> QED  BY <1>5, <1>6, <1>7, <1>8 DEF IndInv

(* io_service_pool::run starts the threads.                                *)
LEMMA RunOk ==
  ASSUME IndInv, Run
  PROVE  IndInv'
<1>0. main.at = "accept" /\ main.i = Endpoints + 1
  BY EndpointsAssumption DEF Run, IndInv, MainOk, Acceptors
<1>1. main' \in Caller /\ main'.at = "serving" /\ joiner' = joiner
  BY DEF Run, Goto, Caller
<1>2. run' = [i \in Services |-> "running"] /\ accept' = accept
  BY DEF Run, accept
<1>3. TypeOK'
  BY <1>1, <1>2 DEF IndInv, TypeOK, Run, accept
<1>4. MainOk' /\ StartingOk'
  BY <1>1 DEF MainOk, StartingOk, Starting
<1>5. LoopOk'
  <2>1. \A a \in Acceptors : /\ pc[a] = "idle" /\ acc[a] # "closed"
                             /\ pend[a] = IF acc[a] = "open" THEN "wait" ELSE "no"
    BY <1>0, Indices DEF IndInv, StartingOk, Starting
  <2> QED  BY <1>2, <2>1 DEF LoopOk, accept
<1>6. ExitedOk' /\ JoinOk'
  BY <1>0, <1>1, <1>2 DEF IndInv, ExitedOk, JoinOk, StartingOk, Starting
<1> QED  BY <1>3, <1>4, <1>5, <1>6 DEF IndInv

(* server::stop closes one acceptor.                                       *)
LEMMA CloseOk ==
  ASSUME IndInv, Close
  PROVE  IndInv'
<1> DEFINE a == main.i
<1>1. /\ main.at = "close" /\ a \in Acceptors /\ a + 1 \in Nat
      /\ a < Endpoints => a + 1 \in Acceptors
  BY Indices DEF Close, IndInv, MainOk
<1>2. /\ main' \in Caller /\ joiner' = joiner
      /\ \/ main'.at = "close" /\ main'.i \in Acceptors
         \/ main'.at = "clear" /\ main'.i = 0
  BY <1>1 DEF Close, Goto, Caller
<1>3. TypeOK'
  BY <1>1, <1>2 DEF IndInv, TypeOK, Close, pool
<1>4. MainOk' /\ StartingOk'
  BY <1>2, Indices DEF MainOk, StartingOk, Starting
<1>5. LoopOk'
  BY <1>1, <1>2 DEF IndInv, TypeOK, LoopOk, Close
<1>6. ExitedOk'
  BY <1>1 DEF IndInv, TypeOK, ExitedOk, Close, pool
<1>7. JoinOk'
  BY <1>2 DEF IndInv, JoinOk, Close, pool
<1> QED  BY <1>3, <1>4, <1>5, <1>6, <1>7 DEF IndInv

(* io_service_pool::stop destroys one work object.                         *)
LEMMA ClearOk ==
  ASSUME IndInv, Clear
  PROVE  IndInv'
<1> DEFINE i == main.i
<1>1. /\ main.at = "clear" /\ i \in Services /\ i \in Nat
      /\ i < PoolSize - 1 => i + 1 \in Services
  BY Indices DEF Clear, IndInv, MainOk
<1>2. /\ main' \in Caller /\ joiner' = joiner
      /\ \/ main'.at = "clear" /\ main'.i \in Services
         \/ main'.at = "stopped"
  BY <1>1 DEF Clear, Goto, Caller
<1>3. TypeOK'
  BY <1>2 DEF IndInv, TypeOK, Clear, accept
<1>4. MainOk' /\ StartingOk'
  BY <1>2 DEF MainOk, StartingOk, Starting
<1>5. LoopOk' /\ ExitedOk' /\ JoinOk'
  BY <1>2 DEF IndInv, LoopOk, ExitedOk, JoinOk, Clear, accept
<1> QED  BY <1>3, <1>4, <1>5 DEF IndInv

(* http2_impl::listen_and_serve begins with a new server and a new pool.   *)
LEMMA ListenOk ==
  ASSUME IndInv, listen_and_serve
  PROVE  IndInv'
<1>1. /\ main'.at = "resolve" /\ joiner'.at = "none"
      /\ run' = [i \in Services |-> "ready"] /\ next' = 0
      /\ pc' = [a \in Acceptors |-> "idle"] /\ pend' = [a \in Acceptors |-> "no"]
      /\ acc' = [a \in Acceptors |-> "none"]
  BY DEF listen_and_serve
<1>2. TypeOK'
  <2>1. main' \in Caller /\ joiner' \in Joiner
    BY Indices DEF listen_and_serve, Caller, Joiner
  <2>2. conn' \in [Conns -> Connection]
    <3>1. ASSUME NEW c \in Conns PROVE conn'[c] \in Connection
      BY <3>1, Indices DEF listen_and_serve, Connection, IndInv, TypeOK
    <3> QED  BY <3>1 DEF listen_and_serve
  <2> QED  BY <1>1, <2>1, <2>2, Indices DEF TypeOK, listen_and_serve
<1>3. MainOk' /\ StartingOk' /\ LoopOk'
  BY <1>1, Indices DEF MainOk, StartingOk, Starting, LoopOk
<1>4. ExitedOk' /\ JoinOk'
  BY <1>1 DEF ExitedOk, JoinOk
<1> QED  BY <1>2, <1>3, <1>4 DEF IndInv

(* stop() is called; join() is called.                                     *)
LEMMA CallsOk ==
  ASSUME IndInv, Stop \/ CallJoin
  PROVE  IndInv'
<1>1. CASE Stop
  <2>1. main' \in Caller /\ main'.at = "close" /\ main'.i = 1 /\ joiner' = joiner
    BY <1>1 DEF Stop, Goto, Caller
  <2>2. TypeOK'  BY <1>1, <2>1 DEF IndInv, TypeOK, Stop, pool, accept
  <2>3. MainOk' /\ StartingOk'
    BY <2>1, Indices DEF MainOk, StartingOk, Starting
  <2>4. LoopOk' /\ ExitedOk' /\ JoinOk'
    BY <1>1, <2>1 DEF IndInv, LoopOk, ExitedOk, JoinOk, Stop, pool, accept
  <2> QED  BY <2>2, <2>3, <2>4 DEF IndInv
<1>2. CASE CallJoin
  <2>1. /\ joiner' \in Joiner /\ joiner'.at = "wait" /\ joiner'.i = 0 /\ main' = main
        /\ ~Starting
    BY <1>2, Indices DEF CallJoin, Joiner, Starting
  <2>2. TypeOK'  BY <1>2, <2>1 DEF IndInv, TypeOK, CallJoin, pool, accept
  <2>3. MainOk' /\ StartingOk' /\ LoopOk' /\ ExitedOk'
    BY <1>2, <2>1
       DEF IndInv, MainOk, StartingOk, Starting, LoopOk, ExitedOk, CallJoin, pool, accept
  <2>4. JoinOk'  BY <2>1, PoolSizeAssumption DEF JoinOk, Services
  <2> QED  BY <2>2, <2>3, <2>4 DEF IndInv
<1> QED  BY <1>1, <1>2

(* io_service_pool::join has waited for one thread.                        *)
LEMMA JoinStepOk ==
  ASSUME IndInv, Join
  PROVE  IndInv'
<1> DEFINE i == joiner.i
<1>1. /\ joiner.at = "wait" /\ i \in Services /\ i \in Nat /\ ~Starting /\ main' = main
      /\ i < PoolSize - 1 => i + 1 \in Services
  BY Indices DEF Join, IndInv, TypeOK, Joiner, StartingOk
<1>2. joiner' \in Joiner
  BY <1>1 DEF Join, IndInv, TypeOK, Joiner
<1>3. TypeOK'  BY <1>1, <1>2 DEF IndInv, TypeOK, Join, pool, accept
<1>4. MainOk' /\ StartingOk' /\ LoopOk' /\ ExitedOk'
  BY <1>1 DEF IndInv, MainOk, StartingOk, Starting, LoopOk, ExitedOk, Join, pool, accept
<1>5. JoinOk'
  <2>0. run' = run /\ \A j \in Services : j < i => run[j] = "exited"
    BY <1>1 DEF Join, pool, IndInv, JoinOk
  <2>1. CASE run[i] = "thrown"
    BY <1>1, <2>1 DEF Join, JoinOk, IndInv, TypeOK, Joiner
  <2>2. CASE run[i] # "thrown" /\ i < PoolSize - 1
    <3>1. run[i] = "exited" /\ joiner'.at = "wait" /\ joiner'.i = i + 1
      BY <1>1, <2>2 DEF Join, IndInv, TypeOK, Joiner
    <3>2. \A j \in Services : j < i + 1 => j < i \/ j = i
      BY <1>1, PoolSizeAssumption DEF Services
    <3> QED  BY <2>0, <3>1, <3>2 DEF JoinOk
  <2>3. CASE run[i] # "thrown" /\ ~(i < PoolSize - 1)
    <3>1. run[i] = "exited" /\ joiner'.at = "joined"
      BY <1>1, <2>3 DEF Join, IndInv, TypeOK, Joiner
    <3>2. \A j \in Services : j < i \/ j = i
      BY <1>1, <2>3, PoolSizeAssumption DEF Services
    <3> QED  BY <2>0, <3>1, <3>2 DEF JoinOk
  <2> QED  BY <2>1, <2>2, <2>3
<1> QED  BY <1>3, <1>4, <1>5 DEF IndInv

-----------------------------------------------------------------------------
(* Once run() has been reached, a step of a pool thread does not concern   *)
(* the callers.                                                            *)
LEMMA CallersAside ==
  ASSUME IndInv, ~Starting, UNCHANGED <<main, joiner>>
  PROVE  MainOk' /\ StartingOk'
BY DEF IndInv, MainOk, StartingOk, Starting

(* An acceptor with a handler under way, or with a completed accept, has   *)
(* been bound, and its thread was started.                                 *)
LEMMA UnderWay ==
  ASSUME IndInv, NEW a \in Acceptors, pc[a] # "idle" \/ pend[a] \in {"ok", "err"}
  PROVE  /\ ~Starting /\ acc[a] # "none"
         /\ home[a] \in Services /\ slot[a] \in Services
         /\ run[home[a]] # "exited"
BY DEF IndInv, StartingOk, LoopOk, ExitedOk, TypeOK

(* The handler of async_accept, up to start_accept.                        *)
LEMMA HandleAcceptOk ==
  ASSUME IndInv, NEW a \in Acceptors, HandleAccept(a)
  PROVE  IndInv'
<1>1. /\ pend[a] \in {"ok", "err"} /\ run[home[a]] = "running"
      /\ pend' = [pend EXCEPT ![a] = "no"] /\ pc' = [pc EXCEPT ![a] = "open?"]
      /\ UNCHANGED <<main, joiner, pool, acc, home, slot>>
  BY DEF HandleAccept, Runs
<1>2. ~Starting /\ acc[a] # "none" /\ slot[a] \in Services
  BY <1>1, UnderWay
<1>3. \/ conn' = conn
      \/ \E c \in Conns, new \in Connection :
           /\ conn' = [conn EXCEPT ![c] = new]
           /\ new.st = "open" => run[new.svc] = "running"
  <2>1. CASE pend[a] = "ok"
    <3> PICK c \in Conns :
          conn' = [conn EXCEPT ![c] = [st |-> IF run[slot[a]] = "running" THEN "open"
                                              ELSE "stranded", svc |-> slot[a]]]
      BY <2>1 DEF HandleAccept, StartConnection
    <3> DEFINE new == [st |-> IF run[slot[a]] = "running" THEN "open" ELSE "stranded",
                       svc |-> slot[a]]
    <3>1. new \in Connection /\ (new.st = "open" => run[new.svc] = "running")
      BY <1>2 DEF Connection
    <3> QED  BY <3>1
  <2>2. CASE pend[a] # "ok"
    BY <2>2 DEF HandleAccept
  <2> QED  BY <2>1, <2>2
<1>4. TypeOK'
  BY <1>1, <1>3 DEF IndInv, TypeOK, pool
<1>5. MainOk' /\ StartingOk'
  BY <1>1, <1>2, CallersAside
<1>6. LoopOk'
  BY <1>1, <1>2 DEF IndInv, TypeOK, LoopOk, pool
<1>7. ExitedOk'
  BY <1>1, <1>3 DEF IndInv, TypeOK, ExitedOk, pool
<1>8. JoinOk'
  BY <1>1 DEF IndInv, JoinOk, pool
<1> QED  BY <1>4, <1>5, <1>6, <1>7, <1>8 DEF IndInv

(* ... or it throws, and its thread ends.                                  *)
LEMMA AcceptThrowsOk ==
  ASSUME IndInv, NEW a \in Acceptors, AcceptThrows(a)
  PROVE  IndInv'
<1>1. /\ pend[a] = "ok" /\ run[home[a]] = "running"
      /\ pend' = [pend EXCEPT ![a] = "no"]
      /\ run' = [run EXCEPT ![home[a]] = "thrown"]
      /\ UNCHANGED <<main, joiner, next, given, work, acc, home, slot, pc, conn>>
  BY DEF AcceptThrows, Runs
<1>2. ~Starting /\ home[a] \in Services
  BY <1>1, UnderWay
<1>3. TypeOK'
  BY <1>1, <1>2 DEF IndInv, TypeOK
<1>4. MainOk' /\ StartingOk'
  BY <1>1, <1>2, CallersAside
<1>5. LoopOk'
  BY <1>1, <1>2 DEF IndInv, TypeOK, LoopOk
<1>6. ExitedOk' /\ JoinOk'
  BY <1>1, <1>2 DEF IndInv, TypeOK, ExitedOk, JoinOk
<1> QED  BY <1>3, <1>4, <1>5, <1>6 DEF IndInv

(* start_accept on a pool thread: its test, get_io_service, async_accept.  *)
LEMMA StartAcceptStepsOk ==
  ASSUME IndInv, NEW a \in Acceptors,
         \/ IsOpen(a) \/ GetLoad(a) \/ GetIncrement(a) \/ GetWrap(a) \/ AsyncAccept(a)
  PROVE  IndInv'
<1>1. /\ pc[a] # "idle"
      /\ UNCHANGED <<main, joiner, work, run, acc, home, conn>>
  BY DEF IsOpen, GetLoad, GetIncrement, GetWrap, AsyncAccept, pool
<1>2. ~Starting /\ acc[a] # "none" /\ run[home[a]] # "exited" /\ pend[a] = "no"
  BY <1>1, UnderWay DEF IndInv, LoopOk
<1>3. next' \in Nat /\ given' \in [Services -> Nat] /\ slot' \in [Acceptors -> Services]
  <2>1. /\ next \in Nat /\ given \in [Services -> Nat]
        /\ slot \in [Acceptors -> Services] /\ slot[a] \in Nat
    BY Indices DEF IndInv, TypeOK
  <2>2. next < PoolSize => next \in Services
    BY <2>1, PoolSizeAssumption DEF Services
  <2>3. CASE GetLoad(a)
    BY <2>1, <2>2, <2>3 DEF GetLoad, Give
  <2>4. CASE GetIncrement(a)
    BY <2>1, <2>4 DEF GetIncrement
  <2>5. CASE GetWrap(a)
    BY <2>1, <2>5 DEF GetWrap
  <2> QED  BY <2>1, <2>3, <2>4, <2>5 DEF IsOpen, AsyncAccept, pool
<1>4. \/ /\ \E l \in {"get", "increment", "wrap", "arm", "undefined"} :
              pc' = [pc EXCEPT ![a] = l]
         /\ pend' = pend
      \/ pc' = [pc EXCEPT ![a] = "idle"] /\ pend' = pend /\ acc[a] = "closed"
      \/ pc' = [pc EXCEPT ![a] = "idle"] /\ \E p \in {"wait", "err"} :
              pend' = [pend EXCEPT ![a] = p]
  BY <1>2 DEF IsOpen, GetLoad, GetIncrement, GetWrap, AsyncAccept, IndInv, TypeOK
<1>5. TypeOK'
  BY <1>1, <1>3, <1>4 DEF IndInv, TypeOK
<1>6. MainOk' /\ StartingOk'
  BY <1>1, <1>2, CallersAside
<1>7. LoopOk'
  BY <1>1, <1>2, <1>4 DEF IndInv, TypeOK, LoopOk
<1>8. ExitedOk'
  BY <1>1, <1>2, <1>4 DEF IndInv, TypeOK, ExitedOk
<1>9. JoinOk'
  BY <1>1 DEF IndInv, JoinOk
<1> QED  BY <1>5, <1>6, <1>7, <1>8, <1>9 DEF IndInv

(* A pending accept completes.                                             *)
LEMMA AcceptCompletesOk ==
  ASSUME IndInv, NEW a \in Acceptors, NEW result \in {"ok", "err"},
         AcceptCompletes(a, result)
  PROVE  IndInv'
<1>1. /\ pend[a] = "wait" /\ acc[a] = "open" /\ run[home[a]] = "running"
      /\ pend' = [pend EXCEPT ![a] = result]
      /\ UNCHANGED <<main, joiner, pool, acc, home, slot, pc, conn>>
  BY DEF AcceptCompletes
<1>2. ~Starting
  BY <1>1 DEF IndInv, StartingOk, TypeOK
<1>3. TypeOK'
  BY <1>1 DEF IndInv, TypeOK, pool
<1>4. MainOk' /\ StartingOk'
  BY <1>1, <1>2, CallersAside
<1>5. LoopOk'
  BY <1>1 DEF IndInv, TypeOK, LoopOk, pool
<1>6. ExitedOk' /\ JoinOk'
  BY <1>1 DEF IndInv, TypeOK, ExitedOk, JoinOk, pool
<1> QED  BY <1>3, <1>4, <1>5, <1>6 DEF IndInv

(* A connection ends.                                                      *)
LEMMA ConnEndsOk ==
  ASSUME IndInv, NEW c \in Conns, ConnEnds(c)
  PROVE  IndInv'
<1> DEFINE new == [st |-> "done", svc |-> 0]
<1>1. /\ conn' = [conn EXCEPT ![c] = new]
      /\ UNCHANGED <<main, joiner, pool, accept>>
      /\ new \in Connection /\ new.st # "open"
  BY Indices DEF ConnEnds, Connection
<1> HIDE DEF new
<1>2. TypeOK'
  BY <1>1 DEF IndInv, TypeOK, pool, accept
<1>3. MainOk' /\ StartingOk' /\ LoopOk' /\ JoinOk'
  BY <1>1 DEF IndInv, MainOk, StartingOk, Starting, LoopOk, JoinOk, pool, accept
<1>4. ExitedOk'
  BY <1>1 DEF IndInv, TypeOK, ExitedOk, pool, accept
<1> QED  BY <1>2, <1>3, <1>4 DEF IndInv

(* io_service::run returns.                                                *)
LEMMA RunsOutOk ==
  ASSUME IndInv, NEW i \in Services, RunsOut(i)
  PROVE  IndInv'
<1>1. /\ run[i] = "running" /\ run' = [run EXCEPT ![i] = "exited"]
      /\ \A a \in Acceptors : home[a] = i => pc[a] = "idle" /\ pend[a] = "no"
      /\ \A c \in Conns : conn[c].st = "open" => conn[c].svc # i
      /\ UNCHANGED <<main, joiner, next, given, work, acc, home, pend, slot, pc, conn>>
  BY DEF RunsOut, Busy, accept
<1>2. ~Starting
  BY <1>1 DEF IndInv, StartingOk
<1>3. TypeOK'
  BY <1>1 DEF IndInv, TypeOK
<1>4. MainOk' /\ StartingOk'
  BY <1>1, <1>2, CallersAside
<1>5. LoopOk'
  BY <1>1 DEF IndInv, TypeOK, LoopOk
<1>6. ExitedOk' /\ JoinOk'
  BY <1>1 DEF IndInv, TypeOK, ExitedOk, JoinOk
<1> QED  BY <1>3, <1>4, <1>5, <1>6 DEF IndInv

-----------------------------------------------------------------------------
(* The invariant of the first part.                                        *)
THEOREM IndInvHolds == Spec => []IndInv
<1>1. Init => IndInv
  <2> SUFFICES ASSUME Init PROVE IndInv  OBVIOUS
  <2>1. main \in Caller /\ joiner \in Joiner
    BY Indices DEF Init, Caller, Joiner
  <2>2. conn \in [Conns -> Connection]
    BY Indices DEF Init, Connection
  <2>3. TypeOK
    BY <2>1, <2>2, Indices DEF Init, TypeOK
  <2> QED  BY <2>3, Indices
           DEF Init, IndInv, MainOk, StartingOk, Starting, LoopOk, ExitedOk, JoinOk
<1>2. IndInv /\ [Next]_vars => IndInv'
  <2> SUFFICES ASSUME IndInv, [Next]_vars PROVE IndInv'  OBVIOUS
  <2>1. CASE Main
    BY <2>1, ResolveOk, BindOk, StartAcceptOk, RunOk, CloseOk, ClearOk DEF Main
  <2>2. CASE listen_and_serve  BY <2>2, ListenOk
  <2>3. CASE Stop \/ CallJoin  BY <2>3, CallsOk
  <2>4. CASE Join  BY <2>4, JoinStepOk
  <2>5. ASSUME NEW a \in Acceptors, Handler(a) PROVE IndInv'
    BY <2>5, HandleAcceptOk, AcceptThrowsOk, StartAcceptStepsOk DEF Handler
  <2>6. ASSUME NEW a \in Acceptors, NEW result \in {"ok", "err"}, AcceptCompletes(a, result)
        PROVE  IndInv'
    BY <2>6, AcceptCompletesOk
  <2>7. ASSUME NEW c \in Conns, ConnEnds(c) PROVE IndInv'  BY <2>7, ConnEndsOk
  <2>8. ASSUME NEW i \in Services, RunsOut(i) PROVE IndInv'  BY <2>8, RunsOutOk
  <2>9. CASE UNCHANGED vars
    BY <2>9 DEF IndInv, TypeOK, MainOk, StartingOk, Starting, LoopOk, ExitedOk, JoinOk,
                vars, pool, accept
  <2> QED  BY <2>1, <2>2, <2>3, <2>4, <2>5, <2>6, <2>7, <2>8, <2>9 DEF Next
<1> QED  BY <1>1, <1>2, PTL DEF Spec

(* The accept loop neither breaks nor doubles.                             *)
THEOREM AcceptLoopHolds == Spec => []AcceptLoop
<1>1. IndInv => AcceptLoop
  BY DEF IndInv, AcceptLoop, LoopOk
<1> QED  BY <1>1, IndInvHolds, PTL

(* When join() has returned, threads, handlers and connections are done.   *)
THEOREM JoinedIsAtRestHolds == Spec => []JoinedIsAtRest
<1>1. IndInv => JoinedIsAtRest
  BY DEF IndInv, JoinedIsAtRest, JoinOk, ExitedOk, TypeOK, Connection
<1> QED  BY <1>1, IndInvHolds, PTL

-----------------------------------------------------------------------------
(* Dealing out: with n services dealt in the current round, those below n  *)
(* have been given once more than the others.                              *)
Dealt(g, n) ==
  \A i, j \in Services :
    g[i] + (IF j < n THEN 1 ELSE 0) = g[j] + (IF i < n THEN 1 ELSE 0)

(* At most one acceptor is bound, so get_io_service runs on one thread.    *)
Solo == \A a, b \in Acceptors : acc[a] # "none" /\ acc[b] # "none" => a = b

(* Inside get_io_service the service has been given, but next_io_service_  *)
(* is behind, or outside the pool.                                         *)
Inside == {"increment", "wrap", "undefined"}

(* Services are given out in turn while the pool is being set up, and later *)
(* as long as one acceptor is bound.                                        *)
DealOk ==
  /\ Starting => Dealt(given, next)
  /\ Solo =>
       /\ \A a \in Acceptors :
            /\ pc[a] = "increment" => slot[a] = next /\ Dealt(given, next + 1)
            /\ pc[a] = "wrap" => next = slot[a] + 1 /\ Dealt(given, next)
            /\ pc[a] # "undefined"
       /\ (\A a \in Acceptors : pc[a] \notin Inside)
            => next \in Services /\ Dealt(given, next)

(* Giving out the next service of the round.                               *)
LEMMA DealNext ==
  ASSUME NEW g \in [Services -> Nat], NEW n \in Services, Dealt(g, n)
  PROVE  Dealt([g EXCEPT ![n] = @ + 1], n + 1)
<1> SUFFICES ASSUME NEW i \in Services, NEW j \in Services
             PROVE  LET h == [g EXCEPT ![n] = @ + 1]
                    IN  h[i] + (IF j < n + 1 THEN 1 ELSE 0)
                          = h[j] + (IF i < n + 1 THEN 1 ELSE 0)
  BY DEF Dealt
<1>1. g[i] + (IF j < n THEN 1 ELSE 0) = g[j] + (IF i < n THEN 1 ELSE 0)
  BY DEF Dealt
<1>2. g[i] \in Nat /\ g[j] \in Nat /\ i \in Nat /\ j \in Nat /\ n \in Nat
  BY Indices
<1> QED  BY <1>1, <1>2

(* A full round is as good as none.                                        *)
LEMMA DealRound ==
  ASSUME NEW g \in [Services -> Nat], Dealt(g, PoolSize)
  PROVE  Dealt(g, 0)
<1> SUFFICES ASSUME NEW i \in Services, NEW j \in Services
             PROVE  g[i] + (IF j < 0 THEN 1 ELSE 0) = g[j] + (IF i < 0 THEN 1 ELSE 0)
  BY DEF Dealt
<1>1. g[i] + (IF j < PoolSize THEN 1 ELSE 0) = g[j] + (IF i < PoolSize THEN 1 ELSE 0)
  BY DEF Dealt
<1>2. /\ g[i] \in Nat /\ g[j] \in Nat
      /\ i < PoolSize /\ j < PoolSize /\ ~(i < 0) /\ ~(j < 0)
  BY PoolSizeAssumption DEF Services
<1> QED  BY <1>1, <1>2

(* get_io_service as one step.                                             *)
LEMMA DealOne ==
  ASSUME IndInv, Dealt(given, next), next \in Services,
         next' = Advance(next), Give(next)
  PROVE  next' \in Services /\ Dealt(given', next')
<1>1. given \in [Services -> Nat] /\ given' \in [Services -> Nat]
  BY DEF IndInv, TypeOK, Give
<1>2. Dealt(given', next + 1)
  BY <1>1, DealNext DEF Give
<1>3. CASE next + 1 = PoolSize
  BY <1>1, <1>2, <1>3, DealRound, Indices DEF Advance
<1>4. CASE next + 1 # PoolSize
  BY <1>2, <1>4, Indices DEF Advance
<1> QED  BY <1>3, <1>4

(* Steps that leave get_io_service alone.                                  *)
LEMMA DealAside ==
  ASSUME IndInv, DealOk, UNCHANGED <<next, given, slot>>, Starting' => Starting,
         \A a \in Acceptors :
           /\ acc'[a] = "none" <=> acc[a] = "none"
           /\ pc'[a] = pc[a] \/ {pc[a], pc'[a]} \cap Inside = {}
  PROVE  DealOk'
<1>1. Starting' => Dealt(given, next)'
  BY DEF DealOk, Dealt
<1>2. Solo' => Solo
  BY DEF Solo
<1>3. \A a \in Acceptors : /\ pc'[a] = "increment" => pc[a] = "increment"
                           /\ pc'[a] = "wrap" => pc[a] = "wrap"
                           /\ pc'[a] = "undefined" => pc[a] = "undefined"
                           /\ pc[a] \in Inside => pc'[a] \in Inside
  BY DEF Inside
<1> QED  BY <1>1, <1>2, <1>3 DEF DealOk, Dealt

(* While the server starts, the round is what next_io_service_ says.       *)
LEMMA DealStarting ==
  ASSUME IndInv', Starting', Dealt(given', next')
  PROVE  DealOk'
BY DEF IndInv, StartingOk, DealOk, Dealt, Inside

(* The dealing invariant.                                                  *)
THEOREM DealOkHolds == Spec => []DealOk
<1>1. Init => DealOk
  BY PoolSizeAssumption DEF Init, DealOk, Dealt, Services, Inside
<1>2. IndInv /\ IndInv' /\ DealOk /\ [Next]_vars => DealOk'
  <2> SUFFICES ASSUME IndInv, IndInv', DealOk, [Next]_vars PROVE DealOk'  OBVIOUS
  <2>1. ASSUME NEW ok \in BOOLEAN, Resolve(ok) PROVE DealOk'
    <3>1. Starting /\ next \in Services
      BY <2>1 DEF Resolve, Starting, IndInv, StartingOk
    <3>2. Dealt(given', next')
      BY <2>1, <3>1, DealOne DEF Resolve, DealOk
    <3>3. Starting'
      BY <2>1 DEF Resolve, Goto, Starting
    <3> QED  BY <3>2, <3>3, DealStarting
  <2>2. ASSUME NEW result \in {"ok", "skip", "throw"}, Bind(result) PROVE DealOk'
    <3>1. Starting /\ next \in Services
      BY <2>2 DEF Bind, Starting, IndInv, StartingOk
    <3>2. Dealt(given', next')
      BY <2>2, <3>1, DealOne DEF Bind, DealOk
    <3>3. Starting'
      BY <2>2 DEF Bind, Goto, Starting
    <3> QED  BY <3>2, <3>3, DealStarting
  <2>3. CASE StartAccept
    <3>1. Starting /\ next \in Services
      BY <2>3 DEF StartAccept, Starting, IndInv, StartingOk
    <3>2. Dealt(given', next')
      BY <2>3, <3>1, DealOne DEF StartAccept, DealOk
    <3>3. Starting'
      BY <2>3 DEF StartAccept, Goto, Starting
    <3> QED  BY <3>2, <3>3, DealStarting
  <2>4. CASE listen_and_serve
    <3>1. given' = [i \in Services |-> 0] /\ next' = 0 /\ Starting'
      BY <2>4 DEF listen_and_serve, Starting
    <3>2. Dealt(given', next')
      BY <3>1, PoolSizeAssumption DEF Dealt, Services
    <3> QED  BY <3>1, <3>2, DealStarting
  <2>5. CASE Run
    BY <2>5, DealAside DEF Run, Goto, Starting, accept
  <2>6. CASE Close
    <3>1. \A a \in Acceptors : acc'[a] = "none" <=> acc[a] = "none"
      BY <2>6 DEF Close, IndInv, TypeOK, MainOk
    <3>2. ~Starting'
      BY <2>6 DEF Close, Goto, Starting
    <3> QED  BY <2>6, <3>1, <3>2, DealAside DEF Close, pool
  <2>7. CASE Clear
    BY <2>7, DealAside DEF Clear, Goto, Starting, accept
  <2>8. CASE Stop
    BY <2>8, DealAside DEF Stop, Goto, Starting, accept, pool
  <2>9. CASE CallJoin \/ Join
    BY <2>9, DealAside DEF CallJoin, Join, Starting, accept, pool
  <2>10. ASSUME NEW a \in Acceptors,
                HandleAccept(a) \/ AcceptThrows(a) \/ IsOpen(a) \/ AsyncAccept(a)
         PROVE  DealOk'
    <3>1. UNCHANGED <<main, next, given, slot, acc>>
      BY <2>10 DEF HandleAccept, AcceptThrows, IsOpen, AsyncAccept, pool
    <3>2. pc[a] \notin Inside /\ pc'[a] \notin Inside
          /\ \A b \in Acceptors : b # a => pc'[b] = pc[b]
      BY <2>10 DEF HandleAccept, AcceptThrows, IsOpen, AsyncAccept, Inside, Runs, IndInv,
                   TypeOK, LoopOk
    <3> QED  BY <3>1, <3>2, DealAside DEF Starting
  <2>11. ASSUME NEW a \in Acceptors, GetLoad(a) \/ GetIncrement(a) \/ GetWrap(a)
         PROVE  DealOk'
    <3>0. /\ ~Starting' /\ acc[a] # "none" /\ acc' = acc
          /\ given \in [Services -> Nat] /\ slot \in [Acceptors -> Services]
          /\ pc \in [Acceptors -> {"idle", "open?", "get", "increment", "wrap", "arm",
                                   "undefined"}]
      BY <2>11, UnderWay
         DEF GetLoad, GetIncrement, GetWrap, Starting, IndInv, TypeOK
    <3> SUFFICES ASSUME Solo PROVE DealOk'
      BY <3>0 DEF DealOk, Solo
    <3>1. \A b \in Acceptors : b # a => pc[b] = "idle"
      BY <3>0, UnderWay DEF Solo
    <3>2. CASE GetLoad(a)
      <4>1. next \in Services /\ Dealt(given, next)
        BY <3>1, <3>2 DEF GetLoad, DealOk, Inside
      <4>2. next < PoolSize
        BY <4>1, PoolSizeAssumption DEF Services
      <4>3. Dealt(given', next + 1)
        BY <3>0, <3>2, <4>1, <4>2, DealNext DEF GetLoad, Give
      <4>4. pc' = [pc EXCEPT ![a] = "increment"] /\ slot'[a] = next /\ next' = next
        BY <3>0, <3>2, <4>2 DEF GetLoad
      <4> QED  BY <3>0, <3>1, <4>3, <4>4 DEF DealOk, Inside, Dealt
    <3>3. CASE GetIncrement(a)
      <4>1. slot[a] = next /\ Dealt(given, next + 1)
        BY <3>3 DEF GetIncrement, DealOk
      <4>2. /\ pc' = [pc EXCEPT ![a] = "wrap"] /\ next' = slot[a] + 1
            /\ slot' = slot /\ given' = given
        BY <3>3, <4>1 DEF GetIncrement
      <4> QED  BY <3>0, <3>1, <4>1, <4>2 DEF DealOk, Inside, Dealt
    <3>4. CASE GetWrap(a)
      <4>1. next = slot[a] + 1 /\ Dealt(given, next) /\ slot[a] \in Services
        BY <3>0, <3>4 DEF GetWrap, DealOk
      <4>2. /\ pc' = [pc EXCEPT ![a] = "arm"]
            /\ next' = IF next = PoolSize THEN 0 ELSE next
            /\ slot' = slot /\ given' = given
        BY <3>4, <4>1 DEF GetWrap
      <4>3. next' \in Services
        BY <4>1, <4>2, PoolSizeAssumption DEF Services
      <4>4. Dealt(given, next')
        BY <3>0, <4>1, <4>2, DealRound
      <4> QED  BY <3>0, <3>1, <4>2, <4>3, <4>4 DEF DealOk, Inside, Dealt
    <3> QED  BY <2>11, <3>2, <3>3, <3>4
  <2>12. ASSUME NEW a \in Acceptors, NEW result \in {"ok", "err"}, AcceptCompletes(a, result)
         PROVE  DealOk'
    BY <2>12, DealAside DEF AcceptCompletes, Starting, pool
  <2>13. ASSUME NEW c \in Conns, ConnEnds(c) PROVE DealOk'
    BY <2>13, DealAside DEF ConnEnds, Starting, pool, accept
  <2>14. ASSUME NEW i \in Services, RunsOut(i) PROVE DealOk'
    BY <2>14, DealAside DEF RunsOut, Starting, accept
  <2>15. CASE UNCHANGED vars
    BY <2>15, DealAside DEF vars, Starting, pool, accept
  <2> QED  BY <2>1, <2>2, <2>3, <2>4, <2>5, <2>6, <2>7, <2>8, <2>9, <2>10, <2>11, <2>12,
              <2>13, <2>14, <2>15
           DEF Next, Main, Handler
<1> QED  BY <1>1, <1>2, IndInvHolds, PTL DEF Spec

(* get_io_service stays inside the pool and deals evenly as long as one    *)
(* acceptor at most is bound.                                              *)
THEOREM RoundRobinHolds == Spec => []RoundRobin
<1>1. IndInv /\ DealOk => RoundRobin
  <2> DEFINE S == {a \in Acceptors : acc[a] # "none"}
  <2> SUFFICES ASSUME IndInv, DealOk, Cardinality(S) <= 1
               PROVE  IndexInRange /\ \A i, j \in Services : given[i] <= given[j] + 1
    BY DEF RoundRobin
  <2>1. IsFiniteSet(S) /\ Cardinality(S) \in Nat
    <3>1. IsFiniteSet(Acceptors)
      BY EndpointsAssumption, FS_Interval DEF Acceptors
    <3>2. S \in SUBSET Acceptors  OBVIOUS
    <3> QED  BY <3>1, <3>2, FS_Subset, FS_CardinalityType
  <2>2. S = {} \/ \E x : S = {x}
    <3>1. Cardinality(S) = 0 \/ Cardinality(S) = 1
      BY <2>1
    <3> QED  BY <2>1, <3>1, FS_EmptySet, FS_Singleton
  <2>3. Solo
    BY <2>2 DEF Solo
  <2>4. IndexInRange
    BY <2>3 DEF DealOk, IndexInRange
  <2>5. \E n \in Nat : Dealt(given, n)
    <3>1. next \in Nat
      BY DEF IndInv, TypeOK
    <3>2. CASE \A a \in Acceptors : pc[a] \notin Inside
      BY <2>3, <3>1, <3>2 DEF DealOk
    <3>3. CASE \E a \in Acceptors : pc[a] \in Inside
      <4> PICK a \in Acceptors : pc[a] \in Inside  BY <3>3
      <4>1. CASE pc[a] = "increment"
        BY <2>3, <3>1, <4>1 DEF DealOk
      <4>2. CASE pc[a] = "wrap"
        BY <2>3, <3>1, <4>2 DEF DealOk
      <4> QED  BY <2>3, <4>1, <4>2 DEF DealOk, Inside
    <3> QED  BY <3>2, <3>3
  <2>6. \A i \in Services : given[i] \in Nat
    BY DEF IndInv, TypeOK
  <2> QED  BY <2>4, <2>5, <2>6 DEF Dealt
<1> QED  BY <1>1, IndInvHolds, DealOkHolds, PTL
=============================================================================
