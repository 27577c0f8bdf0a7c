------------------------------ MODULE Server ------------------------------
(***************************************************************************)
(* asio_server.cc and asio_io_service_pool.cc, as an http2 object uses     *)
(* them: a pool of io_services, each run by one thread; acceptors that     *)
(* keep one asynchronous accept pending; connections dealt out over the    *)
(* pool; stop() and join() called from other threads while the pool runs;  *)
(* and the server started again after it failed to or was joined.          *)
(*                                                                         *)
(* One thread runs one handler at a time.  Between threads everything      *)
(* interleaves, so an accept handler is cut into its accesses to the data  *)
(* that threads share: the acceptor, next_io_service_, the io_services.    *)
(***************************************************************************)
EXTENDS Naturals, FiniteSets

CONSTANTS
  PoolSize,    \* io_services (num_threads)
  Endpoints,   \* how many endpoints the listening address resolves to
  Conns,       \* connections that clients may make
  MaxGiven     \* bound on the calls of get_io_service a behaviour explores

ASSUME PoolSizeAssumption == PoolSize \in Nat \ {0}

ASSUME EndpointsAssumption == Endpoints \in Nat \ {0}

ASSUME MaxGivenAssumption == MaxGiven \in Nat

Services == 0 .. PoolSize - 1

Acceptors == 1 .. Endpoints

VARIABLES
  main,       \* the thread that calls listen_and_serve and stop
  joiner,     \* the call of join: the application's, or the one run(false) makes
  next,       \* next_io_service_
  given,      \* per service: how often get_io_service returned it
  work,       \* services whose io_service::work object still exists
  run,        \* per service: "ready", "running", "exited", or "thrown": an
              \* exception has left a handler and ended the thread
  acc,        \* per acceptor: "none", "open", "closed"
  home,       \* per acceptor: the service its handlers run on
  pend,       \* per acceptor: its async_accept: "no", "wait", "ok", "err"
  slot,       \* per acceptor: the service of the prepared new_connection
  pc,         \* per acceptor: where its accept handler is
  conn        \* per connection: its service and "none", "open", "done", or
              \* "stranded": accepted onto a service that nobody runs any more

pool == <<next, given, work, run>>

accept == <<acc, home, pend, slot, pc>>

vars == <<main, joiner, pool, accept, conn>>

(* Where the two callers are, and in which round of a loop.                *)
Caller == [at : {"idle", "resolve", "bind", "failed", "accept", "serving", "close",
                 "clear", "stopped"}, i : Nat]

Joiner == [at : {"none", "wait", "joined", "rethrown"}, i : Services]

Connection == [st : {"none", "open", "done", "stranded"}, svc : Services]

Init ==
  /\ main = [at |-> "idle", i |-> 0]
  /\ joiner = [at |-> "none", i |-> 0]
  /\ next = 0
  /\ given = [i \in Services |-> 0]
  /\ work = Services
  /\ run = [i \in Services |-> "ready"]
  /\ acc = [a \in Acceptors |-> "none"]
  /\ home = [a \in Acceptors |-> 0]
  /\ pend = [a \in Acceptors |-> "no"]
  /\ slot = [a \in Acceptors |-> 0]
  /\ pc = [a \in Acceptors |-> "idle"]
  /\ conn = [c \in Conns |-> [st |-> "none", svc |-> 0]]

-----------------------------------------------------------------------------
(* Starting.                                                               *)

Goto(label, i) == main' = [at |-> label, i |-> i] /\ UNCHANGED joiner

(* http2_impl::listen_and_serve: a new server and a new pool.  The ones of *)
(* an attempt that failed, or of a server that was joined, are destroyed,  *)
(* and with their io_services whatever is left of their connections.       *)
listen_and_serve ==
  /\ \/ main.at \in {"idle", "failed"}
     \/ main.at = "stopped" /\ joiner.at = "joined"
  /\ main' = [at |-> "resolve", i |-> 0]
  /\ joiner' = [at |-> "none", i |-> 0]
  /\ next' = 0
  /\ given' = [i \in Services |-> 0]
  /\ work' = Services
  /\ run' = [i \in Services |-> "ready"]
  /\ acc' = [a \in Acceptors |-> "none"]
  /\ home' = [a \in Acceptors |-> 0]
  /\ slot' = [a \in Acceptors |-> 0]
  /\ pend' = [a \in Acceptors |-> "no"]
  /\ pc' = [a \in Acceptors |-> "idle"]
  /\ conn' = [c \in Conns |-> IF conn[c].st = "none" THEN conn[c]
                               ELSE [st |-> "done", svc |-> 0]]

(* get_io_service as one step, for the time before the pool runs: next_io_ *)
(* service_ after a call that returned io_services_[next].                 *)
Advance(n) == IF n + 1 = PoolSize THEN 0 ELSE n + 1

Give(i) == given' = [given EXCEPT ![i] = @ + 1]

(* bind_and_listen: the resolver takes an io_service too; ok: it succeeds. *)
Resolve(ok) ==
  /\ main.at = "resolve"
  /\ IF ok THEN Goto("bind", 1) ELSE Goto("failed", 0)
  /\ next' = Advance(next)
  /\ Give(next)
  /\ UNCHANGED <<work, run, accept, conn>>

(* One endpoint: open, bind and listen succeed, or it is skipped; or       *)
(* set_option throws, and the whole of listen_and_serve fails.             *)
Bind(result) ==
  LET a == main.i
  IN  /\ main.at = "bind"
      /\ next' = Advance(next)
      /\ Give(next)
      /\ home' = [home EXCEPT ![a] = next]
      /\ acc' = [acc EXCEPT ![a] = IF result = "ok" THEN "open" ELSE "none"]
      /\ IF result = "throw" THEN Goto("failed", 0)
         ELSE IF a < Endpoints THEN Goto("bind", a + 1)
         ELSE IF \A b \in Acceptors : acc'[b] = "none" THEN Goto("failed", 0)
         ELSE Goto("accept", 1)
      /\ UNCHANGED <<work, run, pend, slot, pc, conn>>

(* server::listen_and_serve: start_accept for every acceptor, then run.    *)
StartAccept ==
  LET a == main.i
  IN  /\ main.at = "accept"
      /\ a <= Endpoints
      /\ Goto("accept", a + 1)
      /\ IF acc[a] = "open"
         THEN /\ next' = Advance(next)
              /\ Give(next)
              /\ slot' = [slot EXCEPT ![a] = next]
              /\ pend' = [pend EXCEPT ![a] = "wait"]
         ELSE UNCHANGED <<next, given, slot, pend>>
      /\ UNCHANGED <<work, run, acc, home, pc, conn>>

Run ==
  /\ main.at = "accept"
  /\ main.i > Endpoints
  /\ Goto("serving", 0)
  /\ run' = [i \in Services |-> "running"]
  /\ UNCHANGED <<next, given, work, accept, conn>>

-----------------------------------------------------------------------------
(* The accept loop.                                                        *)

(* A client connects, or accepting fails (out of descriptors, say); the    *)
(* bound keeps a failing accept from running for ever.                     *)
AcceptCompletes(a, result) ==
  /\ pend[a] = "wait"
  /\ acc[a] = "open"
  /\ run[home[a]] = "running"
  /\ result = "ok" => Cardinality({b \in Acceptors : pend[b] = "ok"})
                        < Cardinality({c \in Conns : conn[c].st = "none"})
  /\ \A i \in Services : given[i] < MaxGiven
  /\ pend' = [pend EXCEPT ![a] = result]
  /\ UNCHANGED <<main, joiner, pool, acc, home, slot, pc, conn>>

Busy(i) == \E a \in Acceptors : home[a] = i /\ pc[a] # "idle"

Runs(a) == pend[a] \in {"ok", "err"} /\ run[home[a]] = "running" /\ ~Busy(home[a])

(* connection::start, on the service chosen when the accept was begun.     *)
StartConnection(a) ==
  \E c \in Conns :
    /\ conn[c].st = "none"
    /\ conn' = [conn EXCEPT ![c] = [st |-> IF run[slot[a]] = "running" THEN "open"
                                           ELSE "stranded", svc |-> slot[a]]]

(* Variants stand for plausible mistakes; no specification uses them.      *)
(* Variant: an accept error ends the accept loop.                          *)
HandleAcceptGivesUp(a) ==
  /\ Runs(a)
  /\ pend' = [pend EXCEPT ![a] = "no"]
  /\ pc' = [pc EXCEPT ![a] = IF pend[a] = "ok" THEN "open?" ELSE "idle"]
  /\ IF pend[a] = "ok" THEN StartConnection(a) ELSE UNCHANGED conn
  /\ UNCHANGED <<main, joiner, pool, acc, home, slot>>

(* The handler of async_accept: on success the connection is started; the  *)
(* loop goes on either way.                                                *)
HandleAccept(a) ==
  /\ Runs(a)
  /\ pend' = [pend EXCEPT ![a] = "no"]
  /\ pc' = [pc EXCEPT ![a] = "open?"]
  /\ IF pend[a] = "ok" THEN StartConnection(a) ELSE UNCHANGED conn
  /\ UNCHANGED <<main, joiner, pool, acc, home, slot>>

(* set_option throws, for a peer that is gone already.  The exception      *)
(* leaves io_service::run, and with it the thread; the future keeps it.    *)
AcceptThrows(a) ==
  /\ Runs(a)
  /\ pend[a] = "ok"
  /\ pend' = [pend EXCEPT ![a] = "no"]
  /\ run' = [run EXCEPT ![home[a]] = "thrown"]
  /\ UNCHANGED <<main, joiner, next, given, work, acc, home, slot, pc, conn>>

(* start_accept: if (!acceptor.is_open()) return.                          *)
IsOpen(a) ==
  /\ pc[a] = "open?"
  /\ pc' = [pc EXCEPT ![a] = IF acc[a] = "open" THEN "get" ELSE "idle"]
  /\ UNCHANGED <<main, joiner, pool, acc, home, pend, slot, conn>>

(* get_io_service on a pool thread, in its three accesses to               *)
(* next_io_service_.  They are not synchronised: a thread goes on with the *)
(* value it loaded or with the one it finds.                               *)
GetLoad(a) ==
  /\ pc[a] = "get"
  /\ IF next < PoolSize
     THEN /\ pc' = [pc EXCEPT ![a] = "increment"]
          /\ slot' = [slot EXCEPT ![a] = next]
          /\ Give(next)
     ELSE /\ pc' = [pc EXCEPT ![a] = "undefined"]
          /\ UNCHANGED <<slot, given>>
  /\ UNCHANGED <<main, joiner, next, work, run, acc, home, pend, conn>>

GetIncrement(a) ==
  /\ pc[a] = "increment"
  /\ pc' = [pc EXCEPT ![a] = "wrap"]
  /\ next' \in {next + 1, slot[a] + 1}
  /\ UNCHANGED <<main, joiner, given, work, run, acc, home, pend, slot, conn>>

(* Variant: the index always goes back to the first service.               *)
GetWrapAlways(a) ==
  /\ pc[a] = "wrap"
  /\ pc' = [pc EXCEPT ![a] = "arm"]
  /\ next' = 0
  /\ UNCHANGED <<main, joiner, given, work, run, acc, home, pend, slot, conn>>

GetWrap(a) ==
  /\ pc[a] = "wrap"
  /\ pc' = [pc EXCEPT ![a] = "arm"]
  /\ \E seen \in {next, slot[a] + 1} :
       next' = IF seen = PoolSize THEN 0 ELSE next
  /\ UNCHANGED <<main, joiner, given, work, run, acc, home, pend, slot, conn>>

(* async_accept; on an acceptor closed meanwhile it completes with an      *)
(* error.                                                                  *)
AsyncAccept(a) ==
  /\ pc[a] = "arm"
  /\ pc' = [pc EXCEPT ![a] = "idle"]
  /\ pend' = [pend EXCEPT ![a] = IF acc[a] = "open" THEN "wait" ELSE "err"]
  /\ UNCHANGED <<main, joiner, pool, acc, home, slot, conn>>

-----------------------------------------------------------------------------
(* Connections end (module ServerConnection) and io_services run out.      *)

ConnEnds(c) ==
  /\ conn[c].st = "open"
  /\ run[conn[c].svc] = "running"
  /\ ~Busy(conn[c].svc)
  /\ conn' = [conn EXCEPT ![c] = [st |-> "done", svc |-> 0]]
  /\ UNCHANGED <<main, joiner, pool, accept>>

(* io_service::run returns when there is nothing left for it to do.        *)
RunsOut(i) ==
  /\ run[i] = "running"
  /\ i \notin work
  /\ ~Busy(i)
  /\ \A a \in Acceptors : home[a] = i => pend[a] = "no"
  /\ \A c \in Conns : conn[c].st = "open" => conn[c].svc # i
  /\ run' = [run EXCEPT ![i] = "exited"]
  /\ UNCHANGED <<main, joiner, next, given, work, accept, conn>>

-----------------------------------------------------------------------------
(* server::stop and server::join.                                          *)

Stop ==
  /\ main.at = "serving"
  /\ Goto("close", 1)
  /\ UNCHANGED <<pool, accept, conn>>

(* Variant: the acceptors are left open.                                   *)
CloseNothing ==
  LET a == main.i
  IN  /\ main.at = "close"
      /\ IF a < Endpoints THEN Goto("close", a + 1) ELSE Goto("clear", 0)
      /\ UNCHANGED <<pool, accept, conn>>

(* acceptor.close() cancels the pending accept, unless it has completed.   *)
Close ==
  LET a == main.i
  IN  /\ main.at = "close"
      /\ IF a < Endpoints THEN Goto("close", a + 1) ELSE Goto("clear", 0)
      /\ acc' = [acc EXCEPT ![a] = IF @ = "open" THEN "closed" ELSE @]
      /\ pend' = [pend EXCEPT ![a] = IF @ = "wait" THEN "err" ELSE @]
      /\ UNCHANGED <<pool, home, slot, pc, conn>>

(* io_service_pool::stop: work_.clear(), one work object after another.    *)
Clear ==
  LET i == main.i
  IN  /\ main.at = "clear"
      /\ IF i < PoolSize - 1 THEN Goto("clear", i + 1) ELSE Goto("stopped", 0)
      /\ work' = work \ {i}
      /\ UNCHANGED <<next, given, run, accept, conn>>

(* join() is called, before stop() or after it, by the application or by   *)
(* run() itself unless asynchronous.                                       *)
CallJoin ==
  /\ main.at \in {"serving", "close", "clear", "stopped"}
  /\ joiner.at = "none"
  /\ joiner' = [at |-> "wait", i |-> 0]
  /\ UNCHANGED <<main, pool, accept, conn>>

(* Variant: only the first thread is waited for.                           *)
JoinFirst ==
  /\ joiner.at = "wait"
  /\ run[joiner.i] \in {"exited", "thrown"}
  /\ joiner' = [joiner EXCEPT !.at = IF run[joiner.i] = "thrown" THEN "rethrown" ELSE "joined"]
  /\ UNCHANGED <<main, pool, accept, conn>>

(* io_service_pool::join: fut.get() for one thread after another; the      *)
(* exception that ended a thread comes out of it.                          *)
Join ==
  LET i == joiner.i
  IN  /\ joiner.at = "wait"
      /\ run[i] \in {"exited", "thrown"}
      /\ joiner' = IF run[i] = "thrown" THEN [joiner EXCEPT !.at = "rethrown"]
                   ELSE IF i < PoolSize - 1 THEN [joiner EXCEPT !.i = i + 1]
                   ELSE [joiner EXCEPT !.at = "joined"]
      /\ UNCHANGED <<main, pool, accept, conn>>

-----------------------------------------------------------------------------
Main ==
  \/ \E ok \in BOOLEAN : Resolve(ok)
  \/ \E result \in {"ok", "skip", "throw"} : Bind(result)
  \/ StartAccept
  \/ Run
  \/ Close
  \/ Clear

Handler(a) ==
  \/ HandleAccept(a)
  \/ AcceptThrows(a)
  \/ IsOpen(a)
  \/ GetLoad(a)
  \/ GetIncrement(a)
  \/ GetWrap(a)
  \/ AsyncAccept(a)

Next ==
  \/ Main
  \/ listen_and_serve
  \/ Stop
  \/ CallJoin
  \/ Join
  \/ \E a \in Acceptors : Handler(a)
  \/ \E a \in Acceptors, result \in {"ok", "err"} : AcceptCompletes(a, result)
  \/ \E c \in Conns : ConnEnds(c)
  \/ \E i \in Services : RunsOut(i)

Spec == Init /\ [][Next]_vars

(* Threads run, and every connection ends: its deadline sees to that       *)
(* (SilentPeerReclaimed in ServerConnection).                              *)
Fairness ==
  /\ WF_vars(Main)
  /\ WF_vars(Join)
  /\ \A a \in Acceptors : WF_vars(Handler(a))
  /\ \A c \in Conns : WF_vars(ConnEnds(c))
  /\ \A i \in Services : WF_vars(RunsOut(i))

FairSpec == Spec /\ Fairness

-----------------------------------------------------------------------------
(* The variables have their types.                                         *)
TypeOK ==
  /\ main \in Caller
  /\ joiner \in Joiner
  /\ next \in Nat
  /\ given \in [Services -> Nat]
  /\ work \subseteq Services
  /\ run \in [Services -> {"ready", "running", "exited", "thrown"}]
  /\ acc \in [Acceptors -> {"none", "open", "closed"}]
  /\ home \in [Acceptors -> Services]
  /\ pend \in [Acceptors -> {"no", "wait", "ok", "err"}]
  /\ slot \in [Acceptors -> Services]
  /\ pc \in [Acceptors -> {"idle", "open?", "get", "increment", "wrap", "arm",
                           "undefined"}]
  /\ conn \in [Conns -> Connection]

(* get_io_service always finds an io_service: next_io_service_ is a valid  *)
(* index whenever it is used.                                              *)
IndexInRange == \A a \in Acceptors : pc[a] # "undefined"

(* "Use a round-robin scheme to choose the next io_service to use": as     *)
(* long as one acceptor at most is bound, get_io_service stays inside the  *)
(* pool and hands out no io_service more than once more than another.      *)
RoundRobin ==
  Cardinality({a \in Acceptors : acc[a] # "none"}) <= 1
    => IndexInRange /\ \A i, j \in Services : given[i] <= given[j] + 1

(* The accept loop neither breaks nor doubles: while an acceptor is open   *)
(* and the server runs, it has a pending accept or its handler is running, *)
(* never both, whatever accepts failed; only the end of its thread by an   *)
(* exception ends it.                                                      *)
AcceptLoop ==
  /\ TypeOK
  /\ \A a \in Acceptors :
       /\ pc[a] # "idle" => pend[a] = "no"
       /\ main.at = "serving" /\ acc[a] = "open" /\ run[home[a]] = "running"
            => pc[a] # "idle" \/ pend[a] # "no"

(* When join() has returned the server is at rest, and ~http2_impl, which  *)
(* destroys mux_ before server_, takes it from nobody: every thread has    *)
(* exited, no accept handler is under way, and no connection is open       *)
(* except those accepted onto a service that had run out already.          *)
JoinedIsAtRest ==
  joiner.at = "joined" =>
    /\ \A i \in Services : run[i] = "exited"
    /\ \A a \in Acceptors : pc[a] = "idle" /\ pend[a] = "no"
    /\ \A c \in Conns : conn[c].st # "open"

(* stop() ends join(), whichever was called first: the accept loops notice *)
(* the closed acceptors, the connections end, every io_service::run        *)
(* returns, or throws what join() throws on.  Nothing can be said once     *)
(* get_io_service has indexed outside the pool.                            *)
Joins ==
  main.at \in {"close", "clear", "stopped"} /\ joiner.at = "wait"
    ~> joiner.at \in {"joined", "rethrown"} \/ ~IndexInRange

(* asio_http2_server.h, join(): "wait for it to fully stop": when join()   *)
(* has returned, no accepted connection is still open.                     *)
FullyStopped ==
  joiner.at = "joined" => \A c \in Conns : conn[c].st \notin {"open", "stranded"}

=============================================================================
