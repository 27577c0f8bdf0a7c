--------------------------- MODULE ClientSession ---------------------------
(***************************************************************************)
(* The client session: session_impl (asio_client_session_impl.cc) with its *)
(* TCP and TLS transports.  It resolves, connects, shakes hands and then    *)
(* runs a read loop, a write loop, a deadline and a ping timer beside the   *)
(* requests the application submits.                                       *)
(*                                                                         *)
(* All handlers and all calls of the application run on one io_service     *)
(* thread.  A handler is cut into steps only where nghttp2 calls back:     *)
(* inside nghttp2_session_mem_recv (pc = "recv") and inside the            *)
(* nghttp2_session_mem_send loop of do_write (pc = "send").  do_write is    *)
(* also reached from submit, cancel, resume, write_trailer, shutdown and    *)
(* handle_ping, through signal_write; caller says where it returns to.     *)
(*                                                                         *)
(* Of nghttp2 (external) the model keeps the state of the streams, how     *)
(* many frames it has ready, whether it wants to read, and whether it still *)
(* starts requests.                                                        *)
(***************************************************************************)
EXTENDS Naturals, Asio

CONSTANTS Requests,  \* ids of the streams the application may submit
          Pushes,    \* ids of the streams the server may promise
          OutBuf,    \* frames that fit into wb_
          MaxOut     \* bound: frames nghttp2 has ready to be sent

\* Where do_write is called from, apart from submit.
Callers == {"none", "connected", "read", "write", "ping", "app"}

ASSUME IdsAssumption == Requests \intersect Pushes = {}
ASSUME CallersAssumption == (Requests \union Pushes) \intersect Callers = {}
ASSUME OutBufAssumption == OutBuf \in Nat \ {0}
ASSUME MaxOutAssumption == MaxOut \in Nat \ {0}

VARIABLES io,       \* the socket, the resolver, the deadline timer and the queue
          ping,     \* ping_: its wait, and a wait that ran out with its handler queued
          setup,    \* setup_session: not called yet, done, or failed
          pc,       \* what the io_service thread is doing
          caller,   \* where do_write returns to, while pc = "send": a handler, a call
                    \* of the application, or submit of a stream
          stopped,  \* stopped_
          writing,  \* writing_
          pending,  \* data_pending_ # nullptr
          len,      \* wblen_, in frames
          wantRead, \* nghttp2_session_want_read
          goaway,   \* why nghttp2 starts no more requests: GOAWAY received, shutdown
          out,      \* frames nghttp2 has ready to be sent
          nst,      \* the state of every stream inside nghttp2
          streams,  \* the keys of streams_
          told,     \* the on_connect and on_error callbacks made, in order
          held      \* the application holds the session object

ioVars == <<io, ping, setup, told, held>>
loopVars == <<pc, caller, stopped, writing, pending, len>>
nghttp2Vars == <<wantRead, goaway, out, nst>>
vars == <<ioVars, loopVars, nghttp2Vars, streams>>

-----------------------------------------------------------------------------
Ops == {"resolve", "connect", "handshake", "read", "write", "deadline"}
Ids == Requests \union Pushes

Ready(op) == pc = "idle" /\ IsNext(io, op)

Popped(op) == Dequeue(io, op)

\* The operations that wait, or whose handlers are queued.
Outstanding(i) == {op \in Ops : i.st[op] # "off"}

\* The session object exists while the application or a handler refers to it.
Alive == \/ held
         \/ pc # "idle"
         \/ Outstanding(io) # {}
         \/ ping.wait \/ ping.due

CloseSocket(i) ==
    [Abort(Abort(Abort(Abort(i, "connect"), "handshake"), "read"), "write")
       EXCEPT !.open = FALSE]

want_write == out > 0

\* Variant (variants stand for plausible mistakes; no specification uses them): a
\* write that is outstanding is forgotten.
should_stopWhileWriting == ~wantRead /\ ~want_write

should_stop == ~writing /\ ~wantRead /\ ~want_write

\* Starting a wait of ping_ replaces the one before; cancelling it does not reach
\* a handler that is queued.
start_ping(p) == [p EXCEPT !.wait = TRUE]

cancel_ping(p) == [p EXCEPT !.wait = FALSE]

\* Variant: an error after stop() is reported.
call_error_cbAlways == told' = Append(told, "error")

call_error_cb == told' = IF stopped THEN told ELSE Append(told, "error")

\* Variant: the socket stays open.
stopLeavesSocket(i) == CancelDeadline(i)

\* session_impl::stop: the socket and the deadline, and all of it.
stop(i) == CancelDeadline(CloseSocket(i))

Stop(i) == /\ io' = IF stopped THEN i ELSE stop(i)
           /\ ping' = IF stopped THEN ping ELSE cancel_ping(ping)
           /\ stopped' = TRUE

Fail(i) == call_error_cb /\ Stop(i)

do_read(i) == IF stopped THEN i ELSE Begin(ExpiresFromNow(i), "read")

async_write(i) == Begin(ExpiresFromNow(i), "write")

\* async_connect opens the socket.
start_connect(i) == Begin([i EXCEPT !.open = TRUE], "connect")

\* The entries of streams_: created by submit and for a promise, popped when
\* nghttp2 closes the stream.
emplace(id) == /\ streams' = streams \union {id}
               /\ ping' = cancel_ping(ping)

pop_stream(id) == /\ streams' = streams \ {id}
                  /\ ping' = IF streams = {id} THEN start_ping(ping) ELSE ping

-----------------------------------------------------------------------------
(* Connecting.  Init is the state after the constructor of session, which   *)
(* calls start_resolve.                                                     *)

Init == /\ io = [st |-> [op \in Ops |->
                          IF op \in {"resolve", "deadline"} THEN "wait" ELSE "off"],
                 queue |-> <<>>, open |-> FALSE, expiry |-> "running"]
        /\ ping = [wait |-> FALSE, due |-> FALSE]
        /\ setup = "none"
        /\ pc = "idle"
        /\ caller = "none"
        /\ stopped = FALSE
        /\ writing = FALSE
        /\ pending = FALSE
        /\ len = 0
        /\ wantRead = TRUE
        /\ goaway = "no"
        /\ out = 0
        /\ nst = [id \in Ids |-> "idle"]
        /\ streams = {}
        /\ told = <<>>
        /\ held = TRUE

\* The handler of async_resolve.
HandleResolve == /\ Ready("resolve")
                 /\ \/ /\ io.st["resolve"] = "err"
                       /\ Fail(Popped("resolve"))
                    \/ /\ io.st["resolve"] = "ok"
                       /\ io' = start_connect(Popped("resolve"))
                       /\ UNCHANGED <<told, stopped, ping>>
                 /\ UNCHANGED <<setup, held, pc, caller, writing, pending, len,
                                nghttp2Vars, streams>>

\* session_impl::connected: setup_session, then do_write, which is entered with
\* the SETTINGS frame and the WINDOW_UPDATE of the connection.
connected(i) == \/ /\ setup' = "failed"
                   /\ io' = i
                   /\ call_error_cb
                   /\ UNCHANGED <<pc, caller, len, out>>
                \/ /\ setup' = "done"
                   /\ out' = 1
                   /\ pc' = "send"
                   /\ caller' = "connected"
                   /\ io' = i
                   /\ UNCHANGED <<len, told>>

\* The connect handler.  The last two disjuncts are session_tcp_impl and
\* session_tls_impl; a session connects once, so it is one of them throughout.
HandleConnect ==
    /\ Ready("connect")
    /\ \/ /\ stopped
          /\ io' = Popped("connect")
          /\ UNCHANGED <<ping, setup, told, pc, caller, stopped, len, out>>
       \/ /\ ~stopped
          /\ io.st["connect"] = "err"
          /\ Fail(Popped("connect"))
          /\ UNCHANGED <<setup, pc, caller, len, out>>
       \/ /\ ~stopped
          /\ io.st["connect"] = "ok"
          /\ connected(Popped("connect"))
          /\ UNCHANGED <<ping, stopped>>
       \/ /\ ~stopped
          /\ io.st["connect"] = "ok"
          /\ io' = Begin(Popped("connect"), "handshake")
          /\ UNCHANGED <<ping, setup, told, pc, caller, stopped, len, out>>
    /\ UNCHANGED <<held, writing, pending, wantRead, goaway, nst, streams>>

\* Variant: the handler does not look at stopped_.
HandleHandshakeLate ==
    /\ Ready("handshake")
    /\ \/ /\ io.st["handshake"] = "err"
          /\ Fail(Popped("handshake"))
          /\ UNCHANGED <<setup, pc, caller, len, out>>
       \/ /\ io.st["handshake"] = "ok"
          /\ connected(Popped("handshake"))
          /\ UNCHANGED <<ping, stopped>>
    /\ UNCHANGED <<held, writing, pending, wantRead, goaway, nst, streams>>

\* The handshake handler of the TLS session; no "h2" is an error as well.
HandleHandshake ==
    /\ Ready("handshake")
    /\ \/ /\ stopped
          /\ io' = Popped("handshake")
          /\ UNCHANGED <<ping, setup, told, pc, caller, stopped, len, out>>
       \/ /\ ~stopped
          /\ Fail(Popped("handshake"))
          /\ UNCHANGED <<setup, pc, caller, len, out>>
       \/ /\ ~stopped
          /\ io.st["handshake"] = "ok"
          /\ connected(Popped("handshake"))
          /\ UNCHANGED <<ping, stopped>>
    /\ UNCHANGED <<held, writing, pending, wantRead, goaway, nst, streams>>

\* Variant: the wait is not renewed after the deadline has moved.
HandleDeadlineOnce ==
    /\ Ready("deadline")
    /\ \/ /\ ~stopped
          /\ io.expiry = "expired"
          /\ Fail(Popped("deadline"))
       \/ /\ stopped \/ io.expiry # "expired"
          /\ io' = Popped("deadline")
          /\ UNCHANGED <<ping, told, stopped>>
    /\ UNCHANGED <<setup, held, pc, caller, writing, pending, len, nghttp2Vars, streams>>

HandleDeadline ==
    /\ Ready("deadline")
    /\ \/ /\ stopped
          /\ io' = Popped("deadline")
          /\ UNCHANGED <<ping, told, stopped>>
       \/ /\ ~stopped
          /\ io.expiry = "expired"
          /\ call_error_cb
          /\ io' = [stop(Popped("deadline")) EXCEPT !.expiry = "never"]
          /\ ping' = cancel_ping(ping)
          /\ stopped' = TRUE
       \/ /\ ~stopped
          /\ io.expiry # "expired"
          /\ io' = Begin(Popped("deadline"), "deadline")
          /\ UNCHANGED <<ping, told, stopped>>
    /\ UNCHANGED <<setup, held, pc, caller, writing, pending, len, nghttp2Vars, streams>>

-----------------------------------------------------------------------------
(* The write loop.                                                         *)

\* do_write up to the first nghttp2_session_mem_send.
EnterSend(from, i, n) == /\ pc' = "send"
                         /\ caller' = from
                         /\ io' = i
                         /\ len' = IF pending THEN n + 1 ELSE n
                         /\ pending' = FALSE

\* What the callers of do_write do after it: connected reads, pings and tells the
\* application; the read handler reads on; handle_ping waits again; submit enters
\* the stream into streams_.  i, p, t and s are what do_write left behind.
Return(from, i, p, t, s) ==
    /\ pc' = "idle"
    /\ caller' = "none"
    /\ stopped' = s
    /\ io' = IF from \in {"connected", "read"} /\ ~s
             THEN Begin(ExpiresFromNow(i), "read")
             ELSE i
    /\ ping' = CASE from \in {"connected", "ping"} -> start_ping(p)
                 [] from \in Requests -> cancel_ping(p)
                 [] OTHER -> p
    /\ told' = IF from = "connected" THEN Append(t, "connect") ELSE t
    /\ streams' = IF from \in Requests THEN streams \union {from} ELSE streams

\* nghttp2_session_mem_send returns a frame, which may open a stream.  Once the
\* GOAWAY of shutdown is out nghttp2 does not want to read.
FrameOut == /\ pc = "send"
            /\ out > 0
            /\ out' = out - 1
            /\ nst' \in {nst} \union
                   {[nst EXCEPT ![id] = "open"] : id \in {q \in Requests : nst[q] = "queued"}}
            /\ wantRead' \in {wantRead, FALSE}
            /\ goaway = "term" /\ out' = 0 => ~wantRead'

SendFrame == /\ FrameOut
             /\ len < OutBuf
             /\ len' = len + 1
             /\ UNCHANGED <<ioVars, pc, caller, stopped, writing, pending, goaway, streams>>

\* A stream ends with a frame that has been sent: on_stream_close_callback.
SendClose(id) == /\ pc = "send"
                 /\ nst[id] = "open"
                 /\ nst' = [nst EXCEPT ![id] = "closed"]
                 /\ pop_stream(id)
                 /\ UNCHANGED <<io, setup, told, held, loopVars, wantRead, goaway, out>>

\* nghttp2 gives up a request it cannot send any more and closes its stream.
SendRefused(id) == /\ pc = "send"
                   /\ out > 0
                   /\ out' = out - 1
                   /\ nst[id] = "canceled" \/ (nst[id] = "queued" /\ goaway # "no")
                   /\ nst' = [nst EXCEPT ![id] = "closed"]
                   /\ pop_stream(id)
                   /\ UNCHANGED <<io, setup, told, held, loopVars, wantRead, goaway>>

\* do_write after its loop.
SendReturns(written) ==
    \/ /\ written
       /\ writing' = TRUE
       /\ Return(caller, async_write(io), ping, told, stopped)
    \/ /\ ~written
       /\ should_stop
       /\ Return(caller, stop(io), cancel_ping(ping), told, TRUE)
       /\ UNCHANGED writing
    \/ /\ ~written
       /\ ~should_stop
       /\ Return(caller, io, ping, told, stopped)
       /\ UNCHANGED writing

SendDrained == /\ pc = "send"
               /\ out = 0
               /\ SendReturns(len > 0)
               /\ UNCHANGED <<setup, held, pending, len, nghttp2Vars>>

\* The frame does not fit into wb_; data_pending_ remembers it.
SendFull == /\ FrameOut
            /\ len = OutBuf
            /\ pending' = TRUE
            /\ SendReturns(TRUE)
            /\ UNCHANGED <<setup, held, len, goaway>>

SendFail == /\ pc = "send"
            /\ Return(caller, stop(io), cancel_ping(ping),
                      Append(told, "error"), TRUE)
            /\ UNCHANGED <<setup, held, writing, pending, len, nghttp2Vars>>

HandleWrite ==
    /\ Ready("write")
    /\ \/ /\ io.st["write"] = "err"
          /\ Fail(Popped("write"))
          /\ UNCHANGED <<pc, caller, writing, pending, len>>
       \/ /\ io.st["write"] = "ok"
          /\ writing' = FALSE
          /\ \/ /\ stopped
                /\ io' = Popped("write")
                /\ len' = 0
                /\ UNCHANGED <<pc, caller, pending>>
             \/ ~stopped /\ EnterSend("write", Popped("write"), 0)
          /\ UNCHANGED <<ping, told, stopped>>
    /\ UNCHANGED <<setup, held, nghttp2Vars, streams>>

-----------------------------------------------------------------------------
(* The read loop.                                                          *)

HandleRead ==
    /\ Ready("read")
    /\ \/ /\ io.st["read"] = "err"
          /\ IF should_stop THEN UNCHANGED told ELSE call_error_cb
          /\ Stop(Popped("read"))
          /\ UNCHANGED pc
       \/ /\ io.st["read"] = "ok"
          /\ pc' = "recv"
          /\ io' = Popped("read")
          /\ UNCHANGED <<ping, told, stopped>>
    /\ UNCHANGED <<setup, held, caller, writing, pending, len, nghttp2Vars, streams>>

\* nghttp2 handles received frames, answers some of them, and learns of GOAWAY.
MemRecv == /\ pc = "recv"
           /\ wantRead' \in {wantRead, FALSE}
           /\ goaway' \in {goaway} \union {g \in {"received"} : goaway = "no"}
           /\ out' \in {out, out + 1}
           /\ out' <= MaxOut
           /\ UNCHANGED <<ioVars, loopVars, nst, streams>>

\* on_stream_close_callback for a stream the peer ended or reset.
RecvClose(id) == /\ pc = "recv"
                 /\ nst[id] = "open"
                 /\ nst' = [nst EXCEPT ![id] = "closed"]
                 /\ pop_stream(id)
                 /\ UNCHANGED <<io, setup, told, held, loopVars, wantRead, goaway, out>>

\* on_begin_headers_callback for PUSH_PROMISE: create_push_stream.
RecvPush(id) == /\ pc = "recv"
                /\ nst[id] = "idle"
                /\ \E r \in Requests : nst[r] = "open"
                /\ nst' = [nst EXCEPT ![id] = "open"]
                /\ emplace(id)
                /\ UNCHANGED <<io, setup, told, held, loopVars, wantRead, goaway, out>>

RecvFail == /\ pc = "recv"
            /\ pc' = "idle"
            /\ Fail(io)
            /\ UNCHANGED <<setup, held, caller, writing, pending, len, nghttp2Vars, streams>>

\* Variants of RecvDone below: do_write does not look at writing_; the read handler
\* does not call do_write.
RecvDoneWhileWriting ==
    /\ pc = "recv"
    /\ \/ /\ stopped
          /\ Return("read", io, ping, told, stopped)
          /\ UNCHANGED <<len, pending>>
       \/ /\ ~stopped
          /\ EnterSend("read", io, 0)
          /\ UNCHANGED <<stopped, ping, told, streams>>
    /\ UNCHANGED <<setup, held, writing, nghttp2Vars>>

RecvDoneNoWrite == /\ pc = "recv"
                   /\ Return("read", io, ping, told, stopped)
                   /\ UNCHANGED <<setup, held, writing, len, pending, nghttp2Vars>>

\* The read handler goes on to do_write, which returns at once when the session
\* is stopped or writing; then should_stop cannot hold unless it is stopped.
RecvDone == /\ pc = "recv"
            /\ \/ /\ stopped \/ writing
                  /\ Return("read", io, ping, told, stopped)
                  /\ UNCHANGED <<len, pending>>
               \/ /\ ~stopped /\ ~writing
                  /\ EnterSend("read", io, len)
                  /\ UNCHANGED <<stopped, ping, told, streams>>
            /\ UNCHANGED <<setup, held, writing, nghttp2Vars>>

-----------------------------------------------------------------------------
(* The application and the ping timer.                                     *)

\* signal_write at the end of a call that has nothing to do after it.
signal_write == \/ /\ pc # "idle" \/ stopped \/ writing
                   /\ UNCHANGED <<io, pc, caller, len, pending>>
                \/ /\ pc = "idle" /\ ~stopped /\ ~writing
                   /\ EnterSend("app", io, len)

\* The application runs on its own or in a callback for one of its streams.
AppRuns == pc = "idle" \/ \E id \in Ids : nst[id] # "idle"

MoreOut == out' \in {out, out + 1} /\ out' <= MaxOut

\* session_impl::submit.
submit(id) == /\ held /\ setup = "done" /\ ~stopped /\ AppRuns
              /\ nst[id] = "idle"
              /\ nst' = [nst EXCEPT ![id] = "queued"]
              /\ MoreOut
              /\ \/ /\ pc # "idle" \/ writing
                    /\ emplace(id)
                    /\ UNCHANGED <<io, pc, caller, len, pending>>
                 \/ /\ pc = "idle" /\ ~writing
                    /\ EnterSend(id, io, len)
                    /\ UNCHANGED <<streams, ping>>
              /\ UNCHANGED <<setup, told, held, stopped, writing, wantRead, goaway>>

\* cancel: RST_STREAM for an open stream; a request that waits is taken back.
cancel(id) == /\ Alive /\ id \in streams /\ ~stopped
              /\ \/ /\ nst[id] = "queued"
                    /\ nst' = [nst EXCEPT ![id] = "canceled"]
                    /\ UNCHANGED out
                 \/ /\ nst[id] # "queued"
                    /\ MoreOut
                    /\ UNCHANGED nst
              /\ signal_write
              /\ UNCHANGED <<ping, setup, told, held, stopped, writing, wantRead, goaway, streams>>

\* resume, and write_trailer, which does not look at stopped_.
resume(id) == /\ Alive /\ id \in streams
              /\ MoreOut
              /\ signal_write
              /\ UNCHANGED <<ping, setup, told, held, stopped, writing, wantRead, goaway, nst,
                             streams>>

shutdown == /\ held /\ setup = "done" /\ ~stopped /\ AppRuns
            /\ goaway' = "term"
            /\ out' = IF goaway = "term" THEN out ELSE out + 1
            /\ out' <= MaxOut
            /\ signal_write
            /\ UNCHANGED <<ping, setup, told, held, stopped, writing, wantRead, nst, streams>>

HandlePing ==
    /\ pc = "idle"
    /\ ping.due
    /\ \/ /\ stopped \/ streams # {}
          /\ ping' = [ping EXCEPT !.due = FALSE]
          /\ UNCHANGED <<io, out, pc, caller, len, pending>>
       \/ /\ ~stopped /\ streams = {}
          /\ out < MaxOut
          /\ out' = out + 1
          /\ \/ /\ writing
                /\ ping' = [wait |-> TRUE, due |-> FALSE]
                /\ UNCHANGED <<io, pc, caller, len, pending>>
             \/ /\ ~writing
                /\ EnterSend("ping", io, len)
                /\ ping' = [ping EXCEPT !.due = FALSE]
    /\ UNCHANGED <<setup, told, held, stopped, writing, wantRead, goaway, nst, streams>>

-----------------------------------------------------------------------------
(* The environment: resolver, peer, clock, and the end of the session.     *)

Completes(op) == /\ io.st[op] = "wait"
                 /\ \E result \in {"ok", "err"} : io' = Complete(io, op, result)
                 /\ UNCHANGED <<ping, setup, told, held, loopVars, nghttp2Vars, streams>>

PeerActs == \E op \in Ops \ {"deadline"} : Completes(op)

\* getaddrinfo returns and the kernel gives up connecting, each after a while.
ConnectEnds == Completes("resolve") \/ Completes("connect")

Expire == /\ io.expiry = "running"
          /\ io' = DeadlinePasses(io)
          /\ UNCHANGED <<ping, setup, told, held, loopVars, nghttp2Vars, streams>>

\* Waits of ping_ are 30 seconds long: one runs out only after the handler of the
\* one before has run.
PingFires == /\ ping.wait /\ ~ping.due
             /\ ping' = [wait |-> FALSE, due |-> TRUE]
             /\ UNCHANGED <<io, setup, told, held, loopVars, nghttp2Vars, streams>>

\* The application drops its session object.
Release == /\ held /\ pc = "idle"
           /\ held' = FALSE
           /\ UNCHANGED <<io, ping, setup, told, loopVars, nghttp2Vars, streams>>

\* ~session_impl calls on_close for the streams that are left.
Destroy == /\ ~Alive /\ streams # {}
           /\ streams' = {}
           /\ UNCHANGED <<ioVars, loopVars, nghttp2Vars>>

Dispatch == \/ HandleResolve \/ HandleConnect \/ HandleHandshake \/ HandleDeadline
            \/ HandleRead \/ HandleWrite

Recv == RecvFail \/ RecvDone

Send == SendFrame \/ SendDrained \/ SendFull \/ SendFail

Callback == \/ MemRecv
            \/ \E id \in Ids : SendClose(id) \/ SendRefused(id) \/ RecvClose(id)
            \/ \E id \in Pushes : RecvPush(id)

App == \/ \E id \in Requests : submit(id)
       \/ \E id \in Ids : cancel(id) \/ resume(id)
       \/ shutdown

Next == \/ Dispatch \/ HandlePing \/ Recv \/ Send \/ Callback \/ App
        \/ PeerActs \/ Expire \/ PingFires \/ Release \/ Destroy

Spec == Init /\ [][Next]_vars

\* The thread runs what is queued (first come, first served, so tasks of the
\* application cannot keep a handler from running), nghttp2 returns from the calls
\* made to it, and time passes.  Nothing is assumed of the peer or the application.
Fairness == /\ SF_vars(Dispatch) /\ SF_vars(HandlePing) /\ WF_vars(Recv) /\ WF_vars(Send)
            /\ WF_vars(Expire) /\ WF_vars(PingFires) /\ WF_vars(Destroy)

FairSpec == Spec /\ Fairness

-----------------------------------------------------------------------------
\* The variables have their types; wb_ and nghttp2 hold no more than they can.
TypeOK == /\ io \in Io(Ops)
          /\ ping \in [wait : BOOLEAN, due : BOOLEAN]
          /\ setup \in {"none", "done", "failed"}
          /\ pc \in {"idle", "recv", "send"}
          /\ caller \in Callers \union Requests
          /\ stopped \in BOOLEAN
          /\ writing \in BOOLEAN
          /\ pending \in BOOLEAN
          /\ len \in 0..OutBuf
          /\ wantRead \in BOOLEAN
          /\ goaway \in {"no", "received", "term"}
          /\ out \in 0..MaxOut
          /\ nst \in [Ids -> {"idle", "queued", "canceled", "open", "closed"}]
          /\ streams \subseteq Ids
          /\ told \in Seq({"connect", "error"})
          /\ held \in BOOLEAN

\* do_read, do_write and handle_deadline never start an operation while one of its
\* kind is outstanding, although do_write is reached from six places.
NoClash == \A op \in Ops : io.st[op] # "clash"

\* Every step from the constructor to stop() is covered by the deadline: the
\* connect timeout first, the read timeout later.
DeadlineArmed == ~stopped => "deadline" \in Outstanding(io)

\* No lost wake-up: between handlers, a session with frames to send is writing.
\* Calls made inside a callback do not write (inside_callback_); the handler that
\* is running has to.
NoLostWakeup == pc = "idle" /\ ~stopped /\ (want_write \/ pending) => writing

\* Between handlers, a connected session that is not stopped is reading.
ReadArmed == pc = "idle" /\ ~stopped /\ setup = "done" => "read" \in Outstanding(io)

\* A session without streams is kept alive by pings: the ping timer is armed or
\* its handler is due, however submit, promises and stream ends interleave, unless
\* do_write returns to connected or handle_ping, which arm it, or to submit.
PingArmed == ~stopped /\ setup = "done" /\ streams = {}
                => \/ ping.wait \/ ping.due
                   \/ caller \in {"connected", "ping"} \union Requests

\* A session for which nghttp2 neither reads nor writes any more does not linger
\* between handlers: it stops as soon as the last write is done.
NoLinger == pc = "idle" /\ ~stopped /\ ~writing => wantRead \/ want_write

\* Every stream nghttp2 knows has its entry in streams_, so that its callbacks
\* reach the application; submit adds it after do_write.
StreamsKnown == Alive => {id \in Ids : nst[id] \in {"queued", "canceled", "open"}}
                            \subseteq streams \union {caller}

\* A session connects step by step, and until setup_session has succeeded there is
\* no nghttp2 session, no stream and no handler but those of connecting.
ConnectInv ==
    /\ \A a, b \in Outstanding(io) \intersect {"resolve", "connect", "handshake"} : a = b
    /\ setup # "none" => Outstanding(io) \intersect {"resolve", "connect", "handshake"} = {}
    /\ setup # "done" => /\ pc = "idle" /\ wantRead /\ out = 0
                         /\ {"read", "write"} \intersect Outstanding(io) = {}
                         /\ ~writing /\ ~pending /\ len = 0
                         /\ streams = {} /\ \A id \in Ids : nst[id] = "idle"
                         /\ ~ping.wait /\ ~ping.due

\* Inside nghttp2_session_mem_recv nothing is being read.  Inside do_write the
\* session is neither stopped nor writing, and is reading unless do_write returns
\* to a caller that starts the next read.
CallbackInv ==
    /\ pc # "send" => caller = "none"
    /\ pc = "recv" => "read" \notin Outstanding(io)
    /\ pc = "send" => /\ ~stopped /\ ~writing /\ ~pending
                      /\ caller \in {"connected", "read"} <=> "read" \notin Outstanding(io)

\* writing_ covers the write that is outstanding; without it wb_ is empty and
\* nothing is left over for it.
WritingInv ==
    /\ "write" \in Outstanding(io) => writing
    /\ pc # "send" /\ ~stopped /\ ~writing => len = 0 /\ ~pending

\* What keeps a session going is always in place: deadline, read and ping timer
\* while it is up, and stop() once nghttp2 is done.  No operation is started twice,
\* streams_ has every stream that nghttp2 knows, and the flags say what is going on.
Inv == /\ TypeOK /\ NoClash /\ DeadlineArmed /\ ReadArmed /\ PingArmed /\ NoLinger
       /\ StreamsKnown /\ ConnectInv /\ CallbackInv /\ WritingInv

\* The application is told of one error at most, and the session that reported
\* it is stopped (setup_session is the exception).
ErrorOnce == setup # "failed" =>
                /\ \A i, j \in DOMAIN told : told[i] = "error" /\ told[j] = "error" => i = j
                /\ "error" \in {told[i] : i \in DOMAIN told} => stopped

\* A session stops without an error only when nghttp2 is done and all its frames
\* have left: no failure is silent.
NoSilentStop ==
    [][~stopped /\ stopped' /\ told' = told
         => ~wantRead /\ ~want_write /\ ~pending /\ ~writing]_vars

\* Between handlers, a stopped session has said its last word: of the handlers that
\* are still queued, of the application's calls and of a late resolver, connect or
\* handshake, none reports anything, sets up nghttp2, writes, or starts an operation
\* on the connection that was closed.  (A late resolver starts a new connection,
\* which is given up as soon as it is there.)
StopIsFinal == [][stopped /\ pc = "idle"
                    => /\ UNCHANGED <<told, setup, stopped>>
                       /\ pc' # "send"
                       /\ Outstanding(io') \subseteq Outstanding(io) \union {"connect"}]_vars

\* A request whose stream is closed inside nghttp2 has left streams_, that is, its
\* on_close callback has been made.
ClosedIsPopped == pc = "idle" => \A id \in streams : nst[id] # "closed"

\* The error callback means that the session is terminated.
ErrorTerminates == "error" \in {told[i] : i \in DOMAIN told} => stopped

\* The application is told of a connection before, never after, it is told of the
\* error that terminated the session.
ErrorIsLast == \A i \in DOMAIN told : told[i] = "error" => i = Len(told)

\* A terminated session has no connection.
StoppedIsClosed == stopped => ~io.open

\* A stopped session that the application has dropped is destroyed, and all its
\* requests get on_close, if resolving and connecting come to an end: stop() does
\* not cancel the resolver.
Reclaimed == WF_vars(ConnectEnds) => (stopped /\ ~held ~> ~Alive /\ streams = {})

\* A session whose resolver and peer fall silent stops, whatever the application
\* and the ping timer do.  So does one whose setup_session fails, for which nothing
\* but the connect timeout is outstanding: connected() returns without stop().
SilentPeerStops == <>[][~PeerActs]_vars => <>stopped
=============================================================================
