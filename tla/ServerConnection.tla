-------------------------- MODULE ServerConnection --------------------------
(***************************************************************************)
(* The I/O loop of one server connection: connection<socket_type>          *)
(* (asio_server_connection.h) together with the read, write and wake-up    *)
(* half of http2_handler (asio_server_http2_handler.{h,cc}).               *)
(*                                                                         *)
(* Every completion handler runs on the one thread of the connection's     *)
(* io_service, so a handler is not interrupted by another handler.  It is  *)
(* cut into several steps only where nghttp2 calls back into the           *)
(* application, that is inside nghttp2_session_mem_recv (pc = "recv") and  *)
(* inside the nghttp2_session_mem_send loop (pc = "send"); while pc is not *)
(* "idle" no other handler starts, but the kernel and the clock go on      *)
(* completing operations.                                                  *)
(*                                                                         *)
(* Boost.Asio and libnghttp2 are external.  Of nghttp2 the model keeps     *)
(* whether it wants to read and how many frames it has to send.  The two   *)
(* transports differ only in how a connection starts: AcceptTcp, AcceptTls.*)
(***************************************************************************)
EXTENDS Naturals, Asio

CONSTANTS OutBuf,   \* frames that fit into outbuf_
          MaxOut    \* bound: frames queued inside nghttp2

ASSUME OutBufAssumption == OutBuf \in Nat \ {0}
ASSUME MaxOutAssumption == MaxOut \in Nat \ {0}

VARIABLES phase,     \* how far the connection has got
          pc,        \* what the io_service thread is doing for this connection
          caller,    \* the handler do_write was called from, while pc = "send"
          io,        \* the socket, the deadline timer and the handler queue
          stopped,   \* stopped_
          writing,   \* writing_
          signaled,  \* write_signaled_
          wantRead,  \* nghttp2_session_want_read
          outq,      \* frames nghttp2 has ready to be sent
          buf,       \* buf_ # nullptr: a frame that did not fit into outbuf_
          len        \* frames copied into outbuf_ so far

vars == <<phase, pc, caller, io, stopped, writing, signaled, wantRead, outq, buf, len>>
handlerVars == <<signaled, wantRead, outq, buf, len>>

-----------------------------------------------------------------------------
(* The operations whose handlers own a reference to the connection, and     *)
(* those whose handlers do not.                                            *)

ConnOps == {"handshake", "read", "write", "deadline"}
Ops == ConnOps \union {"post", "user"}

CloseSocket(i) ==
    [Abort(Abort(Abort(i, "read"), "write"), "handshake") EXCEPT !.open = FALSE]

Ready(op) == pc = "idle" /\ IsNext(io, op)

Popped(op) == Dequeue(io, op)

\* The connection object exists while some handler owns a reference to it; the
\* http2_handler is owned by the connection and by a posted initiate_write.
Alive == \/ phase = "accepted"
         \/ pc \in {"recv", "send"}
         \/ \E op \in ConnOps : io.st[op] # "off"

HandlerAlive == Alive \/ io.st["post"] # "off"

-----------------------------------------------------------------------------
(* Pieces of the connection's member functions.                            *)

want_write == outq > 0 \/ buf

should_stop == ~wantRead /\ ~want_write

\* Variant of stop that leaves the socket open.  (Variants stand for plausible
\* mistakes; no specification uses them.)
stopLeavesSocket(i) == IF stopped THEN i ELSE CancelDeadline(i)

\* connection::stop, as far as the socket and the timer are concerned.
stop(i) == IF stopped THEN i ELSE CancelDeadline(CloseSocket(i))

do_read(i) == Begin(ExpiresFromNow(i), "read")

async_write(i) == Begin(ExpiresFromNow(i), "write")

start_deadline(i) == Begin(ExpiresFromNow(i), "deadline")

inside_callback == pc \in {"recv", "send"}

signal_write(i) ==
    IF ~inside_callback /\ ~signaled
    THEN /\ io' = Complete(i, "post", "ok")
         /\ signaled' = TRUE
    ELSE /\ io' = i
         /\ UNCHANGED signaled

Stop(i) == /\ io' = stop(i)
           /\ stopped' = TRUE
           /\ pc' = "idle"

\* do_write up to the first nghttp2_session_mem_send, for ~writing_.
EnterSend(from, i) == /\ pc' = "send"
                      /\ caller' = from
                      /\ io' = i
                      /\ len' = IF buf THEN 1 ELSE 0
                      /\ buf' = FALSE

Init == /\ phase = "accepted"
        /\ pc = "idle"
        /\ caller = "read"
        /\ io = [st |-> [op \in Ops |-> "off"], queue |-> <<>>, open |-> TRUE,
                 expiry |-> "never"]
        /\ stopped = FALSE
        /\ writing = FALSE
        /\ signaled = FALSE
        /\ wantRead = TRUE
        /\ outq = 0
        /\ buf = FALSE
        /\ len = 0

\* connection::start: the handler queues SETTINGS, or fails to create a session.
Start(i) == \/ /\ phase' = "greeting"
               /\ outq' = 1
               /\ io' = do_read(i)
               /\ UNCHANGED <<pc, stopped>>
            \/ /\ Stop(i)
               /\ phase' = "failed"
               /\ UNCHANGED outq

\* The accept handler of server::start_accept for clear text connections.
AcceptTcp == /\ phase = "accepted"
             /\ Start(start_deadline(io))
             /\ UNCHANGED <<caller, writing, signaled, wantRead, buf, len>>

\* The accept handler of server::start_accept for TLS connections.
AcceptTls == /\ phase = "accepted"
             /\ phase' = "handshake"
             /\ io' = Begin(start_deadline(io), "handshake")
             /\ UNCHANGED <<pc, caller, stopped, writing, handlerVars>>

\* The handshake handler: an error and a missing "h2" both stop the connection.
HandleHandshake ==
    /\ Ready("handshake")
    /\ \/ io.st["handshake"] = "ok" /\ Start(Popped("handshake"))
       \/ /\ Stop(Popped("handshake"))
          /\ phase' = "failed"
          /\ UNCHANGED outq
    /\ UNCHANGED <<caller, writing, signaled, wantRead, buf, len>>

\* Variant: the wait is not renewed after the deadline has moved.
HandleDeadlineOnce ==
    /\ Ready("deadline")
    /\ \/ /\ ~stopped
          /\ io.expiry = "expired"
          /\ io' = [stop(Popped("deadline")) EXCEPT !.expiry = "never"]
          /\ stopped' = TRUE
       \/ /\ stopped \/ io.expiry # "expired"
          /\ io' = Popped("deadline")
          /\ UNCHANGED stopped
    /\ UNCHANGED <<phase, pc, caller, writing, handlerVars>>

HandleDeadline ==
    /\ Ready("deadline")
    /\ \/ /\ stopped
          /\ io' = Popped("deadline")
          /\ UNCHANGED <<pc, stopped>>
       \/ /\ ~stopped
          /\ io.expiry = "expired"
          /\ io' = [stop(Popped("deadline")) EXCEPT !.expiry = "never"]
          /\ stopped' = TRUE
          /\ UNCHANGED pc
       \/ /\ ~stopped
          /\ io.expiry # "expired"
          /\ io' = Begin(Popped("deadline"), "deadline")
          /\ UNCHANGED <<pc, stopped>>
    /\ UNCHANGED <<phase, caller, writing, handlerVars>>

HandleReadError == /\ Ready("read")
                   /\ io.st["read"] = "err"
                   /\ Stop(Popped("read"))
                   /\ UNCHANGED <<phase, caller, writing, handlerVars>>

\* The read handler up to nghttp2_session_mem_recv.
HandleRead == /\ Ready("read")
              /\ io.st["read"] = "ok"
              /\ pc' = "recv"
              /\ io' = Popped("read")
              /\ phase' = "serving"
              /\ UNCHANGED <<caller, stopped, writing, handlerVars>>

\* nghttp2 handles received frames and answers some of them on its own.
MemRecv == /\ pc = "recv"
           /\ wantRead' \in BOOLEAN
           /\ outq' \in {outq, outq + 1}
           /\ outq' <= MaxOut
           /\ UNCHANGED <<phase, pc, caller, io, stopped, writing, signaled, buf, len>>

\* on_read returns -1.
RecvFail == /\ pc = "recv"
            /\ Stop(io)
            /\ UNCHANGED <<phase, caller, writing, handlerVars>>

\* Variant: do_write does not look at writing_.
RecvDoneWhileWriting == /\ pc = "recv"
                        /\ EnterSend("read", io)
                        /\ UNCHANGED <<phase, stopped, writing, signaled, wantRead, outq>>

\* on_read returns 0; the read handler goes on to do_write, and past it when a
\* write is outstanding.
RecvDone == /\ pc = "recv"
            /\ \/ /\ writing
                  /\ pc' = "idle"
                  /\ io' = do_read(io)
                  /\ UNCHANGED <<caller, buf, len>>
               \/ ~writing /\ EnterSend("read", io)
            /\ UNCHANGED <<phase, stopped, writing, signaled, wantRead, outq>>

\* nghttp2_session_mem_send returns a frame that fits into outbuf_.
SendFrame == /\ pc = "send"
             /\ outq > 0
             /\ len < OutBuf
             /\ len' = len + 1
             /\ outq' = outq - 1
             /\ wantRead' \in {wantRead, FALSE}
             /\ UNCHANGED <<phase, pc, caller, io, stopped, writing, signaled, buf>>

\* nghttp2 gives up a frame: on_frame_not_send_callback answers HEADERS with
\* RST_STREAM and leaves every other frame at that.
FrameNotSent == /\ pc = "send"
                /\ outq > 0
                /\ outq' \in {outq - 1, outq}
                /\ wantRead' \in {wantRead, FALSE}
                /\ UNCHANGED <<phase, pc, caller, io, stopped, writing, signaled, buf, len>>

\* Variant: the read handler returns after it has started a write.
SendReturnsNoRead(full) ==
    /\ pc' = "idle"
    /\ buf' = full
    /\ \/ /\ len > 0
          /\ writing' = TRUE
          /\ io' = async_write(io)
          /\ UNCHANGED stopped
       \/ /\ len = 0
          /\ io' = IF should_stop THEN stop(io) ELSE IF caller = "read" THEN do_read(io) ELSE io
          /\ stopped' = (stopped \/ should_stop)
          /\ UNCHANGED writing
    /\ UNCHANGED <<phase, caller, signaled, wantRead, len>>

\* The rest of do_write and of the handler that called it, after on_write.
SendReturns(full) ==
    /\ pc' = "idle"
    /\ buf' = full
    /\ \/ /\ len > 0
          /\ writing' = TRUE
          /\ io' = IF caller = "read" THEN do_read(async_write(io)) ELSE async_write(io)
          /\ UNCHANGED stopped
       \/ /\ len = 0
          /\ should_stop
          /\ io' = stop(io)
          /\ stopped' = TRUE
          /\ UNCHANGED writing
       \/ /\ len = 0
          /\ ~should_stop
          /\ io' = IF caller = "read" THEN do_read(io) ELSE io
          /\ UNCHANGED <<stopped, writing>>
    /\ UNCHANGED <<phase, caller, signaled, wantRead, len>>

\* nghttp2_session_mem_send has nothing left to send.
SendDrained == /\ pc = "send"
               /\ outq = 0
               /\ SendReturns(FALSE)
               /\ UNCHANGED outq

\* It returns a frame that does not fit; buf_ remembers it.
SendFull == /\ pc = "send"
            /\ outq > 0
            /\ len = OutBuf
            /\ outq' = outq - 1
            /\ SendReturns(TRUE)

\* on_write returns -1.  The read handler goes on after do_write stopped.
SendFail == /\ pc = "send"
            /\ pc' = "idle"
            /\ io' = IF caller = "read" /\ ~should_stop THEN do_read(stop(io)) ELSE stop(io)
            /\ stopped' = TRUE
            /\ UNCHANGED <<phase, caller, writing, handlerVars>>

HandleWriteError == /\ Ready("write")
                    /\ io.st["write"] = "err"
                    /\ Stop(Popped("write"))
                    /\ UNCHANGED <<phase, caller, writing, handlerVars>>

HandleWrite == /\ Ready("write")
               /\ io.st["write"] = "ok"
               /\ writing' = FALSE
               /\ EnterSend("write", Popped("write"))
               /\ UNCHANGED <<phase, stopped, signaled, wantRead, outq>>

\* Variant: write_signaled_ is not reset.
InitiateWriteKeepsSignal ==
    /\ Ready("post")
    /\ Alive
    /\ \/ writing /\ io' = Popped("post") /\ UNCHANGED <<pc, caller, buf, len>>
       \/ ~writing /\ EnterSend("post", Popped("post"))
    /\ UNCHANGED <<phase, stopped, writing, signaled, wantRead, outq>>

\* http2_handler::initiate_write.  writefun_ uses the connection through a plain
\* pointer; what happens once the connection is destroyed is undefined.
InitiateWrite ==
    /\ Ready("post")
    /\ signaled' = FALSE
    /\ \/ /\ Alive
          /\ writing
          /\ io' = Popped("post")
          /\ UNCHANGED <<pc, caller, buf, len>>
       \/ /\ Alive
          /\ ~writing
          /\ EnterSend("post", Popped("post"))
       \/ /\ ~Alive
          /\ pc' = "undefined"
          /\ io' = Popped("post")
          /\ UNCHANGED <<caller, buf, len>>
    /\ UNCHANGED <<phase, stopped, writing, wantRead, outq>>

\* The application calls a response: start_response, submit_trailer,
\* stream_error, resume and push_promise hand nghttp2 something to do, which
\* may or may not be a frame it can send now, and signal_write.
AppSubmit(i) == /\ outq' \in {outq, outq + 1}
                /\ outq' <= MaxOut
                /\ signal_write(i)
                /\ UNCHANGED <<phase, pc, caller, stopped, writing, wantRead, buf, len>>

\* From a callback invoked by nghttp2.
AppCallback == inside_callback /\ AppSubmit(io)

\* From a task of its own on the io_service; on_close has told the application
\* not to use the response once the http2_handler is gone.
AppTask == /\ Ready("user")
           /\ HandlerAlive
           /\ AppSubmit(Popped("user"))

AppTaskLate == /\ Ready("user")
               /\ ~HandlerAlive
               /\ io' = Popped("user")
               /\ UNCHANGED <<phase, pc, caller, stopped, writing, handlerVars>>

-----------------------------------------------------------------------------
(* The kernel, the clock and the application's other threads.              *)

\* A socket operation completes, or fails because of the peer.
PeerActs == \E op \in ConnOps \ {"deadline"}, result \in {"ok", "err"} :
               /\ io.st[op] = "wait"
               /\ io' = Complete(io, op, result)
               /\ UNCHANGED <<phase, pc, caller, stopped, writing, handlerVars>>

\* The clock passes expires_at.
Expire == /\ io.expiry = "running"
          /\ io' = DeadlinePasses(io)
          /\ UNCHANGED <<phase, pc, caller, stopped, writing, handlerVars>>

AppPosts == /\ phase = "serving"
            /\ io.st["user"] = "off"
            /\ HandlerAlive
            /\ io' = Complete(io, "user", "ok")
            /\ UNCHANGED <<phase, pc, caller, stopped, writing, handlerVars>>

Accept == AcceptTcp \/ AcceptTls

Recv == RecvFail \/ RecvDone

Send == SendFrame \/ SendDrained \/ SendFull \/ SendFail

Dispatch == \/ HandleHandshake \/ HandleDeadline \/ HandleReadError \/ HandleRead
            \/ HandleWriteError \/ HandleWrite \/ InitiateWrite \/ AppTask \/ AppTaskLate

Next == \/ Accept \/ Dispatch \/ MemRecv \/ Recv \/ FrameNotSent \/ Send \/ AppCallback
        \/ PeerActs \/ Expire \/ AppPosts

\* The io_service thread runs queued handlers, nghttp2 returns from the calls
\* made to it, and time passes.  Nothing is assumed of the peer.
Fairness == WF_vars(Accept) /\ WF_vars(Dispatch) /\ WF_vars(Recv) /\ WF_vars(Send)
            /\ WF_vars(Expire)

Spec == Init /\ [][Next]_vars

FairSpec == Spec /\ Fairness

-----------------------------------------------------------------------------
\* The variables have their types; outbuf_ holds no more frames than fit.
TypeOK ==
    /\ phase \in {"accepted", "handshake", "greeting", "serving", "failed"}
    /\ pc \in {"idle", "recv", "send", "undefined"}
    /\ caller \in {"read", "write", "post"}
    /\ io \in Io(Ops)
    /\ stopped \in BOOLEAN
    /\ writing \in BOOLEAN
    /\ signaled \in BOOLEAN
    /\ wantRead \in BOOLEAN
    /\ outq \in 0..MaxOut
    /\ buf \in BOOLEAN
    /\ len \in 0..OutBuf

\* No operation is started while one of its kind is outstanding: do_read and
\* do_write never put two reads or two writes on the socket, even when they are
\* reached after stop, and the deadline has one wait at a time.
NoClash == \A op \in Ops : io.st[op] # "clash"

\* A connection that is not stopped always has its deadline wait outstanding,
\* although every do_read and do_write cancels it: handle_deadline re-arms it.
DeadlineArmed == ~stopped /\ phase # "accepted" => io.st["deadline"] # "off"

\* Between handlers, a started connection that is not stopped is reading.
ReadArmed == pc = "idle" /\ ~stopped /\ phase \in {"greeting", "serving"}
                => io.st["read"] # "off"

\* No lost wake-up: between handlers, frames that nghttp2 can send, or that wait
\* in buf_, have a write outstanding or a posted initiate_write to send them.
\* (The SETTINGS frame of start() waits for the first bytes of the client.)
NoLostWakeup == pc = "idle" /\ ~stopped /\ phase = "serving" /\ want_write
                   => io.st["write"] # "off" \/ io.st["post"] # "off"

\* After stop no handler of the connection waits for the peer or for the clock:
\* what is outstanding is queued already, so the last reference goes away.
StoppedDrains == stopped => \A op \in ConnOps : io.st[op] # "wait"

\* A connection that nghttp2 is done with does not linger between handlers: it
\* stops as soon as the last write is done.
NoLinger == pc = "idle" /\ ~stopped /\ ~writing => ~should_stop

\* A posted initiate_write never runs on a destroyed connection.
NoDanglingWrite == pc # "undefined"

\* The inductive invariant behind the safety properties above: which operations
\* can be outstanding at each point of the connection's life.
\* Before and during the handshake nothing else is outstanding.
PhaseInv ==
    /\ phase = "accepted" => /\ \A op \in Ops : io.st[op] = "off"
                             /\ ~stopped /\ ~writing
    /\ io.st["handshake"] # "off" => phase = "handshake"
    /\ phase = "handshake" => /\ io.st["read"] = "off"
                              /\ ~stopped => io.st["handshake"] # "off"
    /\ phase = "failed" => stopped
    /\ phase # "serving" => /\ pc = "idle" /\ ~writing /\ wantRead
                            /\ \A op \in {"write", "post", "user"} : io.st[op] = "off"

\* Inside a callback the operation whose handler runs is not outstanding.
CallbackInv ==
    /\ pc = "recv" => io.st["read"] = "off"
    /\ pc = "send" => /\ ~writing /\ ~buf
                      /\ caller = "read" => io.st["read"] = "off"
                      /\ caller # "read" /\ ~stopped => io.st["read"] # "off"

\* writing_, write_signaled_ and stopped_ tell the truth about the operations.
FlagInv ==
    /\ ~writing => io.st["write"] = "off"
    /\ writing /\ ~stopped => io.st["write"] # "off"
    /\ signaled <=> io.st["post"] # "off"
    /\ io.open <=> ~stopped

Inv == /\ TypeOK /\ NoClash /\ PhaseInv /\ CallbackInv /\ FlagInv
       /\ DeadlineArmed /\ ReadArmed /\ NoLostWakeup /\ StoppedDrains
       /\ NoLinger

Life == INSTANCE Lifecycle
        WITH life <- IF ~Alive THEN "gone" ELSE IF stopped THEN "stopped" ELSE "open"

\* The connection implements Lifecycle: its handlers keep it alive until stop has
\* closed the socket, a stopped connection is destroyed, and until then no handler
\* that is still queued, and no call of the application, makes it go on for ever.
\* (What a write posted meanwhile does afterwards is NoDanglingWrite's question.)
KeepsAlive == Life!Spec

\* A connection whose peer and application fall silent is destroyed: the
\* deadline stops it, whatever operations were outstanding.
SilentPeerReclaimed == <>[][~PeerActs /\ ~AppPosts]_vars => <>(~Alive)
=============================================================================
