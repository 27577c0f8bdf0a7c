---------------------------- MODULE BodyTransfer ----------------------------
(***************************************************************************)
(* The way of a message body from the application to the socket: a         *)
(* generator_cb (asio_common.cc), the read callback that nghttp2 calls,    *)
(* and the output buffer that do_write fills and async_write empties.      *)
(*                                                                         *)
(* The body of a server's response and that of a client's request go the   *)
(* same way.  They differ in how the generator is set: response_impl       *)
(* starts with deferred_generator and gets the real one from end(), while  *)
(* session::submit has it from the start.                                  *)
(*                                                                         *)
(* Of the frames in a buffer or on the wire the model keeps the bytes of   *)
(* the body they carry, their length (one unit more per frame), and        *)
(* whether one of them has END_STREAM or is RST_STREAM.  nghttp2           *)
(* (external) asks for as many bytes as flow control allows.               *)
(***************************************************************************)
EXTENDS Naturals, Sequences

CONSTANTS Content,   \* the bytes the application wants to send
          Window,    \* the most bytes nghttp2 asks a generator for
          Room       \* the size of outbuf_ and wb_

ASSUME ContentAssumption == Content \in Seq(0 .. 255)

\* 64_k is more than a DATA frame of the default SETTINGS_MAX_FRAME_SIZE.
ASSUME RoomAssumption == Window \in Nat \ {0} /\ Room \in Nat /\ Room > Window

VARIABLES side,      \* whose body: "server" or "client"
          gen,       \* generator_cb_: its kind, how many bytes it has handed out
          plan,      \* the kind of generator the application uses
          fd,        \* the descriptor of file_generator: "none", "open", "closed"
          owners,    \* who holds a copy of the generator function object
          item,      \* the data item inside nghttp2
          pc,        \* "idle", or "send" inside do_write
          buf,       \* the frames in outbuf_ (wb_); buf.len is nwrite (wblen_)
          pending,   \* buf_ (data_pending_): a frame that did not fit, or nothing
          writing,   \* writing_
          wire       \* what the peer has received

vars == <<side, gen, plan, fd, owners, item, pc, buf, pending, writing, wire>>

genVars == <<side, gen, plan, fd, owners>>
bufVars == <<pc, buf, pending, writing, wire>>

\* none: a generator_cb that holds no function, as file_generator returns it
\* for a file that cannot be opened.  app: a generator of the application.
Kinds == {"none", "string", "file", "app"}

\* Some frames, one after the other.
Frames == [bytes : Seq(0 .. 255), len : Nat, last : BOOLEAN, reset : BOOLEAN]

Nothing == [bytes |-> <<>>, len |-> 0, last |-> FALSE, reset |-> FALSE]

Frame(bytes, last) ==
    [bytes |-> bytes, len |-> 1 + Len(bytes), last |-> last, reset |-> FALSE]

Trailers == Frame(<<>>, TRUE)

Reset == [bytes |-> <<>>, len |-> 1, last |-> FALSE, reset |-> TRUE]

Join(f, g) == [bytes |-> f.bytes \o g.bytes, len |-> f.len + g.len,
               last |-> f.last \/ g.last, reset |-> f.reset \/ g.reset]

\* The first n bytes of the body, in frames of which the last is incomplete.
Part(f, n) == [bytes |-> SubSeq(f.bytes, 1, n), len |-> n, last |-> FALSE, reset |-> FALSE]

-----------------------------------------------------------------------------
(* The generators: what a call for at most len bytes may answer, as the    *)
(* number of bytes and the flags; bytes handed out so far are gen.at.      *)

Left == Len(Content) - gen.at

Answer(n, flag) == [n |-> n, flag |-> flag]

Deferred == Answer(0, "deferred")

Failure == Answer(0, "fail")

string_generator(len) ==
    LET n == IF len < Left THEN len ELSE Left
    IN  {Answer(n, IF n = Left THEN "eof" ELSE "more")}

deferred_generator(len) == {Deferred}

\* read(2) may return less than was asked for, and fails now and then; EINTR is
\* tried again at once.
file_generator(len) ==
    {Failure} \union
    (IF Left = 0 THEN {Answer(0, "eof")}
     ELSE {Answer(n, "more") : n \in {k \in 1 .. len : k <= Left}})

\* The contract of generator_cb in asio_http2.h; trailers: EOF together with
\* NO_END_STREAM.
AppGenerator(len) ==
    {Deferred, Failure} \union
    {Answer(n, "more") : n \in {k \in 1 .. len : k <= Left}} \union
    (IF Left <= len THEN {Answer(Left, "eof"), Answer(Left, "trailers")} ELSE {})

\* The function object inside generator_cb_.
Generate(len) == CASE gen.kind = "default" -> deferred_generator(len)
                   [] gen.kind = "string" -> string_generator(len)
                   [] gen.kind = "file" -> file_generator(len)
                   [] gen.kind = "app" -> AppGenerator(len)

\* What the read callbacks make of it: the server's asks the response, the
\* client's the request.
call_read(len) == IF gen.kind = "none" THEN {Answer(0, "eof")} ELSE Generate(len)

call_on_read(len) == IF gen.kind = "none" THEN {Answer(0, "eof")} ELSE Generate(len)

read_callback(len) == IF side = "server" THEN call_read(len) ELSE call_on_read(len)

\* Variants stand for plausible mistakes; no specification uses them.
\* Variant: every copy closes the descriptor when it goes, as a destructor in the
\* function object itself would.
DropEach(who) == /\ owners' = owners \ who
                 /\ fd' = IF fd = "open" /\ owners' # owners THEN "closed" ELSE fd

\* Variant: nobody closes it.
DropNone(who) == owners' = owners \ who /\ UNCHANGED fd

\* The generator function object loses owners; the last one closes the file.
Drop(who) == /\ owners' = owners \ who
             /\ fd' = IF fd = "open" /\ owners' = {} THEN "closed" ELSE fd

\* The application makes its generator; file_generator opens the file.  A client
\* passes it to submit right away, a server has response_impl's default one.
Init == /\ side \in {"server", "client"}
        /\ plan \in Kinds
        /\ gen = [kind |-> IF side = "client" THEN plan ELSE "default", at |-> 0]
        /\ fd = IF plan = "file" THEN "open" ELSE "none"
        /\ owners = IF side = "client" THEN {"app", "stream"} ELSE {"app"}
        /\ item = IF side = "client" THEN "ready" ELSE "none"
        /\ pc = "idle"
        /\ buf = Nothing
        /\ pending = Nothing
        /\ writing = FALSE
        /\ wire = Nothing

-----------------------------------------------------------------------------
(* The application.                                                        *)

\* write_head before end(): nghttp2 gets a data item that defers.
write_head == /\ item = "none"
              /\ item' = "ready"
              /\ UNCHANGED genVars
              /\ UNCHANGED bufVars

\* response_impl::end, the first time; later calls return at once.
end == /\ gen.kind = "default" /\ item # "gone"
       /\ gen' = [gen EXCEPT !.kind = plan]
       /\ owners' = owners \union {"stream"}
       /\ item' = IF item \in {"none", "deferred"} THEN "ready" ELSE item
       /\ UNCHANGED <<side, plan, fd>>
       /\ UNCHANGED bufVars

resume == /\ item = "deferred" /\ gen.kind = "app"
          /\ item' = "ready"
          /\ UNCHANGED genVars
          /\ UNCHANGED bufVars

\* write_trailer, after the generator has announced trailers.
write_trailer == /\ item = "trailers"
                 /\ item' = "trailing"
                 /\ UNCHANGED genVars
                 /\ UNCHANGED bufVars

\* The application drops its copy, once it has passed it on.
Forget == /\ "app" \in owners
          /\ gen.kind # "default" \/ item = "gone"
          /\ Drop({"app"})
          /\ UNCHANGED <<side, gen, plan, item>>
          /\ UNCHANGED bufVars

\* The stream ends early: cancel(), or RST_STREAM from the peer.
cancel == /\ item \notin {"failed", "closing", "gone"}
          /\ item' = "failed"
          /\ UNCHANGED genVars
          /\ UNCHANGED bufVars

\* nghttp2 closes the stream after its last frame, and the stream with its copy
\* of the generator is destroyed (on_stream_close_callback).
StreamCloses == /\ item = "closing"
                /\ item' = "gone"
                /\ Drop({"stream"})
                /\ UNCHANGED <<side, gen, plan>>
                /\ UNCHANGED bufVars

-----------------------------------------------------------------------------
(* do_write: http2_handler::on_write in the server, session_impl::do_write *)
(* in the client.                                                          *)

Pending == item \in {"ready", "failed", "trailing"} \/ pending # Nothing

\* The write side is idle: a frame that did not fit last time goes first.  The
\* server starts at the beginning of outbuf_, the client behind wblen_.
do_write == /\ pc = "idle" /\ ~writing /\ Pending
            /\ buf' = IF side = "server" THEN pending ELSE Join(buf, pending)
            /\ pending' = Nothing
            /\ pc' = "send"
            /\ UNCHANGED <<item, writing, wire>>
            /\ UNCHANGED genVars

\* The loop ends with an async_write of what is in the buffer, if anything.
AsyncWrite == /\ pc' = "idle"
              /\ writing' = (buf.len > 0)

\* Variant: the frames already in the buffer are not counted.
PutUncounted(frame) ==
    /\ IF frame.len > Room
       THEN /\ pending' = frame
            /\ AsyncWrite
            /\ UNCHANGED buf
       ELSE /\ buf' = Join(buf, frame)
            /\ UNCHANGED <<pc, pending, writing>>
    /\ UNCHANGED wire

\* mem_send has returned a frame: it goes into the buffer, or waits.
Put(frame) ==
    /\ IF buf.len + frame.len > Room
       THEN /\ pending' = frame
            /\ AsyncWrite
            /\ UNCHANGED buf
       ELSE /\ buf' = Join(buf, frame)
            /\ UNCHANGED <<pc, pending, writing>>
    /\ UNCHANGED wire

\* nghttp2 asks the generator for at most len bytes and makes a DATA frame of the
\* answer, except when the answer is to wait or to give up.
AskFor(a) ==
    /\ pc = "send" /\ item = "ready"
    /\ gen' = [gen EXCEPT !.at = @ + a.n]
    /\ item' = CASE a.flag = "more" -> "ready"
                 [] a.flag = "eof" -> "closing"
                 [] a.flag = "trailers" -> "trailers"
                 [] a.flag = "deferred" -> "deferred"
                 [] a.flag = "fail" -> "failed"
    /\ IF a.flag \in {"deferred", "fail"}
       THEN UNCHANGED bufVars
       ELSE Put(Frame(SubSeq(Content, gen.at + 1, gen.at + a.n), a.flag = "eof"))
    /\ UNCHANGED <<side, plan, fd, owners>>

ReadData == \E len \in 1 .. Window : \E a \in read_callback(len) : AskFor(a)

\* The answers that bring the body forward.
ReadProgress ==
    \E len \in 1 .. Window :
      \E a \in read_callback(len) : a \notin {Deferred, Failure} /\ AskFor(a)

\* RST_STREAM, or the trailers.
SendLast == /\ pc = "send" /\ item \in {"failed", "trailing"}
            /\ item' = "closing"
            /\ Put(IF item = "failed" THEN Reset ELSE Trailers)
            /\ UNCHANGED genVars

\* nghttp2 has nothing more to send, or flow control forbids it.
SendEmpty == /\ pc = "send" /\ item \notin {"failed", "trailing"}
             /\ AsyncWrite
             /\ UNCHANGED <<item, buf, pending, wire>>
             /\ UNCHANGED genVars

\* Variant: the client forgets to reset wblen_.
WriteDoneKeep == /\ writing /\ pc = "idle"
                 /\ wire' = Join(wire, buf)
                 /\ writing' = FALSE
                 /\ UNCHANGED <<item, pc, buf, pending>>
                 /\ UNCHANGED genVars

\* The handler of async_write.
WriteDone == /\ writing /\ pc = "idle"
             /\ wire' = Join(wire, buf)
             /\ buf' = IF side = "client" THEN Nothing ELSE buf
             /\ writing' = FALSE
             /\ UNCHANGED <<item, pc, pending>>
             /\ UNCHANGED genVars

\* The connection stops: a write error, a timeout, the peer gone.  What was being
\* written may have arrived in part.  The streams die with the session.
stop == /\ pc = "idle"
        /\ pc' = "stopped"
        /\ \/ UNCHANGED wire
           \/ writing /\ wire' = Join(wire, buf)
           \/ writing /\ \E n \in 0 .. Len(buf.bytes) : wire' = Join(wire, Part(buf, n))
        /\ writing' = FALSE
        /\ item' = "gone"
        /\ Drop({"stream"})
        /\ UNCHANGED <<side, gen, plan, buf, pending>>

Next == \/ write_head \/ end \/ resume \/ write_trailer \/ Forget \/ cancel
        \/ StreamCloses \/ do_write \/ ReadData \/ SendLast \/ SendEmpty
        \/ WriteDone \/ stop

\* The connection's thread runs what is ready, async_write completes unless the
\* connection stops, and flow control opens again and again (ReadProgress).  The
\* application calls end(), resume() and write_trailer() in the end, drops its
\* copy, and hands out data when resumed often enough.  A connection may always
\* stop and a stream be cancelled, but nothing forces them to.
Fairness == /\ WF_vars(end) /\ WF_vars(resume) /\ WF_vars(write_trailer)
            /\ WF_vars(Forget) /\ WF_vars(StreamCloses)
            /\ WF_vars(do_write) /\ SF_vars(ReadProgress)
            /\ WF_vars(SendLast) /\ WF_vars(SendEmpty) /\ WF_vars(WriteDone)

Spec == Init /\ [][Next]_vars /\ Fairness

-----------------------------------------------------------------------------
(* Properties.                                                             *)

TypeOK == /\ side \in {"server", "client"}
          /\ gen \in [kind : Kinds \union {"default"}, at : 0 .. Len(Content)]
          /\ plan \in Kinds
          /\ fd \in {"none", "open", "closed"}
          /\ owners \subseteq {"app", "stream"}
          /\ item \in {"none", "ready", "deferred", "trailers", "trailing", "failed",
                       "closing", "gone"}
          /\ pc \in {"idle", "send", "stopped"}
          /\ buf \in Frames /\ pending \in Frames /\ wire \in Frames
          /\ writing \in BOOLEAN

\* on_write and session_impl::do_write copy into the 64_k buffer only what fits,
\* the frame left over from the time before included, and never set aside a
\* second frame while one waits.
Fits == /\ TypeOK
        /\ buf.len <= Room /\ pending.len <= Room
        /\ pc = "send" => pending = Nothing

\* The descriptor of file_generator_from_fd stays open as long as nghttp2 may ask
\* the stream's generator for data, whatever the application does with its copy.
DescriptorValid == gen.kind = "file" /\ item # "gone" => fd = "open"

\* ... and it is closed in the end (asio_http2.h: "closed when returned function
\* object is destroyed"), also when the stream fails or the connection stops.
DescriptorClosed == <>(fd # "open")

\* The body, and what the peer has seen of its end.
Body == IF plan = "none" THEN <<>> ELSE Content

Status == IF wire.last THEN "done"
          ELSE IF pc = "stopped" \/ wire.reset THEN "cut"
          ELSE "open"

Stream == INSTANCE ByteStream
          WITH content <- Body,
               sent <- wire.bytes,
               status <- Status

\* Whatever the generator, however it splits, defers, or fails, and however the
\* frames fall into the buffer, the peer gets the bytes of the body in order, none
\* lost or twice, and the end exactly after the last: generators, call_read and
\* do_write together implement ByteStream.
DeliversBody == Stream!Spec
=============================================================================
