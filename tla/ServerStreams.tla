--------------------------- MODULE ServerStreams ---------------------------
(***************************************************************************)
(* The streams of one server connection: the nghttp2 callbacks of          *)
(* asio_server_http2_handler.cc, the map http2_handler::streams_, and the  *)
(* response_impl state machine that the application drives, server push    *)
(* included.                                                               *)
(*                                                                         *)
(* Everything here runs on the connection's io_service thread, so a        *)
(* callback or an application call is one step.  When such steps happen    *)
(* (reads, writes, deadlines) is the business of module ServerConnection;  *)
(* here they come in any order that libnghttp2 allows.                     *)
(*                                                                         *)
(* Stream identifiers are numbers because ~http2_handler walks streams_, a *)
(* std::map, in their order.                                               *)
(***************************************************************************)
EXTENDS Naturals, FiniteSets

CONSTANTS
  Reqs,       \* identifiers of the streams the client opens
  Promises,   \* identifiers of the streams the server may push
  HeaderMax   \* the limit 64_k on the header bytes kept for a request

ASSUME IdsAssumption ==
  /\ Reqs \subseteq Nat
  /\ Promises \subseteq Nat
  /\ Reqs \cap Promises = {}

ASSUME HeaderMaxAssumption == HeaderMax \in Nat \ {0}

VARIABLES
  phase,      \* the handler: "up", "dying" (in its destructor), "gone",
              \* or "terminated" (an exception left the destructor)
  streams,    \* keys of streams_ (when "dying": those still to be visited)
  req,        \* per stream: the request being received
  res,        \* per stream: response_impl and what nghttp2 holds for it
  app,        \* streams whose response the application has been given
  closes      \* per stream: how often on_close has been called

vars == <<phase, streams, req, res, app, closes>>

Ids == Reqs \cup Promises

(* request_impl, with how far nghttp2 is in receiving the request (trailed:*)
(* to its end, with trailers); cut: a header field was dropped; eof:       *)
(* on_data has been called with length 0.                                  *)
Request == [recv : {"idle", "headers", "body", "end", "trailed"},
            header_buffer_size : 0 .. HeaderMax, cut : BOOLEAN, eof : BOOLEAN]

(* response_impl: state_, generator_cb_ (the default one defers), pushed_, *)
(* push_promise_sent_, and whether method and status allow a body.  Then   *)
(* what nghttp2 holds: the stream, a queued RST_STREAM, PUSH_PROMISE,      *)
(* HEADERS, the data item (and whose generator deferred it), trailers; and *)
(* how often nghttp2_submit_response was called.                           *)
Response ==
  [state : {"INITIAL", "HEADER_DONE", "BODY_STARTED"},
   gen : {"default", "app"}, pushed : BOOLEAN, push_promise_sent : BOOLEAN,
   body : BOOLEAN, stream : {"idle", "open", "reserved", "closed"},
   rst : BOOLEAN, promise : {"no", "queued", "sent"},
   head : {"no", "queued", "sent", "dropped"},
   data : {"no", "ready", "deferred", "trailers", "trailing", "end"},
   by : {"none", "default", "app"}, submits : 0 .. 2]

(* stream::stream, request_impl() and response_impl().                     *)
NewRequest == [recv |-> "idle", header_buffer_size |-> 0, cut |-> FALSE,
               eof |-> FALSE]

NewResponse == [state |-> "INITIAL", gen |-> "default", pushed |-> FALSE,
                push_promise_sent |-> FALSE, body |-> TRUE,
                stream |-> "idle", rst |-> FALSE, promise |-> "no",
                head |-> "no", data |-> "no", by |-> "none", submits |-> 0]

Init ==
  /\ phase = "up"
  /\ streams = {}
  /\ req = [s \in Ids |-> NewRequest]
  /\ res = [s \in Ids |-> NewResponse]
  /\ app = {}
  /\ closes = [s \in Ids |-> 0]

-----------------------------------------------------------------------------
(* What the response code does to a response r; ok: nghttp2_submit_response*)
(* succeeds.  Variants stand for plausible mistakes; no specification uses *)
(* them.                                                                   *)

(* nghttp2_submit_rst_stream: a queued RST_STREAM makes the stream closing.*)
SubmitRst(r) == [r EXCEPT !.rst = TRUE]

(* nghttp2_session_resume_data: fails unless the data item is deferred.    *)
ResumeData(r) ==
  IF r.data = "deferred" THEN [r EXCEPT !.data = "ready", !.by = "none"] ELSE r

start_response(r, ok) ==
  LET started == IF r.body THEN r ELSE [r EXCEPT !.state = "BODY_STARTED"]
  IN  IF ok
      THEN [started EXCEPT !.head = "queued", !.submits = @ + 1]
      ELSE SubmitRst(started)

(* Variant: HEADERS are submitted without waiting for PUSH_PROMISE.        *)
write_headEager(r, body, ok) ==
  IF r.state # "INITIAL" THEN r
  ELSE start_response([r EXCEPT !.state = "HEADER_DONE", !.body = body], ok)

write_head(r, body, ok) ==
  LET done == [r EXCEPT !.state = "HEADER_DONE", !.body = body]
  IN  IF r.state # "INITIAL" THEN r
      ELSE IF r.pushed /\ ~r.push_promise_sent THEN done
      ELSE start_response(done, ok)

(* Variant: end() changes the generator but does not resume the data item. *)
endNoResume(r, body, ok) ==
  IF r.state = "BODY_STARTED" THEN r
  ELSE [write_head([r EXCEPT !.gen = "app"], body, ok)
          EXCEPT !.state = "BODY_STARTED"]

end(r, body, ok) ==
  LET set == [r EXCEPT !.gen = "app"]
      next == IF r.state = "INITIAL" THEN write_head(set, body, ok)
              ELSE ResumeData(set)
  IN  IF r.state = "BODY_STARTED" THEN r
      ELSE [next EXCEPT !.state = "BODY_STARTED"]

(* Variant: the held-back response is forgotten.                           *)
push_promise_sentForgets(r, ok) == [r EXCEPT !.push_promise_sent = TRUE]

push_promise_sent(r, ok) ==
  LET sent == [r EXCEPT !.push_promise_sent = TRUE]
  IN  IF r.push_promise_sent THEN r
      ELSE IF r.state = "INITIAL" THEN sent
      ELSE start_response(sent, ok)

-----------------------------------------------------------------------------
(* on_stream_close_callback, together with nghttp2's own closing of the    *)
(* stream: on_close, then streams_.erase.                                  *)

Closed(r) == [r EXCEPT !.stream = "closed", !.rst = FALSE, !.data = "no",
                       !.by = "none"]

(* Variant: the stream is erased without a word to the application.        *)
on_stream_closeSilent(s, r) ==
  /\ res' = [res EXCEPT ![s] = Closed(r)]
  /\ streams' = streams \ {s}
  /\ UNCHANGED closes

on_stream_close(s, r) ==
  /\ res' = [res EXCEPT ![s] = Closed(r)]
  /\ closes' = IF s \in streams THEN [closes EXCEPT ![s] = @ + 1] ELSE closes
  /\ streams' = streams \ {s}

(* nghttp2 closes a stream when both directions have ended.                *)
CloseIfDone(s, r, recv) ==
  IF r.data = "end" /\ recv \in {"end", "trailed"}
  THEN on_stream_close(s, r)
  ELSE /\ res' = [res EXCEPT ![s] = r]
       /\ UNCHANGED <<streams, closes>>

-----------------------------------------------------------------------------
(* Callbacks from nghttp2_session_mem_recv.                                *)

(* on_begin_headers_callback, HCAT_REQUEST: create_stream.                 *)
on_begin_headers(s) ==
  /\ phase = "up"
  /\ s \in Reqs
  /\ res[s].stream = "idle"
  /\ streams' = streams \cup {s}
  /\ req' = [req EXCEPT ![s].recv = "headers"]
  /\ res' = [res EXCEPT ![s].stream = "open"]
  /\ UNCHANGED <<phase, app, closes>>

(* on_header_callback, default case: a field of n bytes.  The rest of the  *)
(* header block is still delivered after the reset is submitted.           *)
on_header(s, n) ==
  /\ phase = "up"
  /\ req[s].recv = "headers"
  /\ s \in streams
  /\ IF req[s].header_buffer_size + n > HeaderMax
     THEN /\ res' = [res EXCEPT ![s] = SubmitRst(@)]
          /\ req' = [req EXCEPT ![s].cut = TRUE]
     ELSE /\ req' = [req EXCEPT ![s].header_buffer_size = @ + n]
          /\ UNCHANGED res
  /\ UNCHANGED <<phase, streams, app, closes>>

(* on_frame_recv_callback for the request HEADERS: call_on_request hands   *)
(* the response to the application, then END_STREAM is reported as EOF.    *)
(* The stream may already be gone (reset while CONTINUATIONs arrived).     *)
on_frame_recv_headers(s, last) ==
  LET recv == IF last THEN "end" ELSE "body"
  IN  /\ phase = "up"
      /\ req[s].recv = "headers"
      /\ req' = [req EXCEPT ![s].recv = recv,
                            ![s].eof = last /\ s \in streams]
      /\ app' = IF s \in streams THEN app \cup {s} ELSE app
      /\ UNCHANGED <<phase, streams, res, closes>>

(* on_data_chunk_recv_callback hands the bytes over and changes nothing;   *)
(* on_frame_recv_callback for the DATA frame that ends the request.        *)
on_frame_recv_data(s) ==
  /\ phase = "up"
  /\ req[s].recv = "body"
  /\ res[s].stream = "open"
  /\ ~res[s].rst
  /\ req' = [req EXCEPT ![s].recv = "end", ![s].eof = s \in streams]
  /\ CloseIfDone(s, res[s], "end")
  /\ UNCHANGED <<phase, app>>

(* The request ends with trailers instead: HCAT_HEADERS, ignored.          *)
on_frame_recv_trailers(s) ==
  /\ phase = "up"
  /\ req[s].recv = "body"
  /\ res[s].stream = "open"
  /\ ~res[s].rst
  /\ req' = [req EXCEPT ![s].recv = "trailed"]
  /\ CloseIfDone(s, res[s], "trailed")
  /\ UNCHANGED <<phase, app>>

(* The client resets a stream it knows of; nghttp2 closes it at once.      *)
RecvRst(s) ==
  /\ phase = "up"
  /\ \/ res[s].stream = "open" /\ req[s].recv # "headers"
     \/ res[s].stream = "reserved" /\ res[s].promise = "sent"
  /\ on_stream_close(s, res[s])
  /\ UNCHANGED <<phase, req, app>>

-----------------------------------------------------------------------------
(* Callbacks from nghttp2_session_mem_send.                                *)

Live(s) == phase = "up" /\ res[s].stream \in {"open", "reserved"}

(* PUSH_PROMISE leaves: on_frame_send_callback looks up the promised       *)
(* stream and calls push_promise_sent.                                     *)
on_frame_send(s, ok) ==
  /\ Live(s)
  /\ res[s].promise = "queued"
  /\ LET r == [res[s] EXCEPT !.promise = "sent"]
     IN  res' = [res EXCEPT ![s] = IF s \in streams
                                   THEN push_promise_sent(r, ok) ELSE r]
  /\ UNCHANGED <<phase, streams, req, app, closes>>

(* PUSH_PROMISE cannot be sent (its parent closed, or the client refuses   *)
(* pushes): on_frame_not_send_callback ignores it, nghttp2 closes the      *)
(* reserved stream.                                                        *)
PromiseDropped(s) ==
  /\ Live(s)
  /\ res[s].promise = "queued"
  /\ on_stream_close(s, [res[s] EXCEPT !.promise = "no"])
  /\ UNCHANGED <<phase, req, app>>

(* The response HEADERS leave; the data provider, if any, becomes ready.   *)
SendHeaders(s) ==
  /\ Live(s)
  /\ res[s].head = "queued"
  /\ res[s].promise # "queued"
  /\ ~res[s].rst
  /\ LET r == [res[s] EXCEPT !.head = "sent", !.stream = "open",
                             !.data = IF res[s].body THEN "ready" ELSE "end"]
     IN  CloseIfDone(s, r, req[s].recv)
  /\ UNCHANGED <<phase, req, app>>

(* Variant: the stream of a HEADERS that cannot be sent is left alone.     *)
on_frame_not_sendIgnores(s) ==
  /\ phase = "up"
  /\ res[s].head = "queued"
  /\ res[s].rst \/ res[s].stream = "closed" \/ s \in Promises
  /\ res' = [res EXCEPT ![s].head = "dropped"]
  /\ UNCHANGED <<phase, streams, req, app, closes>>

(* The response HEADERS cannot be sent: the stream is closing or closed,   *)
(* or it is a push and GOAWAY has come.  on_frame_not_send_callback        *)
(* submits RST_STREAM.                                                     *)
on_frame_not_send(s) ==
  /\ phase = "up"
  /\ res[s].head = "queued"
  /\ res[s].rst \/ res[s].stream = "closed" \/ s \in Promises
  /\ LET r == [res[s] EXCEPT !.head = "dropped"]
     IN  res' = [res EXCEPT ![s] = IF r.stream = "closed" THEN r
                                   ELSE SubmitRst(r)]
  /\ UNCHANGED <<phase, streams, req, app, closes>>

(* What call_read may answer: generator_cb's contract in asio_http2.h.     *)
Results == {"data", "end", "trailers", "deferred", "fail"}

(* nghttp2 asks for body bytes through response_impl::call_read.  The      *)
(* default generator always defers.                                        *)
call_read(s, result) ==
  /\ Live(s)
  /\ res[s].data = "ready"
  /\ ~res[s].rst
  /\ res[s].gen = "default" => result = "deferred"
  /\ LET r == CASE result = "data" -> res[s]
                [] result = "fail" -> SubmitRst(res[s])
                [] result = "deferred" ->
                     [res[s] EXCEPT !.data = "deferred", !.by = res[s].gen]
                [] OTHER -> [res[s] EXCEPT !.data = result]
     IN  CloseIfDone(s, r, req[s].recv)
  /\ UNCHANGED <<phase, req, app>>

(* The trailers leave and end the response.                                *)
SendTrailer(s) ==
  /\ Live(s)
  /\ res[s].data = "trailing"
  /\ ~res[s].rst
  /\ CloseIfDone(s, [res[s] EXCEPT !.data = "end"], req[s].recv)
  /\ UNCHANGED <<phase, req, app>>

(* RST_STREAM leaves (after a PUSH_PROMISE queued before it).              *)
SendRst(s) ==
  /\ Live(s)
  /\ res[s].rst
  /\ res[s].promise # "queued"
  /\ on_stream_close(s, res[s])
  /\ UNCHANGED <<phase, req, app>>

-----------------------------------------------------------------------------
(* Calls by the application.  It holds a response until its on_close; in   *)
(* the destructor only the on_close callbacks run application code.        *)

Holds(s) ==
  /\ s \in app
  /\ closes[s] = 0
  /\ phase \in {"up", "dying"}

(* signal_write: shared_from_this throws in the destructor, which ends the *)
(* program.  Elsewhere the write is arranged (module ServerConnection).    *)
signal_write == phase' = IF phase = "dying" THEN "terminated" ELSE phase

(* Response calls other than push; quiet calls return before signal_write. *)
Call(s, r, quiet) ==
  /\ Holds(s)
  /\ res' = [res EXCEPT ![s] = r]
  /\ IF quiet THEN UNCHANGED phase ELSE signal_write
  /\ UNCHANGED <<streams, req, app, closes>>

WriteHead(s, body, ok) ==
  Call(s, write_head(res[s], body, ok),
       \/ res[s].state # "INITIAL"
       \/ res[s].pushed /\ ~res[s].push_promise_sent)

End(s, body, ok) ==
  Call(s, end(res[s], body, ok),
       \/ res[s].state = "BODY_STARTED"
       \/ /\ res[s].state = "INITIAL"
          /\ res[s].pushed /\ ~res[s].push_promise_sent)

Resume(s) == Call(s, ResumeData(res[s]), FALSE)

Cancel(s) == Call(s, SubmitRst(res[s]), FALSE)

(* write_trailer, once the generator has announced trailers.               *)
WriteTrailer(s) ==
  /\ res[s].data = "trailers"
  /\ Call(s, [res[s] EXCEPT !.data = "trailing"], FALSE)

(* response_impl::push: nghttp2 reserves the promised stream, or refuses   *)
(* and push returns nullptr (nothing changes then).                        *)
Push(s, p) ==
  /\ Holds(s)
  /\ s \in Reqs
  /\ p \in Promises
  /\ res[p].stream = "idle"
  /\ streams' = streams \cup {p}
  /\ req' = [req EXCEPT ![p].recv = "end"]
  /\ res' = [res EXCEPT ![p].stream = "reserved", ![p].promise = "queued",
                        ![p].pushed = TRUE]
  /\ app' = app \cup {p}
  /\ signal_write
  /\ UNCHANGED closes

-----------------------------------------------------------------------------
(* ~http2_handler: on_close for every stream of streams_ in the order of   *)
(* ids; from then on streams holds those still to be visited.              *)

DestroyStream ==
  /\ phase \in {"up", "dying"}
  /\ phase' = "dying"
  /\ \E s \in streams :
       /\ \A t \in streams : s <= t
       /\ closes' = [closes EXCEPT ![s] = @ + 1]
       /\ streams' = streams \ {s}
  /\ UNCHANGED <<req, res, app>>

Destroyed ==
  /\ phase \in {"up", "dying"}
  /\ streams = {}
  /\ phase' = "gone"
  /\ UNCHANGED <<streams, req, res, app, closes>>

-----------------------------------------------------------------------------
Recv(s) ==
  \/ on_begin_headers(s)
  \/ \E n \in 1 .. HeaderMax + 1 : on_header(s, n)
  \/ \E last \in BOOLEAN : on_frame_recv_headers(s, last)
  \/ on_frame_recv_data(s)
  \/ on_frame_recv_trailers(s)
  \/ RecvRst(s)

Send(s) ==
  \/ \E ok \in BOOLEAN : on_frame_send(s, ok)
  \/ PromiseDropped(s)
  \/ SendHeaders(s)
  \/ on_frame_not_send(s)
  \/ \E result \in Results : call_read(s, result)
  \/ SendTrailer(s)
  \/ SendRst(s)

App(s) ==
  \/ \E body, ok \in BOOLEAN : WriteHead(s, body, ok)
  \/ \E body, ok \in BOOLEAN : End(s, body, ok)
  \/ Resume(s)
  \/ Cancel(s)
  \/ WriteTrailer(s)
  \/ \E p \in Promises : Push(s, p)

Next ==
  \/ \E s \in Ids : Recv(s) \/ Send(s) \/ App(s)
  \/ DestroyStream
  \/ Destroyed

Spec == Init /\ [][Next]_vars

(* The connection keeps sending what nghttp2 has queued (ServerConnection: *)
(* NoLostWakeup), a destructor finishes, and the application eventually    *)
(* resumes what it deferred, ends its body and writes promised trailers.   *)
Fairness ==
  /\ WF_vars(phase = "dying" /\ DestroyStream)
  /\ \A s \in Ids :
       /\ WF_vars(Send(s))
       /\ SF_vars(call_read(s, "end"))
       /\ WF_vars(res[s].by = "app" /\ Resume(s))
       /\ WF_vars(WriteTrailer(s))

FairSpec == Spec /\ Fairness

-----------------------------------------------------------------------------
(* The variables have their types.                                         *)
TypeOK ==
  /\ phase \in {"up", "dying", "gone", "terminated"}
  /\ streams \subseteq Ids
  /\ req \in [Ids -> Request]
  /\ res \in [Ids -> Response]
  /\ app \subseteq Ids
  /\ closes \in [Ids -> 0 .. 1]

(* A response is submitted to nghttp2 at most once, however write_head,    *)
(* end and push_promise_sent are ordered, and the response of a pushed     *)
(* stream only after its PUSH_PROMISE has left.                            *)
ResponseOnce ==
  \A s \in Ids :
    /\ res[s].submits <= 1
    /\ res[s].submits = 1 /\ s \in Promises => res[s].promise = "sent"

(* No response is lost: once the application has called write_head or end, *)
(* and PUSH_PROMISE (if any) has left, the response has been submitted or  *)
(* the stream is being reset (response_impl::push_promise_sent picks up    *)
(* what write_head held back).                                             *)
NoLostResponse ==
  \A s \in streams :
    /\ res[s].state # "INITIAL"
    /\ s \in Promises => res[s].promise = "sent"
    => res[s].submits = 1 \/ res[s].rst

(* A body is not left behind the default generator: once end() has been    *)
(* called, the data item is not deferred by deferred_generator, whose      *)
(* deferral nobody would resume (the comment in response_impl::end).       *)
NoStuckBody ==
  \A s \in Ids : res[s].by = "default" => res[s].state # "BODY_STARTED"

(* streams_ is exactly nghttp2's open and reserved streams, so no callback *)
(* of a live stream misses its stream and no entry outlives it.            *)
StreamsKnown ==
  phase = "up" => streams = {s \in Ids : res[s].stream \in {"open", "reserved"}}

(* on_data is called with length 0 exactly for the requests given to the   *)
(* application that end with their HEADERS or with DATA.                   *)
EofExact == \A s \in Reqs : req[s].eof <=> s \in app /\ req[s].recv = "end"

(* on_close is called exactly once for every stream: when nghttp2 closes   *)
(* it, or else in the handler's destructor, never both.                    *)
CloseOnce ==
  /\ phase = "up" =>
       \A s \in Ids : closes[s] = IF res[s].stream = "closed" THEN 1 ELSE 0
  /\ phase = "gone" =>
       \A s \in Ids : closes[s] = IF res[s].stream = "idle" THEN 0 ELSE 1

(* A request that lost a header field at the 64_k limit is never answered: *)
(* no response HEADERS leave for it, although the application is still     *)
(* given the request.                                                      *)
CutNeverAnswered == \A s \in Reqs : req[s].cut => res[s].head # "sent"

(* What holds of a response r of stream s, however the calls of the        *)
(* application and the frames are ordered: how pushed_, push_promise_sent_ *)
(* and state_ go with what nghttp2 has been given and has sent.            *)
ResponseInv(s, r) ==
  /\ r.stream = "idle" => r = NewResponse
  /\ r.pushed <=> s \in Promises /\ r.stream # "idle"
  /\ r.push_promise_sent <=> r.promise = "sent"
  /\ r.promise # "no" => r.pushed
  /\ r.submits <= 1
  /\ r.submits = 1 => r.state # "INITIAL" /\ (r.pushed => r.push_promise_sent)
  /\ r.submits = 0 => r.head = "no"
  /\ r.stream # "closed" /\ r.state # "INITIAL" /\ (r.pushed => r.push_promise_sent)
       => r.submits = 1 \/ r.rst
  /\ r.head # "sent" => r.data = "no"
  /\ r.data \notin {"no", "end"} => r.body
  /\ r.by # "none" => r.data = "deferred"
  /\ r.by = "default" => r.gen = "default"
  /\ r.gen = "default" /\ r.state = "BODY_STARTED" => ~r.body

(* ... and of its request q; given: the application has the response.      *)
RequestInv(s, q, r, given) ==
  /\ q.recv = "idle" <=> r.stream = "idle"
  /\ r.stream = "idle" => q = NewRequest /\ ~given
  /\ ~given => r.state = "INITIAL"
  /\ s \in Promises => q.recv \in {"idle", "end"}
  /\ s \in Reqs =>
       /\ given => q.recv \notin {"idle", "headers"}
       /\ q.recv \notin {"idle", "headers"} /\ r.stream # "closed" => given
       /\ q.eof <=> given /\ q.recv = "end"
       /\ q.cut => r.head # "sent" /\ (r.rst \/ r.stream = "closed")

(* on_close has been called for the streams that are not idle and no       *)
(* longer in streams_.                                                     *)
ClosesInv ==
  \A s \in Ids :
    /\ s \in streams => res[s].stream \in {"open", "reserved"}
    /\ closes[s] = IF res[s].stream = "idle" \/ s \in streams THEN 0 ELSE 1

(* The variables have their types, streams_ agrees with nghttp2, the       *)
(* application knows of the end of requests, no body is stuck and no       *)
(* request that was cut is answered; with the facts about every stream     *)
(* that make this inductive.                                               *)
Inv == /\ TypeOK /\ StreamsKnown /\ EofExact /\ NoStuckBody /\ CutNeverAnswered
       /\ ClosesInv
       /\ phase = "gone" => streams = {}
       /\ \A s \in Ids : /\ ResponseInv(s, res[s])
                         /\ RequestInv(s, req[s], res[s], s \in app)

(* A finished exchange is let go: when the request has ended and the       *)
(* response was ended, on_close is called eventually (on_frame_not_send:   *)
(* "so that stream does not hang around").                                 *)
Answered ==
  \A s \in Ids :
    (res[s].state = "BODY_STARTED" /\ req[s].recv \in {"end", "trailed"})
      ~> (closes[s] = 1 \/ phase = "terminated")

(* asio_http2.h: "EOF is indicated by passing 0 to the second parameter":  *)
(* when the end of a request has been received, on_data was told.          *)
EofDelivered ==
  \A s \in app : req[s].recv \in {"end", "trailed"} /\ s \in Reqs => req[s].eof

(* asio_http2_server.h: a request and a response live until their own      *)
(* on_close, so an application may use another response in on_close; the   *)
(* destructor then still finishes.                                         *)
TeardownSafe == phase # "terminated"

=============================================================================
