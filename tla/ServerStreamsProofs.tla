------------------------ MODULE ServerStreamsProofs ------------------------
(***************************************************************************)
(* Proofs about ServerStreams for any streams and any header limit.  A     *)
(* step changes one stream, two at a push; so most of Inv is a statement   *)
(* about one stream's records, and the lemmas of the first part say what   *)
(* each function of response_impl does to such a record.                   *)
(***************************************************************************)
EXTENDS ServerStreams, TLAPS

(* What the functions of response_impl leave of a response: its stream in  *)
(* nghttp2 stays what it was, a queued reset stays, HEADERS do not leave.  *)
Follows(r, next) ==
  /\ next.stream = r.stream
  /\ r.rst => next.rst
  /\ next.head = "sent" => r.head = "sent"
  /\ next.pushed = r.pushed

(* nghttp2_submit_rst_stream keeps what holds of a response.               *)
LEMMA SubmitRstOk ==
  ASSUME NEW s, NEW r \in Response, ResponseInv(s, r), r.stream # "idle"
  PROVE  /\ SubmitRst(r) \in Response
         /\ ResponseInv(s, SubmitRst(r))
         /\ Follows(r, SubmitRst(r))
<1>1. SubmitRst(r) \in Response  BY DEF SubmitRst, Response
<1>2. ResponseInv(s, SubmitRst(r))  BY DEF SubmitRst, Response, ResponseInv
<1>3. Follows(r, SubmitRst(r))  BY DEF SubmitRst, Response, Follows
<1> QED  BY <1>1, <1>2, <1>3

(* nghttp2_session_resume_data returns a response.                         *)
LEMMA ResumeDataType ==
  ASSUME NEW r \in Response
  PROVE  ResumeData(r) \in Response
<1> DEFINE one == [r EXCEPT !.data = "ready"]
<1>1. one \in Response  BY DEF Response
<1>2. [one EXCEPT !.by = "none"] \in Response
  <2> HIDE DEF one
  <2> QED  BY <1>1 DEF Response
<1> QED  BY <1>2 DEF ResumeData

(* ... and keeps what holds of it.                                         *)
LEMMA ResumeDataOk ==
  ASSUME NEW s, NEW r \in Response, ResponseInv(s, r), r.stream # "idle"
  PROVE  /\ ResumeData(r) \in Response
         /\ ResponseInv(s, ResumeData(r))
         /\ Follows(r, ResumeData(r))
<1>1. ResponseInv(s, ResumeData(r))  BY DEF ResumeData, Response, ResponseInv
<1>2. Follows(r, ResumeData(r))  BY DEF ResumeData, Response, Follows
<1> QED  BY <1>1, <1>2, ResumeDataType

(* start_response returns a response if it is the first to submit.         *)
LEMMA StartResponseType ==
  ASSUME NEW r \in Response, r.submits <= 1, NEW ok \in BOOLEAN
  PROVE  start_response(r, ok) \in Response
<1> DEFINE started == IF r.body THEN r ELSE [r EXCEPT !.state = "BODY_STARTED"]
<1>1. started \in Response /\ started.submits \in 0 .. 1
  BY DEF Response
<1>2. [started EXCEPT !.head = "queued", !.submits = @ + 1] \in Response
  <2> HIDE DEF started
  <2> DEFINE one == [started EXCEPT !.head = "queued"]
  <2>1. one \in Response /\ one.submits \in 0 .. 1  BY <1>1 DEF Response
  <2>2. [one EXCEPT !.submits = @ + 1] \in Response
    <3> HIDE DEF one
    <3> QED  BY <2>1 DEF Response
  <2> QED  BY <2>2
<1>3. SubmitRst(started) \in Response
  <2> HIDE DEF started
  <2> QED  BY <1>1 DEF Response, SubmitRst
<1> QED  BY <1>2, <1>3 DEF start_response

(* So does what write_head makes of it before.                             *)
LEMMA HeaderDoneType ==
  ASSUME NEW r \in Response, r.submits <= 1, NEW body \in BOOLEAN
  PROVE  LET done == [r EXCEPT !.state = "HEADER_DONE", !.body = body]
         IN  done \in Response /\ done.submits <= 1
<1> DEFINE one == [r EXCEPT !.state = "HEADER_DONE"]
<1>1. one \in Response /\ one.submits <= 1  BY DEF Response
<1>2. [one EXCEPT !.body = body] \in Response /\ [one EXCEPT !.body = body].submits <= 1
  <2> HIDE DEF one
  <2> QED  BY <1>1 DEF Response
<1> QED  BY <1>2

(* response_impl::write_head keeps what holds of a response: it submits    *)
(* the first time it is called, unless PUSH_PROMISE has yet to leave.      *)
LEMMA WriteHeadOk ==
  ASSUME NEW s, NEW r \in Response, ResponseInv(s, r), r.stream # "idle",
         NEW body \in BOOLEAN, NEW ok \in BOOLEAN
  PROVE  /\ write_head(r, body, ok) \in Response
         /\ ResponseInv(s, write_head(r, body, ok))
         /\ Follows(r, write_head(r, body, ok))
<1>1. write_head(r, body, ok) \in Response
  <2> DEFINE done == [r EXCEPT !.state = "HEADER_DONE", !.body = body]
  <2>1. done \in Response /\ done.submits <= 1
    BY HeaderDoneType DEF ResponseInv
  <2>2. start_response(done, ok) \in Response
    BY <2>1, StartResponseType
  <2> QED  BY <2>1, <2>2 DEF write_head
<1>2. ResponseInv(s, write_head(r, body, ok))
  BY DEF write_head, start_response, SubmitRst, Response, ResponseInv
<1>3. Follows(r, write_head(r, body, ok))
  BY DEF write_head, start_response, SubmitRst, Response, Follows
<1> QED  BY <1>1, <1>2, <1>3

(* response_impl::end keeps what holds of a response: the generator is     *)
(* changed before anything that the default one deferred can be left.      *)
LEMMA EndOk ==
  ASSUME NEW s, NEW r \in Response, ResponseInv(s, r), r.stream # "idle",
         NEW body \in BOOLEAN, NEW ok \in BOOLEAN
  PROVE  /\ end(r, body, ok) \in Response
         /\ ResponseInv(s, end(r, body, ok))
         /\ Follows(r, end(r, body, ok))
<1>1. end(r, body, ok) \in Response
  <2> DEFINE set == [r EXCEPT !.gen = "app"]
             done == [set EXCEPT !.state = "HEADER_DONE", !.body = body]
             next == IF r.state = "INITIAL" THEN write_head(set, body, ok)
                     ELSE ResumeData(set)
  <2>1. set \in Response /\ set.submits <= 1
    BY DEF Response, ResponseInv
  <2>2. done \in Response /\ done.submits <= 1
    <3> HIDE DEF set
    <3> QED  BY <2>1, HeaderDoneType
  <2>3. start_response(done, ok) \in Response
    BY <2>2, StartResponseType
  <2>4. ResumeData(set) \in Response
    <3> HIDE DEF set
    <3> QED  BY <2>1, ResumeDataType
  <2>5. next \in Response
    BY <2>1, <2>2, <2>3, <2>4 DEF write_head
  <2>6. [next EXCEPT !.state = "BODY_STARTED"] \in Response
    <3> HIDE DEF next
    <3> QED  BY <2>5 DEF Response
  <2> QED  BY <2>6 DEF end
<1>2. ResponseInv(s, end(r, body, ok))
  BY DEF end, write_head, start_response, SubmitRst, ResumeData, Response, ResponseInv
<1>3. Follows(r, end(r, body, ok))
  BY DEF end, write_head, start_response, SubmitRst, ResumeData, Response, Follows
<1> QED  BY <1>1, <1>2, <1>3

(* response_impl::push_promise_sent, called when PUSH_PROMISE has left,    *)
(* keeps what holds of a response: it submits what write_head held back.   *)
LEMMA PushPromiseSentOk ==
  ASSUME NEW s, NEW r \in Response, ResponseInv(s, r), r.stream # "idle",
         r.promise = "queued", NEW ok \in BOOLEAN
  PROVE  LET next == push_promise_sent([r EXCEPT !.promise = "sent"], ok)
         IN  /\ next \in Response
             /\ ResponseInv(s, next)
             /\ Follows(r, next)
<1> DEFINE left == [r EXCEPT !.promise = "sent"]
           sent == [left EXCEPT !.push_promise_sent = TRUE]
<1>1. left \in Response /\ left.submits <= 1 /\ ~left.push_promise_sent
  BY DEF Response, ResponseInv
<1>2. sent \in Response /\ sent.submits <= 1
  <2> HIDE DEF left
  <2> QED  BY <1>1 DEF Response
<1>3. start_response(sent, ok) \in Response
  BY <1>2, StartResponseType
<1>4. push_promise_sent(left, ok) \in Response
  BY <1>1, <1>2, <1>3 DEF push_promise_sent
<1>5. ResponseInv(s, push_promise_sent(left, ok))
  BY DEF push_promise_sent, start_response, SubmitRst, Response, ResponseInv
<1>6. Follows(r, push_promise_sent(left, ok))
  BY DEF push_promise_sent, start_response, SubmitRst, Response, Follows
<1> QED  BY <1>4, <1>5, <1>6

(* nghttp2 closing a stream keeps what holds of its response and request.  *)
LEMMA ClosedOk ==
  ASSUME NEW s, NEW q, NEW r \in Response, NEW given,
         ResponseInv(s, r), RequestInv(s, q, r, given), r.stream # "idle"
  PROVE  /\ Closed(r) \in Response
         /\ Closed(r).stream = "closed"
         /\ ResponseInv(s, Closed(r))
         /\ RequestInv(s, q, Closed(r), given)
<1>1. Closed(r) \in Response
  <2> DEFINE one == [r EXCEPT !.stream = "closed"]
             two == [one EXCEPT !.rst = FALSE]
             three == [two EXCEPT !.data = "no"]
  <2>1. one \in Response  BY DEF Response
  <2>2. two \in Response
    <3> HIDE DEF one
    <3> QED  BY <2>1 DEF Response
  <2>3. three \in Response
    <3> HIDE DEF two
    <3> QED  BY <2>2 DEF Response
  <2>4. [three EXCEPT !.by = "none"] \in Response
    <3> HIDE DEF three
    <3> QED  BY <2>3 DEF Response
  <2> QED  BY <2>4 DEF Closed
<1>2. Closed(r).stream = "closed"  BY DEF Closed, Response
<1>3. ResponseInv(s, Closed(r))  BY DEF Closed, Response, ResponseInv
<1>4. RequestInv(s, q, Closed(r), given)  BY DEF Closed, Response, RequestInv
<1> QED  BY <1>1, <1>2, <1>3, <1>4

-----------------------------------------------------------------------------
(* Inv is a matter of single streams, of streams_ and of on_close: its     *)
(* other conjuncts follow.                                                 *)
Core ==
  /\ TypeOK
  /\ StreamsKnown
  /\ ClosesInv
  /\ phase = "gone" => streams = {}
  /\ \A s \in Ids : /\ ResponseInv(s, res[s])
                    /\ RequestInv(s, req[s], res[s], s \in app)

(* Inv is no more than its core.                                           *)
LEMMA CoreIsInv == Core <=> Inv
<1>1. ASSUME Core PROVE EofExact
  BY <1>1 DEF Core, EofExact, RequestInv, Ids, TypeOK, Request
<1>2. ASSUME Core PROVE NoStuckBody
  BY <1>2 DEF Core, NoStuckBody, ResponseInv, TypeOK, Response
<1>3. ASSUME Core PROVE CutNeverAnswered
  BY <1>3 DEF Core, CutNeverAnswered, RequestInv, Ids, TypeOK, Request
<1> QED  BY <1>1, <1>2, <1>3 DEF Core, Inv

(* A step that changes the records of one stream, neither opens nor closes *)
(* it, and leaves them as they should be.                                  *)
LEMMA UpdateOk ==
  ASSUME Core, NEW s \in Ids, NEW q \in Request, NEW r \in Response,
         req' = [req EXCEPT ![s] = q], res' = [res EXCEPT ![s] = r],
         ResponseInv(s, r), RequestInv(s, q, r, s \in app'),
         app' \in {app, app \cup {s}},
         r.stream = res[s].stream \/ {r.stream, res[s].stream} \subseteq {"open", "reserved"},
         UNCHANGED <<streams, closes>>, phase' \in {phase, "terminated"}
  PROVE  Core'
<1>1. TypeOK'
  BY DEF Core, TypeOK
<1>2. \A t \in Ids : /\ ResponseInv(t, res'[t])
                     /\ RequestInv(t, req'[t], res'[t], t \in app')
  <2> TAKE t \in Ids
  <2>1. CASE t = s
    BY <2>1 DEF Core, TypeOK
  <2>2. CASE t # s
    <3>1. req'[t] = req[t] /\ res'[t] = res[t] /\ (t \in app' <=> t \in app)
      BY <2>2 DEF Core, TypeOK
    <3>2. ResponseInv(t, res[t]) /\ RequestInv(t, req[t], res[t], t \in app)
      BY DEF Core
    <3>3. CASE t \in app  BY <3>1, <3>2, <3>3 DEF RequestInv
    <3>4. CASE t \notin app  BY <3>1, <3>2, <3>4 DEF RequestInv
    <3> QED  BY <3>3, <3>4
  <2> QED  BY <2>1, <2>2
<1>3. \A t \in Ids : /\ res'[t].stream \in {"open", "reserved"}
                          <=> res[t].stream \in {"open", "reserved"}
                     /\ res'[t].stream = "idle" <=> res[t].stream = "idle"
  BY DEF Core, TypeOK, Response
<1>4. StreamsKnown'
  BY <1>3 DEF Core, StreamsKnown
<1>5. ClosesInv'
  BY <1>3 DEF Core, ClosesInv
<1> QED  BY <1>1, <1>2, <1>4, <1>5 DEF Core

(* A step in which nghttp2 closes a stream.                                *)
LEMMA CloseOk ==
  ASSUME Core, NEW s \in Ids, NEW q \in Request, NEW r \in Response,
         phase = "up", phase' = phase, res[s].stream \in {"open", "reserved"},
         req' = [req EXCEPT ![s] = q], on_stream_close(s, r),
         ResponseInv(s, r), RequestInv(s, q, r, s \in app), r.stream # "idle",
         app' = app
  PROVE  Core'
<1> DEFINE c == Closed(r)
<1>1. /\ c \in Response
      /\ c.stream = "closed"
      /\ ResponseInv(s, c)
      /\ RequestInv(s, q, c, s \in app)
  BY ClosedOk
<1> HIDE DEF c
<1>2. res' = [res EXCEPT ![s] = c] /\ streams' = streams \ {s} /\ s \in streams
  BY DEF on_stream_close, c, Core, StreamsKnown
<1>3. closes' = [closes EXCEPT ![s] = @ + 1] /\ closes[s] = 0
  BY <1>2 DEF on_stream_close, Core, ClosesInv
<1>4. TypeOK'
  BY <1>1, <1>2, <1>3 DEF Core, TypeOK
<1>5. \A t \in Ids : /\ ResponseInv(t, res'[t])
                     /\ RequestInv(t, req'[t], res'[t], t \in app')
  <2> TAKE t \in Ids
  <2>1. CASE t = s
    BY <1>1, <1>2, <2>1 DEF Core, TypeOK
  <2>2. CASE t # s
    BY <1>2, <2>2 DEF Core, TypeOK
  <2> QED  BY <2>1, <2>2
<1>6. StreamsKnown'
  BY <1>1, <1>2 DEF Core, StreamsKnown, TypeOK
<1>7. ClosesInv'
  BY <1>1, <1>2, <1>3 DEF Core, ClosesInv, TypeOK
<1> QED  BY <1>4, <1>5, <1>6, <1>7 DEF Core

(* ... or closes it if both directions have ended.                         *)
LEMMA CloseIfDoneOk ==
  ASSUME Core, NEW s \in Ids, NEW q \in Request, NEW r \in Response, NEW recv,
         phase = "up", phase' = phase,
         {r.stream, res[s].stream} \subseteq {"open", "reserved"},
         req' = [req EXCEPT ![s] = q], CloseIfDone(s, r, recv),
         ResponseInv(s, r), RequestInv(s, q, r, s \in app), app' = app
  PROVE  Core'
<1>1. CASE on_stream_close(s, r)
  BY <1>1, CloseOk
<1>2. CASE res' = [res EXCEPT ![s] = r] /\ UNCHANGED <<streams, closes>>
  BY <1>2, UpdateOk
<1> QED  BY <1>1, <1>2 DEF CloseIfDone

-----------------------------------------------------------------------------
(* The records of a stream, as every action finds them.                    *)
LEMMA Records ==
  ASSUME Core, NEW s \in Ids
  PROVE  /\ req[s] \in Request
         /\ res[s] \in Response
         /\ ResponseInv(s, res[s])
         /\ RequestInv(s, req[s], res[s], s \in app)
         /\ req = [req EXCEPT ![s] = req[s]]
         /\ res = [res EXCEPT ![s] = res[s]]
BY DEF Core, TypeOK

(* The callbacks from nghttp2_session_mem_recv keep the invariant.         *)
LEMMA RecvOk ==
  ASSUME Core, NEW s \in Ids, Recv(s)
  PROVE  Core'
<1> DEFINE q == req[s]
           r == res[s]
<1>0. /\ q \in Request /\ r \in Response
      /\ ResponseInv(s, r) /\ RequestInv(s, q, r, s \in app)
      /\ req = [req EXCEPT ![s] = q] /\ res = [res EXCEPT ![s] = r]
  BY Records
<1>1. CASE on_begin_headers(s)
  <2> DEFINE nq == [q EXCEPT !.recv = "headers"]
             nr == [r EXCEPT !.stream = "open"]
  <2>1. nq \in Request  BY <1>0 DEF Request
  <2>2. nr \in Response  BY <1>0 DEF Response
  <2>3. req' = [req EXCEPT ![s] = nq] /\ res' = [res EXCEPT ![s] = nr]
    BY <1>1 DEF on_begin_headers
  <2>4. nr.stream = "open" /\ r.stream = "idle"
    BY <1>0, <1>1 DEF on_begin_headers, Response
  <2>5. ResponseInv(s, nr)
    BY <1>0, <1>1, <2>4, IdsAssumption
       DEF on_begin_headers, ResponseInv, NewResponse, Response
  <2>6. RequestInv(s, nq, nr, s \in app)
    BY <1>0, <1>1, <2>4, IdsAssumption
       DEF on_begin_headers, RequestInv, ResponseInv, NewResponse, NewRequest, Request
  <2> HIDE DEF q, r, nq, nr
  <2>7. TypeOK'
    BY <1>1, <2>1, <2>2, <2>3 DEF on_begin_headers, Core, TypeOK
  <2>8. StreamsKnown'
    BY <1>1, <2>3, <2>4 DEF on_begin_headers, Core, StreamsKnown, TypeOK
  <2>9. ClosesInv'
    BY <1>1, <2>3, <2>4 DEF on_begin_headers, Core, ClosesInv, TypeOK, r
  <2>10. \A t \in Ids : /\ ResponseInv(t, res'[t])
                        /\ RequestInv(t, req'[t], res'[t], t \in app')
    BY <1>1, <2>3, <2>5, <2>6 DEF on_begin_headers, Core, TypeOK
  <2> QED  BY <1>1, <2>7, <2>8, <2>9, <2>10 DEF on_begin_headers, Core
<1>2. ASSUME NEW n \in 1 .. HeaderMax + 1, on_header(s, n) PROVE Core'
  <2>1. r.stream \in {"open", "reserved"}
    BY <1>2 DEF on_header, Core, StreamsKnown
  <2>2. CASE q.header_buffer_size + n > HeaderMax
    <3> DEFINE nq == [q EXCEPT !.cut = TRUE]
               nr == SubmitRst(r)
    <3>1. nq \in Request  BY <1>0 DEF Request
    <3>2. nr \in Response /\ ResponseInv(s, nr) /\ Follows(r, nr)
      BY <1>0, <2>1, SubmitRstOk
    <3>3. req' = [req EXCEPT ![s] = nq] /\ res' = [res EXCEPT ![s] = nr]
      BY <1>2, <2>2 DEF on_header
    <3>4. RequestInv(s, nq, nr, s \in app)
      BY <1>0, <1>2, <2>1, IdsAssumption
         DEF on_header, SubmitRst, Request, Response, RequestInv, ResponseInv
    <3> QED  BY <1>2, <2>1, <3>1, <3>2, <3>3, <3>4, UpdateOk
             DEF on_header, Follows
  <2>3. CASE ~(q.header_buffer_size + n > HeaderMax)
    <3> DEFINE nq == [q EXCEPT !.header_buffer_size = @ + n]
    <3>1. nq \in Request
      BY <1>0, <2>3, HeaderMaxAssumption DEF Request
    <3>2. req' = [req EXCEPT ![s] = nq] /\ res' = [res EXCEPT ![s] = r]
      BY <1>0, <1>2, <2>3 DEF on_header
    <3>3. RequestInv(s, nq, r, s \in app)
      BY <1>0, <2>1 DEF Request, RequestInv
    <3> QED  BY <1>0, <1>2, <3>1, <3>2, <3>3, UpdateOk DEF on_header
  <2> QED  BY <2>2, <2>3
<1>3. ASSUME NEW last \in BOOLEAN, on_frame_recv_headers(s, last) PROVE Core'
  <2> DEFINE one == [q EXCEPT !.recv = IF last THEN "end" ELSE "body"]
             nq == [one EXCEPT !.eof = last /\ s \in streams]
  <2>1. one \in Request  BY <1>0 DEF Request
  <2>2. nq \in Request
    <3> HIDE DEF one
    <3> QED  BY <2>1 DEF Request
  <2>3. req' = [req EXCEPT ![s] = nq] /\ res' = [res EXCEPT ![s] = r]
    BY <1>0, <1>3 DEF on_frame_recv_headers, Core, TypeOK
  <2>4. s \notin Promises /\ s \notin app /\ (s \in streams <=> r.stream # "closed")
    BY <1>0, <1>3, IdsAssumption
       DEF on_frame_recv_headers, Core, StreamsKnown, Ids, RequestInv, Response
  <2>5. RequestInv(s, nq, r, s \in app')
    BY <1>0, <1>3, <2>4 DEF on_frame_recv_headers, Request, RequestInv
  <2> QED  BY <1>0, <1>3, <2>2, <2>3, <2>5, UpdateOk DEF on_frame_recv_headers
<1>4. CASE on_frame_recv_data(s)
  <2> DEFINE one == [q EXCEPT !.recv = "end"]
             nq == [one EXCEPT !.eof = TRUE]
  <2>1. one \in Request  BY <1>0 DEF Request
  <2>2. nq \in Request
    <3> HIDE DEF one
    <3> QED  BY <2>1 DEF Request
  <2>3. s \in streams
    BY <1>4 DEF on_frame_recv_data, Core, StreamsKnown
  <2>4. req' = [req EXCEPT ![s] = nq]
    BY <1>4, <2>3 DEF on_frame_recv_data, Core, TypeOK
  <2>5. RequestInv(s, nq, r, s \in app)
    BY <1>0, <1>4 DEF on_frame_recv_data, Request, RequestInv, Ids
  <2> QED  BY <1>0, <1>4, <2>2, <2>4, <2>5, CloseIfDoneOk DEF on_frame_recv_data
<1>5. CASE on_frame_recv_trailers(s)
  <2> DEFINE nq == [q EXCEPT !.recv = "trailed"]
  <2>1. nq \in Request  BY <1>0 DEF Request
  <2>2. RequestInv(s, nq, r, s \in app)
    BY <1>0, <1>5 DEF on_frame_recv_trailers, Request, RequestInv, Ids
  <2> QED  BY <1>0, <1>5, <2>1, <2>2, CloseIfDoneOk DEF on_frame_recv_trailers
<1>6. CASE RecvRst(s)
  BY <1>0, <1>6, CloseOk DEF RecvRst
<1> QED  BY <1>1, <1>2, <1>3, <1>4, <1>5, <1>6 DEF Recv

(* What the response code leaves of a response also suits the request.     *)
LEMMA RequestFollows ==
  ASSUME NEW s, NEW q, NEW r, NEW next, NEW given,
         RequestInv(s, q, r, given), Follows(r, next),
         given \/ (r.state = "INITIAL" => next.state = "INITIAL")
  PROVE  RequestInv(s, q, next, given)
BY DEF RequestInv, Follows

(* The callbacks from nghttp2_session_mem_send keep the invariant.         *)
LEMMA SendOk ==
  ASSUME Core, NEW s \in Ids, Send(s)
  PROVE  Core'
<1> DEFINE q == req[s]
           r == res[s]
<1>0. /\ q \in Request /\ r \in Response
      /\ ResponseInv(s, r) /\ RequestInv(s, q, r, s \in app)
      /\ req = [req EXCEPT ![s] = q] /\ res = [res EXCEPT ![s] = r]
  BY Records
<1>1. ASSUME NEW ok \in BOOLEAN, on_frame_send(s, ok) PROVE Core'
  <2> DEFINE next == push_promise_sent([r EXCEPT !.promise = "sent"], ok)
  <2>1. r.stream \in {"open", "reserved"} /\ r.promise = "queued" /\ s \in streams
    BY <1>1 DEF on_frame_send, Live, Core, StreamsKnown
  <2>2. next \in Response /\ ResponseInv(s, next) /\ Follows(r, next)
    BY <1>0, <2>1, PushPromiseSentOk
  <2>3. r.state = "INITIAL" => next.state = "INITIAL"
    BY <1>0 DEF push_promise_sent, Response
  <2>4. res' = [res EXCEPT ![s] = next]
    BY <1>1, <2>1 DEF on_frame_send
  <2> HIDE DEF next
  <2>5. RequestInv(s, q, next, s \in app)
    BY <1>0, <2>2, <2>3, RequestFollows
  <2> QED  BY <1>0, <1>1, <2>1, <2>2, <2>4, <2>5, UpdateOk DEF on_frame_send, Follows
<1>2. CASE PromiseDropped(s)
  <2> DEFINE next == [r EXCEPT !.promise = "no"]
  <2>1. r.stream \in {"open", "reserved"} /\ r.promise = "queued"
    BY <1>2 DEF PromiseDropped, Live
  <2>2. next \in Response  BY <1>0 DEF Response
  <2>3. ResponseInv(s, next) /\ next.stream # "idle"
    BY <1>0, <2>1 DEF Response, ResponseInv
  <2>4. RequestInv(s, q, next, s \in app)
    BY <1>0 DEF Response, RequestInv
  <2> QED  BY <1>0, <1>2, <2>2, <2>3, <2>4, CloseOk DEF PromiseDropped, Live
<1>3. CASE SendHeaders(s)
  <2> DEFINE one == [r EXCEPT !.head = "sent"]
             two == [one EXCEPT !.stream = "open"]
             next == [two EXCEPT !.data = IF r.body THEN "ready" ELSE "end"]
  <2>1. one \in Response  BY <1>0 DEF Response
  <2>2. two \in Response
    <3> HIDE DEF one
    <3> QED  BY <2>1 DEF Response
  <2>3. next \in Response
    <3> HIDE DEF two
    <3> QED  BY <2>2 DEF Response
  <2>4. /\ r.stream \in {"open", "reserved"} /\ phase = "up"
        /\ r.head = "queued" /\ ~r.rst
        /\ next.stream = "open"
    BY <1>0, <1>3 DEF SendHeaders, Live, Response
  <2>5. ResponseInv(s, next)
    BY <1>0, <2>4 DEF Response, ResponseInv
  <2>6. RequestInv(s, q, next, s \in app)
    BY <1>0, <2>4 DEF Response, RequestInv
  <2>7. CloseIfDone(s, next, q.recv)
    BY <1>0, <1>3 DEF SendHeaders, Response
  <2> HIDE DEF next
  <2> QED  BY <1>0, <1>3, <2>3, <2>4, <2>5, <2>6, <2>7, CloseIfDoneOk DEF SendHeaders
<1>4. CASE on_frame_not_send(s)
  <2> DEFINE left == [r EXCEPT !.head = "dropped"]
  <2>1. left \in Response /\ left.stream = r.stream
    BY <1>0 DEF Response
  <2>2. r.stream # "idle" /\ r.head = "queued"
    BY <1>0, <1>4 DEF on_frame_not_send, ResponseInv, NewResponse
  <2>3. ResponseInv(s, left)
    BY <1>0, <2>2 DEF Response, ResponseInv
  <2>4. RequestInv(s, q, left, s \in app)
    BY <1>0 DEF Response, RequestInv
  <2>5. /\ SubmitRst(left) \in Response /\ ResponseInv(s, SubmitRst(left))
        /\ SubmitRst(left).stream = r.stream
    BY <2>1, <2>2, <2>3, SubmitRstOk DEF Follows
  <2>6. RequestInv(s, q, SubmitRst(left), s \in app)
    BY <1>0 DEF Response, RequestInv, SubmitRst
  <2>7. \/ res' = [res EXCEPT ![s] = left]
        \/ res' = [res EXCEPT ![s] = SubmitRst(left)]
    BY <1>4 DEF on_frame_not_send
  <2> HIDE DEF left
  <2> QED  BY <1>0, <1>4, <2>1, <2>3, <2>4, <2>5, <2>6, <2>7, UpdateOk
           DEF on_frame_not_send
<1>5. ASSUME NEW result \in Results, call_read(s, result) PROVE Core'
  <2>1. /\ r.stream \in {"open", "reserved"} /\ phase = "up"
        /\ r.data = "ready" /\ r.head = "sent" /\ r.body /\ ~r.rst
    BY <1>0, <1>5 DEF call_read, Live, ResponseInv
  <2>2. ASSUME NEW next \in Response, ResponseInv(s, next), next.stream = r.stream,
               next.rst = r.rst \/ next.rst, next.head = r.head, next.state = r.state,
               CloseIfDone(s, next, q.recv)
        PROVE  Core'
    <3>1. RequestInv(s, q, next, s \in app)
      BY <1>0, <2>1, <2>2 DEF RequestInv
    <3> QED  BY <1>0, <1>5, <2>1, <2>2, <3>1, CloseIfDoneOk DEF call_read
  <2>3. CASE result = "data"
    BY <1>0, <1>5, <2>2, <2>3 DEF call_read
  <2>4. CASE result = "fail"
    <3>1. SubmitRst(r) \in Response /\ ResponseInv(s, SubmitRst(r))
      BY <1>0, <2>1, SubmitRstOk
    <3>2. /\ SubmitRst(r).stream = r.stream /\ SubmitRst(r).rst
          /\ SubmitRst(r).head = r.head /\ SubmitRst(r).state = r.state
      BY <1>0 DEF SubmitRst, Response
    <3>3. CloseIfDone(s, SubmitRst(r), q.recv)
      BY <1>5, <2>4 DEF call_read
    <3> QED  BY <2>2, <3>1, <3>2, <3>3
  <2>5. CASE result = "deferred"
    <3> DEFINE one == [r EXCEPT !.data = "deferred"]
               next == [one EXCEPT !.by = r.gen]
    <3>1. one \in Response /\ r.gen \in {"default", "app"}  BY <1>0 DEF Response
    <3>2. next \in Response
      <4> HIDE DEF one
      <4> QED  BY <3>1 DEF Response
    <3>3. ResponseInv(s, next)
      BY <1>0, <2>1 DEF Response, ResponseInv
    <3>4. /\ next.stream = r.stream /\ next.rst = r.rst
          /\ next.head = r.head /\ next.state = r.state
      BY <1>0 DEF Response
    <3>5. CloseIfDone(s, next, q.recv)
      BY <1>0, <1>5, <2>5 DEF call_read, Response
    <3> HIDE DEF next
    <3> QED  BY <2>2, <3>2, <3>3, <3>4, <3>5
  <2>6. CASE result \in {"end", "trailers"}
    <3> DEFINE next == [r EXCEPT !.data = result]
    <3>1. next \in Response  BY <1>0, <2>6 DEF Response
    <3>2. ResponseInv(s, next)
      BY <1>0, <1>5, <2>1, <2>6 DEF Response, ResponseInv
    <3>3. /\ next.stream = r.stream /\ next.rst = r.rst
          /\ next.head = r.head /\ next.state = r.state
      BY <1>0 DEF Response
    <3>4. CloseIfDone(s, next, q.recv)
      BY <1>5, <2>6 DEF call_read
    <3> HIDE DEF next
    <3> QED  BY <2>2, <3>1, <3>2, <3>3, <3>4
  <2> QED  BY <2>3, <2>4, <2>5, <2>6 DEF Results
<1>6. CASE SendTrailer(s)
  <2> DEFINE next == [r EXCEPT !.data = "end"]
  <2>1. /\ r.stream \in {"open", "reserved"} /\ phase = "up" /\ r.head = "sent"
        /\ r.data = "trailing" /\ next.stream = r.stream
    BY <1>0, <1>6 DEF SendTrailer, Live, ResponseInv, Response
  <2>2. next \in Response  BY <1>0 DEF Response
  <2>3. ResponseInv(s, next)
    BY <1>0, <2>1 DEF Response, ResponseInv
  <2>4. RequestInv(s, q, next, s \in app)
    BY <1>0 DEF Response, RequestInv
  <2>5. CloseIfDone(s, next, q.recv)
    BY <1>6 DEF SendTrailer
  <2> HIDE DEF next
  <2> QED  BY <1>0, <1>6, <2>1, <2>2, <2>3, <2>4, <2>5, CloseIfDoneOk DEF SendTrailer
<1>7. CASE SendRst(s)
  BY <1>0, <1>7, CloseOk DEF SendRst, Live
<1> QED  BY <1>1, <1>2, <1>3, <1>4, <1>5, <1>6, <1>7 DEF Send

(* A call of the application on a response it holds keeps the invariant    *)
(* when the function it calls keeps what holds of the response.            *)
LEMMA CallOk ==
  ASSUME Core, NEW s \in Ids, NEW next \in Response, NEW quiet,
         Call(s, next, quiet), ResponseInv(s, next), Follows(res[s], next)
  PROVE  Core'
<1>1. /\ req[s] \in Request /\ req = [req EXCEPT ![s] = req[s]]
      /\ RequestInv(s, req[s], res[s], s \in app) /\ s \in app
  BY Records DEF Call, Holds
<1>2. RequestInv(s, req[s], next, s \in app)
  BY <1>1, RequestFollows
<1>3. phase' \in {phase, "terminated"}
  BY DEF Call, signal_write
<1> QED  BY <1>1, <1>2, <1>3, UpdateOk DEF Call, Follows

(* The calls of the application keep the invariant.                        *)
LEMMA AppOk ==
  ASSUME Core, NEW s \in Ids, App(s)
  PROVE  Core'
<1> DEFINE r == res[s]
<1>0. /\ r \in Response /\ ResponseInv(s, r)
      /\ RequestInv(s, req[s], r, s \in app)
  BY Records
<1>1. Holds(s) => r.stream # "idle"
  BY <1>0 DEF Holds, RequestInv
<1>2. ASSUME NEW body \in BOOLEAN, NEW ok \in BOOLEAN, WriteHead(s, body, ok)
      PROVE  Core'
  <2>1. r.stream # "idle"  BY <1>1, <1>2 DEF WriteHead, Call
  <2> QED  BY <1>0, <1>2, <2>1, WriteHeadOk, CallOk DEF WriteHead
<1>3. ASSUME NEW body \in BOOLEAN, NEW ok \in BOOLEAN, End(s, body, ok)
      PROVE  Core'
  <2>1. r.stream # "idle"  BY <1>1, <1>3 DEF End, Call
  <2> QED  BY <1>0, <1>3, <2>1, EndOk, CallOk DEF End
<1>4. CASE Resume(s)
  <2>1. r.stream # "idle"  BY <1>1, <1>4 DEF Resume, Call
  <2> QED  BY <1>0, <1>4, <2>1, ResumeDataOk, CallOk DEF Resume
<1>5. CASE Cancel(s)
  <2>1. r.stream # "idle"  BY <1>1, <1>5 DEF Cancel, Call
  <2> QED  BY <1>0, <1>5, <2>1, SubmitRstOk, CallOk DEF Cancel
<1>6. CASE WriteTrailer(s)
  <2> DEFINE next == [r EXCEPT !.data = "trailing"]
  <2>1. r.data = "trailers" /\ Call(s, next, FALSE)
    BY <1>6 DEF WriteTrailer
  <2>2. next \in Response  BY <1>0 DEF Response
  <2>3. ResponseInv(s, next)
    BY <1>0, <2>1 DEF Response, ResponseInv, NewResponse
  <2>4. Follows(r, next)  BY <1>0 DEF Response, Follows
  <2> HIDE DEF next
  <2> QED  BY <2>1, <2>2, <2>3, <2>4, CallOk
<1>7. ASSUME NEW p \in Promises, Push(s, p) PROVE Core'
  <2> DEFINE nq == [req[p] EXCEPT !.recv = "end"]
             one == [res[p] EXCEPT !.stream = "reserved"]
             two == [one EXCEPT !.promise = "queued"]
             nr == [two EXCEPT !.pushed = TRUE]
  <2>1. /\ p \in Ids /\ p \notin Reqs
        /\ req[p] \in Request /\ res[p] \in Response
        /\ ResponseInv(p, res[p]) /\ RequestInv(p, req[p], res[p], p \in app)
        /\ res[p].stream = "idle"
    BY <1>7, Records, IdsAssumption DEF Push, Ids
  <2>2. nq \in Request  BY <2>1 DEF Request
  <2>3. one \in Response  BY <2>1 DEF Response
  <2>4. two \in Response
    <3> HIDE DEF one
    <3> QED  BY <2>3 DEF Response
  <2>5. nr \in Response
    <3> HIDE DEF two
    <3> QED  BY <2>4 DEF Response
  <2>6. req' = [req EXCEPT ![p] = nq] /\ res' = [res EXCEPT ![p] = nr]
    BY <1>7, <2>1 DEF Push, Core, TypeOK, Response
  <2>7. nr.stream = "reserved"  BY <2>1 DEF Response
  <2>8. ResponseInv(p, nr)
    BY <2>1 DEF ResponseInv, NewResponse, Response
  <2>9. RequestInv(p, nq, nr, TRUE)
    BY <2>1 DEF RequestInv, ResponseInv, NewResponse, Request, Response
  <2> HIDE DEF nq, nr
  <2>10. /\ phase \in {"up", "dying"} /\ phase' \in {phase, "terminated"}
         /\ phase = "dying" => phase' = "terminated"
         /\ streams' = streams \cup {p} /\ app' = app \cup {p} /\ closes' = closes
    BY <1>7 DEF Push, Holds, signal_write
  <2>11. TypeOK'
    BY <2>1, <2>2, <2>5, <2>6, <2>10 DEF Core, TypeOK
  <2>12. StreamsKnown'
    BY <2>1, <2>6, <2>7, <2>10 DEF Core, StreamsKnown, TypeOK
  <2>13. ClosesInv'
    BY <2>1, <2>6, <2>7, <2>10 DEF Core, ClosesInv, TypeOK
  <2>14. \A t \in Ids : /\ ResponseInv(t, res'[t])
                        /\ RequestInv(t, req'[t], res'[t], t \in app')
    <3> TAKE t \in Ids
    <3>1. CASE t = p
      BY <2>1, <2>6, <2>8, <2>9, <2>10, <3>1 DEF Core, TypeOK, RequestInv
    <3>2. CASE t # p
      <4>1. req'[t] = req[t] /\ res'[t] = res[t] /\ (t \in app' <=> t \in app)
        BY <2>6, <2>10, <3>2 DEF Core, TypeOK
      <4>2. ResponseInv(t, res[t]) /\ RequestInv(t, req[t], res[t], t \in app)
        BY DEF Core
      <4> QED  BY <4>1, <4>2 DEF RequestInv
    <3> QED  BY <3>1, <3>2
  <2> QED  BY <2>10, <2>11, <2>12, <2>13, <2>14 DEF Core
<1> QED  BY <1>2, <1>3, <1>4, <1>5, <1>6, <1>7 DEF App

(* ~http2_handler keeps the invariant.                                     *)
LEMMA DestroyOk ==
  ASSUME Core, DestroyStream \/ Destroyed
  PROVE  Core'
<1>1. CASE DestroyStream
  <2> PICK s \in streams : /\ closes' = [closes EXCEPT ![s] = @ + 1]
                           /\ streams' = streams \ {s}
    BY <1>1 DEF DestroyStream
  <2>1. /\ phase \in {"up", "dying"} /\ phase' = "dying"
        /\ req' = req /\ res' = res /\ app' = app
    BY <1>1 DEF DestroyStream
  <2>2. s \in Ids /\ closes[s] = 0 /\ res[s].stream \in {"open", "reserved"}
    BY <2>1 DEF Core, TypeOK, ClosesInv
  <2>3. TypeOK'  BY <2>1, <2>2 DEF Core, TypeOK
  <2>4. ClosesInv'  BY <2>1, <2>2 DEF Core, TypeOK, ClosesInv
  <2> QED  BY <2>1, <2>3, <2>4 DEF Core, StreamsKnown
<1>2. CASE Destroyed
  BY <1>2 DEF Destroyed, Core, TypeOK, StreamsKnown, ClosesInv
<1> QED  BY <1>1, <1>2

-----------------------------------------------------------------------------
(* The invariant holds however application calls, frames received and      *)
(* sent, and the destructor are ordered.                                   *)
THEOREM InvHolds == Spec => []Inv
<1>1. Init => Core
  BY HeaderMaxAssumption, IdsAssumption
     DEF Init, Core, TypeOK, StreamsKnown, ClosesInv, ResponseInv, RequestInv,
         NewRequest, NewResponse, Request, Response
<1>2. Core /\ [Next]_vars => Core'
  <2> SUFFICES ASSUME Core, [Next]_vars PROVE Core'  OBVIOUS
  <2>1. ASSUME NEW s \in Ids, Recv(s) PROVE Core'  BY <2>1, RecvOk
  <2>2. ASSUME NEW s \in Ids, Send(s) PROVE Core'  BY <2>2, SendOk
  <2>3. ASSUME NEW s \in Ids, App(s) PROVE Core'  BY <2>3, AppOk
  <2>4. CASE DestroyStream \/ Destroyed  BY <2>4, DestroyOk
  <2>5. CASE UNCHANGED vars
    BY <2>5 DEF vars, Core, TypeOK, StreamsKnown, ClosesInv
  <2> QED  BY <2>1, <2>2, <2>3, <2>4, <2>5 DEF Next
<1> QED  BY <1>1, <1>2, CoreIsInv, PTL DEF Spec

(* nghttp2_submit_response is called at most once for a stream, and for a  *)
(* pushed one only after its PUSH_PROMISE has left.                        *)
THEOREM ResponseOnceHolds == Spec => []ResponseOnce
<1>1. Inv => ResponseOnce
  BY IdsAssumption DEF Inv, ResponseOnce, ResponseInv, Ids, TypeOK, Response, NewResponse
<1> QED  BY <1>1, InvHolds, PTL

(* What write_head or end was told is submitted once PUSH_PROMISE has left,*)
(* or the stream is being reset, while the handler is not destroyed.       *)
THEOREM NoLostResponseHolds == Spec => []NoLostResponse
<1>1. Inv => NoLostResponse
  BY DEF Inv, NoLostResponse, ResponseInv, TypeOK, Response, ClosesInv
<1> QED  BY <1>1, InvHolds, PTL

(* on_close is called exactly once for every stream, by nghttp2's close or *)
(* by the destructor.                                                      *)
THEOREM CloseOnceHolds == Spec => []CloseOnce
<1>1. Inv => CloseOnce
  BY DEF Inv, CloseOnce, ClosesInv, StreamsKnown, TypeOK, Response
<1> QED  BY <1>1, InvHolds, PTL
=============================================================================
