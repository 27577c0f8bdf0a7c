--------------------------- MODULE ClientStreams ---------------------------
(***************************************************************************)
(* What a client application is told about its streams: the nghttp2        *)
(* callbacks of asio_client_session_impl.cc on incoming HEADERS, DATA and  *)
(* PUSH_PROMISE, and the response_impl they fill.                          *)
(*                                                                         *)
(* The server sends, per stream, any number of interim (1xx) responses,    *)
(* the final response, DATA, and perhaps trailers.  nghttp2 delivers a     *)
(* header block as on_begin_headers, on_header for every field and         *)
(* on_frame_recv; a block may span several reads, so other streams' frames *)
(* never come in between, but the session's own resets may close a stream  *)
(* in the middle of its block.                                             *)
(***************************************************************************)
EXTENDS Naturals, FiniteSets

CONSTANTS
  Reqs,       \* streams of submitted requests
  Pushes,     \* streams the server may promise
  HeaderMax   \* the limit 64_k on the header bytes kept per message

ASSUME IdsAssumption == Reqs \cap Pushes = {}

ASSUME HeaderMaxAssumption == HeaderMax \in Nat \ {0}

Ids == Reqs \cup Pushes

NoBlock == [type |-> "none"]

(* The kinds of header block a server sends on a stream.                   *)
Blocks == {"interim", "final", "trailers"}

(* A header block of a response: its stream, its kind, whether nghttp2     *)
(* gives it category RESPONSE, whether it ends the stream and whether      *)
(* :status (which precedes every other field) was delivered; and that of a *)
(* PUSH_PROMISE, with the promised stream.                                 *)
HeaderBlock == [type : {"HEADERS"}, stream : Ids, kind : Blocks,
                first : BOOLEAN, last : BOOLEAN, status : BOOLEAN]

PromiseBlock == [type : {"PUSH_PROMISE"}, stream : Reqs, promised : Pushes]

VARIABLES
  streams,    \* keys of session_impl::streams_
  block,      \* the header block being received, or NoBlock
  res,        \* per stream: response_impl and what nghttp2 knows
  told        \* per stream: what the application has been told

vars == <<streams, block, res, told>>

(* net: the stream for nghttp2; first: no HEADERS were received on it yet  *)
(* (the next block has category RESPONSE, later ones HEADERS); got: the    *)
(* furthest the server has come (trailed: to the end, with trailers);      *)
(* status_code: 0, an interim or a final code; rst: RST_STREAM is queued;  *)
(* cut: a field received on the stream was dropped; req_buffer_size        *)
(* belongs to the promised request.                                        *)
Response ==
  [net : {"idle", "open", "closed"}, first : BOOLEAN,
   got : {"nothing", "final", "end", "trailed"},
   status_code : {"zero", "interim", "final"},
   header_buffer_size : 0 .. HeaderMax, req_buffer_size : 0 .. HeaderMax,
   rst : BOOLEAN, cut : BOOLEAN]

(* Calls of on_push (with the promised request), on_response, on_data with *)
(* data, on_data with length 0, on_close.                                  *)
Told == [push : 0 .. 1, response : 0 .. 1, data : BOOLEAN, eof : 0 .. 1,
         close : 0 .. 1]

Init ==
  /\ streams = Reqs
  /\ block = NoBlock
  /\ res = [s \in Ids |->
              [net |-> IF s \in Reqs THEN "open" ELSE "idle", first |-> TRUE,
               got |-> "nothing", status_code |-> "zero",
               header_buffer_size |-> 0, req_buffer_size |-> 0,
               rst |-> FALSE, cut |-> FALSE]]
  /\ told = [s \in Ids |-> [push |-> 0, response |-> 0, data |-> FALSE,
                            eof |-> 0, close |-> 0]]

-----------------------------------------------------------------------------
(* Header blocks of a response.                                            *)

expect_final_response(s) == res[s].status_code = "interim"

(* "ignore trailers" in on_header_callback and on_frame_recv_callback.     *)
Ignored(b) == ~b.first /\ ~expect_final_response(b.stream)

(* on_begin_headers_callback does nothing for HEADERS.                     *)
BeginHeaders(s, kind, last) ==
  /\ block = NoBlock
  /\ res[s].net = "open"
  /\ ~res[s].rst
  /\ kind = "interim" => ~last /\ res[s].got = "nothing"
  /\ kind = "final" => res[s].got = "nothing"
  /\ kind = "trailers" => last /\ res[s].got = "final"
  /\ block' = [type |-> "HEADERS", stream |-> s, kind |-> kind,
               first |-> res[s].first, last |-> last, status |-> FALSE]
  /\ res' = [res EXCEPT ![s].first = FALSE]
  /\ UNCHANGED <<streams, told>>

(* on_header_callback for :status, absent from trailers.                   *)
on_header_status ==
  /\ block.type = "HEADERS"
  /\ ~block.status
  /\ block.kind # "trailers"
  /\ block' = [block EXCEPT !.status = TRUE]
  /\ IF block.stream \in streams /\ ~Ignored(block)
     THEN res' = [res EXCEPT ![block.stream].status_code = block.kind]
     ELSE UNCHANGED res
  /\ UNCHANGED <<streams, told>>

(* Every field but :status follows it.                                     *)
InFields(type) ==
  /\ block.type = type
  /\ type = "HEADERS" => block.status \/ block.kind = "trailers"

(* Variant: fields of trailers are taken for response header fields.       *)
on_header_fieldAll(n) ==
  LET s == block.stream
  IN  /\ InFields("HEADERS")
      /\ IF s \notin streams
         THEN UNCHANGED res
         ELSE IF res[s].header_buffer_size + n > HeaderMax
         THEN res' = [res EXCEPT ![s].rst = TRUE, ![s].cut = TRUE]
         ELSE res' = [res EXCEPT ![s].header_buffer_size = @ + n]
      /\ UNCHANGED <<streams, block, told>>

(* Variant: an oversized field is dropped without a reset.                 *)
on_header_fieldNoReset(n) ==
  LET s == block.stream
  IN  /\ InFields("HEADERS")
      /\ IF s \notin streams \/ Ignored(block)
         THEN UNCHANGED res
         ELSE IF res[s].header_buffer_size + n > HeaderMax
         THEN res' = [res EXCEPT ![s].cut = TRUE]
         ELSE res' = [res EXCEPT ![s].header_buffer_size = @ + n]
      /\ UNCHANGED <<streams, block, told>>

(* on_header_callback for another field, of n bytes.                       *)
on_header_field(n) ==
  LET s == block.stream
  IN  /\ InFields("HEADERS")
      /\ IF s \notin streams \/ Ignored(block)
         THEN UNCHANGED res
         ELSE IF res[s].header_buffer_size + n > HeaderMax
         THEN res' = [res EXCEPT ![s].rst = TRUE, ![s].cut = TRUE]
         ELSE res' = [res EXCEPT ![s].header_buffer_size = @ + n]
      /\ UNCHANGED <<streams, block, told>>

(* nghttp2's account of how far the server has come, after a block.        *)
Progress(b, got) ==
  CASE b.last -> IF b.kind = "trailers" THEN "trailed" ELSE "end"
    [] ~b.last /\ b.kind = "final" -> "final"
    [] OTHER -> got

(* on_frame_recv_callback for HEADERS: on_response, and EOF if the block   *)
(* ends the stream, unless it is trailers or an interim response.          *)
on_frame_recv_headers ==
  LET s == block.stream
      report == s \in streams /\ ~Ignored(block) /\ ~expect_final_response(s)
  IN  /\ InFields("HEADERS")
      /\ block' = NoBlock
      /\ res' = [res EXCEPT ![s].got = Progress(block, @)]
      /\ told' = IF report
                 THEN [told EXCEPT ![s].response = 1,
                                   ![s].eof = IF block.last THEN 1 ELSE @]
                 ELSE told
      /\ UNCHANGED streams

-----------------------------------------------------------------------------
(* DATA.                                                                   *)

Receiving(s) ==
  /\ block = NoBlock
  /\ res[s].net = "open"
  /\ ~res[s].rst
  /\ res[s].got = "final"

on_data_chunk_recv(s) ==
  /\ Receiving(s)
  /\ told' = IF s \in streams THEN [told EXCEPT ![s].data = TRUE] ELSE told
  /\ UNCHANGED <<streams, block, res>>

(* Variant: the end is not reported.                                       *)
on_frame_recv_dataSilent(s) ==
  /\ Receiving(s)
  /\ res' = [res EXCEPT ![s].got = "end"]
  /\ UNCHANGED <<streams, block, told>>

(* on_frame_recv_callback for the DATA frame with END_STREAM.              *)
on_frame_recv_data(s) ==
  /\ Receiving(s)
  /\ res' = [res EXCEPT ![s].got = "end"]
  /\ told' = IF s \in streams THEN [told EXCEPT ![s].eof = 1] ELSE told
  /\ UNCHANGED <<streams, block>>

-----------------------------------------------------------------------------
(* PUSH_PROMISE on stream s.                                               *)

(* on_begin_headers_callback: create_push_stream.                          *)
on_begin_headers(s, p) ==
  /\ block = NoBlock
  /\ res[s].net = "open"
  /\ ~res[s].rst
  /\ res[s].got \notin {"end", "trailed"}
  /\ s \in Reqs
  /\ p \in Pushes
  /\ res[p].net = "idle"
  /\ block' = [type |-> "PUSH_PROMISE", stream |-> s, promised |-> p]
  /\ streams' = streams \cup {p}
  /\ res' = [res EXCEPT ![p].net = "open"]
  /\ UNCHANGED told

(* on_header_callback for a field of the promised request; on overflow the *)
(* reset goes to the stream the frame came on, not to the promised one.    *)
on_header_promise(n) ==
  LET p == block.promised
      s == block.stream
  IN  /\ InFields("PUSH_PROMISE")
      /\ IF p \notin streams
         THEN UNCHANGED res
         ELSE IF res[p].req_buffer_size + n > HeaderMax
         THEN res' = [res EXCEPT ![s].rst = @ \/ res[s].net = "open", ![s].cut = TRUE]
         ELSE res' = [res EXCEPT ![p].req_buffer_size = @ + n]
      /\ UNCHANGED <<streams, block, told>>

(* on_frame_recv_callback: on_push of the request the promise came on.     *)
on_frame_recv_promise ==
  /\ InFields("PUSH_PROMISE")
  /\ block' = NoBlock
  /\ told' = IF {block.stream, block.promised} \subseteq streams
             THEN [told EXCEPT ![block.promised].push = 1] ELSE told
  /\ UNCHANGED <<streams, res>>

-----------------------------------------------------------------------------
(* The end of a stream.                                                    *)

(* The application resets a stream it has not been told the end of.        *)
cancel(s) ==
  /\ res[s].net = "open"
  /\ told[s].close = 0
  /\ res' = [res EXCEPT ![s].rst = TRUE]
  /\ UNCHANGED <<streams, block, told>>

(* Variant: the stream is looked up but stays in streams_.                 *)
on_stream_closeKeeps(s) ==
  /\ res[s].net = "open"
  /\ res[s].rst \/ block = NoBlock
  /\ res' = [res EXCEPT ![s].net = "closed", ![s].rst = FALSE]
  /\ told' = IF s \in streams THEN [told EXCEPT ![s].close = 1] ELSE told
  /\ UNCHANGED <<streams, block>>

(* on_stream_close_callback: pop_stream, on_close.  nghttp2 closes the     *)
(* stream when the session's RST_STREAM has left, which may be in the      *)
(* middle of a block, or between frames when both sides have ended or the  *)
(* server resets it.                                                       *)
on_stream_close(s) ==
  /\ res[s].net = "open"
  /\ res[s].rst \/ block = NoBlock
  /\ res' = [res EXCEPT ![s].net = "closed", ![s].rst = FALSE]
  /\ told' = IF s \in streams THEN [told EXCEPT ![s].close = 1] ELSE told
  /\ streams' = streams \ {s}
  /\ UNCHANGED block

-----------------------------------------------------------------------------
Fields == 1 .. HeaderMax + 1

Next ==
  \/ \E s \in Ids, kind \in Blocks, last \in BOOLEAN : BeginHeaders(s, kind, last)
  \/ on_header_status
  \/ \E n \in Fields : on_header_field(n)
  \/ on_frame_recv_headers
  \/ \E s \in Ids : on_data_chunk_recv(s) \/ on_frame_recv_data(s)
  \/ \E s, p \in Ids : on_begin_headers(s, p)
  \/ \E n \in Fields : on_header_promise(n)
  \/ on_frame_recv_promise
  \/ \E s \in Ids : cancel(s) \/ on_stream_close(s)

Spec == Init /\ [][Next]_vars

-----------------------------------------------------------------------------
(* The variables have their types.                                         *)
TypeOK ==
  /\ streams \subseteq Ids
  /\ block \in {NoBlock} \cup HeaderBlock \cup PromiseBlock
  /\ res \in [Ids -> Response]
  /\ told \in [Ids -> Told]

(* on_data is called with length 0 exactly when a reported response ends   *)
(* with its HEADERS or with DATA, whatever resets and closes come between. *)
EofExact ==
  \A s \in Ids :
    /\ told[s].eof = 1 => res[s].got = "end"
    /\ s \in streams /\ told[s].response = 1 /\ res[s].got = "end" => told[s].eof = 1

(* on_response is never called for an interim (1xx) response: when it is   *)
(* called, status_code() is that of the final response ("wait for final    *)
(* response" in on_frame_recv_callback).                                   *)
InterimHidden ==
  \A s \in Ids : told[s].response = 1 => res[s].status_code = "final"

(* What holds of a stream's response r and of what the application has     *)
(* been told, t: it was told of no interim response, and of the end when   *)
(* there was one; a cut stream is being reset.                             *)
StreamInv(s, r, t) ==
  /\ s \in Reqs => r.net # "idle"
  /\ r.net = "idle" => t.response = 0
  /\ t.close = IF r.net = "closed" THEN 1 ELSE 0
  /\ r.first => r.got = "nothing" /\ r.status_code = "zero"
  /\ t.response = 1 => r.status_code = "final" /\ r.got # "nothing"
  /\ t.eof = 1 => r.got = "end"
  /\ r.net = "open" /\ t.response = 1 /\ r.got = "end" => t.eof = 1
  /\ r.cut => r.rst \/ r.net = "closed"

(* ... and of the header block being received on it, when there is one:    *)
(* only its :status sets status_code.                                      *)
BlockInv(b, r) ==
  /\ ~r.first
  /\ b.kind = "interim" => ~b.last
  /\ b.kind = "trailers" => b.last /\ r.got = "final" /\ ~b.first
  /\ b.kind # "trailers" => r.got = "nothing"
  /\ b.first /\ b.status /\ r.net = "open" => r.status_code = b.kind

(* The variables have their types, the application knows of the end of     *)
(* responses, and of no interim one; streams_ is exactly nghttp2's open    *)
(* streams; with the facts about every stream that make this inductive.    *)
Inv == /\ TypeOK /\ EofExact /\ InterimHidden
       /\ streams = {s \in Ids : res[s].net = "open"}
       /\ \A s \in Ids : StreamInv(s, res[s], told[s])
       /\ block.type = "HEADERS" => BlockInv(block, res[block.stream])

(* A response the application has been given does not change under it:     *)
(* after on_response neither the status nor the header fields are touched  *)
(* by later blocks ("ignore trailers" in on_header_callback).              *)
ResponseStable ==
  [][\A s \in Ids : told[s].response = 1 =>
       /\ res'[s].status_code = res[s].status_code
       /\ res'[s].header_buffer_size = res[s].header_buffer_size]_vars

(* A response or a promised request that lost a header field at the 64_k   *)
(* limit does not pass for a good one: the stream it came on is being      *)
(* reset or has been closed.                                               *)
CutResets ==
  \A s \in Ids : res[s].cut => res[s].rst \/ res[s].net = "closed"

(* on_close is the last call an application gets for a stream: callbacks   *)
(* for frames nghttp2 was still reading when the stream closed find no     *)
(* stream (the application "must not access" the objects any more).        *)
CloseIsLast ==
  [][\A s \in Ids : told[s].close = 1 => told'[s] = told[s]]_vars

(* asio_http2_client.h: on_response "is invoked when response header is    *)
(* received": once the final response has been received on a stream, the   *)
(* application knows.                                                      *)
FinalReported ==
  \A s \in streams : res[s].got # "nothing" => told[s].response = 1

(* asio_http2.h: "EOF is indicated by passing 0 to the second parameter":  *)
(* when a reported response has been received to its end, on_data was told.*)
EofDelivered ==
  \A s \in streams :
    res[s].got \in {"end", "trailed"} /\ told[s].response = 1 => told[s].eof = 1

=============================================================================
