------------------------ MODULE ClientStreamsProofs ------------------------
(***************************************************************************)
(* Proofs about ClientStreams for any streams and any header limit.  Every *)
(* step changes the records of one stream, and the header block being      *)
(* received; so the invariant is preserved when the changed records and    *)
(* the block are as they should be.                                        *)
(***************************************************************************)
EXTENDS ClientStreams, TLAPS

(* Inv is a matter of single streams, of streams_ and of the block: its    *)
(* other conjuncts follow.                                                 *)
Core ==
  /\ TypeOK
  /\ streams = {s \in Ids : res[s].net = "open"}
  /\ \A s \in Ids : StreamInv(s, res[s], told[s])
  /\ block.type = "HEADERS" => BlockInv(block, res[block.stream])

(* Inv is no more than its core.                                           *)
LEMMA CoreIsInv == Core <=> Inv
<1>1. ASSUME Core PROVE EofExact
  BY <1>1 DEF Core, EofExact, StreamInv, TypeOK, Told
<1>2. ASSUME Core PROVE InterimHidden
  BY <1>2 DEF Core, InterimHidden, StreamInv
<1> QED  BY <1>1, <1>2 DEF Core, Inv

(* A step that changes the records of one stream, and the block, and       *)
(* leaves them as they should be.                                          *)
LEMMA UpdateOk ==
  ASSUME Core, NEW s \in Ids, NEW r \in Response, NEW t \in Told,
         NEW b \in {NoBlock} \cup HeaderBlock \cup PromiseBlock,
         res' = [res EXCEPT ![s] = r], told' = [told EXCEPT ![s] = t],
         streams' = IF r.net = "open" THEN streams \cup {s} ELSE streams \ {s},
         block' = b, StreamInv(s, r, t),
         b.type = "HEADERS" /\ b.stream = s => BlockInv(b, r),
         b.type = "HEADERS" /\ b.stream # s => BlockInv(b, res[b.stream])
  PROVE  Core'
<1>1. TypeOK'
  BY DEF Core, TypeOK
<1>2. streams' = {x \in Ids : res'[x].net = "open"}
  BY DEF Core, TypeOK
<1>3. \A x \in Ids : StreamInv(x, res'[x], told'[x])
  BY DEF Core, TypeOK
<1>4. block'.type = "HEADERS" => BlockInv(block', res'[block'.stream])
  <2> SUFFICES ASSUME b.type = "HEADERS" PROVE BlockInv(b, res'[b.stream])
    OBVIOUS
  <2>1. b.stream \in Ids
    BY DEF NoBlock, HeaderBlock, PromiseBlock, Ids
  <2> QED  BY <2>1 DEF Core, TypeOK
<1> QED  BY <1>1, <1>2, <1>3, <1>4 DEF Core

(* The records of a stream, as every action finds them.                    *)
LEMMA Records ==
  ASSUME Core, NEW s \in Ids
  PROVE  /\ res[s] \in Response /\ told[s] \in Told
         /\ StreamInv(s, res[s], told[s])
         /\ res = [res EXCEPT ![s] = res[s]]
         /\ told = [told EXCEPT ![s] = told[s]]
         /\ s \in streams <=> res[s].net = "open"
         /\ streams = IF res[s].net = "open" THEN streams \cup {s} ELSE streams \ {s}
BY DEF Core, TypeOK

(* The block, as the callbacks on its fields and its end find it.          *)
LEMMA InBlock ==
  ASSUME Core
  PROVE  /\ block.type = "HEADERS" =>
              block \in HeaderBlock /\ block.stream \in Ids
              /\ BlockInv(block, res[block.stream])
         /\ block.type = "PUSH_PROMISE" =>
              block \in PromiseBlock /\ block.stream \in Reqs /\ block.promised \in Pushes
         /\ NoBlock.type = "none"
BY DEF Core, TypeOK, NoBlock, HeaderBlock, PromiseBlock

-----------------------------------------------------------------------------
(* HEADERS: the callbacks on a header block of a response keep the         *)
(* invariant.                                                              *)
LEMMA BeginHeadersOk ==
  ASSUME Core, NEW s \in Ids, NEW kind \in Blocks, NEW last \in BOOLEAN,
         BeginHeaders(s, kind, last)
  PROVE  Core'
<1> DEFINE r == [res[s] EXCEPT !.first = FALSE]
           b == [type |-> "HEADERS", stream |-> s, kind |-> kind,
                 first |-> res[s].first, last |-> last, status |-> FALSE]
<1>1. r \in Response  BY Records DEF Response
<1>2. res' = [res EXCEPT ![s] = r] /\ block' = b /\ streams' = streams /\ told' = told
  BY DEF BeginHeaders
<1>3. StreamInv(s, r, told[s])
  BY Records DEF StreamInv, Response
<1>4. b \in HeaderBlock
  BY Records DEF HeaderBlock, Response
<1>5. BlockInv(b, r)
  BY Records DEF BeginHeaders, BlockInv, StreamInv, Response, Blocks
<1>6. r.net = res[s].net /\ b.stream = s
  BY Records DEF Response
<1> HIDE DEF r, b
<1> QED  BY <1>1, <1>2, <1>3, <1>4, <1>5, <1>6, Records, UpdateOk

(* on_header for :status.                                                  *)
LEMMA StatusOk ==
  ASSUME Core, on_header_status
  PROVE  Core'
<1> DEFINE s == block.stream
           b == [block EXCEPT !.status = TRUE]
<1>0. /\ block \in HeaderBlock /\ s \in Ids /\ BlockInv(block, res[s])
      /\ ~block.status /\ block.kind # "trailers" /\ block' = b
      /\ streams' = streams /\ told' = told
  BY InBlock DEF on_header_status
<1> HIDE DEF s
<1>1. b \in HeaderBlock /\ b.stream = s
  BY <1>0 DEF HeaderBlock, s
<1>2. CASE s \in streams /\ ~Ignored(block)
  <2> DEFINE r == [res[s] EXCEPT !.status_code = block.kind]
  <2>1. r \in Response
    BY <1>0, Records DEF Response, HeaderBlock, Blocks
  <2>2. res' = [res EXCEPT ![s] = r]
    BY <1>2 DEF on_header_status, s
  <2>3. StreamInv(s, r, told[s]) /\ r.net = res[s].net
    BY <1>0, Records DEF StreamInv, BlockInv, Response, Told
  <2>4. BlockInv(b, r)
    BY <1>0, Records DEF BlockInv, Response, HeaderBlock
  <2> HIDE DEF r, b
  <2> QED  BY <1>0, <1>1, <2>1, <2>2, <2>3, <2>4, Records, UpdateOk
<1>3. CASE ~(s \in streams /\ ~Ignored(block))
  <2>1. res' = res
    BY <1>3 DEF on_header_status, s
  <2>2. BlockInv(b, res[s])
    BY <1>0, <1>3, Records DEF BlockInv, HeaderBlock, Ignored, s
  <2> HIDE DEF b
  <2> QED  BY <1>0, <1>1, <2>1, <2>2, Records, UpdateOk
<1> QED  BY <1>2, <1>3

(* on_header for another field.                                            *)
LEMMA FieldOk ==
  ASSUME Core, NEW n \in Fields, on_header_field(n)
  PROVE  Core'
<1> DEFINE s == block.stream
           skip == s \notin streams \/ Ignored(block)
           cut == res[s].header_buffer_size + n > HeaderMax
<1>0. /\ block \in HeaderBlock /\ s \in Ids /\ BlockInv(block, res[s])
      /\ block' = block /\ streams' = streams /\ told' = told
  BY InBlock DEF on_header_field, InFields
<1>1. /\ res[s] \in Response /\ told[s] \in Told /\ StreamInv(s, res[s], told[s])
      /\ told = [told EXCEPT ![s] = told[s]]
      /\ streams = IF res[s].net = "open" THEN streams \cup {s} ELSE streams \ {s}
  BY <1>0, Records
<1>2. ASSUME NEW r \in Response, res' = [res EXCEPT ![s] = r], r.net = res[s].net,
             StreamInv(s, r, told[s]), BlockInv(block, r)
      PROVE  Core'
  BY <1>0, <1>1, <1>2, UpdateOk
<1>3. CASE skip
  BY <1>0, <1>1, <1>2, <1>3, Records DEF on_header_field
<1>4. CASE ~skip /\ cut
  <2> DEFINE one == [res[s] EXCEPT !.rst = TRUE]
             r == [one EXCEPT !.cut = TRUE]
  <2>1. one \in Response  BY <1>1 DEF Response
  <2>2. r \in Response
    <3> HIDE DEF one
    <3> QED  BY <2>1 DEF Response
  <2>3. res' = [res EXCEPT ![s] = r]
    BY <1>0, <1>4 DEF on_header_field, Core, TypeOK
  <2>4. StreamInv(s, r, told[s]) /\ r.net = res[s].net
    BY <1>1 DEF StreamInv, Response
  <2>5. BlockInv(block, r)
    BY <1>0, <1>1 DEF BlockInv, Response
  <2> HIDE DEF r
  <2> QED  BY <1>2, <2>2, <2>3, <2>4, <2>5
<1>5. CASE ~skip /\ ~cut
  <2> DEFINE r == [res[s] EXCEPT !.header_buffer_size = @ + n]
  <2>1. r \in Response
    BY <1>1, <1>5, HeaderMaxAssumption DEF Response, Fields
  <2>2. res' = [res EXCEPT ![s] = r]
    BY <1>5 DEF on_header_field
  <2>3. StreamInv(s, r, told[s]) /\ r.net = res[s].net
    BY <1>1 DEF StreamInv, Response
  <2>4. BlockInv(block, r)
    BY <1>0, <1>1 DEF BlockInv, Response
  <2> HIDE DEF r
  <2> QED  BY <1>2, <2>1, <2>2, <2>3, <2>4
<1> QED  BY <1>3, <1>4, <1>5

(* on_frame_recv for HEADERS: a block that is reported is the first of its *)
(* stream, and a final response.                                           *)
LEMMA HeadersOk ==
  ASSUME Core, on_frame_recv_headers
  PROVE  Core'
<1> DEFINE s == block.stream
           r == [res[s] EXCEPT !.got = Progress(block, @)]
           report == s \in streams /\ ~Ignored(block) /\ ~expect_final_response(s)
<1>0. /\ block \in HeaderBlock /\ s \in Ids /\ BlockInv(block, res[s])
      /\ block.status \/ block.kind = "trailers"
      /\ block' = NoBlock /\ streams' = streams /\ NoBlock.type = "none"
  BY InBlock DEF on_frame_recv_headers, InFields
<1>1. /\ res[s] \in Response /\ told[s] \in Told /\ StreamInv(s, res[s], told[s])
      /\ told = [told EXCEPT ![s] = told[s]]
      /\ s \in streams <=> res[s].net = "open"
      /\ streams = IF res[s].net = "open" THEN streams \cup {s} ELSE streams \ {s}
  BY <1>0, Records
<1>2. r \in Response /\ r.net = res[s].net
  BY <1>0, <1>1 DEF Progress, Response
<1>3. res' = [res EXCEPT ![s] = r]
  BY DEF on_frame_recv_headers
<1>4. ASSUME NEW t \in Told, told' = [told EXCEPT ![s] = t], StreamInv(s, r, t)
      PROVE  Core'
  <2> HIDE DEF r, s
  <2> QED  BY <1>0, <1>1, <1>2, <1>3, <1>4, UpdateOk
<1>5. CASE report
  <2>1. block.first /\ block.kind = "final" /\ res[s].status_code = "final"
    BY <1>0, <1>1, <1>5
       DEF Ignored, expect_final_response, BlockInv, Blocks, HeaderBlock
  <2> DEFINE one == [told[s] EXCEPT !.response = 1]
             t == [one EXCEPT !.eof = IF block.last THEN 1 ELSE @]
  <2>2. one \in Told  BY <1>1 DEF Told
  <2>3. t \in Told
    <3> HIDE DEF one
    <3> QED  BY <2>2 DEF Told
  <2>4. told' = [told EXCEPT ![s] = t]
    BY <1>0, <1>1, <1>5 DEF on_frame_recv_headers, Core, TypeOK, Told
  <2>5. StreamInv(s, r, t)
    BY <1>0, <1>1, <1>5, <2>1 DEF StreamInv, BlockInv, Progress, Response, Told, HeaderBlock
  <2> HIDE DEF t
  <2> QED  BY <1>4, <2>3, <2>4, <2>5
<1>6. CASE ~report
  <2>1. told' = told
    BY <1>6 DEF on_frame_recv_headers
  <2>2. StreamInv(s, r, told[s])
    BY <1>0, <1>1 DEF StreamInv, BlockInv, Progress, Response, Told, HeaderBlock
  <2> QED  BY <1>1, <1>4, <2>1, <2>2
<1> QED  BY <1>5, <1>6

(* DATA: the callbacks keep the invariant.                                 *)
LEMMA DataOk ==
  ASSUME Core, NEW s \in Ids, on_data_chunk_recv(s) \/ on_frame_recv_data(s)
  PROVE  Core'
<1>0. /\ res[s] \in Response /\ told[s] \in Told /\ StreamInv(s, res[s], told[s])
      /\ res = [res EXCEPT ![s] = res[s]]
      /\ streams = streams \cup {s} /\ s \in streams /\ res[s].net = "open"
      /\ res[s].got = "final" /\ streams' = streams
      /\ block' = NoBlock /\ NoBlock.type = "none"
  BY Records, InBlock DEF on_data_chunk_recv, on_frame_recv_data, Receiving
<1>1. CASE on_data_chunk_recv(s)
  <2> DEFINE t == [told[s] EXCEPT !.data = TRUE]
  <2>1. t \in Told /\ told' = [told EXCEPT ![s] = t] /\ res' = res
    BY <1>0, <1>1 DEF on_data_chunk_recv, Told
  <2>2. StreamInv(s, res[s], t)
    BY <1>0 DEF StreamInv, Told
  <2> HIDE DEF t
  <2> QED  BY <1>0, <2>1, <2>2, UpdateOk
<1>2. CASE on_frame_recv_data(s)
  <2> DEFINE t == [told[s] EXCEPT !.eof = 1]
             r == [res[s] EXCEPT !.got = "end"]
  <2>1. t \in Told /\ told' = [told EXCEPT ![s] = t]
    BY <1>0, <1>2 DEF on_frame_recv_data, Told
  <2>2. r \in Response /\ res' = [res EXCEPT ![s] = r] /\ r.net = "open"
    BY <1>0, <1>2 DEF on_frame_recv_data, Response
  <2>3. StreamInv(s, r, t)
    BY <1>0 DEF StreamInv, Response, Told
  <2> HIDE DEF r, t
  <2> QED  BY <1>0, <2>1, <2>2, <2>3, UpdateOk
<1> QED  BY <1>1, <1>2

-----------------------------------------------------------------------------
(* PUSH_PROMISE: the callbacks keep the invariant.                         *)
LEMMA BeginPromiseOk ==
  ASSUME Core, NEW s \in Ids, NEW p \in Ids, on_begin_headers(s, p)
  PROVE  Core'
<1> DEFINE r == [res[p] EXCEPT !.net = "open"]
           b == [type |-> "PUSH_PROMISE", stream |-> s, promised |-> p]
<1>0. /\ res[p] \in Response /\ told[p] \in Told /\ StreamInv(p, res[p], told[p])
      /\ told = [told EXCEPT ![p] = told[p]] /\ res[p].net = "idle"
      /\ streams' = streams \cup {p} /\ told' = told
  BY Records DEF on_begin_headers
<1>1. r \in Response /\ res' = [res EXCEPT ![p] = r] /\ r.net = "open"
  BY <1>0 DEF on_begin_headers, Response
<1>2. b \in PromiseBlock /\ block' = b /\ b.type # "HEADERS"
  BY DEF on_begin_headers, PromiseBlock
<1>3. StreamInv(p, r, told[p])
  BY <1>0 DEF StreamInv, Response, Told
<1> HIDE DEF r, b
<1> QED  BY <1>0, <1>1, <1>2, <1>3, UpdateOk

(* on_header for a field of the promised request.                          *)
LEMMA PromiseFieldOk ==
  ASSUME Core, NEW n \in Fields, on_header_promise(n)
  PROVE  Core'
<1> DEFINE s == block.stream
           p == block.promised
           cut == res[p].req_buffer_size + n > HeaderMax
<1>0. /\ block \in PromiseBlock /\ s \in Ids /\ p \in Ids /\ s \in Reqs
      /\ block.type # "HEADERS"
      /\ block' = block /\ streams' = streams /\ told' = told
  BY InBlock DEF on_header_promise, InFields, Ids
<1>1. ASSUME NEW x \in Ids, NEW r \in Response, res' = [res EXCEPT ![x] = r],
             r.net = res[x].net, StreamInv(x, r, told[x])
      PROVE  Core'
  BY <1>0, <1>1, Records, UpdateOk
<1>2. CASE p \notin streams
  <2>1. res' = res  BY <1>2 DEF on_header_promise
  <2> QED  BY <1>0, <1>1, <2>1, Records
<1>3. CASE p \in streams /\ cut
  <2> DEFINE one == [res[s] EXCEPT !.rst = @ \/ res[s].net = "open"]
             r == [one EXCEPT !.cut = TRUE]
  <2>0. res[s] \in Response /\ StreamInv(s, res[s], told[s])
    BY <1>0, Records
  <2>1. one \in Response  BY <2>0 DEF Response
  <2>2. r \in Response
    <3> HIDE DEF one
    <3> QED  BY <2>1 DEF Response
  <2>3. res' = [res EXCEPT ![s] = r]
    BY <1>0, <1>3 DEF on_header_promise, Core, TypeOK
  <2>4. StreamInv(s, r, told[s]) /\ r.net = res[s].net
    BY <1>0, <2>0 DEF StreamInv, Response
  <2> HIDE DEF r
  <2> QED  BY <1>0, <1>1, <2>2, <2>3, <2>4
<1>4. CASE p \in streams /\ ~cut
  <2> DEFINE r == [res[p] EXCEPT !.req_buffer_size = @ + n]
  <2>0. res[p] \in Response /\ StreamInv(p, res[p], told[p])
    BY <1>0, Records
  <2>1. r \in Response
    BY <1>4, <2>0, HeaderMaxAssumption DEF Response, Fields
  <2>2. res' = [res EXCEPT ![p] = r]
    BY <1>4 DEF on_header_promise
  <2>3. StreamInv(p, r, told[p]) /\ r.net = res[p].net
    BY <2>0 DEF StreamInv, Response
  <2> HIDE DEF r
  <2> QED  BY <1>0, <1>1, <2>1, <2>2, <2>3
<1> QED  BY <1>2, <1>3, <1>4

(* on_frame_recv for PUSH_PROMISE.                                         *)
LEMMA PromiseOk ==
  ASSUME Core, on_frame_recv_promise
  PROVE  Core'
<1> DEFINE p == block.promised
           t == [told[p] EXCEPT !.push = 1]
<1>0. /\ p \in Ids /\ block' = NoBlock /\ NoBlock.type = "none"
      /\ streams' = streams /\ res' = res
  BY InBlock DEF on_frame_recv_promise, InFields, Ids
<1>1. told[p] \in Told /\ StreamInv(p, res[p], told[p])
  BY <1>0, Records
<1>2. told' \in {told, [told EXCEPT ![p] = t]}
  BY DEF on_frame_recv_promise
<1>3. t \in Told  BY <1>1 DEF Told
<1>4. StreamInv(p, res[p], t)  BY <1>1 DEF StreamInv, Told
<1> HIDE DEF p, t
<1> QED  BY <1>0, <1>1, <1>2, <1>3, <1>4, Records, UpdateOk

-----------------------------------------------------------------------------
(* cancel and on_stream_close keep the invariant.                          *)
LEMMA EndOk ==
  ASSUME Core, NEW s \in Ids, cancel(s) \/ on_stream_close(s)
  PROVE  Core'
<1>0. /\ res[s] \in Response /\ told[s] \in Told /\ StreamInv(s, res[s], told[s])
      /\ told = [told EXCEPT ![s] = told[s]]
      /\ streams = streams \cup {s} /\ s \in streams /\ res[s].net = "open"
      /\ block' = block /\ block \in {NoBlock} \cup HeaderBlock \cup PromiseBlock
      /\ block.type = "HEADERS" => BlockInv(block, res[block.stream])
  BY Records DEF cancel, on_stream_close, Core, TypeOK
<1>1. CASE cancel(s)
  <2> DEFINE r == [res[s] EXCEPT !.rst = TRUE]
  <2>1. r \in Response /\ res' = [res EXCEPT ![s] = r] /\ r.net = "open"
    BY <1>0, <1>1 DEF cancel, Response
  <2>2. StreamInv(s, r, told[s])
    BY <1>0 DEF StreamInv, Response
  <2>3. block.type = "HEADERS" /\ block.stream = s => BlockInv(block, r)
    BY <1>0 DEF BlockInv, Response
  <2> HIDE DEF r
  <2> QED  BY <1>0, <1>1, <2>1, <2>2, <2>3, UpdateOk DEF cancel
<1>2. CASE on_stream_close(s)
  <2> DEFINE one == [res[s] EXCEPT !.net = "closed"]
             r == [one EXCEPT !.rst = FALSE]
             t == [told[s] EXCEPT !.close = 1]
  <2>1. one \in Response  BY <1>0 DEF Response
  <2>2. r \in Response
    <3> HIDE DEF one
    <3> QED  BY <2>1 DEF Response
  <2>3. res' = [res EXCEPT ![s] = r] /\ r.net = "closed"
    BY <1>0, <1>2 DEF on_stream_close, Core, TypeOK, Response
  <2>4. t \in Told /\ told' = [told EXCEPT ![s] = t]
    BY <1>0, <1>2 DEF on_stream_close, Told
  <2>5. StreamInv(s, r, t)
    BY <1>0 DEF StreamInv, Response, Told
  <2>6. block.type = "HEADERS" /\ block.stream = s => BlockInv(block, r)
    BY <1>0 DEF BlockInv, Response
  <2> HIDE DEF r, t
  <2> QED  BY <1>0, <1>2, <2>2, <2>3, <2>4, <2>5, <2>6, UpdateOk DEF on_stream_close
<1> QED  BY <1>1, <1>2

-----------------------------------------------------------------------------
(* The invariant holds whatever the server sends, and whenever streams are *)
(* reset and closed.                                                       *)
THEOREM InvHolds == Spec => []Inv
<1>1. Init => Core
  BY HeaderMaxAssumption, IdsAssumption
     DEF Init, Core, TypeOK, StreamInv, NoBlock, Response, Told, Ids
<1>2. Core /\ [Next]_vars => Core'
  <2> SUFFICES ASSUME Core, [Next]_vars PROVE Core'  OBVIOUS
  <2>1. ASSUME NEW s \in Ids, NEW kind \in Blocks, NEW last \in BOOLEAN,
               BeginHeaders(s, kind, last)
        PROVE  Core'
    BY <2>1, BeginHeadersOk
  <2>2. CASE on_header_status  BY <2>2, StatusOk
  <2>3. ASSUME NEW n \in Fields, on_header_field(n) PROVE Core'
    BY <2>3, FieldOk
  <2>4. CASE on_frame_recv_headers  BY <2>4, HeadersOk
  <2>5. ASSUME NEW s \in Ids, on_data_chunk_recv(s) \/ on_frame_recv_data(s) PROVE Core'
    BY <2>5, DataOk
  <2>6. ASSUME NEW s \in Ids, NEW p \in Ids, on_begin_headers(s, p) PROVE Core'
    BY <2>6, BeginPromiseOk
  <2>7. ASSUME NEW n \in Fields, on_header_promise(n) PROVE Core'
    BY <2>7, PromiseFieldOk
  <2>8. CASE on_frame_recv_promise  BY <2>8, PromiseOk
  <2>9. ASSUME NEW s \in Ids, cancel(s) \/ on_stream_close(s) PROVE Core'
    BY <2>9, EndOk
  <2>10. CASE UNCHANGED vars  BY <2>10 DEF vars, Core, TypeOK
  <2> QED  BY <2>1, <2>2, <2>3, <2>4, <2>5, <2>6, <2>7, <2>8, <2>9, <2>10 DEF Next
<1> QED  BY <1>1, <1>2, CoreIsInv, PTL DEF Spec

(* A message that lost a header field at the limit is being reset, or its  *)
(* stream has been closed.                                                 *)
THEOREM CutResetsHolds == Spec => []CutResets
<1>1. Inv => CutResets
  BY DEF Inv, CutResets, StreamInv
<1> QED  BY <1>1, InvHolds, PTL

(* After on_response no later block touches the status or the fields: the  *)
(* blocks that may still come are trailers, which on_header ignores.       *)
THEOREM ResponseStableHolds == Spec => ResponseStable
<1> DEFINE Stable == \A s \in Ids : told[s].response = 1 =>
                       /\ res'[s].status_code = res[s].status_code
                       /\ res'[s].header_buffer_size = res[s].header_buffer_size
<1>1. Inv /\ [Next]_vars => [Stable]_vars
  <2> SUFFICES ASSUME Core, Next, NEW s \in Ids, told[s].response = 1
               PROVE  /\ res'[s].status_code = res[s].status_code
                      /\ res'[s].header_buffer_size = res[s].header_buffer_size
    BY CoreIsInv
  <2>0. /\ res \in [Ids -> Response] /\ res[s] \in Response
        /\ res[s].status_code = "final" /\ res[s].got # "nothing"
    BY Records DEF StreamInv, Core, TypeOK
  <2>1. block.type = "HEADERS" /\ block.stream = s =>
          block.kind = "trailers" /\ Ignored(block)
    BY <2>0, InBlock DEF BlockInv, Ignored, expect_final_response, HeaderBlock
  <2>2. ASSUME NEW x \in Ids, NEW kind \in Blocks, NEW last \in BOOLEAN,
               BeginHeaders(x, kind, last)
        PROVE  res'[s] = [res[s] EXCEPT !.first = FALSE] \/ res'[s] = res[s]
    BY <2>0, <2>2 DEF BeginHeaders
  <2>3. CASE on_header_status
    BY <2>0, <2>1, <2>3, InBlock DEF on_header_status
  <2>4. ASSUME NEW n \in Fields, on_header_field(n) PROVE res'[s] = res[s]
    BY <2>0, <2>1, <2>4, InBlock DEF on_header_field, InFields
  <2>5. CASE on_frame_recv_headers
    BY <2>0, <2>5, InBlock DEF on_frame_recv_headers, InFields, Response
  <2>6. ASSUME NEW x \in Ids, on_data_chunk_recv(x) \/ on_frame_recv_data(x)
        PROVE  res'[s] = [res[s] EXCEPT !.got = "end"] \/ res'[s] = res[s]
    BY <2>0, <2>6 DEF on_data_chunk_recv, on_frame_recv_data
  <2>7. ASSUME NEW x \in Ids, NEW p \in Ids, on_begin_headers(x, p)
        PROVE  res'[s] = [res[s] EXCEPT !.net = "open"] \/ res'[s] = res[s]
    BY <2>0, <2>7 DEF on_begin_headers
  <2>8. ASSUME NEW n \in Fields, on_header_promise(n)
        PROVE  /\ res'[s].status_code = res[s].status_code
               /\ res'[s].header_buffer_size = res[s].header_buffer_size
    BY <2>0, <2>8, InBlock DEF on_header_promise, InFields, Response, Ids
  <2>9. CASE on_frame_recv_promise
    BY <2>9 DEF on_frame_recv_promise
  <2>10. ASSUME NEW x \in Ids, cancel(x) \/ on_stream_close(x)
         PROVE  /\ res'[s].status_code = res[s].status_code
                /\ res'[s].header_buffer_size = res[s].header_buffer_size
    BY <2>0, <2>10 DEF cancel, on_stream_close, Response
  <2> QED  BY <2>0, <2>2, <2>3, <2>4, <2>5, <2>6, <2>7, <2>8, <2>9, <2>10
           DEF Next, Response
<1> QED  BY <1>1, InvHolds, PTL DEF Spec, ResponseStable

(* No callback reaches the application after on_close: the stream has left *)
(* streams_, where every callback looks it up.                             *)
THEOREM CloseIsLastHolds == Spec => CloseIsLast
<1> DEFINE Last == \A s \in Ids : told[s].close = 1 => told'[s] = told[s]
<1>1. Inv /\ [Next]_vars => [Last]_vars
  <2> SUFFICES ASSUME Core, Next, NEW s \in Ids, told[s].close = 1
               PROVE  told'[s] = told[s]
    BY CoreIsInv
  <2>0. told \in [Ids -> Told] /\ s \notin streams
    BY Records DEF StreamInv, Core, TypeOK
  <2>1. ASSUME NEW x \in Ids, NEW kind \in Blocks, NEW last \in BOOLEAN,
               BeginHeaders(x, kind, last)
        PROVE  told' = told
    BY <2>1 DEF BeginHeaders
  <2>2. CASE on_header_status  BY <2>2 DEF on_header_status
  <2>3. ASSUME NEW n \in Fields, on_header_field(n) \/ on_header_promise(n)
        PROVE  told' = told
    BY <2>3 DEF on_header_field, on_header_promise
  <2>4. CASE on_frame_recv_headers
    BY <2>0, <2>4 DEF on_frame_recv_headers
  <2>5. ASSUME NEW x \in Ids, on_data_chunk_recv(x) \/ on_frame_recv_data(x)
        PROVE  told'[s] = told[s]
    BY <2>0, <2>5 DEF on_data_chunk_recv, on_frame_recv_data
  <2>6. ASSUME NEW x \in Ids, NEW p \in Ids, on_begin_headers(x, p)
        PROVE  told' = told
    BY <2>6 DEF on_begin_headers
  <2>7. CASE on_frame_recv_promise
    BY <2>0, <2>7 DEF on_frame_recv_promise
  <2>8. ASSUME NEW x \in Ids, cancel(x) \/ on_stream_close(x)
        PROVE  told'[s] = told[s]
    BY <2>0, <2>8 DEF cancel, on_stream_close
  <2> QED  BY <2>1, <2>2, <2>3, <2>4, <2>5, <2>6, <2>7, <2>8 DEF Next
<1> QED  BY <1>1, InvHolds, PTL DEF Spec, CloseIsLast
=============================================================================
