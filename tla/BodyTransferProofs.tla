------------------------ MODULE BodyTransferProofs ------------------------
(***************************************************************************)
(* Proofs about BodyTransfer, for bodies of every length, every window and *)
(* every buffer that takes a frame: the buffer is not overrun, the file    *)
(* descriptor is open while it is used, and the peer receives the bytes    *)
(* that ByteStream promises.                                               *)
(***************************************************************************)
EXTENDS BodyTransfer, SequenceTheorems, TLAPS

\* The bytes a+1 to b of a body.
Slice(body, a, b) == SubSeq(body, a + 1, b)

\* One piece after another.
Cat(p, q) == p \o q

\* do_write is filling the buffer, or async_write is sending it.  Otherwise what the
\* server's outbuf_ holds has been sent.
Busy == writing \/ pc = "send"

\* What the buffer holds that has not been sent.
InFlight == IF Busy THEN buf ELSE Nothing

\* None of these frames ends the stream.
Clean(f) == ~f.last /\ ~f.reset

\* Every frame has a length.
Sized(f) == f.len = 0 => f = Nothing

\* The buffer and the frame that waits for it.
BufferInv ==
    /\ Sized(buf) /\ Sized(pending)
    /\ buf.len <= Room /\ pending.len <= Room
    /\ pc = "send" => pending = Nothing /\ ~writing
    /\ writing => pc = "idle" /\ buf.len > 0
    /\ side = "client" /\ ~Busy /\ pc # "stopped" => buf = Nothing
    /\ pc = "stopped" => item = "gone"

\* Who owns the generator, and that it hands out the body of its application only.
GeneratorInv ==
    /\ gen.kind \in {"default", plan}
    /\ gen.at <= Len(Body)
    /\ item # "gone" => (IF gen.kind = "default" THEN "app" ELSE "stream") \in owners
    /\ plan = "file" /\ owners # {} => fd = "open"

\* Nothing follows the frame that ends the stream, and END_STREAM follows all of the
\* body.
EndInv ==
    /\ item \notin {"closing", "gone"} => Clean(wire) /\ Clean(InFlight) /\ Clean(pending)
    /\ ~Clean(wire) => InFlight = Nothing /\ pending = Nothing
    /\ ~Clean(InFlight) => pending = Nothing
    /\ InFlight.last \/ pending.last \/ item \in {"trailers", "trailing"} => gen.at = Len(Body)
    /\ wire.last => wire.bytes = Body

\* What the peer has, what is in flight and what waits are consecutive pieces of the
\* body, up to what the generator has handed out; after stop() the peer has a prefix.
OrderInv ==
    \E i, j \in 0 .. Len(Body) :
       /\ i <= j /\ j <= gen.at
       /\ wire.bytes = Slice(Body, 0, i)
       /\ pc # "stopped" => /\ InFlight.bytes = Slice(Body, i, j)
                            /\ pending.bytes = Slice(Body, j, gen.at)

\* The inductive invariant.
IndInv == TypeOK /\ BufferInv /\ GeneratorInv /\ EndInv /\ OrderInv

-----------------------------------------------------------------------------
(* Slices and frames.                                                      *)

\* The body is a sequence of bytes.
LEMMA BodyType == Body \in Seq(0 .. 255) /\ Len(Body) \in Nat /\ Len(Body) <= Len(Content)
  BY ContentAssumption DEF Body

\* Slices have the length one expects, and consecutive ones make up one.
LEMMA Slices ==
    ASSUME NEW S, NEW body \in Seq(S),
           NEW a \in 0 .. Len(body), NEW b \in a .. Len(body), NEW c \in b .. Len(body)
    PROVE  /\ Slice(body, a, b) \in Seq(S)
           /\ Len(Slice(body, a, b)) = b - a
           /\ Cat(Slice(body, a, b), Slice(body, b, c)) = Slice(body, a, c)
           /\ Slice(body, a, b) = <<>> <=> a = b
           /\ Slice(body, 0, Len(body)) = body
  <1>0. /\ Len(body) \in Nat /\ a \in Nat /\ b \in Nat /\ c \in Nat
        /\ a <= b /\ b <= c /\ c <= Len(body)
    BY LenProperties
  <1>1. a + 1 \in Int /\ b \in Int /\ \A i \in (a + 1) .. b : body[i] \in S
    <2>1. (a + 1) .. b \subseteq 1 .. Len(body)
      BY <1>0
    <2> QED BY <1>0, <2>1, ElementOfSeq
  <1>2. /\ Slice(body, a, b) \in Seq(S)
        /\ Len(Slice(body, a, b)) = IF a + 1 <= b THEN b - (a + 1) + 1 ELSE 0
    BY <1>1, SubSeqProperties DEF Slice
  <1>3. Len(Slice(body, a, b)) = b - a
    BY <1>0, <1>2
  <1>4. Cat(Slice(body, a, b), Slice(body, b, c)) = Slice(body, a, c)
    <2>1. /\ a + 1 \in 1 .. (Len(body) + 1) /\ b \in (a + 1) - 1 .. Len(body)
          /\ c \in b .. Len(body)
      BY <1>0
    <2> QED BY <2>1, ConcatAdjacentSubSeq DEF Slice, Cat
  <1>5. Slice(body, a, b) = <<>> <=> a = b
    <2>1. Slice(body, a, b) = <<>> <=> Len(Slice(body, a, b)) = 0
      BY <1>2, EmptySeq
    <2>2. b - a = 0 <=> a = b
      BY <1>0
    <2> QED BY <1>3, <2>1, <2>2
  <1>6. Slice(body, 0, Len(body)) = body
    <2>1. 0 + 1 = 1
      OBVIOUS
    <2> QED BY <2>1, SubSeqFull DEF Slice
  <1> QED BY <1>2, <1>3, <1>4, <1>5, <1>6

\* The same of the body of the message.
LEMMA BodySlice ==
    ASSUME NEW a \in 0 .. Len(Body), NEW b \in 0 .. Len(Body), a <= b
    PROVE  /\ Slice(Body, a, b) \in Seq(0 .. 255)
           /\ Len(Slice(Body, a, b)) = b - a
           /\ Slice(Body, a, b) = <<>> <=> a = b
           /\ Slice(Body, 0, Len(Body)) = Body
  <1>1. Body \in Seq(0 .. 255) /\ Len(Body) \in Nat
    BY BodyType
  <1>2. b \in a .. Len(Body) /\ b \in b .. Len(Body)
    BY <1>1
  <1> QED BY <1>1, <1>2, Slices

\* ... and of consecutive ones.
LEMMA BodySlices ==
    ASSUME NEW a \in 0 .. Len(Body), NEW b \in 0 .. Len(Body), NEW c \in 0 .. Len(Body),
           a <= b, b <= c
    PROVE  Cat(Slice(Body, a, b), Slice(Body, b, c)) = Slice(Body, a, c)
  <1>1. Body \in Seq(0 .. 255) /\ Len(Body) \in Nat
    BY BodyType
  <1>2. b \in a .. Len(Body) /\ c \in b .. Len(Body)
    BY <1>1
  <1> QED BY <1>1, <1>2, Slices

\* There is nothing between a place and itself.
LEMMA NoSlice == ASSUME NEW a \in 0 .. Len(Body) PROVE <<>> = Slice(Body, a, a)
  <1>1. Len(Body) \in Nat /\ a <= a
    BY BodyType
  <1> QED BY <1>1, BodySlice

\* The first n bytes of a slice.
LEMMA SlicePart ==
    ASSUME NEW S, NEW body \in Seq(S),
           NEW a \in 0 .. Len(body), NEW b \in a .. Len(body), NEW n \in 0 .. (b - a)
    PROVE  SubSeq(Slice(body, a, b), 1, n) = Slice(body, a, a + n)
  <1>0. Len(body) \in Nat /\ a \in Nat /\ b \in Nat /\ n \in Nat /\ a + n \in 0 .. Len(body)
    BY LenProperties
  <1>1. CASE n = 0
    <2>1. SubSeq(Slice(body, a, b), 1, n) = <<>>
      BY <1>0, <1>1, SubSeqEmpty
    <2>2. Slice(body, a, a + n) = <<>>
      BY <1>0, <1>1, SubSeqEmpty DEF Slice
    <2> QED BY <2>1, <2>2
  <1>2. CASE n > 0
    <2>1. /\ a + 1 \in 1 .. Len(body) /\ b \in 1 .. Len(body)
          /\ 1 \in 1 .. (b - (a + 1) + 1) /\ n \in 1 .. (b - (a + 1) + 1)
      BY <1>0, <1>2
    <2>2. SubSeq(SubSeq(body, a + 1, b), 1, n) = SubSeq(body, (a + 1) + 1 - 1, (a + 1) + n - 1)
      BY <2>1, SubSeqOfSubSeq
    <2>3. (a + 1) + 1 - 1 = a + 1 /\ (a + 1) + n - 1 = a + n
      BY <1>0
    <2> QED BY <2>2, <2>3 DEF Slice
  <1> QED BY <1>0, <1>1, <1>2

\* Frames one after the other.
LEMMA JoinOk ==
    ASSUME NEW f \in Frames, NEW g \in Frames
    PROVE  /\ Join(f, g) \in Frames
           /\ Join(f, g).bytes = Cat(f.bytes, g.bytes) /\ Join(f, g).len = f.len + g.len
           /\ Join(f, g).last <=> f.last \/ g.last
           /\ Join(f, g).reset <=> f.reset \/ g.reset
           /\ f = Nothing => Join(f, g) = g
  <1>1. /\ f.bytes \in Seq(0 .. 255) /\ g.bytes \in Seq(0 .. 255) /\ f.len \in Nat /\ g.len \in Nat
        /\ f.last \in BOOLEAN /\ g.last \in BOOLEAN /\ f.reset \in BOOLEAN /\ g.reset \in BOOLEAN
    BY DEF Frames
  <1>2. /\ f.bytes \o g.bytes \in Seq(0 .. 255) /\ f.len + g.len \in Nat
    BY <1>1
  <1>3. (f.last \/ g.last) \in BOOLEAN /\ (f.reset \/ g.reset) \in BOOLEAN
    OBVIOUS
  <1>4. Join(f, g) \in Frames
    BY <1>2, <1>3 DEF Join, Frames
  <1>5. /\ Join(f, g).bytes = Cat(f.bytes, g.bytes) /\ Join(f, g).len = f.len + g.len
        /\ Join(f, g).last = (f.last \/ g.last)
        /\ Join(f, g).reset = (f.reset \/ g.reset)
    BY DEF Join, Cat
  <1>6. ASSUME f = Nothing PROVE Join(f, g) = g
    <2>1. f.bytes = <<>> /\ f.len = 0 /\ f.last = FALSE /\ f.reset = FALSE
      BY <1>6 DEF Nothing
    <2>2. f.bytes \o g.bytes = g.bytes
      BY <1>1, <2>1, ConcatEmptySeq
    <2>3. f.len + g.len = g.len
      BY <1>1, <2>1
    <2>4. (f.last \/ g.last) = g.last /\ (f.reset \/ g.reset) = g.reset
      BY <1>1, <2>1
    <2>5. g = [bytes |-> g.bytes, len |-> g.len, last |-> g.last, reset |-> g.reset]
      BY DEF Frames
    <2> QED BY <2>2, <2>3, <2>4, <2>5 DEF Join
  <1> QED BY <1>4, <1>5, <1>6

\* Nothing is no frame, and there are no bytes in it.
LEMMA NothingOk ==
    /\ Nothing \in Frames /\ Nothing.bytes = <<>> /\ Nothing.len = 0
    /\ ~Nothing.last /\ ~Nothing.reset
  BY DEF Nothing, Frames

\* The frames in flight are frames.
LEMMA InFlightType == TypeOK => InFlight \in Frames
  BY NothingOk DEF TypeOK, InFlight

-----------------------------------------------------------------------------
(* The generators.                                                         *)

\* Whatever the generator and however it splits the body, the read callback answers
\* with at most as many bytes as there is room for, with the bytes that come next, and
\* says EOF at the end of the body only.
LEMMA AnswerOk ==
    ASSUME TypeOK, GeneratorInv, NEW len \in 1 .. Window, NEW a \in read_callback(len)
    PROVE  /\ a.n \in 0 .. len
           /\ gen.at + a.n <= Len(Body)
           /\ a.flag \in {"more", "eof", "trailers", "deferred", "fail"}
           /\ a.flag \in {"eof", "trailers"} => gen.at + a.n = Len(Body)
           /\ a.flag \in {"deferred", "fail"} => a.n = 0
           /\ SubSeq(Content, gen.at + 1, gen.at + a.n) = Slice(Body, gen.at, gen.at + a.n)
  <1>0. /\ Len(Content) \in Nat /\ gen.at \in 0 .. Len(Content) /\ Len(Body) \in Nat
        /\ gen.at <= Len(Body) /\ gen.kind \in {"default", plan} /\ len \in Nat \ {0}
        /\ gen.kind \in Kinds \union {"default"}
    BY ContentAssumption, RoomAssumption, BodyType, LenProperties DEF TypeOK, GeneratorInv
  <1> DEFINE NoBytes == /\ a.n = 0
                        /\ a.flag = "deferred" \/ (a.flag = "eof" /\ gen.at = Len(Body))
  <1>1. CASE NoBytes
    <2>1. gen.at + a.n = gen.at
      BY <1>0, <1>1
    <2>2. SubSeq(Content, gen.at + 1, gen.at) = <<>> /\ SubSeq(Body, gen.at + 1, gen.at) = <<>>
      BY <1>0, SubSeqEmpty
    <2> QED BY <1>0, <1>1, <2>1, <2>2 DEF Slice
  <1>2. ASSUME gen.kind = "none" PROVE NoBytes
    <2>1. a = Answer(0, "eof")
      BY <1>2 DEF read_callback, call_read, call_on_read
    <2>2. plan = "none" /\ Len(Body) = 0
      BY <1>0, <1>2, EmptySeq DEF Body
    <2> QED BY <1>0, <2>1, <2>2 DEF Answer
  <1>3. ASSUME gen.kind = "default" PROVE NoBytes
    <2>1. a = Answer(0, "deferred")
      BY <1>3 DEF read_callback, call_read, call_on_read, Generate, deferred_generator, Deferred
    <2> QED BY <2>1 DEF Answer
  <1>4. CASE gen.kind \in {"string", "file", "app"}
    <2>1. Body = Content /\ Left \in Nat /\ gen.at + Left = Len(Body)
      BY <1>0, <1>4 DEF Body, Left
    <2>2. a \in Generate(len)
      BY <1>4 DEF read_callback, call_read, call_on_read
    <2>3. \/ a \in {Deferred, Failure}
          \/ \E n \in 0 .. len : n <= Left /\ a = Answer(n, "more")
          \/ Left <= len /\ a \in {Answer(Left, "eof"), Answer(Left, "trailers")}
      <3>1. CASE gen.kind = "string"
        <4>1. a \in string_generator(len)
          BY <2>2, <3>1 DEF Generate
        <4> QED BY <1>0, <2>1, <4>1 DEF string_generator
      <3>2. CASE gen.kind = "file"
        <4>1. a \in file_generator(len)
          BY <2>2, <3>2 DEF Generate
        <4> QED BY <1>0, <2>1, <4>1 DEF file_generator
      <3>3. CASE gen.kind = "app"
        <4>1. a \in AppGenerator(len)
          BY <2>2, <3>3 DEF Generate
        <4>2. \A n \in {k \in 1 .. len : k <= Left} : n \in 0 .. len /\ n <= Left
          OBVIOUS
        <4>3. \/ a \in {Deferred, Failure}
              \/ a \in {Answer(n, "more") : n \in {k \in 1 .. len : k <= Left}}
              \/ Left <= len /\ a \in {Answer(Left, "eof"), Answer(Left, "trailers")}
          BY <4>1, Zenon DEF AppGenerator
        <4> QED BY <4>2, <4>3
      <3> QED BY <1>4, <3>1, <3>2, <3>3
    <2>4. SubSeq(Content, gen.at + 1, gen.at + a.n) = Slice(Body, gen.at, gen.at + a.n)
      BY <2>1 DEF Slice
    <2> QED BY <1>0, <2>1, <2>3, <2>4 DEF Answer, Deferred, Failure
  <1> HIDE DEF NoBytes
  <1> QED BY <1>0, <1>1, <1>2, <1>3, <1>4 DEF Kinds

\* The descriptor stays as it is while somebody owns the generator.
LEMMA DropOk ==
    ASSUME TypeOK, NEW who, Drop(who)
    PROVE  /\ fd' \in {"none", "open", "closed"} /\ owners' \subseteq {"app", "stream"}
           /\ owners' = owners \ who
           /\ owners' # {} => fd' = fd
  BY DEF TypeOK, Drop

-----------------------------------------------------------------------------
(* Every step preserves the invariant.                                     *)

\* Steps of the application, and others that leave the buffers alone.
LEMMA ControlOk ==
    ASSUME IndInv, UNCHANGED <<side, plan>>, UNCHANGED bufVars,
           gen' \in [kind : Kinds \union {"default"}, at : 0 .. Len(Content)], gen'.at = gen.at,
           gen'.kind \in {"default", plan},
           fd' \in {"none", "open", "closed"}, owners' \subseteq {"app", "stream"},
           item' \in {"none", "ready", "deferred", "trailers", "trailing", "failed",
                      "closing", "gone"},
           item' # "gone" => (IF gen'.kind = "default" THEN "app" ELSE "stream") \in owners',
           plan = "file" /\ owners' # {} => fd' = "open",
           item \in {"closing", "gone"} => item' \in {"closing", "gone"},
           item = "gone" => item' = "gone",
           item' \in {"trailers", "trailing"} => gen.at = Len(Body)
    PROVE  IndInv'
  <1> USE DEF IndInv
  <1>0. /\ pc' = pc /\ buf' = buf /\ pending' = pending /\ writing' = writing /\ wire' = wire
        /\ side' = side /\ plan' = plan
    BY DEF bufVars
  <1>1. Body' = Body /\ InFlight' = InFlight
    BY <1>0 DEF Body, InFlight, Busy
  <1>2. TypeOK'
    BY <1>0 DEF TypeOK
  <1>3. BufferInv'
    BY <1>0 DEF BufferInv, Busy, Sized
  <1>4. GeneratorInv'
    BY <1>0, <1>1 DEF GeneratorInv
  <1>5. EndInv'
    BY <1>0, <1>1 DEF EndInv, Clean
  <1>6. OrderInv'
    BY <1>0, <1>1 DEF OrderInv
  <1> QED BY <1>2, <1>3, <1>4, <1>5, <1>6

\* mem_send returns a frame with the next bytes of the body, or none: it goes behind
\* what is in the buffer, or it waits alone while the buffer is sent.
LEMMA PutOk ==
    ASSUME IndInv, pc = "send", item \notin {"closing", "gone"},
           NEW frame \in Frames, Put(frame), frame.len \in 1 .. (Window + 1),
           UNCHANGED <<side, plan, fd, owners>>,
           gen' \in [kind : Kinds \union {"default"}, at : 0 .. Len(Content)],
           gen'.kind = gen.kind, gen'.at \in gen.at .. Len(Body),
           frame.bytes = Slice(Body, gen.at, gen'.at),
           item' \in {"ready", "closing", "trailers"},
           Clean(frame) \/ item' = "closing",
           frame.last \/ item' = "trailers" => gen'.at = Len(Body)
    PROVE  IndInv'
  <1> USE DEF IndInv
  <1>0. /\ side' = side /\ plan' = plan /\ fd' = fd /\ owners' = owners /\ wire' = wire
        /\ Body' = Body /\ InFlight = buf /\ pending = Nothing /\ writing = FALSE
        /\ buf \in Frames /\ buf.len \in Nat /\ frame.len \in Nat
    BY DEF Put, Body, InFlight, Busy, BufferInv, TypeOK, Frames
  <1>1. Clean(wire) /\ Clean(buf) /\ Clean(pending)
    BY <1>0 DEF EndInv
  <1>2. /\ Len(Body) \in Nat /\ Body \in Seq(0 .. 255) /\ gen.at \in 0 .. Len(Body)
        /\ gen'.at \in 0 .. Len(Body) /\ gen.at <= gen'.at
    BY BodyType DEF TypeOK, GeneratorInv
  <1>3. PICK i \in 0 .. gen.at : /\ wire.bytes = Slice(Body, 0, i)
                                 /\ buf.bytes = Slice(Body, i, gen.at)
    <2>1. PICK i, j \in 0 .. Len(Body) :
              /\ i <= j /\ j <= gen.at /\ wire.bytes = Slice(Body, 0, i)
              /\ buf.bytes = Slice(Body, i, j) /\ <<>> = Slice(Body, j, gen.at)
      BY <1>0, NothingOk DEF OrderInv
    <2>2. j = gen.at
      BY <1>2, <2>1, BodySlice
    <2> QED BY <1>2, <2>1, <2>2
  <1>4. GeneratorInv'
    BY <1>0, <1>2 DEF GeneratorInv
  <1>5. <<>> = Slice(Body, gen'.at, gen'.at)
    BY <1>2, NoSlice
  <1>6. CASE buf.len + frame.len > Room
    <2>1. pending' = frame /\ pc' = "idle" /\ writing' = (buf.len > 0) /\ buf' = buf
      BY <1>6 DEF Put, AsyncWrite
    <2>2. buf.len > 0 /\ frame.len <= Room
      BY <1>0, <1>6, RoomAssumption
    <2>3. writing' = TRUE
      BY <2>1, <2>2
    <2>4. InFlight' = buf
      BY <2>1, <2>3 DEF InFlight, Busy
    <2>5. TypeOK'
      BY <1>0, <2>1, <2>3 DEF TypeOK
    <2>6. BufferInv'
      BY <1>0, <2>1, <2>2, <2>3 DEF BufferInv, Busy, Sized
    <2>7. EndInv'
      BY <1>0, <1>1, <2>1, <2>4 DEF EndInv, Clean
    <2>8. OrderInv'
      BY <1>0, <1>2, <1>3, <2>1, <2>4 DEF OrderInv
    <2> QED BY <1>4, <2>5, <2>6, <2>7, <2>8
  <1>7. CASE ~(buf.len + frame.len > Room)
    <2>1. pending' = Nothing /\ pc' = "send" /\ writing' = FALSE /\ buf' = Join(buf, frame)
      BY <1>0, <1>7 DEF Put
    <2>2. /\ buf' \in Frames /\ buf'.bytes = Cat(buf.bytes, frame.bytes)
          /\ buf'.len = buf.len + frame.len
          /\ buf'.last <=> frame.last
          /\ buf'.reset <=> frame.reset
      BY <1>0, <1>1, <2>1, JoinOk DEF Clean
    <2>3. InFlight' = buf'
      BY <2>1 DEF InFlight, Busy
    <2>4. TypeOK'
      BY <1>0, <2>1, <2>2, NothingOk DEF TypeOK
    <2>5. BufferInv'
      BY <1>0, <1>7, <2>1, <2>2, RoomAssumption, NothingOk DEF BufferInv, Busy, Sized
    <2>6. EndInv'
      BY <1>0, <1>1, <2>1, <2>2, <2>3, NothingOk DEF EndInv, Clean
    <2>7. buf'.bytes = Slice(Body, i, gen'.at)
      <3>1. i \in 0 .. Len(Body) /\ i <= gen.at
        BY <1>2, <1>3
      <3>2. Cat(Slice(Body, i, gen.at), Slice(Body, gen.at, gen'.at)) = Slice(Body, i, gen'.at)
        BY <1>2, <3>1, BodySlices
      <3> QED BY <1>3, <2>2, <3>2
    <2>8. OrderInv'
      <3>1. pending'.bytes = Slice(Body, gen'.at, gen'.at)
        BY <1>5, <2>1, NothingOk
      <3>2. i \in 0 .. Len(Body) /\ i <= gen'.at /\ gen'.at <= gen'.at
        BY <1>2, <1>3
      <3> QED BY <1>0, <1>2, <1>3, <2>3, <2>7, <3>1, <3>2 DEF OrderInv
    <2> QED BY <1>4, <2>4, <2>5, <2>6, <2>8
  <1> QED BY <1>6, <1>7

\* What the peer has once async_write is done: the next piece of the body, and all of
\* it if END_STREAM is there.
LEMMA ArrivedOk ==
    ASSUME IndInv, writing
    PROVE  /\ Clean(wire) /\ Join(wire, buf) \in Frames
           /\ Join(wire, buf).last <=> buf.last
           /\ Join(wire, buf).reset <=> buf.reset
           /\ ~Clean(buf) => pending = Nothing
           /\ \E i, j \in 0 .. gen.at : /\ i <= j
                                        /\ wire.bytes = Slice(Body, 0, i)
                                        /\ buf.bytes = Slice(Body, i, j)
                                        /\ Join(wire, buf).bytes = Slice(Body, 0, j)
                                        /\ pending.bytes = Slice(Body, j, gen.at)
           /\ buf.last => Join(wire, buf).bytes = Body
  <1> USE DEF IndInv
  <1>0. /\ InFlight = buf /\ buf.len > 0 /\ pc = "idle" /\ wire \in Frames /\ buf \in Frames
        /\ buf # Nothing
    BY NothingOk DEF InFlight, Busy, BufferInv, TypeOK
  <1>1. /\ Clean(wire)
        /\ ~Clean(buf) => pending = Nothing
        /\ buf.last => gen.at = Len(Body)
    BY <1>0 DEF EndInv
  <1>2. /\ Join(wire, buf) \in Frames /\ Join(wire, buf).bytes = Cat(wire.bytes, buf.bytes)
        /\ Join(wire, buf).last <=> buf.last
        /\ Join(wire, buf).reset <=> buf.reset
    BY <1>0, <1>1, JoinOk DEF Clean
  <1>3. Len(Body) \in Nat /\ gen.at \in 0 .. Len(Body)
    BY BodyType DEF TypeOK, GeneratorInv
  <1>4. PICK i, j \in 0 .. Len(Body) :
            /\ i <= j /\ j <= gen.at /\ wire.bytes = Slice(Body, 0, i)
            /\ buf.bytes = Slice(Body, i, j) /\ pending.bytes = Slice(Body, j, gen.at)
    BY <1>0 DEF OrderInv
  <1>5. Join(wire, buf).bytes = Slice(Body, 0, j)
    <2>1. 0 \in 0 .. Len(Body) /\ 0 <= i
      BY <1>3
    <2> QED BY <1>2, <1>4, <2>1, BodySlices
  <1>6. i \in 0 .. gen.at /\ j \in 0 .. gen.at
    BY <1>3, <1>4
  <1>7. ASSUME buf.last PROVE Join(wire, buf).bytes = Body
    <2>1. <<>> = Slice(Body, j, gen.at) /\ gen.at = Len(Body)
      BY <1>1, <1>4, <1>7, NothingOk DEF Clean
    <2>2. j = Len(Body)
      BY <1>3, <1>4, <2>1, BodySlice
    <2> QED BY <1>3, <1>4, <1>5, <2>2, BodySlice
  <1> QED BY <1>1, <1>2, <1>4, <1>5, <1>6, <1>7

\* What the peer has when the connection stops during async_write: some of the piece
\* that was being written, and no end.
LEMMA PartOk ==
    ASSUME IndInv, writing, NEW n \in 0 .. Len(buf.bytes)
    PROVE  /\ Join(wire, Part(buf, n)) \in Frames
           /\ ~Join(wire, Part(buf, n)).last /\ ~Join(wire, Part(buf, n)).reset
           /\ \E i, k \in 0 .. gen.at : /\ i <= k
                                        /\ wire.bytes = Slice(Body, 0, i)
                                        /\ Join(wire, Part(buf, n)).bytes = Slice(Body, 0, k)
  <1> USE DEF IndInv
  <1>0. /\ wire \in Frames /\ buf.bytes \in Seq(0 .. 255) /\ Clean(wire)
        /\ Len(Body) \in Nat /\ gen.at \in 0 .. Len(Body) /\ Body \in Seq(0 .. 255)
    BY ArrivedOk, BodyType DEF TypeOK, Frames, GeneratorInv
  <1>1. PICK i, j \in 0 .. gen.at :
            i <= j /\ wire.bytes = Slice(Body, 0, i) /\ buf.bytes = Slice(Body, i, j)
    BY ArrivedOk
  <1>2. /\ i \in 0 .. Len(Body) /\ j \in i .. Len(Body) /\ j \in 0 .. Len(Body)
    BY <1>0, <1>1
  <1>3. n \in 0 .. (j - i)
    BY <1>0, <1>1, <1>2, BodySlice
  <1>4. SubSeq(buf.bytes, 1, n) = Slice(Body, i, i + n)
    BY <1>0, <1>1, <1>2, <1>3, SlicePart
  <1>5. i + n \in 0 .. gen.at /\ i + n \in i .. Len(Body) /\ i + n \in 0 .. Len(Body) /\ i <= i + n
    BY <1>0, <1>1, <1>3
  <1>6. Slice(Body, i, i + n) \in Seq(0 .. 255)
    BY <1>0, <1>2, <1>5, BodySlice
  <1>7. /\ Part(buf, n) \in Frames /\ Part(buf, n).bytes = Slice(Body, i, i + n)
        /\ ~Part(buf, n).last /\ ~Part(buf, n).reset
    <2> DEFINE s == Slice(Body, i, i + n)
    <2>1. Part(buf, n) = [bytes |-> s, len |-> n, last |-> FALSE, reset |-> FALSE]
      BY <1>4 DEF Part
    <2>2. n \in Nat
      BY <1>0
    <2> HIDE DEF s
    <2>3. s \in Seq(0 .. 255)
      BY <1>6 DEF s
    <2> QED BY <2>1, <2>2, <2>3 DEF Frames, s
  <1>8. /\ Join(wire, Part(buf, n)) \in Frames
        /\ ~Join(wire, Part(buf, n)).last /\ ~Join(wire, Part(buf, n)).reset
        /\ Join(wire, Part(buf, n)).bytes = Cat(Slice(Body, 0, i), Slice(Body, i, i + n))
    BY <1>0, <1>1, <1>7, JoinOk DEF Clean
  <1>9. Cat(Slice(Body, 0, i), Slice(Body, i, i + n)) = Slice(Body, 0, i + n)
    <2>1. 0 \in 0 .. Len(Body) /\ 0 <= i
      BY <1>0, <1>2
    <2> QED BY <1>2, <1>5, <2>1, BodySlices
  <1> QED BY <1>1, <1>5, <1>8, <1>9

\* do_write begins: the frame that waited is the first in the buffer, and nothing that
\* has not been sent was in it.
LEMMA DoWriteOk == IndInv /\ do_write => IndInv'
  <1> SUFFICES ASSUME IndInv, do_write PROVE IndInv'
    OBVIOUS
  <1> USE DEF IndInv
  <1>0. /\ side' = side /\ gen' = gen /\ plan' = plan /\ fd' = fd /\ owners' = owners
        /\ item' = item /\ writing' = writing /\ wire' = wire /\ pending' = Nothing
        /\ pc = "idle" /\ pc' = "send" /\ writing = FALSE /\ InFlight = Nothing
    BY DEF do_write, genVars, InFlight, Busy, TypeOK
  <1>1. buf' = pending /\ pending \in Frames
    <2>1. CASE side = "server"
      BY <2>1 DEF do_write, TypeOK
    <2>2. CASE side = "client"
      <3>1. buf = Nothing
        BY <1>0, <2>2 DEF BufferInv, Busy
      <3> QED BY <2>2, <3>1, JoinOk, NothingOk DEF do_write, TypeOK
    <2> QED BY <2>1, <2>2 DEF TypeOK
  <1>2. Body' = Body /\ InFlight' = pending
    BY <1>0, <1>1 DEF Body, InFlight, Busy
  <1>3. TypeOK'
    BY <1>0, <1>1, NothingOk DEF TypeOK
  <1>4. BufferInv'
    BY <1>0, <1>1, NothingOk, RoomAssumption DEF BufferInv, Busy, Sized
  <1>5. GeneratorInv'
    BY <1>0, <1>2 DEF GeneratorInv
  <1>6. EndInv'
    BY <1>0, <1>2, NothingOk DEF EndInv, Clean
  <1>7. OrderInv'
    <2>0. Len(Body) \in Nat /\ gen.at \in 0 .. Len(Body)
      BY BodyType DEF TypeOK, GeneratorInv
    <2>1. PICK i, j \in 0 .. Len(Body) :
              /\ i <= j /\ j <= gen.at /\ wire.bytes = Slice(Body, 0, i)
              /\ <<>> = Slice(Body, i, j) /\ pending.bytes = Slice(Body, j, gen.at)
      BY <1>0, NothingOk DEF OrderInv
    <2>2. i = j
      BY <2>0, <2>1, BodySlice
    <2>3. gen.at <= gen.at
      BY <2>0
    <2>4. <<>> = Slice(Body, gen.at, gen.at)
      BY <2>0, NoSlice
    <2> QED BY <1>0, <1>2, <2>0, <2>1, <2>2, <2>3, <2>4, NothingOk DEF OrderInv
  <1> QED BY <1>3, <1>4, <1>5, <1>6, <1>7

\* nghttp2 asks the generator, and its answer is a frame, or none.
LEMMA ReadDataOk == IndInv /\ ReadData => IndInv'
  <1> SUFFICES ASSUME IndInv, NEW len \in 1 .. Window, NEW a \in read_callback(len), AskFor(a)
               PROVE  IndInv'
    BY DEF ReadData
  <1>0. TypeOK /\ GeneratorInv
    BY DEF IndInv
  <1>1. /\ a.n \in 0 .. len
        /\ gen.at + a.n <= Len(Body)
        /\ a.flag \in {"more", "eof", "trailers", "deferred", "fail"}
        /\ a.flag \in {"eof", "trailers"} => gen.at + a.n = Len(Body)
        /\ a.flag \in {"deferred", "fail"} => a.n = 0
        /\ SubSeq(Content, gen.at + 1, gen.at + a.n) = Slice(Body, gen.at, gen.at + a.n)
    BY <1>0, AnswerOk
  <1>2. /\ Window \in Nat /\ Len(Body) \in Nat /\ Len(Content) \in Nat /\ len \in Nat
        /\ Len(Body) <= Len(Content) /\ gen.at \in 0 .. Len(Body) /\ a.n \in Nat
    BY <1>0, <1>1, RoomAssumption, ContentAssumption, BodyType, LenProperties
       DEF TypeOK, GeneratorInv
  <1>3. gen.at + a.n \in 0 .. Len(Content) /\ gen.at + a.n \in gen.at .. Len(Body)
    BY <1>1, <1>2
  <1>4. /\ gen' \in [kind : Kinds \union {"default"}, at : 0 .. Len(Content)]
        /\ gen'.at = gen.at + a.n /\ gen'.kind = gen.kind
    BY <1>0, <1>3 DEF AskFor, TypeOK
  <1>5. /\ pc = "send" /\ item = "ready"
        /\ side' = side /\ plan' = plan /\ fd' = fd /\ owners' = owners
    BY DEF AskFor
  <1>6. CASE a.flag \in {"deferred", "fail"}
    <2>0. a.n = 0 /\ gen'.at = gen.at
      BY <1>1, <1>2, <1>4, <1>6
    <2>1. item' \in {"deferred", "failed"} /\ UNCHANGED bufVars
      BY <1>6 DEF AskFor
    <2>2. /\ item' # "gone" => (IF gen'.kind = "default" THEN "app" ELSE "stream") \in owners'
          /\ plan = "file" /\ owners' # {} => fd' = "open"
          /\ gen'.kind \in {"default", plan}
      BY <1>0, <1>4, <1>5 DEF GeneratorInv
    <2> QED BY <1>0, <1>4, <1>5, <2>0, <2>1, <2>2, ControlOk DEF TypeOK
  <1>7. CASE a.flag \notin {"deferred", "fail"}
    <2> DEFINE bytes == Slice(Body, gen.at, gen.at + a.n)
               frame == Frame(bytes, a.flag = "eof")
    <2>1. Put(frame)
      BY <1>1, <1>7 DEF AskFor
    <2>2. item' = CASE a.flag = "more" -> "ready" [] a.flag = "eof" -> "closing"
                    [] a.flag = "trailers" -> "trailers"
      BY <1>1, <1>7 DEF AskFor
    <2>0. gen.at + a.n \in 0 .. Len(Body) /\ gen.at <= gen.at + a.n
      BY <1>2, <1>3
    <2>3. bytes \in Seq(0 .. 255)
      BY <1>2, <2>0, BodySlice
    <2>4. Len(bytes) = a.n
      <3>1. Len(bytes) = (gen.at + a.n) - gen.at
        BY <1>2, <2>0, BodySlice
      <3> QED BY <1>2, <3>1
    <2>5. bytes = Slice(Body, gen.at, gen'.at)
      BY <1>4
    <2> HIDE DEF bytes
    <2>6. frame \in Frames
      <3>1. 1 + Len(bytes) \in Nat /\ (a.flag = "eof") \in BOOLEAN
        BY <1>2, <2>4
      <3> QED BY <2>3, <3>1 DEF Frame, Frames
    <2>7. /\ frame.len = 1 + a.n /\ frame.bytes = bytes
          /\ frame.last <=> a.flag = "eof"
          /\ ~frame.reset
      BY <2>4 DEF Frame
    <2> HIDE DEF frame
    <2>8. frame.len \in 1 .. (Window + 1)
      BY <1>1, <1>2, <2>7
    <2>9. /\ item' \in {"ready", "closing", "trailers"}
          /\ Clean(frame) \/ item' = "closing"
          /\ frame.last \/ item' = "trailers" => gen'.at = Len(Body)
      BY <1>1, <1>4, <1>7, <2>2, <2>7 DEF Clean
    <2>10. gen'.at \in gen.at .. Len(Body) /\ item \notin {"closing", "gone"}
      BY <1>3, <1>4, <1>5
    <2> QED BY <1>4, <1>5, <2>1, <2>5, <2>6, <2>7, <2>8, <2>9, <2>10, PutOk
  <1> QED BY <1>1, <1>6, <1>7

\* RST_STREAM or the trailers go the same way as DATA, with no bytes.
LEMMA SendLastOk == IndInv /\ SendLast => IndInv'
  <1> SUFFICES ASSUME IndInv, SendLast PROVE IndInv'
    OBVIOUS
  <1> DEFINE frame == IF item = "failed" THEN Reset ELSE Trailers
  <1>0. /\ side' = side /\ gen' = gen /\ plan' = plan /\ fd' = fd /\ owners' = owners
        /\ pc = "send" /\ item \in {"failed", "trailing"} /\ item' = "closing" /\ Put(frame)
    BY DEF SendLast, genVars
  <1>1. /\ Len(Body) \in Nat /\ gen.at \in 0 .. Len(Body) /\ gen.at <= gen.at
        /\ gen \in [kind : Kinds \union {"default"}, at : 0 .. Len(Content)]
    BY BodyType DEF IndInv, TypeOK, GeneratorInv
  <1>2. 1 + Len(<<>>) = 1 /\ <<>> \in Seq(0 .. 255)
    BY EmptySeq
  <1>3. /\ frame \in Frames /\ frame.bytes = <<>> /\ frame.len = 1
        /\ frame.last <=> item = "trailing"
    BY <1>0, <1>2 DEF Reset, Trailers, Frame, Frames
  <1>4. frame.last => gen.at = Len(Body)
    BY <1>0, <1>3 DEF IndInv, EndInv
  <1> HIDE DEF frame
  <1>5. frame.len \in 1 .. (Window + 1)
    BY <1>3, RoomAssumption
  <1>6. frame.bytes = Slice(Body, gen.at, gen'.at)
    BY <1>0, <1>1, <1>3, NoSlice
  <1>7. gen'.at \in gen.at .. Len(Body)
    BY <1>0, <1>1
  <1> QED BY <1>0, <1>1, <1>3, <1>4, <1>5, <1>6, <1>7, PutOk

\* The loop ends; the buffer is sent if there is anything in it.
LEMMA SendEmptyOk == IndInv /\ SendEmpty => IndInv'
  <1> SUFFICES ASSUME IndInv, SendEmpty PROVE IndInv'
    OBVIOUS
  <1> USE DEF IndInv
  <1>0. /\ side' = side /\ gen' = gen /\ plan' = plan /\ fd' = fd /\ owners' = owners
        /\ item' = item /\ buf' = buf /\ pending' = pending /\ wire' = wire
        /\ pc = "send" /\ pc' = "idle" /\ writing' = (buf.len > 0)
        /\ pending = Nothing /\ buf \in Frames /\ buf.len \in Nat
    BY DEF SendEmpty, AsyncWrite, genVars, BufferInv, TypeOK, Frames
  <1>1. writing' \in BOOLEAN /\ (writing' <=> buf.len > 0)
    <2>1. writing' = (buf.len > 0)
      BY <1>0
    <2>2. (buf.len > 0) \in BOOLEAN
      BY <1>0
    <2> QED BY <2>1, <2>2, Zenon
  <1>2. buf.len = 0 => buf = Nothing
    BY DEF BufferInv, Sized
  <1>3. Body' = Body /\ InFlight' = InFlight
    <2>1. InFlight = buf
      BY <1>0 DEF InFlight, Busy
    <2>2. CASE buf.len > 0
      BY <1>0, <1>1, <2>1, <2>2 DEF InFlight, Busy, Body
    <2>3. CASE buf.len = 0
      BY <1>0, <1>1, <1>2, <2>1, <2>3 DEF InFlight, Busy, Body
    <2> QED BY <1>0, <2>2, <2>3
  <1>4. TypeOK'
    BY <1>0, <1>1 DEF TypeOK
  <1>5. BufferInv'
    BY <1>0, <1>1, <1>2 DEF BufferInv, Busy, Sized
  <1>6. GeneratorInv'
    BY <1>0, <1>3 DEF GeneratorInv
  <1>7. EndInv'
    BY <1>0, <1>3 DEF EndInv, Clean
  <1>8. OrderInv'
    BY <1>0, <1>3 DEF OrderInv
  <1> QED BY <1>4, <1>5, <1>6, <1>7, <1>8

\* The handler of async_write: the buffer counts as sent.
LEMMA WriteDoneOk == IndInv /\ WriteDone => IndInv'
  <1> SUFFICES ASSUME IndInv, WriteDone PROVE IndInv'
    OBVIOUS
  <1> USE DEF IndInv
  <1> DEFINE w == Join(wire, buf)
  <1>0. /\ side' = side /\ gen' = gen /\ plan' = plan /\ fd' = fd /\ owners' = owners
        /\ item' = item /\ pc' = pc /\ pending' = pending /\ wire' = w
        /\ buf' = (IF side = "client" THEN Nothing ELSE buf)
        /\ writing /\ pc = "idle" /\ writing' = FALSE
        /\ InFlight = buf
    BY DEF WriteDone, genVars, InFlight, Busy
  <1>1. /\ Clean(wire) /\ w \in Frames
        /\ w.last <=> buf.last
        /\ w.reset <=> buf.reset
        /\ ~Clean(buf) => pending = Nothing
        /\ buf.last => w.bytes = Body
    BY <1>0, ArrivedOk
  <1>2. PICK j \in 0 .. gen.at : w.bytes = Slice(Body, 0, j) /\ pending.bytes = Slice(Body, j, gen.at)
    BY <1>0, ArrivedOk
  <1> HIDE DEF w
  <1>3. Body' = Body /\ InFlight' = Nothing
    BY <1>0 DEF Body, InFlight, Busy
  <1>4. TypeOK'
    BY <1>0, <1>1, NothingOk DEF TypeOK
  <1>5. BufferInv'
    BY <1>0, NothingOk, RoomAssumption DEF BufferInv, Busy, Sized
  <1>6. GeneratorInv'
    BY <1>0, <1>3 DEF GeneratorInv
  <1>7. EndInv'
    BY <1>0, <1>1, <1>3, NothingOk DEF EndInv, Clean
  <1>8. OrderInv'
    <2>1. Len(Body) \in Nat /\ gen.at \in 0 .. Len(Body)
      BY BodyType DEF TypeOK, GeneratorInv
    <2>2. j \in 0 .. Len(Body) /\ j <= j /\ j <= gen.at
      BY <1>2, <2>1
    <2>3. <<>> = Slice(Body, j, j)
      BY <2>2, NoSlice
    <2> QED BY <1>0, <1>2, <1>3, <2>1, <2>2, <2>3, NothingOk DEF OrderInv
  <1> QED BY <1>4, <1>5, <1>6, <1>7, <1>8

\* stop() between two handlers: the peer has a prefix of the body, and the end of it
\* only after all of it.
LEMMA StopOk == IndInv /\ stop => IndInv'
  <1> SUFFICES ASSUME IndInv, stop PROVE IndInv'
    OBVIOUS
  <1> USE DEF IndInv
  <1>0. /\ side' = side /\ gen' = gen /\ plan' = plan /\ buf' = buf /\ pending' = pending
        /\ pc = "idle" /\ pc' = "stopped" /\ writing' = FALSE /\ item' = "gone"
        /\ Drop({"stream"})
    BY DEF stop
  <1>1. /\ fd' \in {"none", "open", "closed"} /\ owners' \subseteq {"app", "stream"}
        /\ owners' = owners \ {"stream"}
        /\ owners' # {} => fd' = fd
    BY <1>0, DropOk
  <1>2. Body' = Body /\ InFlight' = Nothing
    BY <1>0 DEF Body, InFlight, Busy
  <1>3. Len(Body) \in Nat /\ gen.at \in 0 .. Len(Body)
    BY BodyType DEF TypeOK, GeneratorInv
  <1>4. /\ wire' \in Frames
        /\ \E k \in 0 .. gen.at : wire'.bytes = Slice(Body, 0, k)
        /\ ~Clean(wire') => pending = Nothing
        /\ wire'.last => wire'.bytes = Body
    <2>1. CASE wire' = wire
      <3>1. PICK i, j \in 0 .. Len(Body) : i <= j /\ j <= gen.at /\ wire.bytes = Slice(Body, 0, i)
        BY DEF OrderInv
      <3>2. i \in 0 .. gen.at
        BY <1>3, <3>1
      <3> QED BY <2>1, <3>1, <3>2 DEF EndInv, TypeOK
    <2>2. CASE writing /\ wire' = Join(wire, buf)
      <3> DEFINE w == Join(wire, buf)
      <3>1. /\ w \in Frames
            /\ w.last <=> buf.last
            /\ w.reset <=> buf.reset
            /\ ~Clean(buf) => pending = Nothing
            /\ buf.last => w.bytes = Body
            /\ \E j \in 0 .. gen.at : w.bytes = Slice(Body, 0, j)
        BY <2>2, ArrivedOk
      <3>2. wire' = w
        BY <2>2
      <3> HIDE DEF w
      <3> QED BY <3>1, <3>2 DEF Clean
    <2>3. ASSUME writing, NEW n \in 0 .. Len(buf.bytes), wire' = Join(wire, Part(buf, n))
          PROVE  /\ wire' \in Frames
                 /\ \E k \in 0 .. gen.at : wire'.bytes = Slice(Body, 0, k)
                 /\ Clean(wire')
      <3> DEFINE w == Join(wire, Part(buf, n))
      <3>1. /\ w \in Frames /\ ~w.last /\ ~w.reset
            /\ \E k \in 0 .. gen.at : w.bytes = Slice(Body, 0, k)
        BY <2>3, PartOk
      <3>2. wire' = w
        BY <2>3
      <3> HIDE DEF w
      <3> QED BY <3>1, <3>2 DEF Clean
    <2>4. \/ wire' = wire
          \/ writing /\ wire' = Join(wire, buf)
          \/ writing /\ \E n \in 0 .. Len(buf.bytes) : wire' = Join(wire, Part(buf, n))
      BY DEF stop
    <2> QED BY <2>1, <2>2, <2>3, <2>4 DEF Clean
  <1>5. TypeOK'
    BY <1>0, <1>1, <1>4 DEF TypeOK
  <1>6. BufferInv'
    BY <1>0 DEF BufferInv, Busy, Sized
  <1>7. GeneratorInv'
    BY <1>0, <1>1, <1>2 DEF GeneratorInv
  <1>8. EndInv'
    BY <1>0, <1>2, <1>4, NothingOk DEF EndInv, Clean
  <1>9. OrderInv'
    <2>1. PICK k \in 0 .. gen.at : wire'.bytes = Slice(Body, 0, k)
      BY <1>4
    <2>2. k \in 0 .. Len(Body) /\ k <= k /\ k <= gen.at
      BY <1>3
    <2> QED BY <1>0, <1>2, <2>1, <2>2 DEF OrderInv
  <1> QED BY <1>5, <1>6, <1>7, <1>8, <1>9

\* The application's calls, and the end of the stream.
LEMMA ApplicationOk ==
    ASSUME IndInv,
           write_head \/ end \/ resume \/ write_trailer \/ Forget \/ cancel \/ StreamCloses
    PROVE  IndInv'
  <1>0. /\ TypeOK /\ GeneratorInv
        /\ gen \in [kind : Kinds \union {"default"}, at : 0 .. Len(Content)]
        /\ item \in {"trailers", "trailing"} => gen.at = Len(Body)
    BY DEF IndInv, TypeOK, EndInv
  <1>1. CASE write_head \/ resume \/ write_trailer \/ cancel
    <2>1. /\ UNCHANGED <<side, plan>> /\ UNCHANGED bufVars
          /\ gen' = gen /\ fd' = fd /\ owners' = owners
          /\ item \notin {"closing", "gone"}
          /\ item' \in {"ready", "failed"} \/ (item = "trailers" /\ item' = "trailing")
      BY <1>1 DEF write_head, resume, write_trailer, cancel, genVars
    <2>2. /\ item' # "gone" => (IF gen'.kind = "default" THEN "app" ELSE "stream") \in owners'
          /\ plan = "file" /\ owners' # {} => fd' = "open"
          /\ gen'.kind \in {"default", plan}
      BY <1>0, <2>1 DEF GeneratorInv
    <2> QED BY <1>0, <2>1, <2>2, ControlOk DEF TypeOK
  <1>2. CASE end
    <2>1. /\ UNCHANGED <<side, plan>> /\ UNCHANGED bufVars
          /\ gen.kind = "default" /\ item # "gone" /\ fd' = fd
          /\ gen' = [gen EXCEPT !.kind = plan]
          /\ owners' = owners \union {"stream"}
          /\ item' = item \/ (item' = "ready" /\ item \in {"none", "deferred"})
      BY <1>2 DEF end
    <2>2. /\ gen' \in [kind : Kinds \union {"default"}, at : 0 .. Len(Content)]
          /\ gen'.at = gen.at /\ gen'.kind = plan /\ plan # "default"
      BY <1>0, <2>1 DEF TypeOK, Kinds
    <2>3. "app" \in owners
      BY <1>0, <2>1 DEF GeneratorInv
    <2>4. /\ "stream" \in owners' /\ owners' \subseteq {"app", "stream"}
          /\ plan = "file" => fd' = "open"
      BY <1>0, <2>1, <2>3 DEF GeneratorInv, TypeOK
    <2> QED BY <1>0, <2>1, <2>2, <2>4, ControlOk DEF TypeOK
  <1>3. CASE Forget
    <2>1. /\ UNCHANGED <<side, plan>> /\ UNCHANGED bufVars
          /\ gen' = gen /\ item' = item /\ Drop({"app"})
          /\ gen.kind # "default" \/ item = "gone"
      BY <1>3 DEF Forget
    <2>2. /\ fd' \in {"none", "open", "closed"} /\ owners' \subseteq {"app", "stream"}
          /\ owners' = owners \ {"app"}
          /\ owners' # {} => fd' = fd
      BY <1>0, <2>1, DropOk
    <2>3. /\ item' # "gone" => (IF gen'.kind = "default" THEN "app" ELSE "stream") \in owners'
          /\ plan = "file" /\ owners' # {} => fd' = "open"
          /\ gen'.kind \in {"default", plan}
      BY <1>0, <2>1, <2>2 DEF GeneratorInv
    <2> QED BY <1>0, <2>1, <2>2, <2>3, ControlOk DEF TypeOK
  <1>4. CASE StreamCloses
    <2>1. /\ UNCHANGED <<side, plan>> /\ UNCHANGED bufVars
          /\ gen' = gen /\ item' = "gone" /\ Drop({"stream"})
      BY <1>4 DEF StreamCloses
    <2>2. /\ fd' \in {"none", "open", "closed"} /\ owners' \subseteq {"app", "stream"}
          /\ owners' = owners \ {"stream"}
          /\ owners' # {} => fd' = fd
      BY <1>0, <2>1, DropOk
    <2>3. /\ plan = "file" /\ owners' # {} => fd' = "open"
          /\ gen'.kind \in {"default", plan}
      BY <1>0, <2>1, <2>2 DEF GeneratorInv
    <2> QED BY <1>0, <2>1, <2>2, <2>3, ControlOk DEF TypeOK
  <1> QED BY <1>1, <1>2, <1>3, <1>4

\* The invariant holds when the application has made its generator.
LEMMA InitOk == Init => IndInv
  <1> SUFFICES ASSUME Init PROVE IndInv
    OBVIOUS
  <1>1. Len(Content) \in Nat /\ Len(Body) \in Nat /\ 0 \in 0 .. Len(Content) /\ 0 <= 0
        /\ 0 \in 0 .. Len(Body)
    BY ContentAssumption, BodyType, LenProperties
  <1>2. /\ gen.at = 0 /\ gen.kind = (IF side = "client" THEN plan ELSE "default")
        /\ gen \in [kind : Kinds \union {"default"}, at : 0 .. Len(Content)]
    BY <1>1 DEF Init
  <1>3. /\ buf = Nothing /\ pending = Nothing /\ wire = Nothing /\ writing = FALSE
        /\ pc = "idle" /\ InFlight = Nothing
    BY DEF Init, InFlight, Busy
  <1>4. TypeOK
    BY <1>2, <1>3, NothingOk DEF Init, TypeOK
  <1>5. BufferInv
    BY <1>3, NothingOk, RoomAssumption DEF Init, BufferInv, Busy, Sized
  <1>6. GeneratorInv
    BY <1>1, <1>2 DEF Init, GeneratorInv, Kinds
  <1>7. EndInv
    BY <1>3, NothingOk DEF Init, EndInv, Clean
  <1>8. OrderInv
    <2>1. <<>> = Slice(Body, 0, 0)
      BY <1>1, NoSlice
    <2> QED BY <1>1, <1>2, <1>3, <2>1, NothingOk DEF OrderInv
  <1> QED BY <1>4, <1>5, <1>6, <1>7, <1>8 DEF IndInv

\* No step of the application, of nghttp2 or of the socket breaks the invariant.
LEMMA NextOk == IndInv /\ [Next]_vars => IndInv'
  <1> SUFFICES ASSUME IndInv, [Next]_vars PROVE IndInv'
    OBVIOUS
  <1>1. CASE write_head \/ end \/ resume \/ write_trailer \/ Forget \/ cancel \/ StreamCloses
    BY <1>1, ApplicationOk
  <1>2. CASE do_write
    BY <1>2, DoWriteOk
  <1>3. CASE ReadData
    BY <1>3, ReadDataOk
  <1>4. CASE SendLast
    BY <1>4, SendLastOk
  <1>5. CASE SendEmpty
    BY <1>5, SendEmptyOk
  <1>6. CASE WriteDone
    BY <1>6, WriteDoneOk
  <1>7. CASE stop
    BY <1>7, StopOk
  <1>8. CASE UNCHANGED vars
    <2>1. /\ side' = side /\ gen' = gen /\ plan' = plan /\ fd' = fd /\ owners' = owners
          /\ item' = item /\ pc' = pc /\ buf' = buf /\ pending' = pending
          /\ writing' = writing /\ wire' = wire
      BY <1>8 DEF vars
    <2>2. Body' = Body /\ InFlight' = InFlight
      BY <2>1 DEF Body, InFlight, Busy
    <2>3. TypeOK'
      BY <2>1 DEF IndInv, TypeOK
    <2>4. BufferInv'
      BY <2>1 DEF IndInv, BufferInv, Busy, Sized
    <2>5. GeneratorInv'
      BY <2>1, <2>2 DEF IndInv, GeneratorInv
    <2>6. EndInv'
      BY <2>1, <2>2 DEF IndInv, EndInv, Clean
    <2>7. OrderInv'
      BY <2>1, <2>2 DEF IndInv, OrderInv
    <2> QED BY <2>3, <2>4, <2>5, <2>6, <2>7 DEF IndInv
  <1> QED BY <1>1, <1>2, <1>3, <1>4, <1>5, <1>6, <1>7, <1>8 DEF Next

\* In every state the wire, the buffer and the waiting frame hold consecutive pieces of
\* the body, no frame follows the one that ends the stream, and whoever nghttp2 may ask
\* for data owns the generator.
THEOREM IndInvHolds == Spec => []IndInv
  BY InitOk, NextOk, PTL DEF Spec

\* do_write never copies more into the 64_k buffer than fits, and never sets aside a
\* second frame while one waits, for every size of the buffer that takes one frame.
THEOREM FitsHolds == Spec => []Fits
  <1>1. IndInv => Fits
    BY DEF IndInv, BufferInv, Fits
  <1> QED BY <1>1, IndInvHolds, PTL

\* The descriptor of file_generator is open as long as nghttp2 may ask for data,
\* whatever the application does with its copy of the function object.
THEOREM DescriptorValidHolds == Spec => []DescriptorValid
  <1>1. IndInv => DescriptorValid
    <2> SUFFICES ASSUME IndInv, gen.kind = "file", item # "gone" PROVE fd = "open"
      BY DEF DescriptorValid
    <2> QED BY DEF IndInv, GeneratorInv
  <1> QED BY <1>1, IndInvHolds, PTL

-----------------------------------------------------------------------------
(* The transfer of a body implements ByteStream.                           *)

\* A longer prefix of the body, with the end after all of it or cut off, is a step of
\* ByteStream.
LEMMA DeliverOk ==
    ASSUME Body' = Body, Status = "open", Status' \in {"open", "done", "cut"},
           NEW i \in 0 .. Len(Body), NEW k \in 0 .. Len(Body), i <= k,
           wire.bytes = Slice(Body, 0, i), wire'.bytes = Slice(Body, 0, k),
           Status' = "done" => wire'.bytes = Body
    PROVE  Stream!Next
  <1>1. Len(Body) \in Nat /\ 0 \in 0 .. Len(Body) /\ 0 <= i /\ 0 + 1 = 1
    BY BodyType
  <1>2. Len(wire.bytes) = i
    <2>1. Len(wire.bytes) = i - 0
      BY <1>1, BodySlice
    <2> QED BY <1>1, <2>1
  <1>3. wire'.bytes = SubSeq(Body, 1, k)
    BY <1>1 DEF Slice
  <1>4. k \in Len(wire.bytes) .. Len(Body)
    BY <1>1, <1>2
  <1>5. \E n \in Len(wire.bytes) .. Len(Body) : wire'.bytes = SubSeq(Body, 1, n)
    BY <1>3, <1>4
  <1>6. CASE Status' = "cut"
    BY <1>5, <1>6 DEF Stream!Next, Stream!Cut
  <1>7. CASE Status' \in {"open", "done"}
    BY <1>5, <1>7 DEF Stream!Next, Stream!Deliver
  <1> QED BY <1>6, <1>7

\* Steps after which the peer has what it had.
LEMMA QuietOk ==
    ASSUME wire' = wire, plan' = plan, pc' = "stopped" <=> pc = "stopped"
    PROVE  UNCHANGED Stream!vars
  <1>1. Body' = Body /\ Status' = Status
    BY DEF Body, Status
  <1> QED BY <1>1 DEF Stream!vars

\* The handler of async_write brings the peer the next piece.
LEMMA WriteDoneDelivers == ASSUME IndInv, WriteDone PROVE Stream!Next
  <1> DEFINE w == Join(wire, buf)
  <1>0. writing /\ pc = "idle" /\ pc' = pc /\ wire' = w /\ plan' = plan
    BY DEF WriteDone, genVars
  <1>1. /\ Clean(wire)
        /\ w.last <=> buf.last
        /\ buf.last => w.bytes = Body
        /\ \E i, j \in 0 .. gen.at : /\ i <= j
                                     /\ wire.bytes = Slice(Body, 0, i)
                                     /\ w.bytes = Slice(Body, 0, j)
    BY <1>0, ArrivedOk
  <1> HIDE DEF w
  <1>2. PICK i, j \in 0 .. gen.at : /\ i <= j
                                    /\ wire.bytes = Slice(Body, 0, i)
                                    /\ w.bytes = Slice(Body, 0, j)
    BY <1>1
  <1>3. i \in 0 .. Len(Body) /\ j \in 0 .. Len(Body)
    BY BodyType DEF IndInv, TypeOK, GeneratorInv
  <1>4. Body' = Body /\ Status = "open" /\ Status' \in {"open", "done", "cut"}
    BY <1>0, <1>1 DEF Body, Status, Clean
  <1>5. Status' = "done" => wire'.bytes = Body
    BY <1>0, <1>1 DEF Status
  <1> QED BY <1>0, <1>2, <1>3, <1>4, <1>5, DeliverOk

\* stop() ends an open stream, after some more bytes perhaps, and leaves one that has
\* ended as it is.
LEMMA StopDelivers == ASSUME IndInv, stop PROVE Stream!Next \/ UNCHANGED Stream!vars
  <1>0. /\ pc = "idle" /\ pc' = "stopped" /\ plan' = plan
        /\ \/ wire' = wire
           \/ writing /\ wire' = Join(wire, buf)
           \/ writing /\ \E n \in 0 .. Len(buf.bytes) : wire' = Join(wire, Part(buf, n))
    BY DEF stop
  <1>1. CASE ~Clean(wire)
    <2>1. wire' = wire
      BY <1>0, <1>1, ArrivedOk
    <2>2. Body' = Body /\ Status' = Status
      BY <1>0, <1>1, <2>1 DEF Body, Status, Clean
    <2> QED BY <2>1, <2>2 DEF Stream!vars
  <1>2. CASE Clean(wire)
    <2>1. Body' = Body /\ Status = "open" /\ Status' \in {"open", "done", "cut"}
      BY <1>0, <1>2 DEF Body, Status, Clean
    <2>2. Len(Body) \in Nat /\ gen.at \in 0 .. Len(Body)
      BY BodyType DEF IndInv, TypeOK, GeneratorInv
    <2>3. /\ \E i, k \in 0 .. gen.at : /\ i <= k
                                       /\ wire.bytes = Slice(Body, 0, i)
                                       /\ wire'.bytes = Slice(Body, 0, k)
          /\ wire'.last => wire'.bytes = Body
      <3>1. CASE wire' = wire
        <4>1. PICK i, j \in 0 .. Len(Body) :
                  i <= j /\ j <= gen.at /\ wire.bytes = Slice(Body, 0, i)
          BY DEF IndInv, OrderInv
        <4>2. i \in 0 .. gen.at /\ i <= i
          BY <2>2, <4>1
        <4> QED BY <1>2, <3>1, <4>1, <4>2 DEF Clean
      <3>2. CASE writing /\ wire' = Join(wire, buf)
        <4> DEFINE w == Join(wire, buf)
        <4>1. /\ w.last <=> buf.last
              /\ buf.last => w.bytes = Body
              /\ \E i, j \in 0 .. gen.at : /\ i <= j
                                           /\ wire.bytes = Slice(Body, 0, i)
                                           /\ w.bytes = Slice(Body, 0, j)
          BY <3>2, ArrivedOk
        <4>2. wire' = w
          BY <3>2
        <4> HIDE DEF w
        <4> QED BY <4>1, <4>2
      <3>3. CASE writing /\ \E n \in 0 .. Len(buf.bytes) : wire' = Join(wire, Part(buf, n))
        <4>1. PICK n \in 0 .. Len(buf.bytes) : wire' = Join(wire, Part(buf, n))
          BY <3>3
        <4> DEFINE w == Join(wire, Part(buf, n))
        <4>2. /\ ~w.last
              /\ \E i, k \in 0 .. gen.at : /\ i <= k
                                           /\ wire.bytes = Slice(Body, 0, i)
                                           /\ w.bytes = Slice(Body, 0, k)
          BY <3>3, PartOk
        <4>3. wire' = w
          BY <4>1
        <4> HIDE DEF w
        <4> QED BY <4>2, <4>3
      <3> QED BY <1>0, <3>1, <3>2, <3>3
    <2>4. PICK i, k \in 0 .. gen.at : /\ i <= k
                                      /\ wire.bytes = Slice(Body, 0, i)
                                      /\ wire'.bytes = Slice(Body, 0, k)
      BY <2>3
    <2>5. i \in 0 .. Len(Body) /\ k \in 0 .. Len(Body)
      BY <2>2
    <2>6. Status' = "done" => wire'.bytes = Body
      BY <2>3 DEF Status
    <2> QED BY <2>1, <2>4, <2>5, <2>6, DeliverOk
  <1> QED BY <1>1, <1>2

\* Every step maps to a step of ByteStream or to none.
LEMMA NextDelivers == IndInv /\ [Next]_vars => [Stream!Next]_(Stream!vars)
  <1> SUFFICES ASSUME IndInv, [Next]_vars PROVE Stream!Next \/ UNCHANGED Stream!vars
    OBVIOUS
  <1>1. CASE write_head \/ end \/ resume \/ write_trailer \/ Forget \/ cancel \/ StreamCloses
    <2>1. UNCHANGED bufVars /\ plan' = plan
      BY <1>1 DEF write_head, end, resume, write_trailer, Forget, cancel, StreamCloses, genVars
    <2> QED BY <2>1, QuietOk DEF bufVars
  <1>2. CASE do_write \/ SendEmpty
    <2>1. wire' = wire /\ plan' = plan /\ pc # "stopped" /\ pc' # "stopped"
      BY <1>2 DEF do_write, SendEmpty, AsyncWrite, genVars
    <2> QED BY <2>1, QuietOk
  <1>3. ASSUME NEW frame, pc = "send", Put(frame) PROVE wire' = wire /\ pc' # "stopped"
    BY <1>3 DEF Put, AsyncWrite
  <1>4. CASE ReadData
    <2>1. PICK len \in 1 .. Window : \E a \in read_callback(len) : AskFor(a)
      BY <1>4 DEF ReadData
    <2>2. PICK a \in read_callback(len) : AskFor(a)
      BY <2>1
    <2>3. plan' = plan /\ pc = "send" /\ wire' = wire /\ pc' # "stopped"
      BY <1>3, <2>2 DEF AskFor, bufVars
    <2> QED BY <2>3, QuietOk
  <1>5. CASE SendLast
    <2>1. plan' = plan /\ pc = "send" /\ wire' = wire /\ pc' # "stopped"
      BY <1>3, <1>5 DEF SendLast, genVars
    <2> QED BY <2>1, QuietOk
  <1>6. CASE WriteDone
    BY <1>6, WriteDoneDelivers
  <1>7. CASE stop
    BY <1>7, StopDelivers
  <1>8. CASE UNCHANGED vars
    BY <1>8, QuietOk DEF vars
  <1> QED BY <1>1, <1>2, <1>4, <1>5, <1>6, <1>7, <1>8 DEF Next

\* Whatever the generator, however it splits, defers or fails, and however the frames
\* fall into the buffer, the peer receives the bytes of the body in order, none lost or
\* twice, and the end exactly after the last: the safety part of DeliversBody.
THEOREM ImplementsByteStream == Spec => Stream!Init /\ [][Stream!Next]_(Stream!vars)
  <1>1. Init => Stream!Init
    <2> SUFFICES ASSUME Init PROVE wire.bytes = <<>> /\ Status = "open"
      BY DEF Stream!Init
    <2> QED BY NothingOk DEF Init, Status
  <1> QED BY <1>1, NextDelivers, IndInvHolds, PTL DEF Spec
=============================================================================
