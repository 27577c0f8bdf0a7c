------------------------ MODULE ClientSessionProofs ------------------------
(***************************************************************************)
(* Proofs about ClientSession, for TCP and TLS, every set of requests and  *)
(* pushes, every size of wb_ and every bound on the frames queued in       *)
(* nghttp2.                                                                *)
(*                                                                         *)
(* The invariants speak of the socket, the timer and the queue through     *)
(* Outstanding(io) alone, so the lemmas of the first part say what each    *)
(* operation does to that set.                                             *)
(***************************************************************************)
EXTENDS ClientSession, TLAPS

-----------------------------------------------------------------------------
(* What the operations on the socket, the timer and the queue do.          *)

\* No operation was started while it was outstanding.
Sound(i) == i \in Io(Ops) /\ \A op \in Ops : i.st[op] # "clash"

\* An operation that completes is outstanding until its handler has run.
LEMMA CompletedOk ==
    ASSUME NEW i, Sound(i), NEW op \in Ops, NEW result \in {"ok", "err"}
    PROVE  /\ Sound(Complete(i, op, result))
           /\ Outstanding(Complete(i, op, result)) = Outstanding(i) \union {op}
  <1> DEFINE st == [i.st EXCEPT ![op] = result]
             queue == Append(i.queue, op)
             c == [i EXCEPT !.st = st, !.queue = queue]
  <1>1. Complete(i, op, result) = c
    BY DEF Complete
  <1>2. /\ i.st \in [Ops -> OpStates]
        /\ st \in [Ops -> OpStates] /\ queue \in Seq(Ops)
    BY DEF Sound, Io, OpStates
  <1>3. \A o \in Ops : st[o] # "clash" /\ (st[o] # "off" <=> i.st[o] # "off" \/ o = op)
    BY <1>2 DEF Sound
  <1> HIDE DEF st, queue
  <1>4. c \in Io(Ops) /\ c.st = st
    BY <1>2, Zenon DEF Sound, Io
  <1> HIDE DEF c
  <1> QED BY <1>1, <1>3, <1>4 DEF Sound, Outstanding

\* Aborting an operation leaves it outstanding: its handler is still to run.
LEMMA AbortOk ==
    ASSUME NEW i, Sound(i), NEW op \in Ops
    PROVE  Sound(Abort(i, op)) /\ Outstanding(Abort(i, op)) = Outstanding(i)
  <1>1. CASE i.st[op] = "wait"
    <2>1. op \in Outstanding(i)
      BY <1>1 DEF Outstanding
    <2>2. Abort(i, op) = Complete(i, op, "err")
      BY <1>1 DEF Abort
    <2>3. Outstanding(i) \union {op} = Outstanding(i)
      BY <2>1
    <2>4. /\ Sound(Complete(i, op, "err"))
          /\ Outstanding(Complete(i, op, "err")) = Outstanding(i) \union {op}
      BY CompletedOk
    <2> QED BY <2>2, <2>3, <2>4
  <1>2. CASE i.st[op] # "wait"
    BY <1>2 DEF Abort
  <1> QED BY <1>1, <1>2

\* session_impl::stop closes the socket and cancels the deadline; the handlers run
\* later.
LEMMA StopOk ==
    ASSUME NEW i, Sound(i)
    PROVE  Sound(stop(i)) /\ Outstanding(stop(i)) = Outstanding(i)
  <1>1. /\ "connect" \in Ops /\ "handshake" \in Ops /\ "read" \in Ops
        /\ "write" \in Ops /\ "deadline" \in Ops
    BY DEF Ops
  <1> DEFINE a == Abort(i, "connect")
             b == Abort(a, "handshake")
             c == Abort(b, "read")
             d == Abort(c, "write")
             e == [d EXCEPT !.open = FALSE]
  <1>2. Sound(a) /\ Outstanding(a) = Outstanding(i)
    BY <1>1, AbortOk
  <1> HIDE DEF a
  <1>3. Sound(b) /\ Outstanding(b) = Outstanding(i)
    BY <1>1, <1>2, AbortOk
  <1> HIDE DEF b
  <1>4. Sound(c) /\ Outstanding(c) = Outstanding(i)
    BY <1>1, <1>3, AbortOk
  <1> HIDE DEF c
  <1>5. Sound(d) /\ Outstanding(d) = Outstanding(i)
    BY <1>1, <1>4, AbortOk
  <1> HIDE DEF d
  <1>6. e \in Io(Ops) /\ e.st = d.st
    BY <1>5, Zenon DEF Sound, Io
  <1>7. Sound(e) /\ Outstanding(e) = Outstanding(i)
    BY <1>5, <1>6 DEF Sound, Outstanding
  <1>8. stop(i) = Abort(e, "deadline")
    BY DEF stop, CancelDeadline, CloseSocket, a, b, c, d, e
  <1> HIDE DEF e
  <1> QED BY <1>1, <1>7, <1>8, AbortOk

\* An operation that is not outstanding is started.
LEMMA BeginOk ==
    ASSUME NEW i, Sound(i), NEW op \in Ops, op \notin Outstanding(i)
    PROVE  /\ Sound(Begin(i, op))
           /\ Outstanding(Begin(i, op)) = Outstanding(i) \union {op}
  <1>1. i.st[op] = "off"
    BY DEF Outstanding
  <1>2. CASE op \in SocketOps /\ ~i.open
    <2>1. Begin(i, op) = Complete(i, op, "err")
      BY <1>1, <1>2 DEF Begin
    <2> QED BY <2>1, CompletedOk
  <1>3. CASE ~(op \in SocketOps /\ ~i.open)
    <2> DEFINE st == [i.st EXCEPT ![op] = "wait"]
               b == [i EXCEPT !.st = st]
    <2>1. Begin(i, op) = b
      BY <1>1, <1>3 DEF Begin
    <2>2. i.st \in [Ops -> OpStates] /\ st \in [Ops -> OpStates]
      BY DEF Sound, Io, OpStates
    <2>3. \A o \in Ops : st[o] # "clash" /\ (st[o] # "off" <=> i.st[o] # "off" \/ o = op)
      BY <2>2 DEF Sound
    <2> HIDE DEF st
    <2>4. b \in Io(Ops) /\ b.st = st
      BY <2>2 DEF Sound, Io
    <2> HIDE DEF b
    <2> QED BY <2>1, <2>3, <2>4 DEF Sound, Outstanding
  <1> QED BY <1>2, <1>3

\* do_read and do_write move the deadline, which cancels its wait, and start their
\* operation.
LEMMA RefreshOk ==
    ASSUME NEW i, Sound(i), NEW op \in {"read", "write"}, op \notin Outstanding(i)
    PROVE  /\ Sound(Begin(ExpiresFromNow(i), op))
           /\ Outstanding(Begin(ExpiresFromNow(i), op)) = Outstanding(i) \union {op}
  <1>1. "deadline" \in Ops /\ op \in Ops
    BY DEF Ops
  <1> DEFINE c == CancelDeadline(i)
             e == [c EXCEPT !.expiry = "running"]
  <1>2. Sound(c) /\ Outstanding(c) = Outstanding(i)
    BY <1>1, AbortOk DEF CancelDeadline
  <1>3. ExpiresFromNow(i) = e
    BY DEF ExpiresFromNow
  <1> HIDE DEF c
  <1>4. e \in Io(Ops) /\ e.st = c.st
    BY <1>2 DEF Sound, Io
  <1>5. Sound(e) /\ Outstanding(e) = Outstanding(i)
    BY <1>2, <1>4 DEF Sound, Outstanding
  <1> HIDE DEF e
  <1> QED BY <1>1, <1>3, <1>5, BeginOk

\* async_connect opens the socket and starts connecting.
LEMMA ConnectOk ==
    ASSUME NEW i, Sound(i), "connect" \notin Outstanding(i)
    PROVE  /\ Sound(start_connect(i))
           /\ Outstanding(start_connect(i)) = Outstanding(i) \union {"connect"}
  <1> DEFINE e == [i EXCEPT !.open = TRUE]
  <1>1. e \in Io(Ops) /\ e.st = i.st
    BY Zenon DEF Sound, Io
  <1>2. Sound(e) /\ Outstanding(e) = Outstanding(i)
    BY <1>1 DEF Sound, Outstanding
  <1>3. start_connect(i) = Begin(e, "connect") /\ "connect" \in Ops
    BY DEF start_connect, Ops
  <1> HIDE DEF e
  <1> QED BY <1>2, <1>3, BeginOk

\* An operation that completes, and a deadline that passes, stay outstanding until
\* their handlers run.
LEMMA CompleteOk ==
    ASSUME NEW i, Sound(i), NEW op \in Ops, i.st[op] = "wait", NEW result \in {"ok", "err"}
    PROVE  /\ Sound(Complete(i, op, result))
           /\ Outstanding(Complete(i, op, result)) = Outstanding(i)
  <1>1. op \in Outstanding(i)
    BY DEF Outstanding
  <1>2. Outstanding(i) \union {op} = Outstanding(i)
    BY <1>1
  <1>3. /\ Sound(Complete(i, op, result))
        /\ Outstanding(Complete(i, op, result)) = Outstanding(i) \union {op}
    BY CompletedOk
  <1> QED BY <1>2, <1>3

\* The same for the deadline.
LEMMA DeadlinePassesOk ==
    ASSUME NEW i, Sound(i)
    PROVE  Sound(DeadlinePasses(i)) /\ Outstanding(DeadlinePasses(i)) = Outstanding(i)
  <1> DEFINE c == IF i.st["deadline"] = "wait" THEN Complete(i, "deadline", "ok") ELSE i
             e == [c EXCEPT !.expiry = "expired"]
  <1>1. "deadline" \in Ops
    BY DEF Ops
  <1>2. Sound(c) /\ Outstanding(c) = Outstanding(i)
    BY <1>1, CompleteOk
  <1>3. DeadlinePasses(i) = e
    BY DEF DeadlinePasses
  <1> HIDE DEF c
  <1>4. e \in Io(Ops) /\ e.st = c.st
    BY <1>2 DEF Sound, Io
  <1> HIDE DEF e
  <1> QED BY <1>2, <1>3, <1>4 DEF Sound, Outstanding

\* Running a handler takes its operation off.
LEMMA PoppedOk ==
    ASSUME Sound(io), NEW op \in Ops, Ready(op)
    PROVE  /\ op \in Outstanding(io)
           /\ Sound(Popped(op))
           /\ Outstanding(Popped(op)) = Outstanding(io) \ {op}
  <1> DEFINE st == [io.st EXCEPT ![op] = "off"]
             queue == Tail(io.queue)
             d == [io EXCEPT !.st = st, !.queue = queue]
  <1>1. Popped(op) = d
    BY DEF Popped, Dequeue
  <1>2. /\ io.st \in [Ops -> OpStates]
        /\ io.queue \in Seq(Ops) /\ io.queue # <<>>
    BY DEF Sound, Io, Ready, IsNext
  <1>3. st \in [Ops -> OpStates] /\ queue \in Seq(Ops)
    BY <1>2 DEF OpStates
  <1>4. \A o \in Ops : st[o] # "clash" /\ (st[o] # "off" <=> io.st[o] # "off" /\ o # op)
    BY <1>2 DEF Sound
  <1> HIDE DEF st, queue
  <1>5. d \in Io(Ops) /\ d.st = st
    BY <1>3, Zenon DEF Sound, Io
  <1> HIDE DEF d
  <1>6. op \in Outstanding(io)
    BY DEF Ready, IsNext, Outstanding
  <1> QED BY <1>1, <1>4, <1>5, <1>6 DEF Sound, Outstanding

-----------------------------------------------------------------------------
(* The invariant in three parts: types, loops and streams.                 *)

\* TypeOK for the variables other than io.
OtherTypes ==
    /\ ping \in [wait : BOOLEAN, due : BOOLEAN]
    /\ setup \in {"none", "done", "failed"}
    /\ pc \in {"idle", "recv", "send"}
    /\ caller \in Callers \union Requests
    /\ stopped \in BOOLEAN
    /\ writing \in BOOLEAN
    /\ pending \in BOOLEAN
    /\ len \in 0..OutBuf
    /\ wantRead \in BOOLEAN
    /\ goaway \in {"no", "received", "term"}
    /\ out \in 0..MaxOut
    /\ nst \in [Ids -> {"idle", "queued", "canceled", "open", "closed"}]
    /\ streams \subseteq Ids
    /\ told \in Seq({"connect", "error"})
    /\ held \in BOOLEAN

\* What the handlers leave behind for one another.
Loops == /\ DeadlineArmed /\ ReadArmed /\ PingArmed /\ NoLinger /\ NoLostWakeup
         /\ ConnectInv /\ CallbackInv /\ WritingInv

\* Inv is not inductive without NoLostWakeup, which says that the write loop is not
\* entered with a frame left over.
IndInv == Inv /\ NoLostWakeup

\* The parts make up the invariant.
LEMMA Parts == IndInv <=> Sound(io) /\ OtherTypes /\ Loops /\ StreamsKnown
  BY DEF IndInv, Inv, TypeOK, NoClash, Sound, OtherTypes, Loops

\* The same for the state after a step.
LEMMA PartsNext ==
    ASSUME Sound(io'), OtherTypes', Loops', StreamsKnown'
    PROVE  IndInv'
  BY DEF IndInv, Inv, TypeOK, NoClash, Sound, OtherTypes, Loops

\* In the state after the constructor of session the resolver and the deadline are
\* outstanding and nothing has been set up.
LEMMA InitIndInv == Init => IndInv
  <1> SUFFICES ASSUME Init PROVE IndInv
    OBVIOUS
  <1> USE OutBufAssumption, MaxOutAssumption, CallersAssumption
  <1>1. io \in Io(Ops)
    BY DEF Init, Io, OpStates
  <1>2. \A op \in Ops : io.st[op] = IF op \in {"resolve", "deadline"} THEN "wait" ELSE "off"
    BY DEF Init
  <1>3. Outstanding(io) = {"resolve", "deadline"}
    BY <1>2 DEF Outstanding, Ops
  <1>4. Sound(io)
    BY <1>1, <1>2 DEF Sound
  <1>5. OtherTypes
    <2>1. ping \in [wait : BOOLEAN, due : BOOLEAN]
      BY DEF Init
    <2>2. nst \in [Ids -> {"idle", "queued", "canceled", "open", "closed"}]
      BY DEF Init
    <2>3. told \in Seq({"connect", "error"}) /\ streams \subseteq Ids
      BY DEF Init
    <2>4. stopped \in BOOLEAN /\ writing \in BOOLEAN /\ pending \in BOOLEAN
      BY DEF Init
    <2>5. wantRead \in BOOLEAN /\ held \in BOOLEAN
      BY DEF Init
    <2>6. /\ setup \in {"none", "done", "failed"} /\ pc \in {"idle", "recv", "send"}
          /\ caller \in Callers \union Requests /\ goaway \in {"no", "received", "term"}
          /\ len \in 0..OutBuf /\ out \in 0..MaxOut
      BY DEF Init, Callers
    <2> QED BY <2>1, <2>2, <2>3, <2>4, <2>5, <2>6 DEF OtherTypes
  <1>6. Loops
    BY <1>3 DEF Init, Loops, DeadlineArmed, ReadArmed, PingArmed, NoLinger, NoLostWakeup,
            want_write, ConnectInv, CallbackInv, WritingInv
  <1>7. StreamsKnown
    BY DEF Init, StreamsKnown
  <1> QED BY <1>4, <1>5, <1>6, <1>7, Parts

-----------------------------------------------------------------------------
(* Ways in which a handler ends.                                           *)

\* The streams that are alive inside nghttp2.
Known == {id \in Ids : nst[id] \in {"queued", "canceled", "open"}}

\* The operations of connecting.
Connecting == {"resolve", "connect", "handshake"}

\* A handler, or the end of nghttp2_session_mem_recv, that leaves the session
\* stopped has nothing to keep going.
LEMMA StoppedOk ==
    ASSUME IndInv, Alive, pc # "send", pc' = "idle", stopped' = TRUE,
           Sound(io'), Outstanding(io') \subseteq Outstanding(io),
           ping' \in {ping, cancel_ping(ping)},
           told' \in {told, Append(told, "error")},
           UNCHANGED <<setup, held, caller, writing, pending, len, nghttp2Vars, streams>>
    PROVE  IndInv'
  <1>1. Sound(io) /\ OtherTypes /\ Loops /\ StreamsKnown
    BY Parts
  <1>2. ping' \in [wait : BOOLEAN, due : BOOLEAN] /\ (ping'.wait => ping.wait)
        /\ ping'.due = ping.due
    BY <1>1 DEF OtherTypes, cancel_ping
  <1>3. told' \in Seq({"connect", "error"})
    BY <1>1 DEF OtherTypes
  <1>4. OtherTypes'
    BY <1>1, <1>2, <1>3 DEF OtherTypes, nghttp2Vars
  <1>5. Loops'
    BY <1>1, <1>2 DEF OtherTypes, nghttp2Vars, Loops, DeadlineArmed, ReadArmed, PingArmed,
            NoLinger, NoLostWakeup, want_write, ConnectInv, CallbackInv, WritingInv
  <1>6. StreamsKnown'
    BY <1>1 DEF StreamsKnown, nghttp2Vars
  <1> QED BY <1>4, <1>5, <1>6, PartsNext

\* do_write up to its loop, from whichever handler or call: what the callers leave
\* to one another is in place.
LEMMA EnterOk ==
    ASSUME IndInv, OtherTypes', StreamsKnown', PingArmed',
           pc' = "send", stopped' = FALSE, writing' = FALSE, pending' = FALSE,
           setup' = "done", Sound(io'),
           "deadline" \in Outstanding(io'), "write" \notin Outstanding(io'),
           Outstanding(io') \intersect Connecting = {},
           caller' \in {"connected", "read"} <=> "read" \notin Outstanding(io')
    PROVE  IndInv'
  <1>1. Loops'
    BY DEF Loops, DeadlineArmed, ReadArmed, NoLinger, NoLostWakeup, want_write, ConnectInv,
           CallbackInv, WritingInv, Connecting
  <1> QED BY <1>1, PartsNext

\* do_write returns to its caller: i, p, t and s are what it leaves behind.
LEMMA ReturnOk ==
    ASSUME IndInv, pc = "send",
           NEW i, Sound(i), NEW p \in [wait : BOOLEAN, due : BOOLEAN],
           NEW t \in Seq({"connect", "error"}), NEW s \in BOOLEAN,
           Return(caller, i, p, t, s), UNCHANGED <<setup, held, len>>,
           Outstanding(i) \in {Outstanding(io), Outstanding(io) \union {"write"}},
           ~s => p = ping, OtherTypes /\ nst' \in [Ids -> {"idle", "queued", "canceled", "open", "closed"}],
           out' \in 0..MaxOut, wantRead' \in BOOLEAN, pending' \in BOOLEAN, writing' \in BOOLEAN,
           goaway' \in {"no", "received", "term"}, Known' \subseteq Known,
           "write" \in Outstanding(i) => writing',
           ~s /\ ~writing' => len = 0 /\ ~pending' /\ out' = 0 /\ wantRead'
    PROVE  IndInv'
  <1>1. Sound(io) /\ OtherTypes /\ Loops /\ StreamsKnown /\ setup = "done"
    BY Parts DEF Loops, ConnectInv
  <1>2. "read" \in Outstanding(io) <=> caller \notin {"connected", "read"}
    BY <1>1 DEF Loops, CallbackInv
  <1>3. pc' = "idle" /\ caller' = "none" /\ stopped' = s
    BY DEF Return
  <1>4. /\ Sound(io')
        /\ Outstanding(io') = IF caller \in {"connected", "read"} /\ ~s
                              THEN Outstanding(i) \union {"read"} ELSE Outstanding(i)
    <2>1. CASE caller \in {"connected", "read"} /\ ~s
      <3>1. io' = Begin(ExpiresFromNow(i), "read") /\ "read" \notin Outstanding(i)
        BY <1>2, <2>1 DEF Return
      <3> QED BY <2>1, <3>1, RefreshOk
    <2>2. CASE ~(caller \in {"connected", "read"} /\ ~s)
      BY <2>2 DEF Return
    <2> QED BY <2>1, <2>2
  <1>5. /\ ping' \in [wait : BOOLEAN, due : BOOLEAN]
        /\ caller \in {"connected", "ping"} => ping'.wait
        /\ caller \notin {"connected", "ping"} \union Requests => ping' = p
    <2>1. CASE caller \in {"connected", "ping"}
      BY <2>1, CallersAssumption DEF Return, start_ping, Callers
    <2>2. CASE caller \in Requests
      BY <2>2, CallersAssumption DEF Return, cancel_ping, Callers
    <2>3. CASE caller \notin {"connected", "ping"} \union Requests
      BY <2>3 DEF Return
    <2> QED BY <2>1, <2>2, <2>3
  <1>6. told' \in Seq({"connect", "error"})
    BY DEF Return
  <1>7. streams' = IF caller \in Requests THEN streams \union {caller} ELSE streams
    BY DEF Return
  <1>8. streams' \subseteq Ids /\ (streams' = {} => streams = {} /\ caller \notin Requests)
    BY <1>1, <1>7 DEF OtherTypes, Ids
  <1>9. OtherTypes'
    BY <1>1, <1>3, <1>5, <1>6, <1>8 DEF OtherTypes, Callers
  <1>10. Loops'
    <2>1. PingArmed'
      <3> SUFFICES ASSUME ~s, streams' = {} PROVE ping'.wait \/ ping'.due
        BY <1>3 DEF PingArmed
      <3>1. CASE caller \in {"connected", "ping"}
        BY <1>5, <3>1
      <3>2. CASE caller \notin {"connected", "ping"}
        <4>1. caller \notin {"connected", "ping"} \union Requests /\ streams = {}
          BY <1>8, <3>2
        <4>2. ~stopped /\ (ping.wait \/ ping.due)
          BY <1>1, <4>1 DEF Loops, PingArmed, CallbackInv
        <4> QED BY <1>5, <4>1, <4>2
      <3> QED BY <3>1, <3>2
    <2>2. DeadlineArmed' /\ ReadArmed' /\ CallbackInv' /\ WritingInv'
      BY <1>1, <1>2, <1>3, <1>4 DEF Loops, DeadlineArmed, ReadArmed, CallbackInv, WritingInv
    <2>3. NoLinger' /\ NoLostWakeup'
      <3>1. CASE writing'
        BY <3>1 DEF NoLinger, NoLostWakeup
      <3>2. CASE s
        BY <1>3, <3>2 DEF NoLinger, NoLostWakeup
      <3>3. CASE ~s /\ ~writing'
        BY <3>3 DEF NoLinger, NoLostWakeup, want_write
      <3> QED BY <3>1, <3>2, <3>3
    <2>4. ConnectInv'
      BY <1>1, <1>4 DEF Loops, ConnectInv
    <2> QED BY <2>1, <2>2, <2>3, <2>4 DEF Loops
  <1>11. StreamsKnown'
    <2>1. Known \subseteq streams \union {caller}
      BY <1>1 DEF StreamsKnown, Alive, Known
    <2>2. caller \in Ids => caller \in Requests
      BY <1>1, CallersAssumption DEF OtherTypes, Ids
    <2>3. Known' \subseteq streams'
      BY <1>7, <2>1, <2>2 DEF Known
    <2> QED BY <2>3 DEF StreamsKnown, Known
  <1> QED BY <1>4, <1>9, <1>10, <1>11, PartsNext

\* Outside do_write every stream of nghttp2 has its entry in streams_.
LEMMA KnownInStreams == ASSUME IndInv, Alive, pc # "send" PROVE Known \subseteq streams
  <1>1. Known \subseteq streams \union {caller} /\ caller = "none"
    BY Parts DEF StreamsKnown, Known, Loops, CallbackInv
  <1>2. "none" \notin Known
    BY CallersAssumption DEF Callers, Ids, Known
  <1> QED BY <1>1, <1>2

-----------------------------------------------------------------------------
(* Connecting.                                                             *)

\* The resolver's handler goes on to connect, or stops.
LEMMA ResolveOk == ASSUME IndInv, HandleResolve PROVE IndInv'
  <1> DEFINE i == Popped("resolve")
  <1>1. Sound(io) /\ OtherTypes /\ Loops /\ StreamsKnown /\ "resolve" \in Ops
    BY Parts DEF Ops
  <1>2. /\ "resolve" \in Outstanding(io) /\ Sound(i)
        /\ Outstanding(i) = Outstanding(io) \ {"resolve"} /\ pc = "idle"
    BY <1>1, PoppedOk DEF HandleResolve, Ready
  <1> HIDE DEF i
  <1>3. Alive
    BY <1>2 DEF Alive
  <1>4. CASE Fail(i)
    <2>1. Sound(io') /\ Outstanding(io') = Outstanding(i)
      BY <1>2, <1>4, StopOk DEF Fail, Stop
    <2>2. /\ stopped' = TRUE /\ ping' \in {ping, cancel_ping(ping)}
          /\ told' \in {told, Append(told, "error")}
      BY <1>4 DEF Fail, Stop, call_error_cb
    <2> QED BY <1>2, <1>3, <2>1, <2>2, StoppedOk DEF HandleResolve
  <1>5. CASE io' = start_connect(i) /\ UNCHANGED <<told, stopped, ping>>
    <2>1. "connect" \notin Outstanding(i) /\ setup = "none"
      BY <1>1, <1>2 DEF Loops, ConnectInv, OtherTypes
    <2>2. Sound(io') /\ Outstanding(io') = Outstanding(i) \union {"connect"}
      BY <1>2, <1>5, <2>1, ConnectOk
    <2>3. OtherTypes'
      BY <1>1, <1>5 DEF HandleResolve, OtherTypes, nghttp2Vars
    <2>4. Loops'
      BY <1>1, <1>2, <1>5, <2>1, <2>2
         DEF HandleResolve, nghttp2Vars, Loops, DeadlineArmed, ReadArmed, PingArmed, NoLinger,
             NoLostWakeup, want_write, ConnectInv, CallbackInv, WritingInv
    <2>5. StreamsKnown'
      BY <1>1, <1>3 DEF HandleResolve, nghttp2Vars, StreamsKnown
    <2> QED BY <2>2, <2>3, <2>4, <2>5, PartsNext
  <1> QED BY <1>4, <1>5 DEF HandleResolve, i

\* session_impl::connected, reached from the handler that ends connecting.
LEMMA ConnectedOk ==
    ASSUME IndInv, NEW op \in {"connect", "handshake"}, op \in Outstanding(io),
           NEW i, Sound(i), Outstanding(i) = Outstanding(io) \ {op},
           pc = "idle", ~stopped, connected(i),
           UNCHANGED <<ping, stopped, held, writing, pending, wantRead, goaway, nst, streams>>
    PROVE  IndInv'
  <1>1. Sound(io) /\ OtherTypes /\ Loops /\ StreamsKnown
    BY Parts
  <1>2. setup = "none" /\ Outstanding(i) \intersect Connecting = {}
    BY <1>1 DEF Loops, ConnectInv, OtherTypes, Connecting
  <1>3. /\ {"read", "write"} \intersect Outstanding(io) = {} /\ "deadline" \in Outstanding(io)
        /\ ~writing /\ ~pending /\ len = 0 /\ wantRead /\ streams = {} /\ out = 0
        /\ ~ping.wait /\ ~ping.due /\ \A id \in Ids : nst[id] = "idle"
    BY <1>1, <1>2 DEF Loops, ConnectInv, DeadlineArmed
  <1>4. CASE setup' = "failed" /\ io' = i /\ call_error_cb /\ UNCHANGED <<pc, caller, len, out>>
    <2>1. told' \in Seq({"connect", "error"})
      BY <1>1, <1>4 DEF OtherTypes, call_error_cb
    <2>2. OtherTypes'
      BY <1>1, <1>4, <2>1 DEF OtherTypes
    <2>3. Loops'
      BY <1>1, <1>2, <1>3, <1>4
         DEF Loops, DeadlineArmed, ReadArmed, PingArmed, NoLinger, NoLostWakeup, want_write,
             ConnectInv, CallbackInv, WritingInv, Connecting
    <2>4. StreamsKnown'
      BY <1>3, <1>4 DEF StreamsKnown
    <2> QED BY <1>4, <2>2, <2>3, <2>4, PartsNext
  <1>5. CASE /\ setup' = "done" /\ out' = 1 /\ pc' = "send" /\ caller' = "connected"
             /\ io' = i /\ UNCHANGED <<len, told>>
    <2>1. OtherTypes'
      BY <1>1, <1>5, MaxOutAssumption DEF OtherTypes, Callers
    <2>2. StreamsKnown' /\ PingArmed'
      BY <1>3, <1>5 DEF StreamsKnown, PingArmed
    <2>3. stopped' = FALSE /\ writing' = FALSE /\ pending' = FALSE
      BY <1>1, <1>3, Zenon DEF OtherTypes
    <2> QED BY <1>2, <1>3, <1>5, <2>1, <2>2, <2>3, EnterOk
  <1> QED BY <1>4, <1>5 DEF connected

\* The connect handler.
LEMMA HandleConnectOk == ASSUME IndInv, HandleConnect PROVE IndInv'
  <1> DEFINE i == Popped("connect")
  <1>1. /\ Sound(io) /\ OtherTypes /\ Loops /\ StreamsKnown
        /\ "connect" \in Ops /\ "handshake" \in Ops
    BY Parts DEF Ops
  <1>2. /\ "connect" \in Outstanding(io) /\ Sound(i)
        /\ Outstanding(i) = Outstanding(io) \ {"connect"} /\ pc = "idle"
    BY <1>1, PoppedOk DEF HandleConnect, Ready
  <1> HIDE DEF i
  <1>3. Alive
    BY <1>2 DEF Alive
  <1>4. CASE /\ stopped /\ io' = i
             /\ UNCHANGED <<ping, setup, told, pc, caller, stopped, len, out>>
    <2>1. stopped' = TRUE
      BY <1>1, <1>4, Zenon DEF OtherTypes
    <2> QED BY <1>2, <1>3, <1>4, <2>1, StoppedOk DEF HandleConnect, nghttp2Vars
  <1>5. CASE Fail(i) /\ UNCHANGED <<setup, pc, caller, len, out>>
    <2>1. Sound(io') /\ Outstanding(io') = Outstanding(i)
      BY <1>2, <1>5, StopOk DEF Fail, Stop
    <2>2. /\ stopped' = TRUE /\ ping' \in {ping, cancel_ping(ping)}
          /\ told' \in {told, Append(told, "error")}
      BY <1>5 DEF Fail, Stop, call_error_cb
    <2> QED BY <1>2, <1>3, <1>5, <2>1, <2>2, StoppedOk DEF HandleConnect, nghttp2Vars
  <1>6. CASE ~stopped /\ connected(i) /\ UNCHANGED <<ping, stopped>>
    BY <1>2, <1>6, ConnectedOk DEF HandleConnect
  <1>7. CASE /\ ~stopped /\ io' = Begin(i, "handshake")
             /\ UNCHANGED <<ping, setup, told, pc, caller, stopped, len, out>>
    <2>1. "handshake" \notin Outstanding(i) /\ setup = "none"
      BY <1>1, <1>2 DEF Loops, ConnectInv, OtherTypes
    <2>2. Sound(io') /\ Outstanding(io') = Outstanding(i) \union {"handshake"}
      BY <1>1, <1>2, <1>7, <2>1, BeginOk
    <2>3. OtherTypes'
      BY <1>1, <1>7 DEF HandleConnect, OtherTypes
    <2>4. Loops'
      BY <1>1, <1>2, <1>7, <2>1, <2>2
         DEF HandleConnect, Loops, DeadlineArmed, ReadArmed, PingArmed, NoLinger,
             NoLostWakeup, want_write, ConnectInv, CallbackInv, WritingInv
    <2>5. StreamsKnown'
      BY <1>1, <1>3, <1>7 DEF HandleConnect, StreamsKnown
    <2> QED BY <2>2, <2>3, <2>4, <2>5, PartsNext
  <1> QED BY <1>4, <1>5, <1>6, <1>7 DEF HandleConnect, i

\* The handshake handler.
LEMMA HandleHandshakeOk == ASSUME IndInv, HandleHandshake PROVE IndInv'
  <1> DEFINE i == Popped("handshake")
  <1>1. Sound(io) /\ OtherTypes /\ "handshake" \in Ops
    BY Parts DEF Ops
  <1>2. /\ "handshake" \in Outstanding(io) /\ Sound(i)
        /\ Outstanding(i) = Outstanding(io) \ {"handshake"} /\ pc = "idle"
    BY <1>1, PoppedOk DEF HandleHandshake, Ready
  <1> HIDE DEF i
  <1>3. Alive
    BY <1>2 DEF Alive
  <1>4. CASE /\ stopped /\ io' = i
             /\ UNCHANGED <<ping, setup, told, pc, caller, stopped, len, out>>
    <2>1. stopped' = TRUE
      BY <1>1, <1>4, Zenon DEF OtherTypes
    <2> QED BY <1>2, <1>3, <1>4, <2>1, StoppedOk DEF HandleHandshake, nghttp2Vars
  <1>5. CASE Fail(i) /\ UNCHANGED <<setup, pc, caller, len, out>>
    <2>1. Sound(io') /\ Outstanding(io') = Outstanding(i)
      BY <1>2, <1>5, StopOk DEF Fail, Stop
    <2>2. /\ stopped' = TRUE /\ ping' \in {ping, cancel_ping(ping)}
          /\ told' \in {told, Append(told, "error")}
      BY <1>5 DEF Fail, Stop, call_error_cb
    <2> QED BY <1>2, <1>3, <1>5, <2>1, <2>2, StoppedOk DEF HandleHandshake, nghttp2Vars
  <1>6. CASE ~stopped /\ connected(i) /\ UNCHANGED <<ping, stopped>>
    BY <1>2, <1>6, ConnectedOk DEF HandleHandshake
  <1> QED BY <1>4, <1>5, <1>6 DEF HandleHandshake, i

\* The deadline's handler stops the session or waits again.
LEMMA HandleDeadlineOk == ASSUME IndInv, HandleDeadline PROVE IndInv'
  <1> DEFINE i == Popped("deadline")
  <1>1. Sound(io) /\ OtherTypes /\ Loops /\ StreamsKnown /\ "deadline" \in Ops
    BY Parts DEF Ops
  <1>2. /\ "deadline" \in Outstanding(io) /\ Sound(i)
        /\ Outstanding(i) = Outstanding(io) \ {"deadline"} /\ pc = "idle"
    BY <1>1, PoppedOk DEF HandleDeadline, Ready
  <1> HIDE DEF i
  <1>3. Alive
    BY <1>2 DEF Alive
  <1>4. CASE stopped /\ io' = i /\ UNCHANGED <<ping, told, stopped>>
    <2>1. stopped' = TRUE
      BY <1>1, <1>4, Zenon DEF OtherTypes
    <2> QED BY <1>2, <1>3, <1>4, <2>1, StoppedOk DEF HandleDeadline
  <1>5. CASE /\ call_error_cb /\ io' = [stop(i) EXCEPT !.expiry = "never"]
             /\ ping' = cancel_ping(ping) /\ stopped' = TRUE
    <2>1. Sound(stop(i)) /\ Outstanding(stop(i)) = Outstanding(i)
      BY <1>2, StopOk
    <2>2. io' \in Io(Ops) /\ io'.st = stop(i).st
      BY <1>5, <2>1 DEF Sound, Io
    <2>3. Sound(io') /\ Outstanding(io') = Outstanding(i)
      BY <2>1, <2>2 DEF Sound, Outstanding
    <2>4. told' \in {told, Append(told, "error")}
      BY <1>5 DEF call_error_cb
    <2> QED BY <1>2, <1>3, <1>5, <2>3, <2>4, StoppedOk DEF HandleDeadline
  <1>6. CASE io' = Begin(i, "deadline") /\ UNCHANGED <<ping, told, stopped>>
    <2>1. Sound(io') /\ Outstanding(io') = Outstanding(io)
      BY <1>1, <1>2, <1>6, BeginOk
    <2>2. OtherTypes'
      BY <1>1, <1>6 DEF HandleDeadline, OtherTypes, nghttp2Vars
    <2>3. Loops'
      BY <1>1, <1>2, <1>6, <2>1
         DEF HandleDeadline, nghttp2Vars, Loops, DeadlineArmed, ReadArmed, PingArmed, NoLinger,
             NoLostWakeup, want_write, ConnectInv, CallbackInv, WritingInv
    <2>4. StreamsKnown'
      BY <1>1, <1>3, <1>6 DEF HandleDeadline, nghttp2Vars, StreamsKnown
    <2> QED BY <2>1, <2>2, <2>3, <2>4, PartsNext
  <1> QED BY <1>4, <1>5, <1>6 DEF HandleDeadline, i

-----------------------------------------------------------------------------
(* The read loop.                                                          *)

\* The read handler, up to nghttp2_session_mem_recv.
LEMMA HandleReadOk == ASSUME IndInv, HandleRead PROVE IndInv'
  <1> DEFINE i == Popped("read")
  <1>1. Sound(io) /\ OtherTypes /\ Loops /\ StreamsKnown /\ "read" \in Ops
    BY Parts DEF Ops
  <1>2. /\ "read" \in Outstanding(io) /\ Sound(i)
        /\ Outstanding(i) = Outstanding(io) \ {"read"} /\ pc = "idle"
    BY <1>1, PoppedOk DEF HandleRead, Ready
  <1> HIDE DEF i
  <1>3. Alive
    BY <1>2 DEF Alive
  <1>4. CASE /\ IF should_stop THEN UNCHANGED told ELSE call_error_cb
             /\ Stop(i) /\ UNCHANGED pc
    <2>1. Sound(io') /\ Outstanding(io') = Outstanding(i)
      BY <1>2, <1>4, StopOk DEF Stop
    <2>2. /\ stopped' = TRUE /\ ping' \in {ping, cancel_ping(ping)}
          /\ told' \in {told, Append(told, "error")}
      BY <1>4 DEF Stop, call_error_cb
    <2> QED BY <1>2, <1>3, <1>4, <2>1, <2>2, StoppedOk DEF HandleRead
  <1>5. CASE pc' = "recv" /\ io' = i /\ UNCHANGED <<ping, told, stopped>>
    <2>1. setup = "done"
      BY <1>1, <1>2 DEF Loops, ConnectInv
    <2>2. OtherTypes'
      BY <1>1, <1>5 DEF HandleRead, OtherTypes, nghttp2Vars
    <2>3. Loops'
      BY <1>1, <1>2, <1>5, <2>1
         DEF HandleRead, nghttp2Vars, Loops, DeadlineArmed, ReadArmed, PingArmed, NoLinger,
             NoLostWakeup, want_write, ConnectInv, CallbackInv, WritingInv
    <2>4. StreamsKnown'
      BY <1>1, <1>3, <1>5 DEF HandleRead, nghttp2Vars, StreamsKnown
    <2> QED BY <1>2, <1>5, <2>2, <2>3, <2>4, PartsNext
  <1> QED BY <1>4, <1>5 DEF HandleRead, i

\* nghttp2_session_mem_recv fails.
LEMMA RecvFailOk == ASSUME IndInv, RecvFail PROVE IndInv'
  <1>1. Sound(io) /\ pc = "recv" /\ Alive
    BY Parts DEF RecvFail, Alive
  <1>2. Sound(io') /\ Outstanding(io') = Outstanding(io)
    BY <1>1, StopOk DEF RecvFail, Fail, Stop
  <1>3. /\ stopped' = TRUE /\ ping' \in {ping, cancel_ping(ping)}
        /\ told' \in {told, Append(told, "error")}
    BY DEF RecvFail, Fail, Stop, call_error_cb
  <1> QED BY <1>1, <1>2, <1>3, StoppedOk DEF RecvFail

\* nghttp2 reads a frame: inside a callback nothing is promised of the frames to be
\* sent.
LEMMA MemRecvOk == ASSUME IndInv, MemRecv PROVE IndInv'
  <1>1. /\ Sound(io) /\ OtherTypes /\ Loops /\ StreamsKnown /\ pc = "recv"
        /\ setup = "done" /\ Alive
    BY Parts DEF MemRecv, Loops, ConnectInv, Alive
  <1>2. UNCHANGED <<ioVars, loopVars, nst, streams>> /\ io' = io /\ pc' = "recv"
    BY <1>1 DEF MemRecv, ioVars, loopVars
  <1>3. out' \in 0..MaxOut /\ goaway' \in {"no", "received", "term"}
    BY <1>1 DEF MemRecv, OtherTypes
  <1>4. wantRead' \in BOOLEAN
    BY <1>1, Zenon DEF MemRecv, OtherTypes
  <1>5. OtherTypes'
    BY <1>1, <1>2, <1>3, <1>4 DEF ioVars, loopVars, OtherTypes
  <1>6. Loops'
    BY <1>1, <1>2
       DEF ioVars, loopVars, Loops, DeadlineArmed, ReadArmed, PingArmed, NoLinger,
           NoLostWakeup, want_write, ConnectInv, CallbackInv, WritingInv
  <1>7. StreamsKnown'
    BY <1>1, <1>2 DEF loopVars, StreamsKnown
  <1> QED BY <1>1, <1>2, <1>5, <1>6, <1>7, PartsNext

\* The read handler goes on to do_write, or reads on.
LEMMA RecvDoneOk == ASSUME IndInv, RecvDone PROVE IndInv'
  <1>1. /\ Sound(io) /\ OtherTypes /\ Loops /\ StreamsKnown /\ pc = "recv"
        /\ setup = "done" /\ Alive /\ "read" \notin Outstanding(io) /\ caller = "none"
    BY Parts DEF RecvDone, Loops, ConnectInv, CallbackInv, Alive
  <1>2. CASE (stopped \/ writing) /\ Return("read", io, ping, told, stopped) /\ UNCHANGED <<len, pending>>
    <2>1. "read" \notin Requests
      BY CallersAssumption DEF Callers
    <2>2. /\ pc' = "idle" /\ caller' = "none"
          /\ UNCHANGED <<stopped, told, ping, streams, len, pending, setup, held, writing, nghttp2Vars>>
      BY <1>2, <2>1 DEF Return, RecvDone
    <2>3. /\ Sound(io')
          /\ Outstanding(io') = IF stopped THEN Outstanding(io) ELSE Outstanding(io) \union {"read"}
      <3>1. CASE stopped
        BY <1>1, <1>2, <3>1 DEF Return
      <3>2. CASE ~stopped
        <4>1. io' = Begin(ExpiresFromNow(io), "read")
          BY <1>2, <3>2 DEF Return
        <4> QED BY <1>1, <3>2, <4>1, RefreshOk
      <3> QED BY <3>1, <3>2
    <2>4. OtherTypes'
      BY <1>1, <2>2 DEF OtherTypes, nghttp2Vars, Callers
    <2>5. Loops'
      BY <1>1, <1>2, <2>2, <2>3
         DEF nghttp2Vars, Loops, DeadlineArmed, ReadArmed, PingArmed, NoLinger,
             NoLostWakeup, want_write, ConnectInv, CallbackInv, WritingInv
    <2>6. StreamsKnown'
      BY <1>1, <2>2 DEF nghttp2Vars, StreamsKnown
    <2> QED BY <2>3, <2>4, <2>5, <2>6, PartsNext
  <1>3. CASE ~stopped /\ ~writing /\ EnterSend("read", io, len) /\ UNCHANGED <<stopped, ping, told, streams>>
    <2>1. ~pending /\ len = 0 /\ "read" \notin Ids
      BY <1>1, <1>3, CallersAssumption DEF Loops, WritingInv, Ids, Callers
    <2>2. /\ pc' = "send" /\ caller' = "read" /\ io' = io /\ len' = 0 /\ pending' = FALSE
          /\ UNCHANGED <<setup, held, writing, nghttp2Vars>>
      BY <1>3, <2>1 DEF EnterSend, RecvDone
    <2>3. stopped' = FALSE /\ writing' = FALSE
      BY <1>1, <1>3, <2>2, Zenon DEF OtherTypes
    <2>4. OtherTypes'
      <3>1. caller' \in Callers \union Requests /\ len' \in 0..OutBuf
        BY <2>2, OutBufAssumption DEF Callers
      <3>2. pending' \in BOOLEAN
        BY <2>2, Zenon
      <3> QED BY <1>1, <1>3, <2>2, <3>1, <3>2 DEF OtherTypes, nghttp2Vars
    <2>5. StreamsKnown'
      BY <1>1, <1>3, <2>2, KnownInStreams DEF StreamsKnown, Known, nghttp2Vars
    <2>6. PingArmed'
      BY <1>1, <1>3, <2>2, CallersAssumption DEF Loops, PingArmed, Callers
    <2>7. /\ "deadline" \in Outstanding(io) /\ "write" \notin Outstanding(io)
          /\ Outstanding(io) \intersect Connecting = {}
      BY <1>1, <1>3 DEF Loops, DeadlineArmed, WritingInv, ConnectInv, Connecting
    <2> QED BY <1>1, <2>2, <2>3, <2>4, <2>5, <2>6, <2>7, EnterOk
  <1> QED BY <1>2, <1>3 DEF RecvDone

-----------------------------------------------------------------------------
(* Streams: callbacks of nghttp2 and calls of the application.             *)

\* A step inside a callback, or while the session is stopped or writing, may leave
\* frames to be sent: the handler that is running, or the write handler, sends them.
LEMMA InsideOk ==
    ASSUME IndInv, setup = "done", pc # "idle" \/ stopped \/ writing,
           OtherTypes', PingArmed', StreamsKnown',
           UNCHANGED <<io, setup, pc, caller, stopped, writing, pending, len>>
    PROVE  IndInv'
  <1>1. Sound(io) /\ Loops
    BY Parts
  <1>2. Loops'
    BY <1>1 DEF Loops, DeadlineArmed, ReadArmed, NoLinger, NoLostWakeup, want_write,
            ConnectInv, CallbackInv, WritingInv
  <1> QED BY <1>1, <1>2, PartsNext

\* A call of the application, or a ping, enters do_write between handlers.
LEMMA EnterFromIdle ==
    ASSUME IndInv, pc = "idle", ~stopped, ~writing, setup = "done",
           NEW from \in {"ping", "app"} \union Requests, EnterSend(from, io, len),
           UNCHANGED <<setup, told, held, stopped, writing, wantRead, streams>>,
           ping' \in [wait : BOOLEAN, due : BOOLEAN], out' \in 0..MaxOut,
           goaway' \in {"no", "received", "term"},
           nst' \in [Ids -> {"idle", "queued", "canceled", "open", "closed"}],
           PingArmed', StreamsKnown'
    PROVE  IndInv'
  <1>1. Sound(io) /\ OtherTypes /\ Loops
    BY Parts
  <1>2. ~pending /\ len = 0
    BY <1>1 DEF Loops, WritingInv
  <1>3. pc' = "send" /\ caller' = from /\ io' = io /\ len' = 0 /\ pending' = FALSE
    BY <1>2 DEF EnterSend
  <1>4. stopped' = FALSE /\ writing' = FALSE
    BY <1>1, Zenon DEF OtherTypes
  <1>5. OtherTypes'
    <2>1. caller' \in Callers \union Requests /\ len' \in 0..OutBuf
      BY <1>3, OutBufAssumption DEF Callers
    <2>2. pending' \in BOOLEAN
      BY <1>3, Zenon
    <2> QED BY <1>1, <1>3, <2>1, <2>2 DEF OtherTypes
  <1>6. /\ "deadline" \in Outstanding(io) /\ "write" \notin Outstanding(io)
        /\ Outstanding(io) \intersect Connecting = {} /\ "read" \in Outstanding(io)
    BY <1>1 DEF Loops, DeadlineArmed, WritingInv, ConnectInv, ReadArmed, Connecting
  <1>7. caller' \notin {"connected", "read"}
    BY <1>3, CallersAssumption DEF Callers
  <1> QED BY <1>1, <1>3, <1>4, <1>5, <1>6, <1>7, EnterOk

\* on_stream_close_callback: the last stream starts the ping timer.
LEMMA CloseOk ==
    ASSUME IndInv, pc # "idle", NEW id \in Ids,
           nst' = [nst EXCEPT ![id] = "closed"], pop_stream(id), out' \in 0..MaxOut,
           UNCHANGED <<io, setup, told, held, loopVars, wantRead, goaway>>
    PROVE  IndInv'
  <1>1. OtherTypes /\ Loops /\ StreamsKnown /\ setup = "done" /\ Alive
    BY Parts DEF Loops, ConnectInv, Alive
  <1>2. /\ ping' \in [wait : BOOLEAN, due : BOOLEAN]
        /\ IF streams = {id} THEN ping'.wait ELSE ping' = ping
    BY <1>1 DEF pop_stream, start_ping, OtherTypes
  <1>3. streams' = streams \ {id}
    BY DEF pop_stream
  <1>4. OtherTypes'
    <2>1. nst' \in [Ids -> {"idle", "queued", "canceled", "open", "closed"}]
      BY <1>1 DEF OtherTypes
    <2> QED BY <1>1, <1>2, <1>3, <2>1 DEF OtherTypes, loopVars
  <1>5. PingArmed'
    <2>1. CASE streams = {id}
      BY <1>2, <2>1 DEF PingArmed
    <2>2. CASE streams # {id}
      BY <1>1, <1>2, <1>3, <2>2 DEF Loops, PingArmed, loopVars
    <2> QED BY <2>1, <2>2
  <1>6. StreamsKnown'
    BY <1>1, <1>3 DEF StreamsKnown, OtherTypes, loopVars
  <1> QED BY <1>1, <1>4, <1>5, <1>6, InsideOk DEF loopVars

\* create_push_stream enters the stream into streams_.
LEMMA RecvPushOk == ASSUME IndInv, NEW id \in Pushes, RecvPush(id) PROVE IndInv'
  <1>1. OtherTypes /\ Loops /\ StreamsKnown /\ setup = "done" /\ Alive /\ pc = "recv" /\ id \in Ids
    BY Parts DEF RecvPush, Loops, ConnectInv, Alive, Ids
  <1>2. /\ ping' \in [wait : BOOLEAN, due : BOOLEAN] /\ streams' = streams \union {id}
        /\ nst' = [nst EXCEPT ![id] = "open"]
    BY <1>1 DEF RecvPush, emplace, cancel_ping, OtherTypes
  <1>3. UNCHANGED <<io, setup, told, held, pc, caller, stopped, writing, pending, len, wantRead, goaway, out>>
    BY DEF RecvPush, loopVars
  <1>4. OtherTypes'
    <2>1. nst' \in [Ids -> {"idle", "queued", "canceled", "open", "closed"}]
      BY <1>1, <1>2 DEF OtherTypes
    <2> QED BY <1>1, <1>2, <1>3, <2>1 DEF OtherTypes
  <1>5. PingArmed'
    BY <1>2 DEF PingArmed
  <1>6. StreamsKnown'
    BY <1>1, <1>2, <1>3 DEF StreamsKnown, OtherTypes
  <1> QED BY <1>1, <1>3, <1>4, <1>5, <1>6, InsideOk

\* session_impl::submit.
LEMMA SubmitOk == ASSUME IndInv, NEW id \in Requests, submit(id) PROVE IndInv'
  <1>1. /\ OtherTypes /\ Loops /\ StreamsKnown /\ setup = "done" /\ Alive /\ id \in Ids
        /\ ~stopped
    BY Parts DEF submit, Alive, Ids
  <1>2. /\ nst' = [nst EXCEPT ![id] = "queued"]
        /\ UNCHANGED <<setup, told, held, stopped, writing, wantRead, goaway>>
    BY DEF submit
  <1>3. /\ nst' \in [Ids -> {"idle", "queued", "canceled", "open", "closed"}]
        /\ out' \in 0..MaxOut
    BY <1>1, <1>2 DEF OtherTypes, submit, MoreOut
  <1>4. CASE (pc # "idle" \/ writing) /\ emplace(id) /\ UNCHANGED <<io, pc, caller, len, pending>>
    <2>1. ping' \in [wait : BOOLEAN, due : BOOLEAN] /\ streams' = streams \union {id}
      BY <1>1, <1>4 DEF emplace, cancel_ping, OtherTypes
    <2>2. OtherTypes'
      BY <1>1, <1>2, <1>3, <1>4, <2>1 DEF OtherTypes
    <2>3. PingArmed'
      BY <2>1 DEF PingArmed
    <2>4. StreamsKnown'
      BY <1>1, <1>2, <1>4, <2>1 DEF StreamsKnown, OtherTypes
    <2> QED BY <1>1, <1>2, <1>4, <2>2, <2>3, <2>4, InsideOk
  <1>5. CASE /\ pc = "idle" /\ ~writing /\ EnterSend(id, io, len) /\ UNCHANGED <<streams, ping>>
    <2>1. caller' = id
      BY <1>5 DEF EnterSend
    <2>2. PingArmed'
      BY <2>1 DEF PingArmed
    <2>3. StreamsKnown'
      <3>1. Known \subseteq streams
        BY <1>1, <1>5, KnownInStreams
      <3>2. Known' \subseteq Known \union {id}
        BY <1>1, <1>2 DEF Known, OtherTypes
      <3> QED BY <1>5, <2>1, <3>1, <3>2 DEF StreamsKnown, Known
    <2>4. ping' \in [wait : BOOLEAN, due : BOOLEAN] /\ goaway' \in {"no", "received", "term"}
      BY <1>1, <1>2, <1>5 DEF OtherTypes
    <2> QED BY <1>1, <1>2, <1>3, <1>5, <2>2, <2>3, <2>4, EnterFromIdle
  <1> QED BY <1>4, <1>5 DEF submit

\* signal_write at the end of a call of the application that has given nghttp2
\* something to do.
LEMMA SignalOk ==
    ASSUME IndInv, setup = "done", Alive, signal_write, out' \in 0..MaxOut,
           goaway' \in {"no", "received", "term"},
           nst' \in [Ids -> {"idle", "queued", "canceled", "open", "closed"}],
           Known' \subseteq Known,
           UNCHANGED <<ping, setup, told, held, stopped, writing, wantRead, streams>>
    PROVE  IndInv'
  <1>1. OtherTypes /\ Loops /\ StreamsKnown
    BY Parts
  <1>2. CASE (pc # "idle" \/ stopped \/ writing) /\ UNCHANGED <<io, pc, caller, len, pending>>
    <2>1. OtherTypes'
      BY <1>1, <1>2 DEF OtherTypes
    <2>2. PingArmed'
      BY <1>1, <1>2 DEF Loops, PingArmed
    <2>3. StreamsKnown'
      BY <1>1, <1>2 DEF StreamsKnown, Known
    <2> QED BY <1>2, <2>1, <2>2, <2>3, InsideOk
  <1>3. CASE pc = "idle" /\ ~stopped /\ ~writing /\ EnterSend("app", io, len)
    <2>1. caller' = "app" /\ caller = "none"
      BY <1>1, <1>3 DEF EnterSend, Loops, CallbackInv
    <2>2. PingArmed'
      <3>1. caller \notin {"connected", "ping"} \union Requests
        BY <2>1, CallersAssumption DEF Callers
      <3> QED BY <1>1, <3>1 DEF Loops, PingArmed
    <2>3. StreamsKnown'
      BY <1>3, KnownInStreams DEF StreamsKnown, Known
    <2>4. ping' \in [wait : BOOLEAN, due : BOOLEAN]
      BY <1>1 DEF OtherTypes
    <2> QED BY <1>3, <2>2, <2>3, <2>4, EnterFromIdle
  <1> QED BY <1>2, <1>3 DEF signal_write

\* cancel: a request that waits is taken back, an open stream is reset.
LEMMA CancelOk == ASSUME IndInv, NEW id \in Ids, cancel(id) PROVE IndInv'
  <1>1. OtherTypes /\ setup = "done" /\ Alive
    BY Parts DEF cancel, Loops, ConnectInv
  <1>2. /\ out' \in 0..MaxOut /\ goaway' \in {"no", "received", "term"}
        /\ nst' \in [Ids -> {"idle", "queued", "canceled", "open", "closed"}]
    BY <1>1 DEF OtherTypes, cancel, MoreOut
  <1>3. Known' \subseteq Known
    BY <1>1 DEF OtherTypes, cancel, Known
  <1> QED BY <1>1, <1>2, <1>3, SignalOk DEF cancel

\* resume and write_trailer may give nghttp2 a frame to send.
LEMMA ResumeOk == ASSUME IndInv, NEW id \in Ids, resume(id) PROVE IndInv'
  <1>1. OtherTypes /\ setup = "done" /\ Alive
    BY Parts DEF resume, Loops, ConnectInv
  <1>2. /\ out' \in 0..MaxOut /\ goaway' \in {"no", "received", "term"}
        /\ nst' \in [Ids -> {"idle", "queued", "canceled", "open", "closed"}]
    BY <1>1 DEF OtherTypes, resume, MoreOut
  <1>3. Known' \subseteq Known
    BY DEF resume, Known
  <1> QED BY <1>1, <1>2, <1>3, SignalOk DEF resume

\* shutdown submits GOAWAY.
LEMMA ShutdownOk == ASSUME IndInv, shutdown PROVE IndInv'
  <1>1. OtherTypes /\ setup = "done" /\ Alive
    BY Parts DEF shutdown, Alive
  <1>2. /\ out' \in 0..MaxOut /\ goaway' \in {"no", "received", "term"}
        /\ nst' \in [Ids -> {"idle", "queued", "canceled", "open", "closed"}]
    BY <1>1 DEF OtherTypes, shutdown
  <1>3. Known' \subseteq Known
    BY DEF shutdown, Known
  <1> QED BY <1>1, <1>2, <1>3, SignalOk DEF shutdown

\* handle_ping sends a PING when there are no streams and waits again.
LEMMA HandlePingOk == ASSUME IndInv, HandlePing PROVE IndInv'
  <1>1. /\ Sound(io) /\ OtherTypes /\ Loops /\ StreamsKnown /\ setup = "done" /\ Alive
        /\ pc = "idle" /\ caller = "none"
    BY Parts DEF HandlePing, Loops, ConnectInv, CallbackInv, Alive
  <1>2. /\ UNCHANGED <<setup, told, held, stopped, writing, wantRead, goaway, nst, streams>>
        /\ goaway' \in {"no", "received", "term"}
        /\ nst' \in [Ids -> {"idle", "queued", "canceled", "open", "closed"}]
    BY <1>1 DEF HandlePing, OtherTypes
  <1>3. CASE /\ stopped \/ streams # {}
             /\ ping' = [ping EXCEPT !.due = FALSE]
             /\ UNCHANGED <<io, out, pc, caller, len, pending>>
    <2>1. ping' \in [wait : BOOLEAN, due : BOOLEAN] /\ (stopped \/ streams # {})
      BY <1>1, <1>3 DEF OtherTypes
    <2>2. OtherTypes'
      BY <1>1, <1>2, <1>3, <2>1 DEF OtherTypes
    <2>3. Loops'
      BY <1>1, <1>2, <1>3, <2>1
         DEF Loops, DeadlineArmed, ReadArmed, PingArmed, NoLinger, NoLostWakeup, want_write,
             ConnectInv, CallbackInv, WritingInv
    <2>4. StreamsKnown'
      BY <1>1, <1>2, <1>3 DEF StreamsKnown
    <2> QED BY <1>1, <1>3, <2>2, <2>3, <2>4, PartsNext
  <1>4. CASE /\ out' = out + 1 /\ out < MaxOut /\ writing /\ ping' = [wait |-> TRUE, due |-> FALSE]
             /\ UNCHANGED <<io, pc, caller, len, pending>>
    <2>1. ping' \in [wait : BOOLEAN, due : BOOLEAN] /\ ping'.wait
      BY <1>4
    <2>2. out' \in 0..MaxOut
      BY <1>1, <1>4, MaxOutAssumption DEF OtherTypes
    <2>3. OtherTypes'
      BY <1>1, <1>2, <1>4, <2>1, <2>2 DEF OtherTypes
    <2>4. PingArmed'
      BY <2>1 DEF PingArmed
    <2>5. StreamsKnown'
      BY <1>1, <1>2, <1>4 DEF StreamsKnown
    <2> QED BY <1>1, <1>2, <1>4, <2>3, <2>4, <2>5, InsideOk
  <1>5. CASE /\ out' = out + 1 /\ out < MaxOut /\ ~stopped /\ ~writing /\ EnterSend("ping", io, len)
             /\ ping' = [ping EXCEPT !.due = FALSE]
    <2>1. caller' = "ping"
      BY <1>5 DEF EnterSend
    <2>2. PingArmed'
      BY <2>1 DEF PingArmed
    <2>3. StreamsKnown'
      BY <1>1, <1>2, KnownInStreams DEF StreamsKnown, Known
    <2>4. ping' \in [wait : BOOLEAN, due : BOOLEAN]
      BY <1>1, <1>5 DEF OtherTypes
    <2>5. out' \in 0..MaxOut
      BY <1>1, <1>5, MaxOutAssumption DEF OtherTypes
    <2> QED BY <1>1, <1>2, <1>5, <2>2, <2>3, <2>4, <2>5, EnterFromIdle
  <1> QED BY <1>3, <1>4, <1>5 DEF HandlePing

-----------------------------------------------------------------------------
(* The write loop.                                                         *)

\* The write handler enters do_write with what did not fit, or ends.
LEMMA HandleWriteOk == ASSUME IndInv, HandleWrite PROVE IndInv'
  <1> DEFINE i == Popped("write")
  <1>1. Sound(io) /\ OtherTypes /\ Loops /\ StreamsKnown /\ "write" \in Ops
    BY Parts DEF Ops
  <1>2. /\ "write" \in Outstanding(io) /\ Sound(i)
        /\ Outstanding(i) = Outstanding(io) \ {"write"} /\ pc = "idle"
    BY <1>1, PoppedOk DEF HandleWrite, Ready
  <1> HIDE DEF i
  <1>3. Alive /\ setup = "done" /\ caller = "none"
    BY <1>1, <1>2 DEF Alive, Loops, ConnectInv, CallbackInv
  <1>4. CASE Fail(i) /\ UNCHANGED <<pc, caller, writing, pending, len>>
    <2>1. Sound(io') /\ Outstanding(io') = Outstanding(i)
      BY <1>2, <1>4, StopOk DEF Fail, Stop
    <2>2. /\ stopped' = TRUE /\ ping' \in {ping, cancel_ping(ping)}
          /\ told' \in {told, Append(told, "error")}
      BY <1>4 DEF Fail, Stop, call_error_cb
    <2> QED BY <1>2, <1>3, <1>4, <2>1, <2>2, StoppedOk DEF HandleWrite
  <1>5. CASE /\ writing' = FALSE /\ stopped /\ io' = i /\ len' = 0
             /\ UNCHANGED <<pc, caller, pending>> /\ UNCHANGED <<ping, told, stopped>>
    <2>1. len' \in 0..OutBuf
      BY <1>5, OutBufAssumption
    <2>2. writing' \in BOOLEAN
      BY <1>5, Zenon
    <2>3. OtherTypes'
      BY <1>1, <1>5, <2>1, <2>2 DEF HandleWrite, OtherTypes, nghttp2Vars
    <2>4. Loops'
      BY <1>1, <1>2, <1>3, <1>5
         DEF HandleWrite, nghttp2Vars, Loops, DeadlineArmed, ReadArmed, PingArmed, NoLinger,
             NoLostWakeup, want_write, ConnectInv, CallbackInv, WritingInv
    <2>5. StreamsKnown'
      BY <1>1, <1>3, <1>5 DEF HandleWrite, nghttp2Vars, StreamsKnown
    <2> QED BY <1>2, <1>5, <2>3, <2>4, <2>5, PartsNext
  <1>6. CASE /\ writing' = FALSE /\ ~stopped /\ EnterSend("write", i, 0)
             /\ UNCHANGED <<ping, told, stopped>>
    <2>1. pc' = "send" /\ caller' = "write" /\ io' = i /\ pending' = FALSE
      BY <1>6 DEF EnterSend
    <2>2. len' \in 0..OutBuf /\ caller' \in Callers \union Requests
      BY <1>6, <2>1, OutBufAssumption DEF EnterSend, Callers
    <2>3. stopped' = FALSE
      BY <1>1, <1>6, Zenon DEF OtherTypes
    <2>4. writing' \in BOOLEAN /\ pending' \in BOOLEAN
      BY <1>6, <2>1, Zenon
    <2>5. OtherTypes'
      BY <1>1, <1>6, <2>1, <2>2, <2>4 DEF HandleWrite, OtherTypes, nghttp2Vars
    <2>6. PingArmed'
      <3>1. caller \notin {"connected", "ping"} \union Requests
        BY <1>3, CallersAssumption DEF Callers
      <3> QED BY <1>1, <1>6, <3>1 DEF HandleWrite, Loops, PingArmed
    <2>7. StreamsKnown'
      BY <1>2, <1>3, KnownInStreams DEF HandleWrite, nghttp2Vars, StreamsKnown, Known
    <2>8. /\ "deadline" \in Outstanding(i) /\ "write" \notin Outstanding(i)
          /\ Outstanding(i) \intersect Connecting = {} /\ "read" \in Outstanding(i)
      BY <1>1, <1>2, <1>3, <1>6
         DEF Loops, DeadlineArmed, WritingInv, ConnectInv, ReadArmed, Connecting
    <2>9. setup' = "done"
      BY <1>3 DEF HandleWrite
    <2> QED BY <1>2, <1>6, <2>1, <2>3, <2>5, <2>6, <2>7, <2>8, <2>9, EnterOk
  <1> QED BY <1>4, <1>5, <1>6 DEF HandleWrite, i

\* nghttp2 hands over a frame, which may open the stream of a request.
LEMMA FrameOutOk ==
    ASSUME IndInv, FrameOut
    PROVE  /\ out' \in 0..MaxOut /\ wantRead' \in BOOLEAN /\ Known' \subseteq Known
           /\ nst' \in [Ids -> {"idle", "queued", "canceled", "open", "closed"}]
  <1>1. OtherTypes
    BY Parts
  <1>2. out' \in 0..MaxOut
    <2>1. out \in 0..MaxOut /\ out > 0 /\ out' = out - 1
      BY <1>1 DEF FrameOut, OtherTypes
    <2> QED BY <2>1, MaxOutAssumption
  <1>3. wantRead' \in BOOLEAN
    BY <1>1, Zenon DEF FrameOut, OtherTypes
  <1>4. nst' \in [Ids -> {"idle", "queued", "canceled", "open", "closed"}] /\ Known' \subseteq Known
    <2>1. CASE nst' = nst
      BY <1>1, <2>1 DEF OtherTypes, Known
    <2>2. CASE \E id \in Requests : nst[id] = "queued" /\ nst' = [nst EXCEPT ![id] = "open"]
      <3>1. PICK id \in Requests : nst[id] = "queued" /\ nst' = [nst EXCEPT ![id] = "open"]
        BY <2>2
      <3>2. id \in Ids
        BY DEF Ids
      <3> QED BY <1>1, <3>1, <3>2 DEF OtherTypes, Known
    <2> QED BY <2>1, <2>2 DEF FrameOut
  <1> QED BY <1>2, <1>3, <1>4

\* The frame fits into wb_.
LEMMA SendFrameOk == ASSUME IndInv, SendFrame PROVE IndInv'
  <1>1. OtherTypes /\ Loops /\ StreamsKnown /\ pc = "send" /\ setup = "done" /\ Sound(io)
    BY Parts DEF SendFrame, FrameOut, Loops, ConnectInv
  <1>2. /\ out' \in 0..MaxOut /\ wantRead' \in BOOLEAN /\ Known' \subseteq Known
        /\ nst' \in [Ids -> {"idle", "queued", "canceled", "open", "closed"}]
    BY FrameOutOk DEF SendFrame
  <1>3. UNCHANGED <<io, ping, setup, told, held, pc, caller, stopped, writing, pending, goaway, streams>>
    BY DEF SendFrame, ioVars
  <1>4. len' \in 0..OutBuf
    BY <1>1, OutBufAssumption DEF SendFrame, OtherTypes
  <1>5. OtherTypes'
    BY <1>1, <1>2, <1>3, <1>4 DEF OtherTypes
  <1>6. Loops'
    BY <1>1, <1>3
       DEF Loops, DeadlineArmed, ReadArmed, PingArmed, NoLinger,
           NoLostWakeup, want_write, ConnectInv, CallbackInv, WritingInv
  <1>7. StreamsKnown'
    BY <1>1, <1>2, <1>3 DEF StreamsKnown, Known, Alive
  <1> QED BY <1>1, <1>3, <1>5, <1>6, <1>7, PartsNext

\* do_write after its loop: it writes, stops, or has nothing to do.
LEMMA SendReturnsOk ==
    ASSUME IndInv, pc = "send", NEW written \in BOOLEAN, SendReturns(written),
           UNCHANGED <<setup, held, len, goaway>>,
           out' \in 0..MaxOut, wantRead' \in BOOLEAN, Known' \subseteq Known,
           nst' \in [Ids -> {"idle", "queued", "canceled", "open", "closed"}],
           pending' \in BOOLEAN,
           ~written => len = 0 /\ ~pending' /\ out = 0 /\ out' = 0 /\ wantRead' = wantRead
    PROVE  IndInv'
  <1>1. Sound(io) /\ OtherTypes /\ Loops
    BY Parts
  <1>2. /\ ~stopped /\ ~writing /\ stopped \in BOOLEAN /\ writing \in BOOLEAN
        /\ ping \in [wait : BOOLEAN, due : BOOLEAN] /\ told \in Seq({"connect", "error"})
        /\ goaway' \in {"no", "received", "term"} /\ "write" \notin Outstanding(io)
    BY <1>1 DEF OtherTypes, Loops, CallbackInv, WritingInv
  <1>3. CASE /\ written /\ writing' = TRUE /\ Return(caller, async_write(io), ping, told, stopped)
    <2> DEFINE i == async_write(io)
    <2>1. Sound(i) /\ Outstanding(i) = Outstanding(io) \union {"write"}
      BY <1>1, <1>2, RefreshOk DEF async_write
    <2>2. Return(caller, i, ping, told, stopped)
      BY <1>3
    <2> HIDE DEF i
    <2>3. writing' \in BOOLEAN
      BY <1>3, Zenon
    <2> QED BY <1>1, <1>2, <1>3, <2>1, <2>2, <2>3, ReturnOk
  <1>4. CASE Return(caller, stop(io), cancel_ping(ping), told, TRUE) /\ UNCHANGED writing
    <2> DEFINE i == stop(io)
               p == cancel_ping(ping)
    <2>1. Sound(i) /\ Outstanding(i) = Outstanding(io)
      BY <1>1, StopOk
    <2>2. p \in [wait : BOOLEAN, due : BOOLEAN]
      BY <1>2 DEF cancel_ping
    <2>3. Return(caller, i, p, told, TRUE)
      BY <1>4
    <2> HIDE DEF i, p
    <2> QED BY <1>1, <1>2, <1>4, <2>1, <2>2, <2>3, ReturnOk
  <1>5. CASE ~written /\ ~should_stop /\ Return(caller, io, ping, told, stopped) /\ UNCHANGED writing
    <2>1. wantRead'
      BY <1>2, <1>5 DEF should_stop, want_write
    <2> QED BY <1>1, <1>2, <1>5, <2>1, ReturnOk
  <1> QED BY <1>3, <1>4, <1>5 DEF SendReturns

\* nghttp2 has no more frames.
LEMMA SendDrainedOk == ASSUME IndInv, SendDrained PROVE IndInv'
  <1>1. OtherTypes /\ Loops /\ pc = "send"
    BY Parts DEF SendDrained
  <1>2. UNCHANGED <<setup, held, pending, len, wantRead, goaway, out, nst>> /\ out = 0
    BY DEF SendDrained, nghttp2Vars
  <1>3. /\ out' \in 0..MaxOut /\ wantRead' \in BOOLEAN /\ Known' \subseteq Known
        /\ nst' \in [Ids -> {"idle", "queued", "canceled", "open", "closed"}]
        /\ pending' \in BOOLEAN
    BY <1>1, <1>2 DEF OtherTypes, Known
  <1>4. ~(len > 0) => len = 0 /\ ~pending'
    BY <1>1, <1>2 DEF OtherTypes, Loops, CallbackInv
  <1>5. (len > 0) \in BOOLEAN
    OBVIOUS
  <1> QED BY <1>1, <1>2, <1>3, <1>4, <1>5, SendReturnsOk DEF SendDrained

\* The frame does not fit into wb_ and waits in data_pending_ for the write.
LEMMA SendFullOk == ASSUME IndInv, SendFull PROVE IndInv'
  <1>1. pc = "send" /\ pending' = TRUE /\ SendReturns(TRUE) /\ UNCHANGED <<setup, held, len, goaway>>
    BY DEF SendFull, FrameOut
  <1>2. /\ out' \in 0..MaxOut /\ wantRead' \in BOOLEAN /\ Known' \subseteq Known
        /\ nst' \in [Ids -> {"idle", "queued", "canceled", "open", "closed"}]
    BY FrameOutOk DEF SendFull
  <1>3. pending' \in BOOLEAN
    BY <1>1, Zenon
  <1> QED BY <1>1, <1>2, <1>3, SendReturnsOk

\* nghttp2_session_mem_send fails.
LEMMA SendFailOk == ASSUME IndInv, SendFail PROVE IndInv'
  <1> DEFINE i == stop(io)
             p == cancel_ping(ping)
             t == Append(told, "error")
  <1>1. Sound(io) /\ OtherTypes /\ Loops /\ pc = "send"
    BY Parts DEF SendFail
  <1>2. UNCHANGED <<setup, held, writing, pending, len, wantRead, goaway, out, nst>>
    BY DEF SendFail, nghttp2Vars
  <1>3. Sound(i) /\ Outstanding(i) = Outstanding(io)
    BY <1>1, StopOk
  <1>4. p \in [wait : BOOLEAN, due : BOOLEAN] /\ t \in Seq({"connect", "error"})
    <2>1. ping \in [wait : BOOLEAN, due : BOOLEAN] /\ told \in Seq({"connect", "error"})
      BY <1>1 DEF OtherTypes
    <2>2. p \in [wait : BOOLEAN, due : BOOLEAN]
      BY <2>1 DEF cancel_ping
    <2>3. t \in Seq({"connect", "error"})
      BY <2>1
    <2> QED BY <2>2, <2>3
  <1>5. Return(caller, i, p, t, TRUE)
    BY DEF SendFail
  <1> HIDE DEF i, p, t
  <1>6. /\ out' \in 0..MaxOut /\ wantRead' \in BOOLEAN /\ Known' \subseteq Known
        /\ nst' \in [Ids -> {"idle", "queued", "canceled", "open", "closed"}]
        /\ pending' \in BOOLEAN /\ writing' \in BOOLEAN /\ goaway' \in {"no", "received", "term"}
    BY <1>1, <1>2 DEF OtherTypes, Known
  <1>7. "write" \notin Outstanding(i)
    BY <1>1, <1>3 DEF Loops, CallbackInv, WritingInv
  <1> QED BY <1>1, <1>2, <1>3, <1>4, <1>5, <1>6, <1>7, ReturnOk

-----------------------------------------------------------------------------
(* The environment, and the invariant.                                     *)

\* A step that leaves everything but the waits of ping_ and the session object
\* alone, as far as Outstanding tells.
LEMMA OutsideOk ==
    ASSUME IndInv, Sound(io'), Outstanding(io') = Outstanding(io),
           ping' \in [wait : BOOLEAN, due : BOOLEAN],
           ping'.wait \/ ping'.due <=> ping.wait \/ ping.due,
           held' \in BOOLEAN, held' => held,
           UNCHANGED <<setup, told, loopVars, nghttp2Vars, streams>>
    PROVE  IndInv'
  <1>1. Sound(io) /\ OtherTypes /\ Loops /\ StreamsKnown
    BY Parts
  <1>2. OtherTypes'
    BY <1>1 DEF OtherTypes, loopVars, nghttp2Vars
  <1>3. Loops'
    BY <1>1 DEF loopVars, nghttp2Vars, Loops, DeadlineArmed, ReadArmed, PingArmed, NoLinger,
            NoLostWakeup, want_write, ConnectInv, CallbackInv, WritingInv
  <1>4. StreamsKnown'
    BY <1>1 DEF StreamsKnown, Alive, loopVars, nghttp2Vars
  <1> QED BY <1>2, <1>3, <1>4, PartsNext

\* Every step of the session, of the application and of the environment preserves
\* the invariant.
LEMMA NextIndInv == IndInv /\ [Next]_vars => IndInv'
  <1> SUFFICES ASSUME IndInv, [Next]_vars PROVE IndInv'
    OBVIOUS
  <1>0. Sound(io) /\ OtherTypes /\ Loops /\ StreamsKnown
    BY Parts
  <1>1. CASE Dispatch
    BY <1>1, ResolveOk, HandleConnectOk, HandleHandshakeOk, HandleDeadlineOk, HandleReadOk,
       HandleWriteOk DEF Dispatch
  <1>2. CASE HandlePing
    BY <1>2, HandlePingOk
  <1>3. CASE Recv
    BY <1>3, RecvFailOk, RecvDoneOk DEF Recv
  <1>4. CASE Send
    BY <1>4, SendFrameOk, SendDrainedOk, SendFullOk, SendFailOk DEF Send
  <1>5. CASE Callback
    <2>1. CASE MemRecv
      BY <2>1, MemRecvOk
    <2>2. ASSUME NEW id \in Ids, SendClose(id) PROVE IndInv'
      <3>1. out' \in 0..MaxOut
        BY <1>0, <2>2 DEF SendClose, OtherTypes
      <3> QED BY <2>2, <3>1, CloseOk DEF SendClose
    <2>3. ASSUME NEW id \in Ids, SendRefused(id) PROVE IndInv'
      <3>1. out \in 0..MaxOut /\ out > 0 /\ out' = out - 1
        BY <1>0, <2>3 DEF SendRefused, OtherTypes
      <3>2. out' \in 0..MaxOut
        BY <3>1, MaxOutAssumption
      <3> QED BY <2>3, <3>2, CloseOk DEF SendRefused
    <2>4. ASSUME NEW id \in Ids, RecvClose(id) PROVE IndInv'
      <3>1. out' \in 0..MaxOut
        BY <1>0, <2>4 DEF RecvClose, OtherTypes
      <3> QED BY <2>4, <3>1, CloseOk DEF RecvClose
    <2> QED BY <1>5, <2>1, <2>2, <2>3, <2>4, RecvPushOk DEF Callback
  <1>6. CASE App
    BY <1>6, SubmitOk, CancelOk, ResumeOk, ShutdownOk DEF App
  <1>7. CASE PeerActs
    <2>1. PICK op \in Ops : Completes(op)
      BY <1>7 DEF PeerActs
    <2>2. Sound(io') /\ Outstanding(io') = Outstanding(io)
      BY <1>0, <2>1, CompleteOk DEF Completes
    <2> QED BY <1>0, <2>1, <2>2, OutsideOk DEF Completes, OtherTypes
  <1>8. CASE Expire
    <2>1. Sound(io') /\ Outstanding(io') = Outstanding(io)
      BY <1>0, <1>8, DeadlinePassesOk DEF Expire
    <2> QED BY <1>0, <1>8, <2>1, OutsideOk DEF Expire, OtherTypes
  <1>9. CASE PingFires
    <2>1. /\ ping' \in [wait : BOOLEAN, due : BOOLEAN]
          /\ ping'.wait \/ ping'.due <=> ping.wait \/ ping.due
      BY <1>9 DEF PingFires
    <2> QED BY <1>0, <1>9, <2>1, OutsideOk DEF PingFires, OtherTypes
  <1>10. CASE Release
    <2>1. held' \in BOOLEAN /\ ~held'
      BY <1>10, Zenon DEF Release
    <2> QED BY <1>0, <1>10, <2>1, OutsideOk DEF Release, OtherTypes
  <1>11. CASE Destroy
    <2>1. ~Alive /\ streams' = {} /\ UNCHANGED <<ioVars, loopVars, nghttp2Vars>>
      BY <1>11 DEF Destroy
    <2>2. OtherTypes'
      BY <1>0, <2>1 DEF OtherTypes, ioVars, loopVars, nghttp2Vars
    <2>3. stopped /\ pc = "idle" /\ UNCHANGED <<io, ping, setup, pc, caller, stopped, writing, pending, len, wantRead, out, nst>>
      BY <1>0, <2>1 DEF Loops, DeadlineArmed, Alive, ioVars, loopVars, nghttp2Vars
    <2>4. Loops'
      BY <1>0, <2>1, <2>3 DEF Loops, DeadlineArmed, ReadArmed, PingArmed, NoLinger,
            NoLostWakeup, want_write, ConnectInv, CallbackInv, WritingInv
    <2>5. StreamsKnown'
      BY <2>1 DEF StreamsKnown, Alive, ioVars, loopVars
    <2> QED BY <1>0, <2>2, <2>3, <2>4, <2>5, PartsNext
  <1>12. CASE UNCHANGED vars
    <2>1. UNCHANGED <<io, ping, held, setup, told, loopVars, nghttp2Vars, streams>>
      BY <1>12 DEF vars, ioVars
    <2> QED BY <1>0, <2>1, OutsideOk DEF OtherTypes
  <1> QED BY <1>1, <1>2, <1>3, <1>4, <1>5, <1>6, <1>7, <1>8, <1>9, <1>10, <1>11, <1>12 DEF Next

\* The invariant of the handlers of session_impl holds in every reachable state.
THEOREM IndInvHolds == Spec => []IndInv
  <1> QED BY InitIndInv, NextIndInv, PTL DEF Spec

\* What keeps a client session going is always in place: the deadline covers it, a
\* connected session reads, a session without streams pings, nothing is started
\* twice, and streams_ has every stream that nghttp2 knows.
THEOREM InvHolds == Spec => []Inv
  <1>1. IndInv => Inv
    BY DEF IndInv
  <1> QED BY <1>1, IndInvHolds, PTL

\* Frames that nghttp2 has ready, and the one that did not fit into wb_, are never
\* left behind: between handlers a session that has any is writing, whichever of the
\* six callers of do_write came last.
THEOREM NoLostWakeupHolds == Spec => []NoLostWakeup
  <1>1. IndInv => NoLostWakeup
    BY DEF IndInv
  <1> QED BY <1>1, IndInvHolds, PTL

-----------------------------------------------------------------------------
(* What the application is told.                                           *)

\* The steps of a session tell the application nothing and do not stop it, or
\* setup_session fails, or it stops because nghttp2 is done, or it stops with an
\* error; do_write called from connected also reports the connection.
Reports ==
    \/ UNCHANGED <<told, stopped>> /\ (setup' = setup \/ (setup = "none" /\ setup' = "done"))
    \/ UNCHANGED stopped /\ setup' = "failed" /\ told' = Append(told, "error")
    \/ ~stopped /\ setup' = setup /\ should_stop /\ ~pending /\ told' = told
    \/ ~stopped /\ setup' = setup /\ told' = Append(told, "connect")
    \/ ~stopped /\ setup' = setup /\ stopped' /\ told' = Append(told, "error")
    \/ ~stopped /\ setup' = setup /\ stopped' /\ told' = Append(Append(told, "error"), "connect")

\* An error reported by Fail is the end of a session that was not stopped.
LEMMA FailReports == ASSUME NEW i, Fail(i), UNCHANGED setup, stopped \in BOOLEAN PROVE Reports
  <1>1. CASE stopped
    <2>1. told' = told /\ stopped' = TRUE
      BY <1>1 DEF Fail, Stop, call_error_cb
    <2>2. stopped' = stopped
      BY <1>1, <2>1, Zenon
    <2> QED BY <2>1, <2>2 DEF Reports
  <1>2. CASE ~stopped
    BY <1>2 DEF Fail, Stop, call_error_cb, Reports
  <1> QED BY <1>1, <1>2

\* connected reports that setup_session failed, or tells nothing yet.
LEMMA ConnectedReports ==
    ASSUME IndInv, NEW op \in {"connect", "handshake"}, Ready(op),
           NEW i, connected(i), UNCHANGED stopped, ~stopped
    PROVE  Reports
  <1>1. op \in Outstanding(io) /\ setup = "none"
    BY Parts, PoppedOk DEF Loops, ConnectInv, OtherTypes, Ops
  <1> QED BY <1>1 DEF connected, call_error_cb, Reports

\* do_write reports when it returns to connected, and when nghttp2 fails.
LEMMA ReturnReports ==
    ASSUME NEW i, NEW p, NEW t, NEW s, Return(caller, i, p, t, s), UNCHANGED setup, ~stopped,
           \/ s = stopped /\ t = told
           \/ s = TRUE /\ t = told /\ should_stop /\ ~pending
           \/ s = TRUE /\ t = Append(told, "error")
    PROVE  Reports
  <1>1. /\ told' = IF caller = "connected" THEN Append(t, "connect") ELSE t
        /\ stopped' = s
    BY DEF Return
  <1> QED BY <1>1 DEF Reports

\* Every step reports in one of these ways.
LEMMA NextReports == ASSUME IndInv, [Next]_vars PROVE Reports
  <1>0. Sound(io) /\ OtherTypes /\ Loops /\ stopped \in BOOLEAN
    BY Parts DEF OtherTypes
  <1>1. CASE HandleResolve
    BY <1>0, <1>1, FailReports DEF HandleResolve, Reports
  <1>2. CASE HandleConnect
    <2>1. CASE UNCHANGED <<told, stopped, setup>>
      BY <2>1 DEF Reports
    <2> QED BY <1>0, <1>2, <2>1, FailReports, ConnectedReports DEF HandleConnect
  <1>3. CASE HandleHandshake
    <2>1. CASE UNCHANGED <<told, stopped, setup>>
      BY <2>1 DEF Reports
    <2> QED BY <1>0, <1>3, <2>1, FailReports, ConnectedReports DEF HandleHandshake
  <1>4. CASE HandleDeadline
    BY <1>4 DEF HandleDeadline, call_error_cb, Reports
  <1>5. CASE HandleRead
    <2>1. CASE IF should_stop THEN UNCHANGED told ELSE call_error_cb /\ Stop(Popped("read"))
      <3>1. pc = "idle"
        BY <1>5 DEF HandleRead, Ready
      <3>2. CASE should_stop /\ ~stopped
        <4>1. ~pending
          BY <1>0, <3>1, <3>2 DEF Loops, WritingInv, should_stop
        <4> QED BY <1>5, <2>1, <3>2, <4>1 DEF HandleRead, Reports
      <3>3. CASE ~(should_stop /\ ~stopped)
        <4>1. CASE stopped
          <5>1. told' = told /\ stopped' = TRUE
            BY <1>5, <4>1 DEF HandleRead, call_error_cb, Stop
          <5>2. stopped' = stopped
            BY <1>0, <4>1, <5>1, Zenon
          <5> QED BY <1>5, <5>1, <5>2 DEF HandleRead, Reports
        <4>2. CASE ~stopped /\ ~should_stop
          BY <1>5, <2>1, <4>2 DEF HandleRead, call_error_cb, Stop, Reports
        <4> QED BY <3>3, <4>1, <4>2
      <3> QED BY <3>2, <3>3
    <2>2. CASE UNCHANGED <<ping, told, stopped>>
      BY <1>5, <2>2 DEF HandleRead, Reports
    <2> QED BY <1>5, <2>1, <2>2 DEF HandleRead
  <1>6. CASE HandleWrite
    <2>1. CASE UNCHANGED <<ping, told, stopped>>
      BY <1>6, <2>1 DEF HandleWrite, Reports
    <2> QED BY <1>0, <1>6, <2>1, FailReports DEF HandleWrite
  <1>7. CASE RecvFail
    BY <1>0, <1>7, FailReports DEF RecvFail
  <1>8. CASE SendDrained \/ SendFull \/ SendFail
    <2>1. pc = "send" /\ UNCHANGED setup
      BY <1>8 DEF SendDrained, SendFull, SendFail, FrameOut
    <2>2. ~stopped /\ ~pending
      BY <1>0, <2>1 DEF Loops, CallbackInv
    <2>3. CASE \E written \in BOOLEAN : SendReturns(written)
      BY <2>1, <2>2, <2>3, ReturnReports DEF SendReturns
    <2>4. CASE SendFail
      BY <2>1, <2>2, <2>4, ReturnReports DEF SendFail
    <2>5. CASE SendDrained
      <3>1. (len > 0) \in BOOLEAN /\ SendReturns(len > 0)
        BY <2>5 DEF SendDrained
      <3> QED BY <2>3, <3>1
    <2>6. CASE SendFull
      <3>1. SendReturns(TRUE)
        BY <2>6 DEF SendFull
      <3> QED BY <2>3, <3>1
    <2> QED BY <1>8, <2>4, <2>5, <2>6
  <1>9. CASE UNCHANGED <<told, stopped, setup>>
    BY <1>9 DEF Reports
  <1>10. CASE RecvDone
    BY <1>10 DEF RecvDone, Return, Reports
  <1>11. CASE SendFrame \/ Callback \/ App \/ HandlePing
    <2>1. UNCHANGED <<told, stopped, setup>>
      BY <1>11 DEF SendFrame, Callback, MemRecv, SendClose, SendRefused, RecvClose, RecvPush,
                   App, submit, cancel, resume, shutdown, HandlePing, ioVars, loopVars
    <2> QED BY <1>9, <2>1
  <1>12. CASE PeerActs \/ Expire \/ PingFires \/ Release \/ Destroy \/ UNCHANGED vars
    <2>1. UNCHANGED <<told, stopped, setup>>
      BY <1>12 DEF PeerActs, Completes, Expire, PingFires, Release, Destroy, vars, ioVars, loopVars
    <2> QED BY <1>9, <2>1
  <1> QED BY <1>1, <1>2, <1>3, <1>4, <1>5, <1>6, <1>7, <1>8, <1>10, <1>11, <1>12
          DEF Next, Dispatch, Recv, Send

\* Telling of a connection adds no error; telling of an error adds one.
LEMMA TellLemma ==
    ASSUME NEW t \in Seq({"connect", "error"}), \A i \in DOMAIN t : t[i] # "error"
    PROVE  /\ Append(t, "connect") \in Seq({"connect", "error"})
           /\ Append(t, "error") \in Seq({"connect", "error"})
           /\ \A i \in DOMAIN Append(t, "connect") : Append(t, "connect")[i] # "error"
           /\ \A i \in DOMAIN Append(t, "error") :
                 Append(t, "error")[i] = "error" => i = Len(t) + 1
           /\ \A i \in DOMAIN Append(Append(t, "error"), "connect") :
                 Append(Append(t, "error"), "connect")[i] = "error" => i = Len(t) + 1
  <1>1. \A i \in 1..Len(t) : t[i] # "error"
    OBVIOUS
  <1> DEFINE c == Append(t, "connect")
             e == Append(t, "error")
             ec == Append(e, "connect")
  <1>2. /\ c \in Seq({"connect", "error"}) /\ DOMAIN c = 1..(Len(t) + 1)
        /\ \A i \in 1..(Len(t) + 1) : c[i] = IF i <= Len(t) THEN t[i] ELSE "connect"
    OBVIOUS
  <1>3. /\ e \in Seq({"connect", "error"}) /\ DOMAIN e = 1..(Len(t) + 1) /\ Len(e) = Len(t) + 1
        /\ \A i \in 1..(Len(t) + 1) : e[i] = IF i <= Len(t) THEN t[i] ELSE "error"
    OBVIOUS
  <1> HIDE DEF e
  <1>4. /\ DOMAIN ec = 1..(Len(e) + 1)
        /\ \A i \in 1..(Len(e) + 1) : ec[i] = IF i <= Len(e) THEN e[i] ELSE "connect"
    BY <1>3
  <1> HIDE DEF c, ec
  <1>5. Len(t) \in Nat
    OBVIOUS
  <1>6. \A i \in DOMAIN c : c[i] # "error"
    BY <1>1, <1>2, <1>5
  <1>7. \A i \in DOMAIN e : e[i] = "error" => i = Len(t) + 1
    BY <1>1, <1>3, <1>5
  <1>8. \A i \in DOMAIN ec : ec[i] = "error" => i = Len(t) + 1
    BY <1>3, <1>4, <1>5, <1>7
  <1> QED BY <1>2, <1>3, <1>6, <1>7, <1>8 DEF c, e, ec

\* Whatever a step reports, it is the first error, and the session stops with it.
LEMMA NextErrorOnce == ASSUME IndInv, ErrorOnce, [Next]_vars PROVE ErrorOnce'
  <1> SUFFICES ASSUME setup' # "failed"
               PROVE  /\ \A i, j \in DOMAIN told' : told'[i] = "error" /\ told'[j] = "error" => i = j
                      /\ "error" \in {told'[i] : i \in DOMAIN told'} => stopped'
    BY DEF ErrorOnce
  <1>1. Reports /\ told \in Seq({"connect", "error"})
    BY NextReports, Parts DEF OtherTypes
  <1>2. setup # "failed"
    BY <1>1 DEF Reports
  <1>3. CASE told' = told /\ (stopped => stopped')
    BY <1>2, <1>3 DEF ErrorOnce
  <1>4. CASE ~stopped
    <2>1. \A i \in DOMAIN told : told[i] # "error"
      BY <1>2, <1>4 DEF ErrorOnce
    <2>2. CASE told' = told
      BY <2>1, <2>2
    <2>3. CASE told' = Append(told, "connect")
      BY <1>1, <2>1, <2>3, TellLemma
    <2>4. CASE stopped' /\ told' = Append(told, "error")
      BY <1>1, <2>1, <2>4, TellLemma
    <2>5. CASE stopped' /\ told' = Append(Append(told, "error"), "connect")
      BY <1>1, <2>1, <2>5, TellLemma
    <2> QED BY <1>1, <2>2, <2>3, <2>4, <2>5 DEF Reports
  <1> QED BY <1>1, <1>3, <1>4 DEF Reports

\* The application is told of one error at most, and the session that reported it is
\* stopped, unless setup_session failed (call_error_cb looks at stopped_, and
\* everything else that reports an error goes on to stop()).
THEOREM ErrorOnceHolds == Spec => []ErrorOnce
  <1>1. Init => ErrorOnce
    BY DEF Init, ErrorOnce
  <1>2. IndInv /\ ErrorOnce /\ [Next]_vars => ErrorOnce'
    BY NextErrorOnce
  <1> QED BY <1>1, <1>2, IndInvHolds, PTL DEF Spec

\* No failure is silent: a step that stops the session without an error finds nghttp2
\* done and all its frames gone.
THEOREM NoSilentStopHolds == Spec => NoSilentStop
  <1>1. IndInv /\ [Next]_vars =>
          [~stopped /\ stopped' /\ told' = told
             => ~wantRead /\ ~want_write /\ ~pending /\ ~writing]_vars
    <2> SUFFICES ASSUME IndInv, [Next]_vars, ~stopped, stopped', told' = told
                 PROVE  ~wantRead /\ ~want_write /\ ~pending /\ ~writing
      OBVIOUS
    <2>1. Reports /\ told \in Seq({"connect", "error"})
      BY NextReports, Parts DEF OtherTypes
    <2>2. Append(told, "connect") # told /\ Append(told, "error") # told
          /\ Append(Append(told, "error"), "connect") # told
      BY <2>1
    <2> QED BY <2>1, <2>2 DEF Reports, should_stop
  <1> QED BY <1>1, IndInvHolds, PTL DEF Spec, NoSilentStop

\* A handler that finds the session stopped.
LEMMA StopIsIdle ==
    ASSUME IndInv, stopped, NEW i, Stop(i) PROVE io' = i /\ UNCHANGED <<ping, stopped>>
  <1>1. stopped = TRUE
    BY Parts, Zenon DEF OtherTypes
  <1> QED BY <1>1 DEF Stop

\* What a step may do between handlers of a stopped session.
LEMMA NextFinal ==
    ASSUME IndInv, [Next]_vars, stopped, pc = "idle"
    PROVE  /\ UNCHANGED <<told, setup, stopped>> /\ pc' # "send"
           /\ Outstanding(io') \subseteq Outstanding(io) \union {"connect"}
  <1>0. Sound(io) /\ Loops /\ ~(pc = "send") /\ ~(pc = "recv")
    BY Parts
  <1>1. ASSUME NEW op \in Ops, Ready(op)
        PROVE  Sound(Popped(op)) /\ Outstanding(Popped(op)) = Outstanding(io) \ {op}
    BY <1>0, <1>1, PoppedOk
  <1>2. ASSUME NEW i, Fail(i) PROVE io' = i /\ UNCHANGED <<told, stopped>>
    BY <1>2, StopIsIdle DEF Fail, call_error_cb
  <1>3. CASE HandleResolve
    <2> DEFINE i == Popped("resolve")
    <2>1. Sound(i) /\ Outstanding(i) = Outstanding(io) \ {"resolve"}
      BY <1>1, <1>3 DEF HandleResolve, Ops
    <2>2. "connect" \notin Outstanding(i)
      BY <1>0, <1>3, <2>1, PoppedOk DEF HandleResolve, Loops, ConnectInv, Ops
    <2>3. Outstanding(start_connect(i)) = Outstanding(i) \union {"connect"}
      BY <2>1, <2>2, ConnectOk
    <2>4. \/ io' = i /\ UNCHANGED <<told, stopped>>
          \/ io' = start_connect(i) /\ UNCHANGED <<told, stopped>>
      BY <1>2, <1>3 DEF HandleResolve
    <2>5. UNCHANGED setup /\ pc' = pc
      BY <1>3 DEF HandleResolve
    <2> HIDE DEF i
    <2> QED BY <1>0, <2>1, <2>3, <2>4, <2>5
  <1>4. CASE HandleConnect
    <2>1. io' = Popped("connect") /\ UNCHANGED <<told, stopped, setup, pc>>
      BY <1>4 DEF HandleConnect
    <2> QED BY <1>0, <1>1, <1>4, <2>1 DEF HandleConnect, Ops
  <1>5. CASE HandleHandshake
    <2>1. io' = Popped("handshake") /\ UNCHANGED <<told, stopped, setup, pc>>
      BY <1>5 DEF HandleHandshake
    <2> QED BY <1>0, <1>1, <1>5, <2>1 DEF HandleHandshake, Ops
  <1>6. CASE HandleDeadline
    <2>1. io' = Popped("deadline") /\ UNCHANGED <<told, stopped, setup, pc>>
      BY <1>6 DEF HandleDeadline
    <2> QED BY <1>0, <1>1, <1>6, <2>1 DEF HandleDeadline, Ops
  <1>7. CASE HandleRead
    <2>1. io' = Popped("read") /\ UNCHANGED <<told, stopped, setup>> /\ pc' \in {pc, "recv"}
      <3>1. CASE Stop(Popped("read")) /\ UNCHANGED pc
        BY <1>7, <3>1, StopIsIdle DEF HandleRead, call_error_cb
      <3>2. CASE pc' = "recv" /\ io' = Popped("read") /\ UNCHANGED <<ping, told, stopped>>
        BY <1>7, <3>2 DEF HandleRead
      <3> QED BY <1>7, <3>1, <3>2 DEF HandleRead
    <2> QED BY <1>0, <1>1, <1>7, <2>1 DEF HandleRead, Ops
  <1>8. CASE HandleWrite
    <2>1. io' = Popped("write") /\ UNCHANGED <<told, stopped, setup, pc>>
      BY <1>2, <1>8 DEF HandleWrite
    <2> QED BY <1>0, <1>1, <1>8, <2>1 DEF HandleWrite, Ops
  <1>9. CASE UNCHANGED <<io, told, setup, stopped, pc>>
    BY <1>0, <1>9
  <1>10. CASE HandlePing
    BY <1>9, <1>10 DEF HandlePing
  <1>11. CASE Recv \/ Send \/ Callback
    BY <1>0, <1>11 DEF Recv, RecvFail, RecvDone, Send, SendFrame, SendDrained, SendFull, SendFail,
            FrameOut, Callback, MemRecv, SendClose, SendRefused, RecvClose, RecvPush
  <1>12. CASE App
    BY <1>9, <1>12 DEF App, submit, cancel, resume, shutdown, signal_write
  <1>13. CASE PeerActs
    <2>1. PICK op \in Ops : Completes(op)
      BY <1>13 DEF PeerActs
    <2>2. Outstanding(io') = Outstanding(io)
      BY <1>0, <2>1, CompleteOk DEF Completes
    <2> QED BY <1>0, <2>1, <2>2 DEF Completes, loopVars
  <1>14. CASE Expire
    <2>1. Outstanding(io') = Outstanding(io)
      BY <1>0, <1>14, DeadlinePassesOk DEF Expire
    <2> QED BY <1>0, <1>14, <2>1 DEF Expire, loopVars
  <1>15. CASE PingFires \/ Release \/ Destroy \/ UNCHANGED vars
    BY <1>9, <1>15 DEF PingFires, Release, Destroy, vars, ioVars, loopVars
  <1> QED BY <1>3, <1>4, <1>5, <1>6, <1>7, <1>8, <1>10, <1>11, <1>12, <1>13, <1>14, <1>15
          DEF Next, Dispatch

\* Between handlers a stopped session has said its last word: the handlers still
\* queued, the application's calls and a late resolver, connect or handshake report
\* nothing, set up nothing, and start nothing on the connection that was closed.
THEOREM StopIsFinalHolds == Spec => StopIsFinal
  <1>1. IndInv /\ [Next]_vars =>
          [stopped /\ pc = "idle"
             => /\ UNCHANGED <<told, setup, stopped>>
                /\ pc' # "send"
                /\ Outstanding(io') \subseteq Outstanding(io) \union {"connect"}]_vars
    BY NextFinal
  <1> QED BY <1>1, IndInvHolds, PTL DEF Spec, StopIsFinal
=============================================================================
