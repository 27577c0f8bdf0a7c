----------------------- MODULE ServerConnectionProofs -----------------------
(***************************************************************************)
(* Proofs about ServerConnection, for TLS and clear text, every size of    *)
(* outbuf_ and every bound on the frames queued in nghttp2.                *)
(***************************************************************************)
EXTENDS ServerConnection, TLAPS

-----------------------------------------------------------------------------
(* What the operators of Asio do, for every set S of operations.           *)

\* A handler runs with one of two results.
LEMMA OpStatesLemma == "ok" \in OpStates /\ "err" \in OpStates
  BY DEF OpStates

\* Completing an operation changes its own state only.
LEMMA CompleteLemma ==
    ASSUME NEW S, NEW i \in Io(S), NEW op \in S, NEW result \in OpStates
    PROVE  /\ Complete(i, op, result) \in Io(S)
           /\ Complete(i, op, result).st = [i.st EXCEPT ![op] = result]
           /\ Complete(i, op, result).open = i.open
           /\ Complete(i, op, result).expiry = i.expiry
  <1> DEFINE st == [i.st EXCEPT ![op] = result]
             queue == Append(i.queue, op)
  <1>1. Complete(i, op, result) = [i EXCEPT !.st = st, !.queue = queue]
    BY DEF Complete
  <1>2. st \in [S -> OpStates] /\ queue \in Seq(S)
    BY DEF Io, OpStates
  <1> HIDE DEF st, queue
  <1>3. [i EXCEPT !.st = st, !.queue = queue] \in Io(S)
    BY <1>2 DEF Io
  <1>4. [i EXCEPT !.st = st, !.queue = queue].st = st
    BY <1>2 DEF Io
  <1>5. /\ [i EXCEPT !.st = st, !.queue = queue].open = i.open
        /\ [i EXCEPT !.st = st, !.queue = queue].expiry = i.expiry
    BY <1>2 DEF Io
  <1> QED BY <1>1, <1>3, <1>4, <1>5 DEF st

\* The same, operation by operation.
LEMMA CompletePointwise ==
    ASSUME NEW S, NEW i \in Io(S), NEW op \in S, NEW result \in OpStates
    PROVE  /\ Complete(i, op, result) \in Io(S)
           /\ Complete(i, op, result).open = i.open
           /\ Complete(i, op, result).st[op] = result
           /\ \A o \in S \ {op} : Complete(i, op, result).st[o] = i.st[o]
  <1> DEFINE c == Complete(i, op, result)
  <1>1. c \in Io(S) /\ c.open = i.open /\ c.st = [i.st EXCEPT ![op] = result]
    BY CompleteLemma
  <1>2. i.st \in [S -> OpStates]
    BY DEF Io
  <1> HIDE DEF c
  <1>3. c.st[op] = result /\ \A o \in S \ {op} : c.st[o] = i.st[o]
    BY <1>1, <1>2
  <1> QED BY <1>1, <1>3 DEF c

\* Aborting completes the operation if it waits and does nothing otherwise.
LEMMA AbortLemma ==
    ASSUME NEW S, NEW i \in Io(S), NEW op \in S
    PROVE  /\ Abort(i, op) \in Io(S)
           /\ Abort(i, op).st =
                [i.st EXCEPT ![op] = IF i.st[op] = "wait" THEN "err" ELSE i.st[op]]
           /\ Abort(i, op).open = i.open
           /\ Abort(i, op).expiry = i.expiry
  <1>1. CASE i.st[op] = "wait"
    <2>1. /\ Complete(i, op, "err") \in Io(S)
          /\ Complete(i, op, "err").st = [i.st EXCEPT ![op] = "err"]
          /\ Complete(i, op, "err").open = i.open
          /\ Complete(i, op, "err").expiry = i.expiry
      BY OpStatesLemma, CompleteLemma
    <2> QED BY <1>1, <2>1 DEF Abort
  <1>2. CASE i.st[op] # "wait"
    BY <1>2 DEF Abort, Io
  <1> QED BY <1>1, <1>2

\* Moving the deadline cancels its wait and leaves the other operations alone.
LEMMA ExpiresFromNowLemma ==
    ASSUME NEW S, NEW i \in Io(S), "deadline" \in S
    PROVE  /\ ExpiresFromNow(i) \in Io(S)
           /\ ExpiresFromNow(i).st =
                [i.st EXCEPT !["deadline"] =
                    IF i.st["deadline"] = "wait" THEN "err" ELSE i.st["deadline"]]
           /\ ExpiresFromNow(i).open = i.open
  <1> DEFINE c == CancelDeadline(i)
  <1>1. /\ c \in Io(S)
        /\ c.st = [i.st EXCEPT !["deadline"] =
                     IF i.st["deadline"] = "wait" THEN "err" ELSE i.st["deadline"]]
        /\ c.open = i.open
    BY AbortLemma DEF CancelDeadline
  <1>2. ExpiresFromNow(i) = [c EXCEPT !.expiry = "running"]
    BY DEF ExpiresFromNow
  <1> HIDE DEF c
  <1>3. /\ [c EXCEPT !.expiry = "running"] \in Io(S)
        /\ [c EXCEPT !.expiry = "running"].st = c.st
        /\ [c EXCEPT !.expiry = "running"].open = c.open
    BY <1>1 DEF Io
  <1> QED BY <1>1, <1>2, <1>3

\* An operation that is off is started, or fails at once on a closed socket.
LEMMA BeginLemma ==
    ASSUME NEW S, NEW i \in Io(S), NEW op \in S, i.st[op] = "off"
    PROVE  /\ Begin(i, op) \in Io(S)
           /\ Begin(i, op).st =
                [i.st EXCEPT ![op] = IF op \in SocketOps /\ ~i.open THEN "err" ELSE "wait"]
           /\ Begin(i, op).open = i.open
  <1>1. CASE op \in SocketOps /\ ~i.open
    <2>1. /\ Complete(i, op, "err") \in Io(S)
          /\ Complete(i, op, "err").st = [i.st EXCEPT ![op] = "err"]
          /\ Complete(i, op, "err").open = i.open
      BY OpStatesLemma, CompleteLemma
    <2> QED BY <1>1, <2>1 DEF Begin
  <1>2. CASE ~(op \in SocketOps /\ ~i.open)
    BY <1>2 DEF Begin, Io, OpStates
  <1> QED BY <1>1, <1>2

\* Moving the deadline and starting an operation, as do_read, do_write and the
\* first wait of the deadline itself do: nothing else changes.
LEMMA RefreshLemma ==
    ASSUME NEW S, {"read", "write", "deadline"} \subseteq S,
           NEW i \in Io(S), NEW op \in {"read", "write", "deadline"}, i.st[op] = "off"
    PROVE  /\ Begin(ExpiresFromNow(i), op) \in Io(S)
           /\ Begin(ExpiresFromNow(i), op).open = i.open
           /\ Begin(ExpiresFromNow(i), op).st[op] =
                 IF op # "deadline" /\ ~i.open THEN "err" ELSE "wait"
           /\ \A o \in S \ {op} : Begin(ExpiresFromNow(i), op).st[o] =
                 IF o = "deadline" /\ i.st[o] = "wait" THEN "err" ELSE i.st[o]
  <1> DEFINE e == ExpiresFromNow(i)
  <1>1. /\ e \in Io(S)
        /\ e.st = [i.st EXCEPT !["deadline"] = IF @ = "wait" THEN "err" ELSE @]
        /\ e.open = i.open
    BY ExpiresFromNowLemma
  <1> HIDE DEF e
  <1>2. op \in S /\ (op \in SocketOps <=> op # "deadline")
    BY DEF SocketOps
  <1>3. e.st[op] = "off"
    BY <1>1, <1>2 DEF Io
  <1>4. /\ Begin(e, op) \in Io(S)
        /\ Begin(e, op).st = [e.st EXCEPT ![op] = IF op \in SocketOps /\ ~e.open THEN "err" ELSE "wait"]
        /\ Begin(e, op).open = e.open
    BY <1>1, <1>2, <1>3, BeginLemma
  <1> QED BY <1>1, <1>2, <1>4 DEF Io, e

\* The deadline passes: its handler is queued if it waits.
LEMMA DeadlinePassesLemma ==
    ASSUME NEW S, NEW i \in Io(S), "deadline" \in S
    PROVE  /\ DeadlinePasses(i) \in Io(S)
           /\ DeadlinePasses(i).open = i.open
           /\ DeadlinePasses(i).st["deadline"] =
                 IF i.st["deadline"] = "wait" THEN "ok" ELSE i.st["deadline"]
           /\ \A o \in S \ {"deadline"} : DeadlinePasses(i).st[o] = i.st[o]
  <1> DEFINE c == IF i.st["deadline"] = "wait" THEN Complete(i, "deadline", "ok") ELSE i
  <1>1. /\ c \in Io(S) /\ c.open = i.open
        /\ c.st["deadline"] = IF i.st["deadline"] = "wait" THEN "ok" ELSE i.st["deadline"]
        /\ \A o \in S \ {"deadline"} : c.st[o] = i.st[o]
    <2>1. /\ Complete(i, "deadline", "ok") \in Io(S)
          /\ Complete(i, "deadline", "ok").open = i.open
          /\ Complete(i, "deadline", "ok").st["deadline"] = "ok"
          /\ \A o \in S \ {"deadline"} : Complete(i, "deadline", "ok").st[o] = i.st[o]
      BY OpStatesLemma, CompletePointwise
    <2> QED BY <2>1
  <1>2. DeadlinePasses(i) = [c EXCEPT !.expiry = "expired"]
    BY DEF DeadlinePasses
  <1> HIDE DEF c
  <1>3. /\ [c EXCEPT !.expiry = "expired"] \in Io(S)
        /\ [c EXCEPT !.expiry = "expired"].open = c.open
        /\ [c EXCEPT !.expiry = "expired"].st = c.st
    BY <1>1 DEF Io
  <1> QED BY <1>1, <1>2, <1>3

\* Taking a handler off the queue turns its operation off.
LEMMA DequeueLemma ==
    ASSUME NEW S, NEW i \in Io(S), NEW op \in S, IsNext(i, op)
    PROVE  /\ Dequeue(i, op) \in Io(S)
           /\ Dequeue(i, op).st = [i.st EXCEPT ![op] = "off"]
           /\ Dequeue(i, op).open = i.open
           /\ Dequeue(i, op).expiry = i.expiry
  <1> DEFINE st == [i.st EXCEPT ![op] = "off"]
             queue == Tail(i.queue)
  <1>1. Dequeue(i, op) = [i EXCEPT !.st = st, !.queue = queue]
    BY DEF Dequeue
  <1>2. i.queue \in Seq(S) /\ i.queue # <<>>
    BY DEF IsNext, Io
  <1>3. st \in [S -> OpStates] /\ queue \in Seq(S)
    BY <1>2 DEF Io, OpStates
  <1> HIDE DEF st, queue
  <1>4. /\ [i EXCEPT !.st = st, !.queue = queue] \in Io(S)
        /\ [i EXCEPT !.st = st, !.queue = queue].st = st
        /\ [i EXCEPT !.st = st, !.queue = queue].open = i.open
        /\ [i EXCEPT !.st = st, !.queue = queue].expiry = i.expiry
    BY <1>3 DEF Io
  <1> QED BY <1>1, <1>4 DEF st

-----------------------------------------------------------------------------
(* What the operations on the socket, the timer and the queue do.          *)

\* Closing the socket aborts the socket operations that wait.
LEMMA CloseSocketLemma ==
    ASSUME NEW i \in Io(Ops)
    PROVE  /\ CloseSocket(i) \in Io(Ops)
           /\ \A op \in Ops : CloseSocket(i).st[op] =
                 IF op \in ConnOps \ {"deadline"} /\ i.st[op] = "wait" THEN "err" ELSE i.st[op]
           /\ ~CloseSocket(i).open
  <1>1. "read" \in Ops /\ "write" \in Ops /\ "handshake" \in Ops
    BY DEF Ops, ConnOps
  <1> DEFINE a == Abort(i, "read")
             b == Abort(a, "write")
             c == Abort(b, "handshake")
  <1>2. a \in Io(Ops) /\ a.st = [i.st EXCEPT !["read"] = IF @ = "wait" THEN "err" ELSE @]
    BY <1>1, AbortLemma
  <1> HIDE DEF a
  <1>3. b \in Io(Ops) /\ b.st = [a.st EXCEPT !["write"] = IF @ = "wait" THEN "err" ELSE @]
    BY <1>1, <1>2, AbortLemma
  <1> HIDE DEF b
  <1>4. c \in Io(Ops) /\ c.st = [b.st EXCEPT !["handshake"] = IF @ = "wait" THEN "err" ELSE @]
    BY <1>1, <1>3, AbortLemma
  <1> HIDE DEF c
  <1>5. CloseSocket(i) = [c EXCEPT !.open = FALSE]
    BY DEF CloseSocket, a, b, c
  <1>6. /\ [c EXCEPT !.open = FALSE] \in Io(Ops)
        /\ [c EXCEPT !.open = FALSE].st = c.st
        /\ ~[c EXCEPT !.open = FALSE].open
    BY <1>4 DEF Io
  <1>7. \A op \in Ops : c.st[op] =
            IF op \in ConnOps \ {"deadline"} /\ i.st[op] = "wait" THEN "err" ELSE i.st[op]
    BY <1>2, <1>3, <1>4 DEF Io, Ops, ConnOps
  <1> QED BY <1>5, <1>6, <1>7

\* stop() aborts every operation of the connection that waits; the second and
\* later calls do nothing.
LEMMA StopLemma ==
    ASSUME NEW i \in Io(Ops)
    PROVE  /\ stop(i) \in Io(Ops)
           /\ \A op \in Ops : stop(i).st[op] =
                 IF ~stopped /\ op \in ConnOps /\ i.st[op] = "wait" THEN "err" ELSE i.st[op]
           /\ stop(i).open <=> stopped /\ i.open
  <1>1. CASE stopped
    BY <1>1 DEF stop
  <1>2. CASE ~stopped
    <2> DEFINE c == CloseSocket(i)
    <2>1. /\ c \in Io(Ops)
          /\ \A op \in Ops : c.st[op] =
                IF op \in ConnOps \ {"deadline"} /\ i.st[op] = "wait" THEN "err" ELSE i.st[op]
          /\ ~c.open
      BY CloseSocketLemma
    <2>2. stop(i) = Abort(c, "deadline")
      BY <1>2 DEF stop, CancelDeadline
    <2> HIDE DEF c
    <2>3. "deadline" \in Ops
      BY DEF Ops, ConnOps
    <2>4. /\ Abort(c, "deadline") \in Io(Ops)
          /\ Abort(c, "deadline").st =
                [c.st EXCEPT !["deadline"] = IF @ = "wait" THEN "err" ELSE @]
          /\ Abort(c, "deadline").open = c.open
      BY <2>1, <2>3, AbortLemma
    <2> QED BY <1>2, <2>1, <2>2, <2>4 DEF Io, ConnOps
  <1> QED BY <1>1, <1>2

\* do_read, async_write and the first deadline wait: the deadline's own wait is
\* cancelled, the operation is started, nothing else changes.
LEMMA Refresh ==
    ASSUME NEW i \in Io(Ops), NEW op \in {"read", "write", "deadline"}, i.st[op] = "off"
    PROVE  /\ Begin(ExpiresFromNow(i), op) \in Io(Ops)
           /\ Begin(ExpiresFromNow(i), op).open = i.open
           /\ Begin(ExpiresFromNow(i), op).st[op] =
                 IF op # "deadline" /\ ~i.open THEN "err" ELSE "wait"
           /\ \A o \in Ops \ {op} : Begin(ExpiresFromNow(i), op).st[o] =
                 IF o = "deadline" /\ i.st[o] = "wait" THEN "err" ELSE i.st[o]
  <1>1. {"read", "write", "deadline"} \subseteq Ops
    BY DEF Ops, ConnOps
  <1> QED BY <1>1, RefreshLemma

\* Taking a handler off the queue turns its operation off.
LEMMA PoppedLemma ==
    ASSUME TypeOK, NEW op \in Ops, Ready(op)
    PROVE  /\ Popped(op) \in Io(Ops)
           /\ Popped(op).st = [io.st EXCEPT ![op] = "off"]
           /\ Popped(op).open = io.open
           /\ Popped(op).expiry = io.expiry
  <1>1. io \in Io(Ops) /\ IsNext(io, op)
    BY DEF TypeOK, Ready
  <1> QED BY <1>1, DequeueLemma DEF Popped

-----------------------------------------------------------------------------
\* The invariant holds while the connection waits to be accepted.
LEMMA InitInv == Init => Inv
  <1> SUFFICES ASSUME Init PROVE Inv
    OBVIOUS
  <1>1. io \in Io(Ops)
    BY DEF Init, Io, OpStates
  <1>2. io.open /\ \A op \in Ops : io.st[op] = "off"
    BY DEF Init
  <1>3. /\ phase = "accepted" /\ pc = "idle" /\ caller = "read" /\ outq = 0 /\ len = 0
        /\ ~stopped /\ ~writing /\ ~signaled /\ wantRead /\ ~buf
        /\ \A v \in {stopped, writing, signaled, wantRead, buf} : v \in BOOLEAN
    BY DEF Init
  <1> QED BY <1>1, <1>2, <1>3, OutBufAssumption, MaxOutAssumption
          DEF Inv, TypeOK, NoClash, PhaseInv, CallbackInv,
              FlagInv, DeadlineArmed, ReadArmed, NoLostWakeup, StoppedDrains, NoLinger,
              want_write, should_stop, Ops, ConnOps

\* connection::start, reached from the accept handler or from the handshake
\* handler, where nothing but the deadline is outstanding.
LEMMA StartInv ==
    ASSUME Inv, phase \in {"accepted", "handshake"}, pc = "idle",
           NEW i \in Io(Ops), i.open <=> ~stopped,
           \A o \in Ops \ {"deadline"} : i.st[o] = "off",
           i.st["deadline"] # "clash",
           i.st["deadline"] = "wait" => ~stopped,
           i.st["deadline"] = "off" => stopped,
           Start(i), UNCHANGED <<caller, writing, signaled, wantRead, buf, len>>
    PROVE  Inv'
  <1>a. "read" \in Ops \ {"deadline"} /\ "deadline" \in Ops
    BY DEF Ops, ConnOps
  <1>b. i.st \in [Ops -> OpStates]
    BY DEF Io
  <1>1. CASE /\ phase' = "greeting" /\ outq' = 1 /\ io' = do_read(i)
             /\ UNCHANGED <<pc, stopped>>
    <2>1. /\ io' \in Io(Ops) /\ (io'.open <=> ~stopped)
          /\ io'.st["read"] = IF ~i.open THEN "err" ELSE "wait"
          /\ \A o \in Ops \ {"read"} : io'.st[o] =
                IF o = "deadline" /\ i.st[o] = "wait" THEN "err" ELSE i.st[o]
      BY <1>a, <1>1, Refresh DEF do_read
    <2> QED BY <1>a, <1>b, <1>1, <2>1, MaxOutAssumption
            DEF Inv, TypeOK, NoClash, PhaseInv, CallbackInv,
                FlagInv, DeadlineArmed, ReadArmed, NoLostWakeup, StoppedDrains, NoLinger,
                want_write, should_stop, Ops, ConnOps
  <1>2. CASE Stop(i) /\ phase' = "failed" /\ UNCHANGED outq
    <2>1. /\ io' \in Io(Ops) /\ ~io'.open /\ stopped' /\ pc' = "idle"
          /\ \A o \in Ops : io'.st[o] =
                IF ~stopped /\ o \in ConnOps /\ i.st[o] = "wait" THEN "err" ELSE i.st[o]
      BY <1>2, StopLemma DEF Stop
    <2> QED BY <1>a, <1>b, <1>2, <2>1
            DEF Inv, TypeOK, NoClash, PhaseInv, CallbackInv,
                FlagInv, DeadlineArmed, ReadArmed, NoLostWakeup, StoppedDrains, NoLinger,
                want_write, should_stop, Ops, ConnOps
  <1> QED BY <1>1, <1>2 DEF Start

\* A handler, or on_read, that ends in stop().
LEMMA StopInv ==
    ASSUME Inv, phase # "accepted", NEW i \in Io(Ops), i.open = io.open,
           NEW op \in {"read", "write", "none"},
           \A o \in Ops : i.st[o] = IF o = op THEN "off" ELSE io.st[o],
           Stop(i), UNCHANGED <<phase, caller, writing, handlerVars>>
    PROVE  Inv'
  <1>1. /\ io' \in Io(Ops) /\ ~io'.open /\ stopped' /\ pc' = "idle"
        /\ \A o \in Ops : io'.st[o] =
              IF ~stopped /\ o \in ConnOps /\ i.st[o] = "wait" THEN "err" ELSE i.st[o]
    BY StopLemma DEF Stop, Inv, FlagInv
  <1>2. io.st \in [Ops -> OpStates]
    BY DEF Inv, TypeOK, Io
  <1> QED BY <1>1, <1>2
          DEF handlerVars, Inv, TypeOK, NoClash, PhaseInv, CallbackInv,
              FlagInv, DeadlineArmed, ReadArmed, NoLostWakeup, StoppedDrains, NoLinger,
              want_write, should_stop, Ops, ConnOps

\* The end of do_write and of its caller.
LEMMA SendReturnsInv ==
    ASSUME Inv, pc = "send", NEW full \in BOOLEAN, SendReturns(full),
           full => len > 0, ~full => outq = 0 /\ outq' = 0, outq' \in 0..MaxOut
    PROVE  Inv'
  <1>a. "read" \in Ops /\ "write" \in Ops /\ "deadline" \in Ops
    BY DEF Ops, ConnOps
  <1>b. io \in Io(Ops) /\ io.st \in [Ops -> OpStates] /\ phase = "serving"
    BY DEF Inv, TypeOK, Io, PhaseInv
  <1>1. CASE /\ len > 0 /\ writing' = TRUE /\ UNCHANGED stopped
             /\ io' = IF caller = "read" THEN do_read(async_write(io)) ELSE async_write(io)
    <2> DEFINE w == async_write(io)
    <2>1. io.st["write"] = "off"
      BY DEF Inv, CallbackInv, FlagInv
    <2>2. /\ w \in Io(Ops) /\ w.open = io.open
          /\ w.st["write"] = IF ~io.open THEN "err" ELSE "wait"
          /\ \A o \in Ops \ {"write"} : w.st[o] =
                IF o = "deadline" /\ io.st[o] = "wait" THEN "err" ELSE io.st[o]
      BY <1>b, <2>1, Refresh DEF async_write
    <2> HIDE DEF w
    <2>3. CASE caller = "read"
      <3>1. io' = do_read(w)
        BY <1>1, <2>3 DEF w
      <3>2. w.st["read"] = "off"
        BY <1>a, <2>2, <2>3 DEF Inv, CallbackInv
      <3>3. /\ io' \in Io(Ops) /\ io'.open = w.open
            /\ io'.st["read"] = IF ~w.open THEN "err" ELSE "wait"
            /\ \A o \in Ops \ {"read"} : io'.st[o] =
                  IF o = "deadline" /\ w.st[o] = "wait" THEN "err" ELSE w.st[o]
        BY <2>2, <3>1, <3>2, Refresh DEF do_read
      <3> QED BY <1>a, <1>b, <1>1, <2>2, <2>3, <3>3
              DEF SendReturns, Inv, TypeOK, NoClash, PhaseInv, CallbackInv,
                  FlagInv, DeadlineArmed, ReadArmed, NoLostWakeup, StoppedDrains, NoLinger,
                  want_write, should_stop, Ops, ConnOps
    <2>4. CASE caller # "read"
      <3>1. io' = w
        BY <1>1, <2>4 DEF w
      <3> QED BY <1>a, <1>b, <1>1, <2>2, <2>4, <3>1
              DEF SendReturns, Inv, TypeOK, NoClash, PhaseInv, CallbackInv,
                  FlagInv, DeadlineArmed, ReadArmed, NoLostWakeup, StoppedDrains, NoLinger,
                  want_write, should_stop, Ops, ConnOps
    <2> QED BY <2>3, <2>4
  <1>2. CASE len = 0 /\ io' = stop(io) /\ stopped' = TRUE /\ UNCHANGED writing
    <2>1. /\ io' \in Io(Ops) /\ ~io'.open
          /\ \A o \in Ops : io'.st[o] =
                IF ~stopped /\ o \in ConnOps /\ io.st[o] = "wait" THEN "err" ELSE io.st[o]
      BY <1>b, <1>2, StopLemma DEF Inv, FlagInv
    <2> QED BY <1>b, <1>2, <2>1
            DEF SendReturns, Inv, TypeOK, NoClash, PhaseInv, CallbackInv,
                FlagInv, DeadlineArmed, ReadArmed, NoLostWakeup, StoppedDrains, NoLinger,
                want_write, should_stop, Ops, ConnOps
  <1>3. CASE /\ len = 0 /\ ~should_stop /\ UNCHANGED <<stopped, writing>>
             /\ io' = IF caller = "read" THEN do_read(io) ELSE io
    <2>0. ~full /\ outq' = 0 /\ ~buf' /\ wantRead'
      BY <1>3 DEF SendReturns, should_stop, want_write, Inv, CallbackInv, TypeOK
    <2>1. CASE caller = "read"
      <3>1. io.st["read"] = "off"
        BY <2>1 DEF Inv, CallbackInv
      <3>2. /\ io' \in Io(Ops) /\ io'.open = io.open
            /\ io'.st["read"] = IF ~io.open THEN "err" ELSE "wait"
            /\ \A o \in Ops \ {"read"} : io'.st[o] =
                  IF o = "deadline" /\ io.st[o] = "wait" THEN "err" ELSE io.st[o]
        BY <1>b, <1>3, <2>1, <3>1, Refresh DEF do_read
      <3> QED BY <1>a, <1>b, <1>3, <2>0, <2>1, <3>2
              DEF SendReturns, Inv, TypeOK, NoClash, PhaseInv, CallbackInv,
                  FlagInv, DeadlineArmed, ReadArmed, NoLostWakeup, StoppedDrains, NoLinger,
                  want_write, should_stop, Ops, ConnOps
    <2>2. CASE caller # "read"
      BY <1>a, <1>b, <1>3, <2>0, <2>2
         DEF SendReturns, Inv, TypeOK, NoClash, PhaseInv, CallbackInv,
             FlagInv, DeadlineArmed, ReadArmed, NoLostWakeup, StoppedDrains, NoLinger,
             want_write, should_stop, Ops, ConnOps
    <2> QED BY <2>1, <2>2
  <1> QED BY <1>1, <1>2, <1>3 DEF SendReturns

\* Every step preserves the invariant.
LEMMA NextInv == Inv /\ [Next]_vars => Inv'
  <1> SUFFICES ASSUME Inv, [Next]_vars PROVE Inv'
    OBVIOUS
  <1> USE OutBufAssumption, MaxOutAssumption
  <1>a. /\ "read" \in Ops /\ "write" \in Ops /\ "deadline" \in Ops
        /\ "handshake" \in Ops /\ "post" \in Ops /\ "user" \in Ops
    BY DEF Ops, ConnOps
  <1>t. TypeOK /\ io \in Io(Ops) /\ io.st \in [Ops -> OpStates]
    BY DEF Inv, TypeOK, Io
  <1>l. ASSUME NEW from, NEW i, EnterSend(from, i) PROVE len' \in 0..OutBuf /\ buf' = FALSE
    BY <1>l DEF EnterSend
  <1>1. CASE AcceptTcp
    <2> DEFINE i == start_deadline(io)
    <2>1. ~stopped /\ io.open /\ \A o \in Ops : io.st[o] = "off"
      BY <1>1 DEF AcceptTcp, Inv, PhaseInv, FlagInv
    <2>2. /\ i \in Io(Ops) /\ i.open
          /\ i.st["deadline"] = "wait"
          /\ \A o \in Ops \ {"deadline"} : i.st[o] = io.st[o]
      BY <1>a, <1>t, <2>1, Refresh DEF start_deadline
    <2>3. pc = "idle"
      BY <1>1 DEF AcceptTcp, Inv, PhaseInv, FlagInv, CallbackInv, TypeOK
    <2> QED BY <1>1, <2>1, <2>2, <2>3, StartInv DEF AcceptTcp
  <1>2. CASE AcceptTls
    <2> DEFINE i == start_deadline(io)
    <2>1. ~stopped /\ io.open /\ \A o \in Ops : io.st[o] = "off"
      BY <1>2 DEF AcceptTls, Inv, PhaseInv, FlagInv
    <2>2. /\ i \in Io(Ops) /\ i.open
          /\ i.st["deadline"] = "wait"
          /\ \A o \in Ops \ {"deadline"} : i.st[o] = io.st[o]
      BY <1>a, <1>t, <2>1, Refresh DEF start_deadline
    <2> HIDE DEF i
    <2>3. /\ io' \in Io(Ops) /\ io'.open
          /\ io'.st = [i.st EXCEPT !["handshake"] = "wait"]
      BY <1>a, <1>2, <2>1, <2>2, BeginLemma DEF AcceptTls, i
    <2>4. /\ io'.st["handshake"] = "wait"
          /\ \A o \in Ops \ {"handshake"} : io'.st[o] = i.st[o]
      BY <1>a, <2>2, <2>3 DEF Io
    <2> QED BY <1>a, <1>2, <2>1, <2>2, <2>3, <2>4
            DEF AcceptTls, handlerVars, Inv, TypeOK, NoClash, PhaseInv, CallbackInv,
                FlagInv, DeadlineArmed, ReadArmed, NoLostWakeup, StoppedDrains, NoLinger,
                want_write, should_stop, Ops, ConnOps
  <1>3. CASE HandleHandshake
    <2> DEFINE i == Popped("handshake")
    <2>1. Ready("handshake") /\ io.st["handshake"] # "off" /\ pc = "idle"
      BY <1>3 DEF HandleHandshake, Ready, IsNext
    <2>2. /\ i \in Io(Ops) /\ i.open = io.open
          /\ i.st = [io.st EXCEPT !["handshake"] = "off"]
      BY <1>a, <1>t, <2>1, PoppedLemma
    <2>3. Start(i)
      BY <1>3 DEF HandleHandshake, Start
    <2> HIDE DEF i
    <2>4. /\ phase = "handshake" /\ (i.open <=> ~stopped)
          /\ \A o \in Ops \ {"deadline"} : i.st[o] = "off"
          /\ i.st["deadline"] = io.st["deadline"]
      BY <1>a, <1>t, <2>1, <2>2 DEF Inv, PhaseInv, FlagInv, Ops, ConnOps
    <2>5. /\ i.st["deadline"] # "clash"
          /\ i.st["deadline"] = "wait" => ~stopped
          /\ i.st["deadline"] = "off" => stopped
      BY <1>a, <2>4 DEF Inv, NoClash, StoppedDrains, DeadlineArmed, ConnOps
    <2> QED BY <1>3, <2>1, <2>2, <2>3, <2>4, <2>5, StartInv DEF HandleHandshake
  <1>4. CASE HandleDeadline
    <2> DEFINE i == Popped("deadline")
    <2>1. Ready("deadline")
      BY <1>4 DEF HandleDeadline
    <2>2. /\ i \in Io(Ops) /\ i.open = io.open /\ i.expiry = io.expiry
          /\ i.st = [io.st EXCEPT !["deadline"] = "off"]
      BY <1>a, <1>t, <2>1, PoppedLemma
    <2> HIDE DEF i
    <2>3. i.st["deadline"] = "off" /\ \A o \in Ops \ {"deadline"} : i.st[o] = io.st[o]
      BY <1>a, <1>t, <2>2
    <2>4. phase # "accepted" /\ pc = "idle"
      BY <1>a, <2>1 DEF Ready, IsNext, Inv, PhaseInv
    <2>5. CASE stopped /\ io' = i /\ UNCHANGED <<pc, stopped>>
      BY <1>a, <1>t, <1>4, <2>2, <2>3, <2>4, <2>5
         DEF HandleDeadline, handlerVars, Inv, TypeOK, NoClash, PhaseInv, CallbackInv,
             FlagInv, DeadlineArmed, ReadArmed, NoLostWakeup, StoppedDrains, NoLinger,
             want_write, should_stop, Ops, ConnOps
    <2>6. CASE /\ ~stopped /\ io' = [stop(i) EXCEPT !.expiry = "never"]
               /\ stopped' = TRUE /\ UNCHANGED pc
      <3>1. /\ stop(i) \in Io(Ops) /\ ~stop(i).open
            /\ \A o \in Ops : stop(i).st[o] =
                  IF o \in ConnOps /\ i.st[o] = "wait" THEN "err" ELSE i.st[o]
        BY <2>2, <2>6, StopLemma
      <3>2. io' \in Io(Ops) /\ io'.open = stop(i).open /\ io'.st = stop(i).st
        BY <2>6, <3>1 DEF Io
      <3> QED BY <1>a, <1>t, <1>4, <2>2, <2>3, <2>4, <2>6, <3>1, <3>2
              DEF HandleDeadline, handlerVars, Inv, TypeOK, NoClash, PhaseInv, CallbackInv,
                  FlagInv, DeadlineArmed, ReadArmed, NoLostWakeup, StoppedDrains, NoLinger,
                  want_write, should_stop, Ops, ConnOps
    <2>7. CASE ~stopped /\ io' = Begin(i, "deadline") /\ UNCHANGED <<pc, stopped>>
      <3>1. /\ io' \in Io(Ops) /\ io'.open = i.open
            /\ io'.st = [i.st EXCEPT !["deadline"] = "wait"]
        <4>1. "deadline" \notin SocketOps
          BY DEF SocketOps
        <4>2. /\ Begin(i, "deadline") \in Io(Ops)
              /\ Begin(i, "deadline").open = i.open
              /\ Begin(i, "deadline").st = [i.st EXCEPT !["deadline"] =
                    IF "deadline" \in SocketOps /\ ~i.open THEN "err" ELSE "wait"]
          <5>1. "deadline" \in Ops /\ i \in Io(Ops) /\ i.st["deadline"] = "off"
            BY <1>a, <2>2, <2>3
          <5> QED BY <5>1, BeginLemma
        <4> QED BY <2>7, <4>1, <4>2
      <3>2. io'.st["deadline"] = "wait" /\ \A o \in Ops \ {"deadline"} : io'.st[o] = io.st[o]
        BY <1>a, <2>2, <2>3, <3>1 DEF Io
      <3> QED BY <1>a, <1>t, <1>4, <2>2, <2>4, <2>7, <3>1, <3>2
              DEF HandleDeadline, handlerVars, Inv, TypeOK, NoClash, PhaseInv, CallbackInv,
                  FlagInv, DeadlineArmed, ReadArmed, NoLostWakeup, StoppedDrains, NoLinger,
                  want_write, should_stop, Ops, ConnOps
    <2> QED BY <1>4, <2>5, <2>6, <2>7 DEF HandleDeadline, i
  <1>5. CASE HandleReadError
    <2>1. Ready("read")
      BY <1>5 DEF HandleReadError
    <2>2. /\ Popped("read") \in Io(Ops) /\ Popped("read").open = io.open
          /\ \A o \in Ops : Popped("read").st[o] = IF o = "read" THEN "off" ELSE io.st[o]
      BY <1>a, <1>t, <2>1, PoppedLemma
    <2>3. phase # "accepted"
      BY <1>a, <2>1 DEF Ready, IsNext, Inv, PhaseInv
    <2> QED BY <1>5, <2>2, <2>3, StopInv DEF HandleReadError
  <1>6. CASE HandleRead
    <2>1. Ready("read")
      BY <1>6 DEF HandleRead
    <2>2. /\ io' \in Io(Ops) /\ io'.open = io.open
          /\ \A o \in Ops : io'.st[o] = IF o = "read" THEN "off" ELSE io.st[o]
      BY <1>a, <1>t, <1>6, <2>1, PoppedLemma DEF HandleRead
    <2>3. phase # "accepted" /\ phase # "handshake"
      BY <1>a, <2>1 DEF Ready, IsNext, Inv, PhaseInv
    <2> QED BY <1>a, <1>t, <1>6, <2>2, <2>3
            DEF HandleRead, handlerVars, Inv, TypeOK, NoClash, PhaseInv, CallbackInv,
                FlagInv, DeadlineArmed, ReadArmed, NoLostWakeup, StoppedDrains, NoLinger,
                want_write, should_stop, Ops, ConnOps
  <1>7. CASE MemRecv
    BY <1>7
       DEF MemRecv, Inv, TypeOK, NoClash, PhaseInv, CallbackInv,
           FlagInv, DeadlineArmed, ReadArmed, NoLostWakeup, StoppedDrains, NoLinger,
           want_write, should_stop, Ops, ConnOps
  <1>8. CASE RecvFail
    <2>1. phase # "accepted"
      BY <1>8 DEF RecvFail, Inv, PhaseInv
    <2> QED BY <1>t, <1>8, <2>1, StopInv, "none" \notin Ops DEF RecvFail, Ops, ConnOps
  <1>9. CASE RecvDone
    <2>1. pc = "recv" /\ io.st["read"] = "off" /\ phase = "serving"
      BY <1>9 DEF RecvDone, Inv, CallbackInv, PhaseInv
    <2>2. CASE writing /\ pc' = "idle" /\ io' = do_read(io) /\ UNCHANGED <<caller, buf, len>>
      <3>1. /\ io' \in Io(Ops) /\ io'.open = io.open
            /\ io'.st["read"] = IF ~io.open THEN "err" ELSE "wait"
            /\ \A o \in Ops \ {"read"} : io'.st[o] =
                  IF o = "deadline" /\ io.st[o] = "wait" THEN "err" ELSE io.st[o]
        BY <1>t, <2>1, <2>2, Refresh DEF do_read
      <3> QED BY <1>a, <1>t, <1>9, <2>1, <2>2, <3>1
              DEF RecvDone, Inv, TypeOK, NoClash, PhaseInv, CallbackInv,
                  FlagInv, DeadlineArmed, ReadArmed, NoLostWakeup, StoppedDrains, NoLinger,
                  want_write, should_stop, Ops, ConnOps
    <2>3. CASE ~writing /\ EnterSend("read", io)
      BY <1>a, <1>t, <1>l, <1>9, <2>1, <2>3
         DEF RecvDone, EnterSend, Inv, TypeOK, NoClash, PhaseInv, CallbackInv,
             FlagInv, DeadlineArmed, ReadArmed, NoLostWakeup, StoppedDrains, NoLinger,
             want_write, should_stop, Ops, ConnOps
    <2> QED BY <1>9, <2>2, <2>3 DEF RecvDone
  <1>10. CASE SendFrame
    <2>1. /\ outq' \in 0..MaxOut /\ len' \in 0..OutBuf
          /\ wantRead' \in BOOLEAN
      <3>1. outq' \in 0..MaxOut /\ len' \in 0..OutBuf
        BY <1>10 DEF SendFrame, Inv, TypeOK
      <3>2. wantRead' \in BOOLEAN
        BY <1>10, Zenon DEF SendFrame, Inv, TypeOK
      <3> QED BY <3>1, <3>2
    <2>2. /\ pc = "send" /\ pc' = "send"
          /\ UNCHANGED <<phase, caller, io, stopped, writing, signaled, buf>>
      BY <1>10 DEF SendFrame
    <2> QED BY <1>t, <2>1, <2>2
            DEF Inv, TypeOK, NoClash, PhaseInv, CallbackInv,
                FlagInv, DeadlineArmed, ReadArmed, NoLostWakeup, StoppedDrains, NoLinger,
                want_write, should_stop, Ops, ConnOps
  <1>11. CASE FrameNotSent
    <2>1. /\ outq' \in 0..MaxOut /\ len' \in 0..OutBuf
          /\ wantRead' \in BOOLEAN
      <3>1. outq' \in 0..MaxOut /\ len' \in 0..OutBuf
        BY <1>11 DEF FrameNotSent, Inv, TypeOK
      <3>2. wantRead' \in BOOLEAN
        BY <1>11, Zenon DEF FrameNotSent, Inv, TypeOK
      <3> QED BY <3>1, <3>2
    <2>2. /\ pc = "send" /\ pc' = "send"
          /\ UNCHANGED <<phase, caller, io, stopped, writing, signaled, buf>>
      BY <1>11 DEF FrameNotSent
    <2> QED BY <1>t, <2>1, <2>2
            DEF Inv, TypeOK, NoClash, PhaseInv, CallbackInv,
                FlagInv, DeadlineArmed, ReadArmed, NoLostWakeup, StoppedDrains, NoLinger,
                want_write, should_stop, Ops, ConnOps
  <1>12. CASE SendDrained
    BY <1>12, SendReturnsInv DEF SendDrained, Inv, TypeOK
  <1>13. CASE SendFull
    <2>1. len > 0 /\ outq' \in 0..MaxOut
      BY <1>13 DEF SendFull, Inv, TypeOK
    <2> QED BY <1>13, <2>1, SendReturnsInv DEF SendFull
  <1>14. CASE SendFail
    <2> DEFINE i == stop(io)
    <2>1. pc = "send" /\ phase = "serving"
      BY <1>14 DEF SendFail, Inv, PhaseInv
    <2>2. /\ i \in Io(Ops) /\ ~i.open
          /\ \A o \in Ops : i.st[o] =
                IF ~stopped /\ o \in ConnOps /\ io.st[o] = "wait" THEN "err" ELSE io.st[o]
      BY <1>t, StopLemma DEF Inv, FlagInv
    <2> HIDE DEF i
    <2>3. CASE io' = i
      BY <1>a, <1>t, <1>14, <2>1, <2>2, <2>3
         DEF SendFail, handlerVars, Inv, TypeOK, NoClash, PhaseInv, CallbackInv,
             FlagInv, DeadlineArmed, ReadArmed, NoLostWakeup, StoppedDrains, NoLinger,
             want_write, should_stop, Ops, ConnOps
    <2>4. CASE caller = "read" /\ io' = do_read(i)
      <3>1. i.st["read"] = "off"
        BY <1>a, <2>1, <2>2, <2>4 DEF Inv, CallbackInv
      <3>2. /\ io' \in Io(Ops) /\ ~io'.open
            /\ io'.st["read"] = "err"
            /\ \A o \in Ops \ {"read"} : io'.st[o] =
                  IF o = "deadline" /\ i.st[o] = "wait" THEN "err" ELSE i.st[o]
        BY <2>2, <2>4, <3>1, Refresh DEF do_read
      <3> QED BY <1>a, <1>t, <1>14, <2>1, <2>2, <2>4, <3>2
              DEF SendFail, handlerVars, Inv, TypeOK, NoClash, PhaseInv, CallbackInv,
                  FlagInv, DeadlineArmed, ReadArmed, NoLostWakeup, StoppedDrains, NoLinger,
                  want_write, should_stop, Ops, ConnOps
    <2> QED BY <1>14, <2>3, <2>4 DEF SendFail, i
  <1>15. CASE HandleWriteError
    <2>1. Ready("write")
      BY <1>15 DEF HandleWriteError
    <2>2. /\ Popped("write") \in Io(Ops) /\ Popped("write").open = io.open
          /\ \A o \in Ops : Popped("write").st[o] = IF o = "write" THEN "off" ELSE io.st[o]
      BY <1>a, <1>t, <2>1, PoppedLemma
    <2>3. phase # "accepted"
      BY <1>a, <2>1 DEF Ready, IsNext, Inv, PhaseInv
    <2> QED BY <1>15, <2>2, <2>3, StopInv DEF HandleWriteError
  <1>16. CASE HandleWrite
    <2>1. Ready("write")
      BY <1>16 DEF HandleWrite
    <2>2. /\ io' \in Io(Ops) /\ io'.open = io.open
          /\ \A o \in Ops : io'.st[o] = IF o = "write" THEN "off" ELSE io.st[o]
      BY <1>a, <1>t, <1>16, <2>1, PoppedLemma DEF HandleWrite, EnterSend
    <2>3. phase = "serving" /\ pc = "idle"
      BY <1>a, <2>1 DEF Ready, IsNext, Inv, PhaseInv
    <2> QED BY <1>a, <1>t, <1>l, <1>16, <2>2, <2>3
            DEF HandleWrite, EnterSend, Inv, TypeOK, NoClash, PhaseInv, CallbackInv,
                FlagInv, DeadlineArmed, ReadArmed, NoLostWakeup, StoppedDrains, NoLinger,
                want_write, should_stop, Ops, ConnOps
  <1>17. CASE InitiateWrite
    <2>1. Ready("post")
      BY <1>17 DEF InitiateWrite
    <2>2. /\ io' \in Io(Ops) /\ io'.open = io.open
          /\ \A o \in Ops : io'.st[o] = IF o = "post" THEN "off" ELSE io.st[o]
      <3>1. io' = Popped("post")
        BY <1>17 DEF InitiateWrite, EnterSend
      <3> QED BY <1>a, <1>t, <2>1, <3>1, PoppedLemma
    <2>3. phase = "serving" /\ pc = "idle"
      BY <1>a, <2>1 DEF Ready, IsNext, Inv, PhaseInv
    <2>4. CASE writing /\ UNCHANGED <<pc, caller, buf, len>>
      BY <1>a, <1>t, <1>17, <2>2, <2>3, <2>4
         DEF InitiateWrite, Inv, TypeOK, NoClash, PhaseInv, CallbackInv,
             FlagInv, DeadlineArmed, ReadArmed, NoLostWakeup, StoppedDrains, NoLinger,
             want_write, should_stop, Ops, ConnOps
    <2>5. CASE ~writing /\ EnterSend("post", Popped("post"))
      BY <1>a, <1>t, <1>l, <1>17, <2>2, <2>3, <2>5
         DEF InitiateWrite, EnterSend, Inv, TypeOK, NoClash, PhaseInv, CallbackInv,
             FlagInv, DeadlineArmed, ReadArmed, NoLostWakeup, StoppedDrains, NoLinger,
             want_write, should_stop, Ops, ConnOps
    <2>6. CASE pc' = "undefined" /\ UNCHANGED <<caller, buf, len>>
      BY <1>a, <1>t, <1>17, <2>2, <2>3, <2>6
         DEF InitiateWrite, Inv, TypeOK, NoClash, PhaseInv, CallbackInv,
             FlagInv, DeadlineArmed, ReadArmed, NoLostWakeup, StoppedDrains, NoLinger,
             want_write, should_stop, Ops, ConnOps
    <2> QED BY <1>17, <2>4, <2>5, <2>6 DEF InitiateWrite
  <1>18. CASE AppCallback
    BY <1>18
       DEF AppCallback, AppSubmit, signal_write, inside_callback,
           Inv, TypeOK, NoClash, PhaseInv, CallbackInv,
           FlagInv, DeadlineArmed, ReadArmed, NoLostWakeup, StoppedDrains, NoLinger,
           want_write, should_stop, Ops, ConnOps
  <1>19. CASE AppTask
    <2> DEFINE i == Popped("user")
    <2>1. Ready("user")
      BY <1>19 DEF AppTask
    <2>2. /\ i \in Io(Ops) /\ i.open = io.open
          /\ \A o \in Ops : i.st[o] = IF o = "user" THEN "off" ELSE io.st[o]
      BY <1>a, <1>t, <2>1, PoppedLemma
    <2>3. phase = "serving" /\ pc = "idle"
      BY <1>a, <2>1 DEF Ready, IsNext, Inv, PhaseInv
    <2>4. AppSubmit(i)
      BY <1>19 DEF AppTask
    <2> HIDE DEF i
    <2>5. CASE signaled /\ io' = i /\ UNCHANGED signaled
      BY <1>a, <1>t, <2>2, <2>3, <2>4, <2>5
         DEF AppSubmit, Inv, TypeOK, NoClash, PhaseInv, CallbackInv,
             FlagInv, DeadlineArmed, ReadArmed, NoLostWakeup, StoppedDrains, NoLinger,
             want_write, should_stop, Ops, ConnOps
    <2>6. CASE io' = Complete(i, "post", "ok") /\ signaled' = TRUE
      <3>1. /\ io' \in Io(Ops) /\ io'.open = io.open
            /\ io'.st["post"] = "ok"
            /\ \A o \in Ops \ {"post"} : io'.st[o] = i.st[o]
        <4>1. /\ Complete(i, "post", "ok") \in Io(Ops)
              /\ Complete(i, "post", "ok").open = i.open
              /\ Complete(i, "post", "ok").st["post"] = "ok"
              /\ \A o \in Ops \ {"post"} : Complete(i, "post", "ok").st[o] = i.st[o]
          BY <1>a, <2>2, OpStatesLemma, CompletePointwise
        <4> QED BY <2>2, <2>6, <4>1
      <3> QED BY <1>a, <1>t, <2>2, <2>3, <2>4, <2>6, <3>1
              DEF AppSubmit, Inv, TypeOK, NoClash, PhaseInv, CallbackInv,
                  FlagInv, DeadlineArmed, ReadArmed, NoLostWakeup, StoppedDrains, NoLinger,
                  want_write, should_stop, Ops, ConnOps
    <2> QED BY <2>3, <2>4, <2>5, <2>6 DEF AppSubmit, signal_write, inside_callback
  <1>20. CASE AppTaskLate
    <2>1. Ready("user")
      BY <1>20 DEF AppTaskLate
    <2>2. /\ io' \in Io(Ops) /\ io'.open = io.open
          /\ \A o \in Ops : io'.st[o] = IF o = "user" THEN "off" ELSE io.st[o]
      BY <1>a, <1>t, <1>20, <2>1, PoppedLemma DEF AppTaskLate
    <2> QED BY <1>a, <1>t, <1>20, <2>2
            DEF AppTaskLate, handlerVars, Inv, TypeOK, NoClash, PhaseInv, CallbackInv,
                FlagInv, DeadlineArmed, ReadArmed, NoLostWakeup, StoppedDrains, NoLinger,
                want_write, should_stop, Ops, ConnOps
  <1>21. CASE PeerActs
    <2>0. PICK op \in ConnOps \ {"deadline"}, result \in {"ok", "err"} :
             /\ io.st[op] = "wait"
             /\ io' = Complete(io, op, result)
             /\ UNCHANGED <<phase, pc, caller, stopped, writing, handlerVars>>
      BY <1>21 DEF PeerActs
    <2>1. op \in Ops /\ result \in {"ok", "err"}
      BY <2>0 DEF Ops, ConnOps
    <2>2. /\ io' \in Io(Ops) /\ io'.open = io.open
          /\ io'.st[op] = result /\ \A o \in Ops \ {op} : io'.st[o] = io.st[o]
      <3>1. /\ Complete(io, op, "ok") \in Io(Ops)
            /\ Complete(io, op, "ok").open = io.open
            /\ Complete(io, op, "ok").st[op] = "ok"
            /\ \A o \in Ops \ {op} : Complete(io, op, "ok").st[o] = io.st[o]
        BY <1>t, <2>1, OpStatesLemma, CompletePointwise
      <3>2. /\ Complete(io, op, "err") \in Io(Ops)
            /\ Complete(io, op, "err").open = io.open
            /\ Complete(io, op, "err").st[op] = "err"
            /\ \A o \in Ops \ {op} : Complete(io, op, "err").st[o] = io.st[o]
        BY <1>t, <2>1, OpStatesLemma, CompletePointwise
      <3> QED BY <2>0, <2>1, <3>1, <3>2
    <2> QED BY <1>a, <1>t, <2>0, <2>1, <2>2
            DEF handlerVars, Inv, TypeOK, NoClash, PhaseInv, CallbackInv,
                FlagInv, DeadlineArmed, ReadArmed, NoLostWakeup, StoppedDrains, NoLinger,
                want_write, should_stop, Ops, ConnOps
  <1>22. CASE Expire
    <2>1. io' = DeadlinePasses(io)
      BY <1>22 DEF Expire
    <2>2. /\ DeadlinePasses(io) \in Io(Ops) /\ DeadlinePasses(io).open = io.open
          /\ DeadlinePasses(io).st["deadline"] =
                IF io.st["deadline"] = "wait" THEN "ok" ELSE io.st["deadline"]
          /\ \A o \in Ops \ {"deadline"} : DeadlinePasses(io).st[o] = io.st[o]
      BY <1>a, <1>t, DeadlinePassesLemma
    <2>3. /\ io' \in Io(Ops) /\ io'.open = io.open
          /\ io'.st["deadline"] = IF io.st["deadline"] = "wait" THEN "ok" ELSE io.st["deadline"]
          /\ \A o \in Ops \ {"deadline"} : io'.st[o] = io.st[o]
      BY <2>1, <2>2
    <2> QED BY <1>a, <1>t, <1>22, <2>3
            DEF Expire, handlerVars, Inv, TypeOK, NoClash, PhaseInv, CallbackInv,
                FlagInv, DeadlineArmed, ReadArmed, NoLostWakeup, StoppedDrains, NoLinger,
                want_write, should_stop, Ops, ConnOps
  <1>23. CASE AppPosts
    <2>1. /\ io' \in Io(Ops) /\ io'.open = io.open
          /\ io'.st["user"] = "ok" /\ \A o \in Ops \ {"user"} : io'.st[o] = io.st[o]
      <3>1. io' = Complete(io, "user", "ok")
        BY <1>23 DEF AppPosts
      <3>2. /\ Complete(io, "user", "ok") \in Io(Ops)
            /\ Complete(io, "user", "ok").open = io.open
            /\ Complete(io, "user", "ok").st["user"] = "ok"
            /\ \A o \in Ops \ {"user"} : Complete(io, "user", "ok").st[o] = io.st[o]
        BY <1>a, <1>t, OpStatesLemma, CompletePointwise
      <3> QED BY <3>1, <3>2
    <2> QED BY <1>a, <1>t, <1>23, <2>1
            DEF AppPosts, handlerVars, Inv, TypeOK, NoClash, PhaseInv, CallbackInv,
                FlagInv, DeadlineArmed, ReadArmed, NoLostWakeup, StoppedDrains, NoLinger,
                want_write, should_stop, Ops, ConnOps
  <1>24. CASE UNCHANGED vars
    BY <1>24
       DEF vars, Inv, TypeOK, NoClash, PhaseInv, CallbackInv,
           FlagInv, DeadlineArmed, ReadArmed, NoLostWakeup, StoppedDrains, NoLinger,
           want_write, should_stop, Ops, ConnOps
  <1> QED BY <1>1, <1>2, <1>3, <1>4, <1>5, <1>6, <1>7, <1>8, <1>9, <1>10, <1>11, <1>12,
             <1>13, <1>14, <1>15, <1>16, <1>17, <1>18, <1>19, <1>20, <1>21, <1>22, <1>23, <1>24
          DEF Next, Accept, Dispatch, Recv, Send

\* The operations, the flags and the phases agree at every point of every
\* behaviour of the connection.
THEOREM InvHolds == Spec => []Inv
  BY InitInv, NextInv, PTL DEF Spec

\* Reads, writes and deadline waits never overlap with one of their kind.
THEOREM NoClashHolds == Spec => []NoClash
  <1>1. Inv => NoClash
    BY DEF Inv
  <1> QED BY <1>1, InvHolds, PTL

\* A connection that is not stopped always has a deadline that will stop it.
THEOREM DeadlineArmedHolds == Spec => []DeadlineArmed
  <1>1. Inv => DeadlineArmed
    BY DEF Inv
  <1> QED BY <1>1, InvHolds, PTL

\* Output that can be sent always has a write or a posted write to send it.
THEOREM NoLostWakeupHolds == Spec => []NoLostWakeup
  <1>1. Inv => NoLostWakeup
    BY DEF Inv
  <1> QED BY <1>1, InvHolds, PTL

\* A stopped connection waits for nothing.
THEOREM StoppedDrainsHolds == Spec => []StoppedDrains
  <1>1. Inv => StoppedDrains
    BY DEF Inv
  <1> QED BY <1>1, InvHolds, PTL

\* A connection that nghttp2 is done with stops.
THEOREM NoLingerHolds == Spec => []NoLinger
  <1>1. Inv => NoLinger
    BY DEF Inv
  <1> QED BY <1>1, InvHolds, PTL

-----------------------------------------------------------------------------
(* The connection implements Lifecycle.                                    *)

\* A connection that is not stopped is referred to by its deadline's handler.
LEMMA OpenIsAlive == Inv /\ ~stopped => Alive
  BY DEF Inv, DeadlineArmed, Alive, ConnOps

\* stopped_ is never reset.
LEMMA StoppedForGood == [Next]_vars /\ stopped => stopped'
  <1> SUFFICES ASSUME [Next]_vars, stopped PROVE stopped'
    OBVIOUS
  <1>1. CASE Accept
    BY <1>1 DEF Accept, AcceptTcp, AcceptTls, Start, Stop
  <1>2. CASE HandleHandshake \/ HandleDeadline \/ HandleReadError \/ HandleWriteError
    BY <1>2 DEF HandleHandshake, Start, Stop, HandleDeadline, HandleReadError, HandleWriteError
  <1>3. CASE HandleRead \/ HandleWrite \/ InitiateWrite \/ AppTask \/ AppTaskLate
    BY <1>3 DEF HandleRead, HandleWrite, InitiateWrite, AppTask, AppTaskLate, AppSubmit
  <1>4. CASE MemRecv \/ Recv \/ FrameNotSent \/ AppCallback
    BY <1>4 DEF MemRecv, Recv, RecvFail, RecvDone, Stop, FrameNotSent, AppCallback, AppSubmit
  <1>5. CASE Send
    BY <1>5 DEF Send, SendFrame, SendDrained, SendFull, SendReturns, SendFail
  <1>6. CASE PeerActs \/ Expire \/ AppPosts \/ UNCHANGED vars
    BY <1>6 DEF PeerActs, Expire, AppPosts, vars
  <1> QED BY <1>1, <1>2, <1>3, <1>4, <1>5, <1>6 DEF Next, Dispatch

\* stop() does not destroy the connection: of the operations outstanding before,
\* the handlers are still to run.
LEMMA StopLeavesHandler ==
    ASSUME NEW i \in Io(Ops), NEW op \in ConnOps, i.st[op] # "off", io'.st = stop(i).st
    PROVE  Alive'
  <1>1. op \in Ops
    BY DEF Ops
  <1>2. stop(i).st[op] # "off"
    BY <1>1, StopLemma
  <1> QED BY <1>2 DEF Alive

\* The step that stops a connection leaves a handler that refers to it.
LEMMA StopIsSeen == Inv /\ [Next]_vars /\ ~stopped /\ stopped' => Alive'
  <1> SUFFICES ASSUME Inv, [Next]_vars, ~stopped, stopped' PROVE Alive'
    OBVIOUS
  <1>a. /\ "read" \in Ops /\ "write" \in Ops /\ "deadline" \in Ops /\ "handshake" \in Ops
        /\ "read" \in ConnOps /\ "deadline" \in ConnOps /\ "handshake" \in ConnOps
    BY DEF Ops, ConnOps
  <1>t. TypeOK /\ io \in Io(Ops) /\ io.st \in [Ops -> OpStates]
    BY DEF Inv, TypeOK, Io
  <1>d. phase # "accepted" => io.st["deadline"] # "off"
    BY DEF Inv, DeadlineArmed
  <1>p. ASSUME NEW op \in Ops \ {"deadline"}, Ready(op)
        PROVE  Popped(op) \in Io(Ops) /\ Popped(op).st["deadline"] # "off"
    <2>1. phase # "accepted"
      BY <1>p DEF Ready, IsNext, Inv, PhaseInv
    <2>2. /\ Popped(op) \in Io(Ops)
          /\ Popped(op).st = [io.st EXCEPT ![op] = "off"]
      BY <1>t, <1>p, PoppedLemma
    <2> QED BY <1>a, <1>d, <1>t, <2>1, <2>2
  <1>1. CASE AcceptTcp
    <2>1. start_deadline(io) \in Io(Ops) /\ start_deadline(io).st["deadline"] # "off"
      <3>1. io.st["deadline"] = "off"
        BY <1>1, <1>a DEF AcceptTcp, Inv, PhaseInv
      <3> QED BY <1>a, <1>t, <3>1, Refresh DEF start_deadline
    <2>2. io' = stop(start_deadline(io))
      BY <1>1 DEF AcceptTcp, Start, Stop
    <2> QED BY <1>a, <2>1, <2>2, StopLeavesHandler
  <1>2. CASE HandleHandshake
    <2>1. Ready("handshake") /\ io' = stop(Popped("handshake"))
      BY <1>2 DEF HandleHandshake, Start, Stop
    <2> QED BY <1>a, <1>p, <2>1, StopLeavesHandler
  <1>3. CASE HandleDeadline
    <2>1. /\ Ready("deadline") /\ pc = "idle"
          /\ io' = [stop(Popped("deadline")) EXCEPT !.expiry = "never"]
      BY <1>3 DEF HandleDeadline, Ready
    <2>2. /\ Popped("deadline") \in Io(Ops)
          /\ Popped("deadline").st = [io.st EXCEPT !["deadline"] = "off"]
      BY <1>a, <1>t, <2>1, PoppedLemma
    <2>3. stop(Popped("deadline")) \in Io(Ops)
      BY <2>2, StopLemma
    <2>4. io'.st = stop(Popped("deadline")).st
      BY <2>1, <2>3 DEF Io
    <2>5. io.st["read"] # "off" \/ io.st["handshake"] # "off"
      <3>1. phase \in {"handshake", "greeting", "serving"}
        BY <1>a, <1>t, <2>1 DEF Ready, IsNext, Inv, PhaseInv, TypeOK
      <3> QED BY <2>1, <3>1 DEF Inv, PhaseInv, ReadArmed
    <2>6. Popped("deadline").st["read"] # "off" \/ Popped("deadline").st["handshake"] # "off"
      BY <1>a, <1>t, <2>2, <2>5
    <2> QED BY <1>a, <2>2, <2>4, <2>6, StopLeavesHandler
  <1>4. CASE HandleReadError
    <2>1. Ready("read") /\ io' = stop(Popped("read"))
      BY <1>4 DEF HandleReadError, Stop
    <2> QED BY <1>a, <1>p, <2>1, StopLeavesHandler
  <1>5. CASE HandleWriteError
    <2>1. Ready("write") /\ io' = stop(Popped("write"))
      BY <1>5 DEF HandleWriteError, Stop
    <2> QED BY <1>a, <1>p, <2>1, StopLeavesHandler
  <1>6. CASE RecvFail
    <2>1. phase # "accepted" /\ io' = stop(io)
      BY <1>6 DEF RecvFail, Stop, Inv, PhaseInv
    <2> QED BY <1>a, <1>d, <1>t, <2>1, StopLeavesHandler
  <1>7. CASE SendDrained \/ SendFull
    <2>1. phase # "accepted" /\ io' = stop(io)
      BY <1>7 DEF SendDrained, SendFull, SendReturns, Inv, PhaseInv
    <2> QED BY <1>a, <1>d, <1>t, <2>1, StopLeavesHandler
  <1>8. CASE SendFail
    <2>1. phase # "accepted"
      BY <1>8 DEF SendFail, Inv, PhaseInv
    <2>2. CASE io' = stop(io)
      BY <1>a, <1>d, <1>t, <2>1, <2>2, StopLeavesHandler
    <2>3. CASE caller = "read" /\ io' = do_read(stop(io))
      <3>1. io.st["read"] = "off"
        BY <1>8, <2>3 DEF SendFail, Inv, CallbackInv
      <3>2. stop(io) \in Io(Ops) /\ stop(io).st["read"] = "off"
        BY <1>a, <1>t, <3>1, StopLemma
      <3>3. do_read(stop(io)).st["read"] # "off"
        BY <1>a, <3>2, Refresh DEF do_read
      <3> QED BY <1>a, <2>3, <3>3 DEF Alive
    <2> QED BY <1>8, <2>2, <2>3 DEF SendFail
  <1> QED BY <1>1, <1>2, <1>3, <1>4, <1>5, <1>6, <1>7, <1>8
          DEF Next, Accept, AcceptTls, Dispatch, HandleRead, HandleWrite, InitiateWrite,
              AppTask, AppTaskLate, AppSubmit, MemRecv, Recv, RecvDone, FrameNotSent, Send,
              SendFrame, AppCallback, PeerActs, Expire, AppPosts, vars

\* A destroyed connection stays so: what may still run is a posted initiate_write
\* and tasks of the application, and they start no operation.
LEMMA GoneForGood == Inv /\ [Next]_vars /\ ~Alive => ~Alive'
  <1> SUFFICES ASSUME Inv, [Next]_vars, ~Alive PROVE ~Alive'
    OBVIOUS
  <1>a. ConnOps \subseteq Ops /\ "post" \in Ops \ ConnOps /\ "user" \in Ops \ ConnOps
        /\ "deadline" \in ConnOps /\ "read" \in ConnOps /\ "write" \in ConnOps
        /\ "handshake" \in ConnOps
    BY DEF Ops, ConnOps
  <1>t. TypeOK /\ io \in Io(Ops) /\ io.st \in [Ops -> OpStates]
    BY DEF Inv, TypeOK, Io
  <1>n. /\ phase # "accepted" /\ pc \notin {"recv", "send"}
        /\ \A op \in ConnOps : io.st[op] = "off"
    BY DEF Alive
  <1>r. \A op \in ConnOps : ~Ready(op)
    BY <1>n DEF Ready, IsNext
  <1>s. SUFFICES phase' = phase /\ pc' \notin {"recv", "send"}
                 /\ \A op \in ConnOps : io'.st[op] = io.st[op]
    BY <1>n DEF Alive
  <1>1. CASE InitiateWrite
    <2>1. Ready("post") /\ phase' = phase /\ pc' = "undefined" /\ io' = Popped("post")
      BY <1>1 DEF InitiateWrite
    <2>2. Popped("post").st = [io.st EXCEPT !["post"] = "off"]
      BY <1>a, <1>t, <2>1, PoppedLemma
    <2> QED BY <1>a, <1>t, <2>1, <2>2
  <1>2. CASE AppTask \/ AppTaskLate
    <2> DEFINE i == Popped("user")
    <2>1. Ready("user") /\ phase' = phase /\ pc' = pc
      BY <1>2 DEF AppTask, AppTaskLate, AppSubmit
    <2>2. io' = i \/ io' = Complete(i, "post", "ok")
      <3>1. CASE AppTask
        BY <3>1 DEF AppTask, AppSubmit, signal_write
      <3>2. CASE AppTaskLate
        BY <3>2 DEF AppTaskLate
      <3> QED BY <1>2, <3>1, <3>2
    <2>3. i \in Io(Ops) /\ i.st = [io.st EXCEPT !["user"] = "off"]
      BY <1>a, <1>t, <2>1, PoppedLemma
    <2>a. i \in Io(Ops) /\ "post" \in Ops
      BY <1>a, <2>3
    <2> HIDE DEF i
    <2>4. \A op \in ConnOps : i.st[op] = io.st[op]
      BY <1>a, <1>t, <2>3
    <2>5. \A op \in Ops \ {"post"} : Complete(i, "post", "ok").st[op] = i.st[op]
      BY <2>a, OpStatesLemma, CompletePointwise
    <2> QED BY <1>a, <1>n, <2>1, <2>2, <2>4, <2>5
  <1>3. CASE Expire
    <2>1. io' = DeadlinePasses(io) /\ phase' = phase /\ pc' = pc
      BY <1>3 DEF Expire
    <2>2. /\ DeadlinePasses(io).st["deadline"] = io.st["deadline"]
          /\ \A o \in Ops \ {"deadline"} : DeadlinePasses(io).st[o] = io.st[o]
      BY <1>a, <1>n, <1>t, DeadlinePassesLemma
    <2> QED BY <1>a, <1>n, <2>1, <2>2
  <1>4. CASE AppPosts
    <2>1. io' = Complete(io, "user", "ok") /\ phase' = phase /\ pc' = pc
      BY <1>4 DEF AppPosts
    <2>2. \A op \in Ops \ {"user"} : Complete(io, "user", "ok").st[op] = io.st[op]
      BY <1>a, <1>t, OpStatesLemma, CompletePointwise
    <2> QED BY <1>a, <1>n, <2>1, <2>2
  <1>5. CASE UNCHANGED vars
    BY <1>5, <1>n DEF vars
  <1>6. ~Accept /\ ~MemRecv /\ ~Recv /\ ~FrameNotSent /\ ~Send /\ ~AppCallback
    BY <1>n DEF Accept, AcceptTcp, AcceptTls, MemRecv, Recv, RecvFail, RecvDone, FrameNotSent,
                Send, SendFrame, SendDrained, SendFull, SendFail, AppCallback, inside_callback
  <1>7. /\ ~HandleHandshake /\ ~HandleDeadline /\ ~HandleReadError /\ ~HandleRead
        /\ ~HandleWriteError /\ ~HandleWrite
    BY <1>a, <1>r DEF HandleHandshake, HandleDeadline, HandleReadError, HandleRead,
                      HandleWriteError, HandleWrite
  <1>8. ~PeerActs
    BY <1>n DEF PeerActs
  <1> QED BY <1>1, <1>2, <1>3, <1>4, <1>5, <1>6, <1>7, <1>8 DEF Next, Dispatch

\* The connection implements the safety part of Lifecycle: while its socket is open
\* a handler refers to it, stop() leaves it to the handlers that are queued, and
\* nothing starts an operation on it once it is destroyed.
THEOREM ImplementsLifecycle == Spec => Life!SafeSpec
  <1>1. Init => Life!Init
    <2> SUFFICES ASSUME Init PROVE Alive /\ ~stopped
      BY DEF Life!Init
    <2> QED BY DEF Init, Alive
  <1>a. Inv' /\ ~stopped' => Alive'
    BY OpenIsAlive, PTL
  <1>2. Inv /\ Inv' /\ [Next]_vars
          => [Life!Stop \/ Life!Vanish]_(IF ~Alive THEN "gone" ELSE IF stopped THEN "stopped" ELSE "open")
    <2> SUFFICES ASSUME Inv, Inv', [Next]_vars
                 PROVE  [Life!Stop \/ Life!Vanish]_(IF ~Alive THEN "gone" ELSE IF stopped THEN "stopped" ELSE "open")
      OBVIOUS
    <2>1. ~stopped => Alive
      BY OpenIsAlive
    <2>2. ~stopped' => Alive'
      BY <1>a
    <2>3. stopped => stopped'
      BY StoppedForGood
    <2>4. ~stopped /\ stopped' => Alive'
      BY StopIsSeen
    <2>5. ~Alive => ~Alive'
      BY GoneForGood
    <2> QED BY <2>1, <2>2, <2>3, <2>4, <2>5 DEF Life!Stop, Life!Vanish
  <1> QED BY <1>1, <1>2, InvHolds, PTL DEF Spec, Life!SafeSpec
=============================================================================
