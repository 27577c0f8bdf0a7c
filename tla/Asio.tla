-------------------------------- MODULE Asio --------------------------------
(***************************************************************************)
(* The part of Boost.Asio that the client session and the server           *)
(* connection rely on: one socket, one deadline_timer, and the FIFO queue   *)
(* of handlers of an io_service run by one thread.  External code, modelled *)
(* from how src/lib uses it.                                               *)
(*                                                                         *)
(* An operation is "off", waiting in the reactor ("wait"), or completed    *)
(* with its handler queued ("ok", "err").  "clash" marks a second          *)
(* operation of a kind started while one is outstanding.                   *)
(***************************************************************************)
EXTENDS Sequences

OpStates == {"off", "wait", "ok", "err", "clash"}

\* The state of a socket, a timer and a queue used by the operations in ops.
Io(ops) == [st : [ops -> OpStates], queue : Seq(ops), open : BOOLEAN,
            expiry : {"never", "running", "expired"}]

SocketOps == {"connect", "handshake", "read", "write"}

Complete(i, op, result) ==
    [i EXCEPT !.st = [@ EXCEPT ![op] = result], !.queue = Append(@, op)]

\* An operation started on a closed socket completes at once with an error.
Begin(i, op) ==
    IF i.st[op] # "off" THEN [i EXCEPT !.st = [@ EXCEPT ![op] = "clash"]]
    ELSE IF op \in SocketOps /\ ~i.open THEN Complete(i, op, "err")
    ELSE [i EXCEPT !.st = [@ EXCEPT ![op] = "wait"]]

\* Aborting does not reach a handler that is queued already.
Abort(i, op) == IF i.st[op] = "wait" THEN Complete(i, op, "err") ELSE i

CancelDeadline(i) == Abort(i, "deadline")

ExpiresFromNow(i) == [CancelDeadline(i) EXCEPT !.expiry = "running"]

\* The clock passes the expiry time of the deadline.
DeadlinePasses(i) ==
    [(IF i.st["deadline"] = "wait" THEN Complete(i, "deadline", "ok") ELSE i)
       EXCEPT !.expiry = "expired"]

\* The handler of op is the next one to run; running it takes it off the queue.
IsNext(i, op) == i.queue # <<>> /\ Head(i.queue) = op /\ i.st[op] \in {"ok", "err"}

Dequeue(i, op) == [i EXCEPT !.st = [@ EXCEPT ![op] = "off"], !.queue = Tail(@)]
=============================================================================
