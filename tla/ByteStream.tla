----------------------------- MODULE ByteStream -----------------------------
(***************************************************************************)
(* What sending a message body promises: the peer receives a prefix of the *)
(* content, never anything else; it sees the end only after all of it; or  *)
(* it sees the body cut off.  BodyTransfer implements this.                *)
(***************************************************************************)
EXTENDS Naturals, Sequences

VARIABLES content,  \* the bytes of the body
          sent,     \* the bytes the peer has received
          status    \* "open", "done" (the peer has seen the end), "cut"

vars == <<content, sent, status>>

Init == /\ sent = <<>>
        /\ status = "open"

\* More bytes arrive, the end perhaps with the last of them.
Deliver == /\ status = "open"
           /\ \E n \in Len(sent) .. Len(content) : sent' = SubSeq(content, 1, n)
           /\ status' \in {"open", "done"}
           /\ status' = "done" => sent' = content
           /\ UNCHANGED content

\* The stream is reset or the connection lost, perhaps after some more bytes.
Cut == /\ status = "open"
       /\ \E n \in Len(sent) .. Len(content) : sent' = SubSeq(content, 1, n)
       /\ status' = "cut"
       /\ UNCHANGED content

Next == Deliver \/ Cut

\* The body does not stay open for ever.
Spec == Init /\ [][Next]_vars /\ WF_vars(Next)
=============================================================================
