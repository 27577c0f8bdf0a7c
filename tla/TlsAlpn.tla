------------------------------ MODULE TlsAlpn ------------------------------
(***************************************************************************)
(* How two peers agree on HTTP/2 over TLS: the lists and the callbacks     *)
(* that asio_server_tls_context.cc and asio_client_tls_context.cc give to  *)
(* OpenSSL, the choice they make (select_h2 of util.cc), and the test each *)
(* side makes after the handshake (tls_h2_negotiated of asio_common.cc).   *)
(***************************************************************************)
EXTENDS Naturals, Sequences, FiniteSets

(* ALPN identifiers with their length byte: h2, h2-16, h2-14.              *)
NGHTTP2_H2_ALPN == <<2, 104, 50>>

NGHTTP2_H2_16_ALPN == <<5, 104, 50, 45, 49, 54>>

NGHTTP2_H2_14_ALPN == <<5, 104, 50, 45, 49, 52>>

get_default_alpn == NGHTTP2_H2_ALPN \o NGHTTP2_H2_16_ALPN \o NGHTTP2_H2_14_ALPN

Identifiers == <<NGHTTP2_H2_ALPN, NGHTTP2_H2_16_ALPN, NGHTTP2_H2_14_ALPN>>

check_h2_is_selected(proto) == \E k \in 1 .. 3 : proto = Tail(Identifiers[k])

-----------------------------------------------------------------------------
None == <<>>

(* What configure_tls_context_easy of the server advertises by NPN, and    *)
(* what configure_tls_context of the client offers by ALPN.                *)
get_alpn_token == get_default_alpn

proto_list == get_default_alpn

(* The handshake of OpenSSL: NPN takes place only without ALPN, where both *)
(* sides have it.  A list is <<>> where a side does not use the extension; *)
(* with each list comes what the other side's callback selects from it.    *)
Handshake(clientAlpn, serverSelects, serverNpn, clientSelects) ==
  LET alpn == IF clientAlpn = <<>> THEN None ELSE serverSelects
  IN  [alpn |-> alpn,
       npn |-> IF alpn # None \/ serverNpn = <<>> THEN None ELSE clientSelects]

(* tls_h2_negotiated, the same on both sides.                              *)
tls_h2_negotiated(ssl) ==
  LET next_proto == IF ssl.npn # None THEN ssl.npn ELSE ssl.alpn
  IN  next_proto # None /\ check_h2_is_selected(next_proto)

-----------------------------------------------------------------------------
CONSTANTS Protocols,   \* the entries that a peer's list is made of
          MaxEntries   \* bound: entries of a list

Byte == 0 .. 255

(* OpenSSL hands over only well-formed lists: an entry has a length byte   *)
(* and as many bytes, at least one.                                        *)
ASSUME ProtocolsAssumption ==
  /\ \A e \in Protocols : e \in Seq(Byte) /\ Len(e) >= 2 /\ e[1] = Len(e) - 1
  /\ MaxEntries \in Nat

VARIABLES
  offered,    \* the entries of the peer's list, each with its offset
  wire,       \* the list as select_h2 gets it: in, inlen
  trying,     \* which call of select_proto runs: 0 before the first, 4 after the last
  pos,        \* its p, as an offset
  selected    \* out and outlen, or None

alpnVars == <<offered, wire, trying, pos, selected>>

AlpnInit == offered = {} /\ wire = <<>> /\ trying = 0 /\ pos = 0 /\ selected = None

(* The peer adds an entry to its list.                                     *)
Offer ==
  /\ trying = 0
  /\ Cardinality(offered) < MaxEntries
  /\ \E e \in Protocols :
       /\ offered' = offered \cup {[start |-> Len(wire), entry |-> e]}
       /\ wire' = wire \o e
  /\ UNCHANGED <<trying, pos, selected>>

(* OpenSSL has the peer's list, and a callback calls select_h2 on it.      *)
select_h2 ==
  /\ trying = 0
  /\ trying' = 1
  /\ UNCHANGED <<offered, wire, pos, selected>>

Searching == trying \in 1 .. 3 /\ selected = None

(* The loop condition: p + key.size() <= end.                              *)
KeyFits == pos + Len(Identifiers[trying]) <= Len(wire)

KeyHere == SubSeq(wire, pos + 1, pos + Len(Identifiers[trying])) = Identifiers[trying]

(* select_proto finds the key: out = p + 1, outlen = *p.                   *)
Found ==
  /\ Searching /\ KeyFits /\ KeyHere
  /\ selected' = SubSeq(wire, pos + 2, pos + 1 + wire[pos + 1])
  /\ UNCHANGED <<offered, wire, trying, pos>>

(* Variant, as a plausible mistake that no specification uses: the list is *)
(* searched at every byte, not entry by entry.                             *)
StepByte == pos + 1

(* p += *p + 1                                                             *)
Step == pos + wire[pos + 1] + 1

Advance ==
  /\ Searching /\ KeyFits /\ ~KeyHere
  /\ pos' = Step
  /\ UNCHANGED <<offered, wire, trying, selected>>

(* select_proto returns false, and select_h2 tries the next identifier.    *)
Missing ==
  /\ Searching /\ ~KeyFits
  /\ trying' = trying + 1
  /\ pos' = 0
  /\ UNCHANGED <<offered, wire, selected>>

(* What the callbacks answer when select_h2 is done, the server's on the   *)
(* client's ALPN list and the client's on the server's NPN list; None is   *)
(* NOACK, which leaves the extension out of the handshake.                 *)
alpn_select_proto_cb == selected

client_select_next_proto_cb == selected

AlpnNext == Offer \/ select_h2 \/ Found \/ Advance \/ Missing

AlpnSpec == AlpnInit /\ [][AlpnNext]_alpnVars

-----------------------------------------------------------------------------
Offers(identifier) == \E o \in offered : o.entry = identifier

(* The best HTTP/2 version on offer.                                       *)
Best ==
  IF Offers(NGHTTP2_H2_ALPN) THEN Tail(NGHTTP2_H2_ALPN)
  ELSE IF Offers(NGHTTP2_H2_16_ALPN) THEN Tail(NGHTTP2_H2_16_ALPN)
  ELSE IF Offers(NGHTTP2_H2_14_ALPN) THEN Tail(NGHTTP2_H2_14_ALPN)
  ELSE None

(* Both ends agree on the best HTTP/2 version that the other end's list    *)
(* offers, over ALPN or NPN, and go on exactly if there is one: bytes      *)
(* inside an entry are never mistaken for an identifier, p does not leave  *)
(* the list, and the library always gets on with itself.                   *)
Negotiates ==
  /\ pos <= Len(wire)
  /\ selected # None \/ trying = 4 =>
       LET server == Handshake(wire, alpn_select_proto_cb, get_alpn_token, None)
           client == Handshake(proto_list, None, wire, client_select_next_proto_cb)
           both == Handshake(proto_list, alpn_select_proto_cb, get_alpn_token,
                             client_select_next_proto_cb)
       IN  /\ server.alpn = Best
           /\ client.npn = Best
           /\ tls_h2_negotiated(server) <=> Best # None
           /\ tls_h2_negotiated(client) <=> Best # None
           /\ wire = get_default_alpn =>
                tls_h2_negotiated(both) /\ both.alpn = Tail(NGHTTP2_H2_ALPN)

=============================================================================
