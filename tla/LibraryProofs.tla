--------------------------- MODULE LibraryProofs ----------------------------
(***************************************************************************)
(* Proofs about parse_uint, for every width of integers, about the calendar*)
(* arithmetic, for every year of four digits, about the allocator, for     *)
(* every size of blocks, and about select_h2, for every list of protocols. *)
(***************************************************************************)
EXTENDS Allocator, ParseUint, Dates, TlsAlpn, TLAPS

-----------------------------------------------------------------------------
(* select_h2 and the handshake.                                            *)

(* At offset q of list w with entries os an entry starts, or the list ends.*)
Boundary(w, os, q) == q = Len(w) \/ \E o \in os : o.start = q

(* The entry stands in the list at its offset.                             *)
Stands(w, o) ==
  /\ o.start \in Nat /\ o.entry \in Protocols
  /\ o.start + Len(o.entry) <= Len(w)
  /\ \A i \in 1 .. Len(o.entry) : w[o.start + i] = o.entry[i]

(* The inductive invariant: the entries lie end to end in the list; p is   *)
(* where one of them starts, or at the end; the identifiers tried before   *)
(* are not in the list, and the one being tried is not before p; what is   *)
(* selected is the one being tried.                                        *)
AlpnInv ==
  /\ wire \in Seq(Byte) /\ trying \in 0 .. 4 /\ pos \in 0 .. Len(wire)
  /\ \A o \in offered : Stands(wire, o) /\ Boundary(wire, offered, o.start + Len(o.entry))
  /\ \A o, after \in offered : o.start < after.start => o.start + Len(o.entry) <= after.start
  /\ Boundary(wire, offered, 0) /\ Boundary(wire, offered, pos)
  /\ trying = 0 => pos = 0 /\ selected = None
  /\ \A k \in 1 .. 3 : k < trying => ~Offers(Identifiers[k])
  /\ trying \in 1 .. 3 => \A o \in offered : o.start < pos => o.entry # Identifiers[trying]
  /\ selected # None => /\ trying \in 1 .. 3
                        /\ Offers(Identifiers[trying])
                        /\ selected = Tail(Identifiers[trying])

(* What std::equal compares with a key: b - a bytes from offset a on.      *)
LEMMA SliceLemma ==
  ASSUME NEW S, NEW s \in Seq(S), NEW a \in Nat, NEW b \in Nat, a <= b, b <= Len(s)
  PROVE  /\ SubSeq(s, a + 1, b) \in Seq(S)
         /\ Len(SubSeq(s, a + 1, b)) = b - a
         /\ \A i \in 1 .. b - a : SubSeq(s, a + 1, b)[i] = s[a + i]
<1>1. Len(s) \in Nat /\ \A i \in 1 .. Len(s) : s[i] \in S
  OBVIOUS
<1>2. \A i \in a + 1 .. b : s[i] \in S
  BY <1>1
<1> QED
  BY <1>1, <1>2

(* What std::copy_n has put in front stays in front.                       *)
LEMMA PrefixLemma ==
  ASSUME NEW S, NEW s \in Seq(S), NEW t \in Seq(S)
  PROVE  /\ s \o t \in Seq(S)
         /\ Len(s \o t) >= Len(s)
         /\ \A i \in 1 .. Len(s) : (s \o t)[i] = s[i]
OBVIOUS

(* Lists of the same length with the same elements are equal.              *)
LEMMA EqualLemma ==
  ASSUME NEW S, NEW s \in Seq(S), NEW t \in Seq(S),
         Len(s) = Len(t), \A i \in 1 .. Len(s) : s[i] = t[i]
  PROVE  s = t
OBVIOUS

(* The identifiers of util.h are entries: a length byte and as many bytes. *)
LEMMA IdentifiersLemma ==
  ASSUME NEW k \in 1 .. 3
  PROVE  /\ Identifiers[k] \in Seq(Byte)
         /\ Len(Identifiers[k]) >= 3
         /\ Identifiers[k][1] = Len(Identifiers[k]) - 1
         /\ Tail(Identifiers[k]) # None
<1>1. CASE k = 1
  <2>1. Identifiers[k] = NGHTTP2_H2_ALPN
    BY <1>1 DEF Identifiers
  <2> QED
    BY <2>1 DEF NGHTTP2_H2_ALPN, None, Byte
<1>2. CASE k = 2
  <2>1. Identifiers[k] = NGHTTP2_H2_16_ALPN
    BY <1>2 DEF Identifiers
  <2> QED
    BY <2>1 DEF NGHTTP2_H2_16_ALPN, None, Byte
<1>3. CASE k = 3
  <2>1. Identifiers[k] = NGHTTP2_H2_14_ALPN
    BY <1>3 DEF Identifiers
  <2> QED
    BY <2>1 DEF NGHTTP2_H2_14_ALPN, None, Byte
<1> QED
  BY <1>1, <1>2, <1>3

(* An entry is told by its length byte: what stands at its offset and is   *)
(* as long as its own first byte says is the entry.                        *)
LEMMA SameEntryLemma ==
  ASSUME NEW d, NEW e,
         d \in Seq(Byte), Len(d) >= 2, d[1] = Len(d) - 1,
         e \in Seq(Byte), Len(e) >= 2, e[1] = Len(e) - 1,
         \A i \in 1 .. Len(d) : i <= Len(e) => d[i] = e[i]
  PROVE  d = e
<1>1. Len(d) \in Nat /\ Len(e) \in Nat
  OBVIOUS
<1>2. d[1] = e[1]
  BY <1>1
<1>3. Len(d) = Len(e)
  BY <1>1, <1>2
<1> QED
  BY <1>1, <1>3

(* The loop of select_proto looks at an entry: inside the list and at its  *)
(* start.                                                                  *)
LEMMA LooksLemma ==
  ASSUME AlpnInv, Searching, KeyFits
  PROVE  \E o \in offered :
           /\ o.start = pos
           /\ Stands(wire, o)
           /\ wire[pos + 1] = Len(o.entry) - 1
           /\ Step = pos + Len(o.entry)
           /\ KeyHere <=> o.entry = Identifiers[trying]
<1>1. trying \in 1 .. 3 /\ wire \in Seq(Byte) /\ pos \in 0 .. Len(wire)
  BY DEF AlpnInv, Searching
<1> DEFINE id == Identifiers[trying]
<1>2. id \in Seq(Byte) /\ Len(id) >= 3 /\ id[1] = Len(id) - 1
  BY <1>1, IdentifiersLemma, Zenon
<1>3. pos + Len(id) <= Len(wire)
  BY DEF KeyFits
<1> HIDE DEF id
<1>4. pos # Len(wire)
  BY <1>1, <1>2, <1>3
<1>5. PICK o \in offered : o.start = pos
  BY <1>4 DEF AlpnInv, Boundary
<1>6. Stands(wire, o)
  BY DEF AlpnInv
<1>7. o.entry \in Seq(Byte) /\ Len(o.entry) >= 2 /\ o.entry[1] = Len(o.entry) - 1
  BY <1>6, ProtocolsAssumption DEF Stands
<1>8. wire[pos + 1] = Len(o.entry) - 1
  <2>1. 1 \in 1 .. Len(o.entry)
    BY <1>7
  <2>2. wire[o.start + 1] = o.entry[1]
    BY <1>6, <2>1 DEF Stands
  <2> QED
    BY <1>5, <1>7, <2>2
<1>9. Step = pos + Len(o.entry)
  BY <1>1, <1>7, <1>8 DEF Step
<1>10. KeyHere <=> \A i \in 1 .. Len(id) : wire[pos + i] = id[i]
  <2>1. KeyHere <=> SubSeq(wire, pos + 1, pos + Len(id)) = id
    BY DEF KeyHere, id
  <2> DEFINE here == SubSeq(wire, pos + 1, pos + Len(id))
  <2>2. here \in Seq(Byte) /\ Len(here) = Len(id)
        /\ \A i \in 1 .. Len(id) : here[i] = wire[pos + i]
    <3>1. /\ pos \in Nat /\ pos + Len(id) \in Nat /\ pos <= pos + Len(id)
          /\ (pos + Len(id)) - pos = Len(id)
      BY <1>1, <1>2
    <3> QED
      BY <1>1, <1>3, <3>1, SliceLemma
  <2> HIDE DEF here
  <2>3. here = id <=> \A i \in 1 .. Len(id) : here[i] = id[i]
    BY <1>2, <2>2, EqualLemma
  <2> QED
    BY <2>1, <2>2, <2>3, Zenon DEF here
<1>11. KeyHere <=> o.entry = id
  <2>1. ASSUME o.entry = id PROVE KeyHere
    BY <2>1, <1>5, <1>6, <1>10 DEF Stands
  <2>2. ASSUME KeyHere PROVE o.entry = id
    <3>1. \A i \in 1 .. Len(o.entry) : i <= Len(id) => o.entry[i] = id[i]
      <4> SUFFICES ASSUME NEW i \in 1 .. Len(o.entry), i <= Len(id)
                   PROVE  o.entry[i] = id[i]
        OBVIOUS
      <4>1. i \in 1 .. Len(id)
        BY <1>2, <1>7
      <4>2. wire[pos + i] = id[i]
        BY <2>2, <1>10, <4>1
      <4>3. wire[o.start + i] = o.entry[i]
        BY <1>6 DEF Stands
      <4> QED
        BY <1>5, <4>2, <4>3
    <3>2. Len(id) >= 2
      BY <1>2
    <3> QED
      BY <3>1, <3>2, <1>2, <1>7, SameEntryLemma, Zenon
  <2> QED
    BY <2>1, <2>2
<1> QED
  BY <1>5, <1>6, <1>8, <1>9, <1>11 DEF id

(* Offering an entry keeps the invariant: it starts where the list ended.  *)
LEMMA OfferKeeps ==
  ASSUME AlpnInv, Offer
  PROVE  AlpnInv'
<1>1. PICK e \in Protocols : /\ offered' = offered \cup {[start |-> Len(wire), entry |-> e]}
                             /\ wire' = wire \o e
  BY DEF Offer
<1> DEFINE new == [start |-> Len(wire), entry |-> e]
<1>2. e \in Seq(Byte) /\ Len(e) >= 2 /\ e[1] = Len(e) - 1
  BY ProtocolsAssumption
<1>3. wire \in Seq(Byte) /\ Len(wire) \in Nat
  BY DEF AlpnInv
<1>4. /\ wire' \in Seq(Byte) /\ Len(wire') = Len(wire) + Len(e)
      /\ \A i \in 1 .. Len(wire) : wire'[i] = wire[i]
      /\ \A i \in 1 .. Len(e) : wire'[Len(wire) + i] = e[i]
  BY <1>1, <1>2, <1>3
<1>5. /\ trying = 0 /\ trying' = 0 /\ pos = 0 /\ pos' = 0
      /\ selected = None /\ selected' = None
  BY DEF Offer, AlpnInv
<1>6. new.start = Len(wire) /\ new.entry = e /\ offered' = offered \cup {new}
  BY <1>1
<1> HIDE DEF new
<1>7. \A o \in offered : o.start \in Nat /\ o.entry \in Protocols /\ Len(o.entry) \in Nat
                         /\ Len(o.entry) >= 2 /\ o.start + Len(o.entry) <= Len(wire)
  BY ProtocolsAssumption DEF AlpnInv, Stands
<1>8. ASSUME NEW o \in offered' PROVE Stands(wire', o)
  <2>1. CASE o \in offered
    <3>1. Stands(wire, o)
      BY <2>1 DEF AlpnInv
    <3>2. \A i \in 1 .. Len(o.entry) : o.start + i \in 1 .. Len(wire)
      BY <1>3, <1>7, <2>1
    <3>3. \A i \in 1 .. Len(o.entry) : wire'[o.start + i] = o.entry[i]
      BY <3>1, <3>2, <1>4, Zenon DEF Stands
    <3>4. o.start + Len(o.entry) <= Len(wire')
      BY <2>1, <1>2, <1>3, <1>4, <1>7
    <3> QED
      BY <3>3, <3>4, <2>1, <1>7 DEF Stands
  <2>2. CASE o = new
    BY <2>2, <1>2, <1>3, <1>4, <1>6 DEF Stands
  <2> QED
    BY <2>1, <2>2, <1>6
<1>9. ASSUME NEW q, Boundary(wire, offered, q) PROVE Boundary(wire', offered', q)
  BY <1>9, <1>6 DEF Boundary
<1>10. ASSUME NEW o \in offered' PROVE Boundary(wire', offered', o.start + Len(o.entry))
  <2>1. CASE o \in offered
    <3>1. Boundary(wire, offered, o.start + Len(o.entry))
      BY <2>1 DEF AlpnInv
    <3> QED
      BY <3>1, <1>9
  <2>2. CASE o = new
    BY <2>2, <1>4, <1>6 DEF Boundary
  <2> QED
    BY <2>1, <2>2, <1>6
<1>11. ASSUME NEW o \in offered', NEW after \in offered', o.start < after.start
       PROVE  o.start + Len(o.entry) <= after.start
  <2>1. CASE o \in offered /\ after \in offered
    BY <2>1, <1>11 DEF AlpnInv
  <2>2. CASE o \in offered /\ after = new
    BY <2>2, <1>6, <1>7
  <2>3. CASE o = new
    BY <2>3, <1>3, <1>6, <1>7, <1>11
  <2> QED
    BY <2>1, <2>2, <2>3, <1>6
<1>12. Boundary(wire', offered', 0) /\ Boundary(wire', offered', pos')
  BY <1>5, <1>9 DEF AlpnInv
<1> QED
  BY <1>3, <1>4, <1>5, <1>8, <1>10, <1>11, <1>12 DEF AlpnInv

(* The calls of select_proto keep the invariant.                           *)
LEMMA SearchKeeps ==
  ASSUME AlpnInv, select_h2 \/ Found \/ Advance \/ Missing
  PROVE  AlpnInv'
<1>1. offered' = offered /\ wire' = wire
  BY DEF select_h2, Found, Advance, Missing
<1>2. /\ wire' \in Seq(Byte)
      /\ \A o \in offered' : Stands(wire', o) /\ Boundary(wire', offered', o.start + Len(o.entry))
      /\ \A o, after \in offered' : o.start < after.start => o.start + Len(o.entry) <= after.start
      /\ Boundary(wire', offered', 0)
      /\ \A q : Boundary(wire', offered', q) <=> Boundary(wire, offered, q)
      /\ \A id : Offers(id)' <=> Offers(id)
  BY <1>1 DEF AlpnInv, Stands, Boundary, Offers
<1>3. CASE select_h2
  <2>1. trying = 0 /\ trying' = 1 /\ pos = 0 /\ pos' = 0 /\ selected = None /\ selected' = None
    BY <1>3 DEF select_h2, AlpnInv
  <2>2. \A o \in offered' : ~(o.start < 0)
    BY <1>1 DEF AlpnInv, Stands
  <2>3. pos' \in 0 .. Len(wire') /\ Boundary(wire', offered', pos')
    BY <2>1, <1>1, <1>2 DEF AlpnInv
  <2> QED
    BY <1>2, <2>1, <2>2, <2>3 DEF AlpnInv
<1>4. CASE Found
  <2>1. Searching /\ KeyFits /\ KeyHere /\ trying' = trying /\ pos' = pos
        /\ selected' = SubSeq(wire, pos + 2, pos + 1 + wire[pos + 1])
    BY <1>4 DEF Found
  <2>2. PICK o \in offered : /\ o.start = pos /\ Stands(wire, o)
                             /\ wire[pos + 1] = Len(o.entry) - 1
                             /\ o.entry = Identifiers[trying]
    BY <2>1, LooksLemma
  <2>3. trying \in 1 .. 3 /\ wire \in Seq(Byte) /\ pos \in 0 .. Len(wire)
    BY <2>1 DEF AlpnInv, Searching
  <2> DEFINE id == Identifiers[trying]
  <2>4. id \in Seq(Byte) /\ Len(id) >= 3
    BY <2>3, IdentifiersLemma, Zenon
  <2>5. /\ pos + Len(id) <= Len(wire) /\ wire[pos + 1] = Len(id) - 1
        /\ \A i \in 1 .. Len(id) : wire[pos + i] = id[i]
    BY <2>2 DEF Stands
  <2> HIDE DEF id
  <2>6. SubSeq(wire, pos + 2, pos + 1 + wire[pos + 1]) = Tail(id)
    <3>1. /\ pos + 1 + wire[pos + 1] = pos + Len(id) /\ pos + 2 = (pos + 1) + 1
          /\ pos + 1 \in Nat /\ pos + Len(id) \in Nat /\ pos + 1 <= pos + Len(id)
          /\ (pos + Len(id)) - (pos + 1) = Len(id) - 1
      BY <2>3, <2>4, <2>5
    <3> DEFINE out == SubSeq(wire, (pos + 1) + 1, pos + Len(id))
    <3>2. /\ out \in Seq(Byte) /\ Len(out) = (pos + Len(id)) - (pos + 1)
          /\ \A i \in 1 .. (pos + Len(id)) - (pos + 1) : out[i] = wire[(pos + 1) + i]
      <4>1. pos + Len(id) <= Len(wire) /\ wire \in Seq(Byte)
        BY <2>3, <2>5
      <4>2. ASSUME NEW a \in Nat, NEW b \in Nat, a <= b, b <= Len(wire)
            PROVE  /\ SubSeq(wire, a + 1, b) \in Seq(Byte)
                   /\ Len(SubSeq(wire, a + 1, b)) = b - a
                   /\ \A i \in 1 .. b - a : SubSeq(wire, a + 1, b)[i] = wire[a + i]
        BY <4>1, <4>2, SliceLemma, Zenon
      <4>3. pos + 1 \in Nat /\ pos + Len(id) \in Nat /\ pos + 1 <= pos + Len(id)
        BY <3>1
      <4> QED
        BY <4>1, <4>2, <4>3, Zenon
    <3>3. /\ Tail(id) \in Seq(Byte) /\ Len(Tail(id)) = Len(id) - 1
          /\ \A i \in 1 .. Len(id) - 1 : Tail(id)[i] = id[i + 1]
      BY <2>4
    <3>4. SubSeq(wire, pos + 2, pos + 1 + wire[pos + 1]) = out
      BY <3>1, SMTT(20)
    <3> HIDE DEF out
    <3>5. ASSUME NEW i \in 1 .. Len(id) - 1 PROVE out[i] = Tail(id)[i]
      <4>1. out[i] = wire[(pos + 1) + i]
        BY <3>1, <3>2
      <4>2. i + 1 \in 1 .. Len(id) /\ (pos + 1) + i = pos + (i + 1)
        BY <2>3, <2>4
      <4>3. wire[pos + (i + 1)] = id[i + 1]
        BY <2>5, <4>2
      <4> QED
        BY <3>3, <4>1, <4>2, <4>3
    <3>6. out = Tail(id)
      BY <3>1, <3>2, <3>3, <3>5, EqualLemma
    <3> QED
      BY <3>4, <3>6, Zenon
  <2>7. selected' = Tail(Identifiers[trying']) /\ Offers(Identifiers[trying])'
    <3>1. Offers(Identifiers[trying])
      BY <2>2 DEF Offers
    <3> QED
      BY <2>1, <2>6, <3>1, <1>1, Zenon DEF Offers, id
  <2>8. /\ trying' \in 1 .. 3 /\ pos' \in 0 .. Len(wire') /\ Boundary(wire', offered', pos')
        /\ \A k \in 1 .. 3 : k < trying' => ~Offers(Identifiers[k])'
        /\ \A p \in offered' : p.start < pos' => p.entry # Identifiers[trying']
    BY <2>1, <2>3, <1>1, <1>2 DEF AlpnInv
  <2> QED
    BY <1>2, <2>7, <2>8 DEF AlpnInv
<1>5. CASE Advance
  <2>1. Searching /\ KeyFits /\ ~KeyHere /\ trying' = trying /\ pos' = Step /\ selected' = selected
    BY <1>5 DEF Advance
  <2>2. PICK o \in offered : /\ o.start = pos /\ Stands(wire, o)
                             /\ Step = pos + Len(o.entry)
                             /\ o.entry # Identifiers[trying]
    BY <2>1, LooksLemma
  <2>3. trying \in 1 .. 3 /\ wire \in Seq(Byte) /\ pos \in 0 .. Len(wire) /\ selected = None
    BY <2>1 DEF AlpnInv, Searching
  <2>4. Len(o.entry) \in Nat /\ pos' \in 0 .. Len(wire') /\ Boundary(wire', offered', pos')
    <3>1. Boundary(wire, offered, pos + Len(o.entry)) /\ Len(o.entry) \in Nat
      BY <2>2, ProtocolsAssumption DEF AlpnInv, Stands
    <3>2. Boundary(wire, offered, Step)
      BY <2>2, <3>1
    <3>3. pos' \in 0 .. Len(wire')
      BY <2>1, <2>2, <2>3, <3>1, <1>1 DEF Stands
    <3> QED
      BY <2>1, <3>1, <3>2, <3>3, <1>1 DEF Boundary
  <2>5. ASSUME NEW before \in offered, before.start < pos'
        PROVE  before.entry # Identifiers[trying]
    <3>1. before.start \in Nat /\ Stands(wire, before)
      BY DEF AlpnInv, Stands
    <3>2. CASE before.start < pos
      BY <3>2, <2>3 DEF AlpnInv
    <3>3. CASE before.start = pos
      <4>1. /\ before.entry \in Seq(Byte) /\ Len(before.entry) >= 2
            /\ before.entry[1] = Len(before.entry) - 1
            /\ o.entry \in Seq(Byte) /\ Len(o.entry) >= 2 /\ o.entry[1] = Len(o.entry) - 1
        BY <2>2, <3>1, ProtocolsAssumption, SMTT(20) DEF Stands
      <4>2. \A i \in 1 .. Len(before.entry) : i <= Len(o.entry) => before.entry[i] = o.entry[i]
        BY <2>2, <3>1, <3>3, <4>1 DEF Stands
      <4>3. before.entry = o.entry
        BY <4>1, <4>2, SameEntryLemma, SMTT(20)
      <4> QED
        BY <4>3, <2>2
    <3>4. CASE before.start > pos
      <4>1. pos + Len(o.entry) <= before.start
        BY <3>4, <2>2 DEF AlpnInv
      <4> QED
        BY <4>1, <2>1, <2>2, <2>3, <2>4, <2>5, <3>1
    <3> QED
      BY <3>1, <3>2, <3>3, <3>4, <2>3
  <2>6. /\ trying' \in 1 .. 3 /\ selected' = None
        /\ \A k \in 1 .. 3 : k < trying' => ~Offers(Identifiers[k])'
        /\ \A p \in offered' : p.start < pos' => p.entry # Identifiers[trying']
    BY <2>1, <2>3, <2>5, <1>1, <1>2 DEF AlpnInv
  <2> QED
    BY <1>2, <2>4, <2>6 DEF AlpnInv
<1>6. CASE Missing
  <2>1. Searching /\ ~KeyFits /\ trying' = trying + 1 /\ pos' = 0 /\ selected' = selected
    BY <1>6 DEF Missing
  <2>2. trying \in 1 .. 3 /\ wire \in Seq(Byte) /\ pos \in 0 .. Len(wire) /\ selected = None
    BY <2>1 DEF AlpnInv, Searching
  <2> DEFINE id == Identifiers[trying]
  <2>3. id \in Seq(Byte) /\ Len(id) >= 3
    BY <2>2, IdentifiersLemma, Zenon
  <2>4. ~(pos + Len(id) <= Len(wire))
    BY <2>1 DEF KeyFits
  <2>5. ASSUME NEW o \in offered PROVE o.entry # id
    <3>1. o.start \in Nat /\ o.start + Len(o.entry) <= Len(wire)
      BY DEF AlpnInv, Stands
    <3>2. CASE o.start < pos
      BY <3>2, <2>2 DEF AlpnInv
    <3>3. CASE o.start >= pos
      <4> HIDE DEF id
      <4> QED
        BY <3>1, <3>3, <2>2, <2>3, <2>4
    <3> QED
      BY <3>1, <3>2, <3>3, <2>2
  <2>6. ~Offers(Identifiers[trying])
    BY <2>5 DEF Offers
  <2>7. \A k \in 1 .. 3 : k < trying' => ~Offers(Identifiers[k])'
    <3>1. \A k \in 1 .. 3 : k < trying' => k < trying \/ k = trying
      BY <2>1, <2>2
    <3> QED
      BY <3>1, <2>6, <1>2 DEF AlpnInv
  <2>8. \A o \in offered' : ~(o.start < pos')
    BY <2>1, <1>1 DEF AlpnInv, Stands
  <2>9. trying' \in 1 .. 4 /\ selected' = None /\ pos' \in 0 .. Len(wire') /\ Boundary(wire', offered', pos')
    BY <2>1, <2>2, <1>1, <1>2
  <2> QED
    BY <1>2, <2>7, <2>8, <2>9 DEF AlpnInv
<1> QED
  BY <1>3, <1>4, <1>5, <1>6

(* select_h2 goes through every list entry by entry.                       *)
THEOREM AlpnInvHolds == AlpnSpec => []AlpnInv
<1>1. AlpnInit => AlpnInv
  BY DEF AlpnInit, AlpnInv, Boundary, Offers, None
<1>2. AlpnInv /\ [AlpnNext]_alpnVars => AlpnInv'
  <2>1. ASSUME AlpnInv, AlpnNext PROVE AlpnInv'
    BY <2>1, OfferKeeps, SearchKeeps DEF AlpnNext
  <2>2. ASSUME AlpnInv, UNCHANGED alpnVars PROVE AlpnInv'
    BY <2>2 DEF AlpnInv, alpnVars, Stands, Boundary, Offers
  <2> QED
    BY <2>1, <2>2
<1> QED
  BY <1>1, <1>2, PTL DEF AlpnSpec

(* When select_h2 is done it has found the best version on offer.          *)
LEMMA SelectsBest ==
  ASSUME AlpnInv, selected # None \/ trying = 4
  PROVE  selected = Best
<1>1. /\ Identifiers[1] = NGHTTP2_H2_ALPN
      /\ Identifiers[2] = NGHTTP2_H2_16_ALPN
      /\ Identifiers[3] = NGHTTP2_H2_14_ALPN
  BY DEF Identifiers
<1>2. \A k \in 1 .. 3 : k < trying => ~Offers(Identifiers[k])
  BY DEF AlpnInv
<1>3. CASE selected = None
  <2>1. trying = 4
    BY <1>3
  <2> QED
    BY <1>1, <1>2, <1>3, <2>1 DEF Best
<1>4. CASE selected # None
  <2>1. /\ trying \in 1 .. 3 /\ Offers(Identifiers[trying])
        /\ selected = Tail(Identifiers[trying])
    BY <1>4 DEF AlpnInv
  <2>2. CASE trying = 1
    BY <2>1, <2>2, <1>1 DEF Best
  <2>3. CASE trying = 2
    BY <2>1, <2>3, <1>1, <1>2 DEF Best
  <2>4. CASE trying = 3
    BY <2>1, <2>4, <1>1, <1>2 DEF Best
  <2> QED
    BY <2>1, <2>2, <2>3, <2>4
<1> QED
  BY <1>3, <1>4

(* The library's own list starts with h2.                                  *)
LEMMA OwnListLemma ==
  ASSUME AlpnInv, wire = get_default_alpn
  PROVE  Offers(NGHTTP2_H2_ALPN)
<1> DEFINE id == NGHTTP2_H2_ALPN
<1>1. /\ id \in Seq(Byte) /\ Len(id) = 3 /\ id[1] = 2 /\ id[2] = 104 /\ id[3] = 50
  BY DEF NGHTTP2_H2_ALPN, Byte
<1>2. Len(wire) >= 3 /\ \A i \in 1 .. 3 : wire[i] = id[i]
  <2>1. NGHTTP2_H2_16_ALPN \in Seq(Byte) /\ NGHTTP2_H2_14_ALPN \in Seq(Byte)
    BY DEF NGHTTP2_H2_16_ALPN, NGHTTP2_H2_14_ALPN, Byte
  <2>2. wire = (id \o NGHTTP2_H2_16_ALPN) \o NGHTTP2_H2_14_ALPN
    BY DEF get_default_alpn
  <2> HIDE DEF id
  <2> DEFINE two == id \o NGHTTP2_H2_16_ALPN
  <2>3. two \in Seq(Byte) /\ Len(two) >= 3 /\ \A i \in 1 .. 3 : two[i] = id[i]
    <3>1. id \in Seq(Byte)
      BY <1>1
    <3>2. /\ two \in Seq(Byte) /\ Len(two) >= Len(id)
          /\ \A i \in 1 .. Len(id) : two[i] = id[i]
      BY <3>1, <2>1, PrefixLemma, Zenon
    <3> HIDE DEF two
    <3> QED
      BY <1>1, <3>2
  <2>4. wire = two \o NGHTTP2_H2_14_ALPN
    BY <2>2
  <2> HIDE DEF two
  <2>5. /\ Len(two \o NGHTTP2_H2_14_ALPN) >= Len(two)
        /\ \A i \in 1 .. Len(two) : (two \o NGHTTP2_H2_14_ALPN)[i] = two[i]
    BY <2>1, <2>3, PrefixLemma
  <2>6. Len(wire) \in Nat /\ Len(two) \in Nat
    BY <2>3 DEF AlpnInv
  <2> QED
    BY <2>3, <2>4, <2>5, <2>6
<1> HIDE DEF id
<1>3. PICK o \in offered : o.start = 0
  BY <1>2 DEF AlpnInv, Boundary
<1>4. Stands(wire, o)
  BY DEF AlpnInv
<1>5. o.entry \in Seq(Byte) /\ Len(o.entry) >= 2 /\ o.entry[1] = Len(o.entry) - 1
  BY <1>4, ProtocolsAssumption DEF Stands
<1>6. \A i \in 1 .. Len(o.entry) : i <= Len(id) => o.entry[i] = id[i]
  BY <1>1, <1>2, <1>3, <1>4, <1>5 DEF Stands
<1>7. Len(id) >= 2 /\ id[1] = Len(id) - 1
  BY <1>1
<1>8. o.entry = id
  BY <1>1, <1>5, <1>6, <1>7, SameEntryLemma, Zenon
<1> QED
  BY <1>8 DEF Offers, id

(* Both ends agree on the best version of HTTP/2 on offer, for every list  *)
(* that a peer can send.                                                   *)
THEOREM NegotiatesHolds == AlpnSpec => []Negotiates
<1>1. AlpnInv => Negotiates
  <2> SUFFICES ASSUME AlpnInv PROVE Negotiates
    OBVIOUS
  <2>1. pos <= Len(wire)
    BY DEF AlpnInv
  <2>2. ASSUME selected # None \/ trying = 4
        PROVE  LET server == Handshake(wire, alpn_select_proto_cb, get_alpn_token, None)
                   client == Handshake(proto_list, None, wire, client_select_next_proto_cb)
                   both == Handshake(proto_list, alpn_select_proto_cb, get_alpn_token,
                                     client_select_next_proto_cb)
               IN  /\ server.alpn = Best
                   /\ client.npn = Best
                   /\ tls_h2_negotiated(server) <=> Best # None
                   /\ tls_h2_negotiated(client) <=> Best # None
                   /\ wire = get_default_alpn =>
                        tls_h2_negotiated(both) /\ both.alpn = Tail(NGHTTP2_H2_ALPN)
    <3> DEFINE server == Handshake(wire, alpn_select_proto_cb, get_alpn_token, None)
               client == Handshake(proto_list, None, wire, client_select_next_proto_cb)
               both == Handshake(proto_list, alpn_select_proto_cb, get_alpn_token,
                                 client_select_next_proto_cb)
    <3>1. alpn_select_proto_cb = Best /\ client_select_next_proto_cb = Best
      BY <2>2, SelectsBest DEF alpn_select_proto_cb, client_select_next_proto_cb
    <3>2. wire = <<>> => Best = None
      <4>1. wire = <<>> => offered = {}
        <5>1. \A o \in offered : Len(o.entry) >= 2 /\ o.start \in Nat /\ Len(o.entry) \in Nat
                                 /\ o.start + Len(o.entry) <= Len(wire)
          BY ProtocolsAssumption DEF AlpnInv, Stands
        <5> QED
          BY <5>1
      <4> QED
        BY <4>1 DEF Best, Offers
    <3>3. Best # None => check_h2_is_selected(Best)
      BY DEF Best, check_h2_is_selected, Identifiers
    <3>4. server.alpn = Best /\ server.npn = None
      BY <3>1, <3>2 DEF Handshake
    <3>5. client.npn = Best /\ client.alpn = None
      BY <3>1, <3>2 DEF Handshake
    <3>6. tls_h2_negotiated(server) <=> Best # None
      BY <3>3, <3>4 DEF tls_h2_negotiated
    <3>7. tls_h2_negotiated(client) <=> Best # None
      BY <3>3, <3>5 DEF tls_h2_negotiated
    <3>8. ASSUME wire = get_default_alpn
          PROVE  tls_h2_negotiated(both) /\ both.alpn = Tail(NGHTTP2_H2_ALPN)
      <4>1. Best = Tail(NGHTTP2_H2_ALPN)
        BY <3>8, OwnListLemma DEF Best
      <4>2. Tail(NGHTTP2_H2_ALPN) # None
        BY DEF NGHTTP2_H2_ALPN, None, Byte
      <4>3. proto_list # <<>>
        BY <4>1, <4>2, <3>2, <3>8 DEF proto_list
      <4>4. both.alpn = Tail(NGHTTP2_H2_ALPN) /\ both.npn = None
        BY <3>1, <4>1, <4>2, <4>3 DEF Handshake
      <4> QED
        BY <3>3, <4>1, <4>2, <4>4 DEF tls_h2_negotiated
    <3> QED
      BY <3>4, <3>5, <3>6, <3>7, <3>8
  <2> QED
    BY <2>1, <2>2 DEF Negotiates
<1> QED
  BY <1>1, AlpnInvHolds, PTL

-----------------------------------------------------------------------------
(* parse_uint.                                                             *)

AllDigits(s) == \A k \in 1 .. Len(s) : IsDigit(s[k])

(* The inductive invariant: as long as the loop goes on it has read digits *)
(* only and its sum is the number they denote; once it has ended it has    *)
(* met another byte, or the number is too large, and it has said so.       *)
NumberInv ==
  /\ numeral \in Seq(Bytes)
  /\ value \in Nat
  /\ scan \in [sum : Int, count : Nat, at : {"loop", "end"}]
  /\ scan.at = "loop" => /\ AllDigits(numeral)
                         /\ scan.sum = value /\ value <= MaxInt
                         /\ scan.count = Len(numeral)
  /\ scan.at = "end" => /\ numeral # <<>>
                        /\ ~AllDigits(numeral) \/ value > MaxInt
                        /\ scan.sum = -1 \/ scan.count < Len(numeral)

(* The two tests of parse_uint_digits admit exactly the digits after which *)
(* the number still fits into an int64_t, and then nothing wraps around.   *)
LEMMA FitsLemma ==
  ASSUME NEW x \in Nat, NEW d \in Nat, x <= MaxInt, d <= 9
  PROVE  /\ Fits(x, d) <=> (x * 10) + d <= MaxInt
         /\ Fits(x, d) => Wrap(Wrap(x * 10) + d) = (x * 10) + d
<1>1. MaxInt \in Nat /\ MaxInt >= 10
  BY NumberAssumption
<1>2. \A y \in Nat : y <= MaxInt => Wrap(y) = y
  BY <1>1 DEF Wrap
<1>3. x <= MaxInt \div 10 <=> x * 10 <= MaxInt
  BY <1>1
<1>4. Fits(x, d) <=> (x * 10) + d <= MaxInt
  BY <1>1, <1>2, <1>3 DEF Fits
<1> QED
  BY <1>1, <1>2, <1>4, <1>3 DEF Fits

(* A turn of the loop of parse_uint_digits keeps the invariant.            *)
LEMMA NextByteLemma ==
  ASSUME NumberInv, NextByte
  PROVE  NumberInv'
<1>1. PICK c \in Bytes :
        /\ numeral' = Append(numeral, c)
        /\ scan' = Scan(scan, c)
        /\ value' = IF IsDigit(c) THEN (value * 10) + (c - 48) ELSE value
  BY DEF NextByte
<1>2. numeral \in Seq(Bytes) /\ c \in Nat /\ value \in Nat /\ MaxInt \in Nat
  BY NumberAssumption DEF NumberInv
<1>3. /\ numeral' \in Seq(Bytes) /\ numeral' # <<>>
      /\ Len(numeral') = Len(numeral) + 1 /\ Len(numeral) \in Nat
      /\ \A k \in 1 .. Len(numeral) : numeral'[k] = numeral[k]
      /\ numeral'[Len(numeral')] = c
  BY <1>1, <1>2
<1>4. AllDigits(numeral') <=> AllDigits(numeral) /\ IsDigit(c)
  BY <1>3 DEF AllDigits
<1>5. /\ value' \in Nat
      /\ value > MaxInt => value' > MaxInt
      /\ IsDigit(c) => value' = (value * 10) + (c - 48) /\ c - 48 \in Nat /\ c - 48 <= 9
  BY <1>1, <1>2 DEF IsDigit
<1>6. CASE scan.at = "end"
  <2>1. scan' = scan
    BY <1>1, <1>6 DEF Scan
  <2> QED
    BY <1>3, <1>4, <1>5, <1>6, <2>1 DEF NumberInv
<1>7. CASE scan.at = "loop" /\ ~IsDigit(c)
  <2>1. scan' = [scan EXCEPT !.at = "end"]
    BY <1>1, <1>7 DEF Scan
  <2>2. /\ scan' \in [sum : Int, count : Nat, at : {"loop", "end"}]
        /\ scan'.at = "end" /\ scan'.count = Len(numeral)
    BY <1>7, <2>1 DEF NumberInv
  <2> QED
    BY <1>3, <1>4, <1>5, <1>7, <2>2 DEF NumberInv
<1>8. CASE scan.at = "loop" /\ IsDigit(c) /\ Fits(scan.sum, c - 48)
  <2>1. scan.sum = value /\ value <= MaxInt /\ scan.count = Len(numeral) /\ AllDigits(numeral)
    BY <1>8 DEF NumberInv
  <2>2. scan' = [sum |-> Wrap(Wrap(value * 10) + (c - 48)),
                 count |-> Len(numeral) + 1, at |-> "loop"]
    BY <1>1, <1>8, <2>1 DEF Scan
  <2>3. Wrap(Wrap(value * 10) + (c - 48)) = value' /\ value' <= MaxInt
    BY <1>2, <1>5, <1>8, <2>1, FitsLemma
  <2>4. /\ scan' = [sum |-> value', count |-> Len(numeral) + 1, at |-> "loop"]
        /\ value' <= MaxInt
    BY <2>2, <2>3
  <2> QED
    BY <1>3, <1>4, <1>5, <1>8, <2>1, <2>4 DEF NumberInv
<1>9. CASE scan.at = "loop" /\ IsDigit(c) /\ ~Fits(scan.sum, c - 48)
  <2>1. scan.sum = value /\ value <= MaxInt
    BY <1>9 DEF NumberInv
  <2>2. scan' = [sum |-> -1, count |-> 0, at |-> "end"]
    BY <1>1, <1>9 DEF Scan
  <2>3. value' > MaxInt
    BY <1>2, <1>5, <1>9, <2>1, FitsLemma
  <2> QED
    BY <1>3, <1>5, <2>2, <2>3 DEF NumberInv
<1> QED
  BY <1>6, <1>7, <1>8, <1>9 DEF NumberInv

(* The invariant of the loop of parse_uint_digits holds for every numeral, *)
(* whatever the largest integer is.                                        *)
THEOREM NumberInvHolds == NumberSpec => []NumberInv
<1>1. NumberInit => NumberInv
  BY NumberAssumption DEF NumberInit, NumberInv, ScanStart, AllDigits
<1>2. NumberInv /\ [NextByte]_numberVars => NumberInv'
  <2>1. CASE NextByte
    BY <2>1, NextByteLemma
  <2>2. CASE UNCHANGED numberVars
    BY <2>2 DEF numberVars, NumberInv
  <2> QED
    BY <2>1, <2>2
<1> QED
  BY <1>1, <1>2, PTL DEF NumberSpec

(* parse_uint returns the number that a string of digits denotes if it     *)
(* fits, and -1 for anything else, for every string and every width.       *)
THEOREM ParsesExactlyHolds == NumberSpec => []ParsesExactly
<1>1. NumberInv => ParsesExactly
  <2> SUFFICES ASSUME NumberInv PROVE ParsesExactly
    OBVIOUS
  <2>1. /\ MaxInt \in Nat /\ Len(numeral) \in Nat /\ value \in Nat
        /\ numeral # <<>> <=> Len(numeral) # 0
    BY NumberAssumption DEF NumberInv
  <2>2. CASE scan.at = "loop"
    BY <2>1, <2>2 DEF NumberInv, ParsesExactly, Parsed, AllDigits
  <2>3. CASE scan.at = "end"
    BY <2>1, <2>3 DEF NumberInv, ParsesExactly, Parsed, AllDigits
  <2> QED
    BY <2>2, <2>3 DEF NumberInv
<1> QED
  BY <1>1, NumberInvHolds, PTL

-----------------------------------------------------------------------------
(* The calendar                                                            *)

(* The days before a month, before a year, and in a year.                  *)
MonthStart(y, m) == daysum[m + 1] + (IF m >= 2 /\ Leap(y) THEN 1 ELSE 0)

YearStart(y) == (y - 1970) * 365 + count_leap_year(y) - count_leap_year(1970)

YearLength(y) == IF Leap(y) THEN 366 ELSE 365

(* The inductive invariant: the day of the year goes with month and day,   *)
(* and the number of the day with both.                                    *)
CalendarInv ==
  /\ date \in [year : Int, mon : Int, mday : Int, yday : Int, wday : Int]
  /\ date.year \in FirstYear .. LastYear
  /\ date.mon \in 0 .. 11
  /\ date.mday \in 1 .. MonthLength(date.year, date.mon)
  /\ date.yday = MonthStart(date.year, date.mon) + date.mday - 1
  /\ day = YearStart(date.year) + date.yday
  /\ date.wday = (day + 4) % 7

(* is_leap_year of timegm.c is the rule of the Gregorian calendar.         *)
LEMMA LeapLemma ==
  ASSUME NEW y \in Int
  PROVE  is_leap_year(y) <=> Leap(y)
BY DEF is_leap_year, Leap

(* daysum has the lengths of the months summed up; leap years get the day  *)
(* that timegm.c adds from March on.                                       *)
LEMMA MonthLemma ==
  ASSUME NEW y \in Int
  PROVE  /\ MonthStart(y, 0) = 0 /\ MonthLength(y, 0) = 31
         /\ \A m \in 0 .. 10 : MonthStart(y, m + 1) = MonthStart(y, m) + MonthLength(y, m)
         /\ MonthStart(y, 11) + 31 = YearLength(y) /\ MonthLength(y, 11) = 31
         /\ MonthStart(y, 11) \in Int
         /\ \A m \in 0 .. 11 : MonthStart(y, m) \in Nat /\ MonthLength(y, m) \in 28 .. 31
<1>1. CASE Leap(y)
  BY <1>1 DEF MonthStart, MonthLength, YearLength, daysum
<1>2. CASE ~Leap(y)
  BY <1>2 DEF MonthStart, MonthLength, YearLength, daysum
<1> QED
  BY <1>1, <1>2

(* A quotient grows by one at the multiples of the divisor.                *)
LEMMA QuotientLemma ==
  ASSUME NEW y \in Nat \ {0}
  PROVE  /\ y \div 4 = (y - 1) \div 4 + (IF y % 4 = 0 THEN 1 ELSE 0)
         /\ y \div 100 = (y - 1) \div 100 + (IF y % 100 = 0 THEN 1 ELSE 0)
         /\ y \div 400 = (y - 1) \div 400 + (IF y % 400 = 0 THEN 1 ELSE 0)
<1>1. y \div 4 = (y - 1) \div 4 + (IF y % 4 = 0 THEN 1 ELSE 0)
  OBVIOUS
<1>2. y \div 100 = (y - 1) \div 100 + (IF y % 100 = 0 THEN 1 ELSE 0)
  OBVIOUS
<1>3. y \div 400 = (y - 1) \div 400 + (IF y % 400 = 0 THEN 1 ELSE 0)
  OBVIOUS
<1> QED
  BY <1>1, <1>2, <1>3

(* count_leap_year counts a year exactly if it is a leap year.             *)
LEMMA YearLemma ==
  ASSUME NEW y \in Nat \ {0}
  PROVE  YearStart(y) \in Int /\ YearStart(y + 1) = YearStart(y) + YearLength(y)
<1>1. /\ count_leap_year(y) = (y - 1) \div 4 - (y - 1) \div 100 + (y - 1) \div 400
      /\ count_leap_year(y + 1) = y \div 4 - y \div 100 + y \div 400
      /\ count_leap_year(1970) \in Int
  BY DEF count_leap_year, Quot
<1>2. (y % 400 = 0 => y % 100 = 0) /\ (y % 100 = 0 => y % 4 = 0)
  OBVIOUS
<1>3. count_leap_year(y + 1) = count_leap_year(y) + (IF Leap(y) THEN 1 ELSE 0)
  BY <1>1, <1>2, QuotientLemma DEF Leap
<1>4. count_leap_year(y) \in Int /\ count_leap_year(y + 1) \in Int
  BY <1>1
<1> QED
  BY <1>1, <1>3, <1>4 DEF YearStart, YearLength

(* The day after a day is the next in number.                              *)
LEMMA TomorrowLemma ==
  ASSUME CalendarInv, NextDay
  PROVE  CalendarInv'
<1> DEFINE y == date.year
           m == date.mon
           d == date.mday
           w == (date.wday + 1) % 7
<1>1. /\ y \in Int /\ y + 1 \in Int /\ y \in Nat \ {0} /\ y + 1 \in Nat \ {0}
      /\ m \in 0 .. 11
      /\ d \in 1 .. MonthLength(y, m)
      /\ date.yday = MonthStart(y, m) + d - 1
      /\ day = YearStart(y) + date.yday
  BY YearsAssumption DEF CalendarInv
<1>2. MonthLength(y, m) \in 28 .. 31 /\ MonthStart(y, m) \in Nat /\ YearStart(y) \in Int
  BY <1>1, MonthLemma, YearLemma, Zenon
<1>3. day' = day + 1 /\ day \in Int
  BY <1>1, <1>2 DEF NextDay
<1>4. w = (day' + 4) % 7
  BY <1>3 DEF CalendarInv
<1>5. date'.year \in FirstYear .. LastYear
  BY <1>1, YearsAssumption DEF NextDay, Tomorrow, CalendarInv
<1> HIDE DEF w
<1>6. CASE d < MonthLength(y, m)
  <2>1. date' = [year |-> y, mon |-> m, mday |-> d + 1, yday |-> date.yday + 1, wday |-> w]
    BY <1>6 DEF NextDay, Tomorrow, w
  <2> QED
    BY <1>1, <1>2, <1>3, <1>4, <1>5, <1>6, <2>1 DEF CalendarInv
<1>7. CASE ~(d < MonthLength(y, m)) /\ m < 11
  <2>1. date' = [year |-> y, mon |-> m + 1, mday |-> 1, yday |-> date.yday + 1, wday |-> w]
    BY <1>7 DEF NextDay, Tomorrow, w
  <2>2. d = MonthLength(y, m) /\ m + 1 \in 0 .. 11 /\ m \in 0 .. 10
    BY <1>1, <1>2, <1>7
  <2>3. MonthStart(y, m + 1) = MonthStart(y, m) + MonthLength(y, m)
    BY <1>1, <2>2, MonthLemma, Zenon
  <2>4. MonthLength(y, m + 1) \in 28 .. 31
    BY <1>1, <2>2, MonthLemma, Zenon
  <2> QED
    BY <1>1, <1>2, <1>3, <1>4, <1>5, <2>1, <2>2, <2>3, <2>4 DEF CalendarInv
<1>8. CASE ~(d < MonthLength(y, m)) /\ m = 11
  <2>1. date' = [year |-> y + 1, mon |-> 0, mday |-> 1, yday |-> 0, wday |-> w]
    BY <1>8 DEF NextDay, Tomorrow, w
  <2>2. d = 31
    BY <1>1, <1>8 DEF MonthLength
  <2>3. /\ MonthStart(y, 11) + 31 = YearLength(y)
        /\ MonthStart(y + 1, 0) = 0
        /\ MonthLength(y + 1, 0) = 31
    BY <1>1, MonthLemma, Zenon
  <2>4. YearStart(y + 1) = YearStart(y) + YearLength(y)
    BY <1>1, YearLemma
  <2> QED
    BY <1>1, <1>2, <1>3, <1>4, <1>5, <1>8, <2>1, <2>2, <2>3, <2>4 DEF CalendarInv
<1> QED
  BY <1>1, <1>6, <1>7, <1>8

(* The day before a day is the previous in number.                         *)
LEMMA YesterdayLemma ==
  ASSUME CalendarInv, PreviousDay
  PROVE  CalendarInv'
<1> DEFINE y == date.year
           m == date.mon
           d == date.mday
           w == (date.wday + 6) % 7
<1>1. /\ y \in Int /\ y - 1 \in Int /\ y \in Nat \ {0}
      /\ m \in 0 .. 11
      /\ d \in 1 .. MonthLength(y, m)
      /\ date.yday = MonthStart(y, m) + d - 1
      /\ day = YearStart(y) + date.yday
  BY YearsAssumption DEF CalendarInv
<1>2. MonthLength(y, m) \in 28 .. 31 /\ MonthStart(y, m) \in Nat /\ YearStart(y) \in Int
  BY <1>1, MonthLemma, YearLemma, Zenon
<1>3. day' = day - 1 /\ day \in Int
  BY <1>1, <1>2 DEF PreviousDay
<1>4. w = (day' + 4) % 7
  BY <1>3, SMTT(20) DEF CalendarInv
<1>5. date'.year \in FirstYear .. LastYear
  BY <1>1, YearsAssumption DEF PreviousDay, Yesterday, CalendarInv
<1> HIDE DEF w
<1>6. CASE d > 1
  <2>1. date' = [year |-> y, mon |-> m, mday |-> d - 1, yday |-> date.yday - 1, wday |-> w]
    BY <1>6 DEF PreviousDay, Yesterday, w
  <2> QED
    BY <1>1, <1>2, <1>3, <1>4, <1>5, <1>6, <2>1 DEF CalendarInv
<1>7. CASE ~(d > 1) /\ m > 0
  <2>1. date' = [year |-> y, mon |-> m - 1, mday |-> MonthLength(y, m - 1),
                 yday |-> date.yday - 1, wday |-> w]
    BY <1>7 DEF PreviousDay, Yesterday, w
  <2>2. d = 1 /\ m - 1 \in 0 .. 10 /\ m - 1 \in 0 .. 11 /\ (m - 1) + 1 = m
    BY <1>1, <1>2, <1>7
  <2>3. /\ MonthStart(y, m) = MonthStart(y, m - 1) + MonthLength(y, m - 1)
        /\ MonthStart(y, m - 1) \in Nat
        /\ MonthLength(y, m - 1) \in 28 .. 31
    BY <1>1, <2>2, MonthLemma, Zenon
  <2> QED
    BY <1>1, <1>2, <1>3, <1>4, <1>5, <2>1, <2>2, <2>3 DEF CalendarInv
<1>8. CASE ~(d > 1) /\ m = 0
  <2>1. date' = [year |-> y - 1, mon |-> 11, mday |-> 31,
                 yday |-> IF Leap(y - 1) THEN 365 ELSE 364, wday |-> w]
    BY <1>8 DEF PreviousDay, Yesterday, w
  <2>2. y - 1 \in Nat \ {0} /\ (y - 1) + 1 = y
    BY <1>1, <1>5, <2>1, YearsAssumption
  <2>3. /\ MonthStart(y, 0) = 0
        /\ MonthStart(y - 1, 11) + 31 = YearLength(y - 1)
        /\ MonthStart(y - 1, 11) \in Int
        /\ MonthLength(y - 1, 11) = 31
    BY <1>1, MonthLemma, Zenon
  <2>4. YearStart(y) = YearStart(y - 1) + YearLength(y - 1) /\ YearStart(y - 1) \in Int
    BY <2>2, YearLemma
  <2>5. date'.yday = YearLength(y - 1) - 1
    BY <2>1 DEF YearLength
  <2> QED
    BY <1>1, <1>2, <1>3, <1>4, <1>5, <1>8, <2>1, <2>2, <2>3, <2>4, <2>5 DEF CalendarInv
<1> QED
  BY <1>1, <1>6, <1>7, <1>8

(* The inductive invariant of the calendar.                                *)
THEOREM CalendarInvHolds == CalendarSpec => []CalendarInv
<1>1. CalendarInit => CalendarInv
  <2> SUFFICES ASSUME CalendarInit PROVE CalendarInv
    OBVIOUS
  <2>1. MonthStart(1970, 0) = 0 /\ MonthLength(1970, 0) \in 28 .. 31
    BY MonthLemma
  <2>2. YearStart(1970) = 0
    BY DEF YearStart, count_leap_year, Quot
  <2> QED
    BY <2>1, <2>2, YearsAssumption DEF CalendarInit, CalendarInv
<1>2. CalendarInv /\ [CalendarNext]_calendarVars => CalendarInv'
  <2> SUFFICES ASSUME CalendarInv, [CalendarNext]_calendarVars PROVE CalendarInv'
    OBVIOUS
  <2>1. CASE NextDay
    BY <2>1, TomorrowLemma
  <2>2. CASE PreviousDay
    BY <2>2, YesterdayLemma
  <2>3. CASE UNCHANGED calendarVars
    BY <2>3 DEF calendarVars, CalendarInv
  <2> QED
    BY <2>1, <2>2, <2>3 DEF CalendarNext
<1> QED
  BY <1>1, <1>2, PTL DEF CalendarSpec

(* The numbers that have two and four digits.                              *)
TwoDigits == { k \in Nat : k < 100 }

FourDigits == { k \in Nat : k < 10000 }

(* cpydig writes the digits of a number that has no more of them.          *)
LEMMA TwoLemma ==
  ASSUME NEW k \in TwoDigits
  PROVE  Two(cpydig2(k)) = k
BY DEF TwoDigits, Two, cpydig2

(* cpydig writes four digits that read back as the number.                 *)
LEMMA FourLemma ==
  ASSUME NEW k \in FourDigits
  PROVE  Four(cpydig4(k)) = k
<1>1. k \in Nat /\ k < 10000
  BY DEF FourDigits
<1>2. k = (k \div 10) * 10 + (k % 10) /\ k \div 10 \in Nat
  BY <1>1
<1>3. k \div 10 = (k \div 100) * 10 + ((k \div 10) % 10) /\ k \div 100 \in Nat
  BY <1>1
<1>4. k \div 100 = (k \div 1000) * 10 + ((k \div 100) % 10) /\ k \div 1000 \in Nat
  BY <1>1
<1>5. (k \div 1000) % 10 = k \div 1000
  BY <1>1
<1>6. ((k \div 1000) % 10) * 1000 + ((k \div 100) % 10) * 100
        + ((k \div 10) % 10) * 10 + (k % 10) = k
  BY <1>1, <1>2, <1>3, <1>4, <1>5
<1> QED
  BY <1>6 DEF Four, cpydig4

(* The hour, the minute and the second make up the second of the day.      *)
LEMMA ClockLemma ==
  ASSUME NEW second \in Times
  PROVE  /\ Hour(second) \in TwoDigits
         /\ Minute(second) \in TwoDigits
         /\ Second(second) \in TwoDigits
         /\ SecondOfDay(Hour(second), Minute(second), Second(second)) = second
<1>1. second \in Nat /\ second < 86400
  BY TimesAssumption
<1>2. second = (second \div 60) * 60 + (second % 60) /\ second \div 60 \in Nat
  BY <1>1
<1>3. second \div 60 = (second \div 3600) * 60 + ((second \div 60) % 60)
  BY <1>1
<1>4. /\ second \div 3600 \in Nat /\ second \div 3600 < 24
      /\ (second \div 60) % 60 \in Nat /\ (second \div 60) % 60 < 60
      /\ second % 60 \in Nat /\ second % 60 < 60
  BY <1>1
<1> QED
  BY <1>1, <1>2, <1>3, <1>4 DEF Hour, Minute, Second, SecondOfDay, TwoDigits

(* The digits that http_date writes give the fields of gmtime_r: none of   *)
(* them is longer than what it has room for.                               *)
LEMMA ReadLemma ==
  ASSUME CalendarInv, NEW second \in Times
  PROVE  Read(http_date(gmtime_r(date, second))) =
           [mday |-> date.mday, mon |-> date.mon, year |-> date.year - 1900,
            hour |-> Hour(second), min |-> Minute(second), sec |-> Second(second)]
<1>1. date.mday \in TwoDigits
  <2>1. /\ date.year \in Int
        /\ date.mon \in 0 .. 11
        /\ date.mday \in 1 .. MonthLength(date.year, date.mon)
    BY DEF CalendarInv
  <2>2. MonthLength(date.year, date.mon) \in 28 .. 31
    BY <2>1, MonthLemma, Zenon
  <2> QED
    BY <2>1, <2>2 DEF TwoDigits
<1>2. date.year \in FourDigits /\ (date.year - 1900) + 1900 = date.year
  BY YearsAssumption DEF CalendarInv, FourDigits
<1> DEFINE text == http_date(gmtime_r(date, second))
<1>3. /\ text.mday = cpydig2(date.mday)
      /\ text.mon = date.mon
      /\ text.year = cpydig4(date.year)
      /\ text.hour = cpydig2(Hour(second))
      /\ text.min = cpydig2(Minute(second))
      /\ text.sec = cpydig2(Second(second))
  <2> DEFINE tm == gmtime_r(date, second)
  <2>1. /\ tm.mday = date.mday /\ tm.mon = date.mon /\ tm.year = date.year - 1900
        /\ tm.hour = Hour(second) /\ tm.min = Minute(second) /\ tm.sec = Second(second)
    BY DEF gmtime_r
  <2>2. tm.year + 1900 = date.year
    BY <1>2, <2>1
  <2> HIDE DEF tm
  <2>3. text = http_date(tm)
    BY DEF tm
  <2> HIDE DEF text
  <2>4. /\ text.mday = cpydig2(tm.mday) /\ text.mon = tm.mon
        /\ text.year = cpydig4(tm.year + 1900) /\ text.hour = cpydig2(tm.hour)
        /\ text.min = cpydig2(tm.min) /\ text.sec = cpydig2(tm.sec)
    BY <2>3 DEF http_date
  <2> QED
    BY <2>1, <2>2, <2>4
<1> HIDE DEF text
<1>4. /\ Two(text.mday) = date.mday
      /\ Two(text.hour) = Hour(second)
      /\ Two(text.min) = Minute(second)
      /\ Two(text.sec) = Second(second)
  BY <1>1, <1>3, ClockLemma, TwoLemma
<1>5. Four(text.year) = date.year
  BY <1>2, <1>3, FourLemma
<1>6. Read(text) = [mday |-> date.mday, mon |-> date.mon, year |-> date.year - 1900,
                    hour |-> Hour(second), min |-> Minute(second), sec |-> Second(second)]
  BY <1>3, <1>4, <1>5, SMTT(20) DEF Read
<1> QED
  BY <1>6 DEF text

(* DatesReadBack, in every year of four digits: http_date's text read back *)
(* through nghttp2_timegm_without_yday, and gmtime_r's fields through      *)
(* nghttp2_timegm, are the second they were made for.                      *)
THEOREM DatesReadBackHolds == CalendarSpec => []DatesReadBack
<1>1. CalendarInv => DatesReadBack
  <2> SUFFICES ASSUME CalendarInv, NEW second \in Times
               PROVE  LET tm == gmtime_r(date, second)
                          text == http_date(tm)
                      IN  /\ nghttp2_timegm_without_yday(Read(text)) = <<day, second>>
                          /\ nghttp2_timegm(tm) = <<day, second>>
                          /\ text.wday = (day + 4) % 7
                          /\ \A then \in Times :
                               \A cache \in { Cached(Yesterday(date), day - 1, then),
                                              Cached(date, day, then),
                                              Cached(Tomorrow(date), day + 1, then) } :
                                 Refresh(cache, second).formatted = text
    BY DEF DatesReadBack
  <2> DEFINE tm == gmtime_r(date, second)
             text == http_date(tm)
             read == Read(text)
  <2>1. SecondOfDay(Hour(second), Minute(second), Second(second)) = second
    BY ClockLemma
  <2>2. /\ date.year \in Int /\ (date.year - 1900) + 1900 = date.year
        /\ (date.year - 1900) - 70 = date.year - 1970
        /\ date.mon \in 0 .. 11
        /\ date.yday \in Int /\ date.mday \in Int
        /\ date.yday = MonthStart(date.year, date.mon) + date.mday - 1
        /\ day = YearStart(date.year) + date.yday
        /\ date.wday = (day + 4) % 7
    BY DEF CalendarInv
  <2>3. /\ YearStart(date.year) \in Int
        /\ MonthStart(date.year, date.mon) \in Int
    <3>1. date.year \in Nat \ {0}
      BY YearsAssumption DEF CalendarInv
    <3>2. MonthStart(date.year, date.mon) \in Nat
      <4>1. date.year \in Int /\ date.mon \in 0 .. 11
        BY <2>2
      <4> QED
        BY <4>1, MonthLemma, Zenon
    <3> QED
      BY <3>1, <3>2, YearLemma
  <2>4. nghttp2_timegm_without_yday(read) = <<day, second>>
    <3>1. read = [mday |-> date.mday, mon |-> date.mon, year |-> date.year - 1900,
                  hour |-> Hour(second), min |-> Minute(second), sec |-> Second(second)]
      BY ReadLemma
    <3> HIDE DEF read
    <3>2. DaysBeforeYear(read) = YearStart(date.year)
      BY <2>2, <3>1 DEF DaysBeforeYear, YearStart
    <3>3. daysum[date.mon + 1] \in Int
      BY <2>2 DEF daysum
    <3>4. is_leap_year(date.year) <=> Leap(date.year)
      BY <2>2, LeapLemma
    <3>5. read.mon = date.mon /\ read.mday = date.mday /\ read.year + 1900 = date.year
      BY <2>2, <3>1
    <3>6. DaysBeforeYear(read) + daysum[read.mon + 1] + read.mday - 1
            + (IF read.mon >= 2 /\ is_leap_year(read.year + 1900) THEN 1 ELSE 0) = day
      BY <2>2, <2>3, <3>2, <3>3, <3>4, <3>5 DEF MonthStart
    <3>7. SecondOfDay(read.hour, read.min, read.sec) = second
      BY <2>1, <3>1
    <3> QED
      BY <3>6, <3>7 DEF nghttp2_timegm_without_yday, Seconds
  <2>5. nghttp2_timegm(tm) = <<day, second>>
    <3>1. /\ tm.year = date.year - 1900 /\ tm.yday = date.yday
          /\ SecondOfDay(tm.hour, tm.min, tm.sec) = second
      BY <2>1 DEF gmtime_r
    <3> HIDE DEF tm
    <3>2. DaysBeforeYear(tm) = YearStart(date.year)
      BY <2>2, <3>1, SMTT(20) DEF DaysBeforeYear, YearStart
    <3> QED
      BY <2>2, <3>1, <3>2 DEF nghttp2_timegm, Seconds
  <2>6. text.wday = (day + 4) % 7
    BY <2>2, SMTT(20) DEF http_date, gmtime_r
  <2>7. ASSUME NEW then \in Times,
               NEW cache \in { Cached(Yesterday(date), day - 1, then),
                               Cached(date, day, then),
                               Cached(Tomorrow(date), day + 1, then) }
        PROVE  Refresh(cache, second).formatted = text
    <3>1. day \in Int
      BY <2>2, <2>3
    <3>2. Cached(date, day, second).formatted = text
      BY DEF Cached
    <3>3. CASE <<day, second>> = cache.tstamp
      <4>1. cache.tstamp[1] = day /\ cache.tstamp[2] = second
        BY <3>3
      <4>2. cache = Cached(date, day, then)
        BY <3>1, <4>1 DEF Cached
      <4>3. then = second
        BY <4>1, <4>2 DEF Cached
      <4> QED
        BY <3>2, <3>3, <4>2, <4>3 DEF Refresh
    <3>4. CASE <<day, second>> # cache.tstamp
      BY <3>2, <3>4 DEF Refresh
    <3> QED
      BY <3>3, <3>4
  <2> QED
    BY <2>4, <2>5, <2>6, <2>7, SMTT(20)
<1> QED
  BY <1>1, CalendarInvHolds, PTL

-----------------------------------------------------------------------------
(* BlockAllocator.                                                         *)

(* Rounding up to a multiple of 16 does not go below the number.           *)
LEMMA AlignLemma ==
  ASSUME NEW x \in Nat
  PROVE  Align(x) \in Nat /\ x <= Align(x)
BY DEF Align

(* What handing out a region of a block needs: the region is inside the    *)
(* block, and behind every region of that block.                           *)
LEMMA HandLemma ==
  ASSUME Inv,
         NEW blk \in 1 .. n', NEW at \in Nat, NEW len \in Nat,
         n' \in Nat, n <= n', end' \in [1 .. n' -> Nat],
         \A b \in 1 .. n : end'[b] = end[b],
         Hand(blk, at, len),
         Word <= at, at + len <= end'[blk],
         \A r \in regions : r.blk = blk => r.at + r.len <= at - Word
  PROVE  InBounds' /\ Disjoint' /\ regions' \subseteq Region
<1> DEFINE new == [blk |-> blk, at |-> at, len |-> len]
<1>1. regions' = regions \cup {new}
  BY DEF Hand
<1>2. new \in Region /\ new.blk = blk /\ new.at = at /\ new.len = len
  BY DEF Region
<1>3. \A r \in regions : r.blk \in Nat /\ r.at \in Nat /\ r.len \in Nat
  BY DEF Inv, TypeOK, Region
<1> HIDE DEF new
<1>4. regions' \subseteq Region
  BY <1>1, <1>2 DEF Inv, TypeOK
<1>5. InBounds'
  <2> SUFFICES ASSUME NEW r \in regions'
               PROVE  r.blk \in 1 .. n' /\ Word <= r.at /\ r.at + r.len <= end'[r.blk]
    BY DEF InBounds
  <2>1. CASE r = new
    BY <2>1, <1>2
  <2>2. CASE r \in regions
    <3>1. r.blk \in 1 .. n /\ Word <= r.at /\ r.at + r.len <= end[r.blk]
      BY <2>2 DEF Inv, InBounds
    <3>2. n \in Nat
      BY DEF Inv, TypeOK
    <3> QED
      BY <3>1, <3>2
  <2> QED
    BY <1>1, <2>1, <2>2
<1>6. Disjoint'
  <2> SUFFICES ASSUME NEW r \in regions', NEW q \in regions', r # q, r.blk = q.blk
               PROVE  \/ r.at + r.len <= q.at - Word
                      \/ q.at + q.len <= r.at - Word
    BY DEF Disjoint
  <2>1. CASE r \in regions /\ q \in regions
    BY <2>1 DEF Inv, Disjoint
  <2>2. CASE r \in regions /\ q = new
    BY <2>2, <1>2
  <2>3. CASE r = new /\ q \in regions
    BY <2>3, <1>2
  <2> QED
    BY <1>1, <2>1, <2>2, <2>3
<1> QED
  BY <1>4, <1>5, <1>6

(* alloc_mem_block adds a block and leaves the others alone.               *)
LEMMA BlockLemma ==
  ASSUME Inv, NEW size \in Nat, alloc_mem_block(size)
  PROVE  /\ n \in Nat /\ n' = n + 1
         /\ end' \in [1 .. n' -> Nat]
         /\ \A b \in 1 .. n : end'[b] = end[b]
         /\ end'[n + 1] = size
         /\ \A r \in regions : r.blk # n + 1
<1>1. n \in Nat /\ end \in [1 .. n -> Nat]
  BY DEF Inv, TypeOK
<1>2. n' = n + 1 /\ end' = [b \in 1 .. n + 1 |-> IF b = n + 1 THEN size ELSE end[b]]
  BY DEF alloc_mem_block
<1>3. \A r \in regions : r.blk \in 1 .. n
  BY DEF Inv, InBounds
<1> QED
  BY <1>1, <1>2, <1>3

(* alloc preserves the invariant, in each of its three ways.               *)
LEMMA AllocLemma ==
  ASSUME Inv, NEW size \in Nat, alloc(size)
  PROVE  Inv'
<1> USE WordAssumption, ThresholdAssumption
<1>0. /\ n \in Nat /\ end \in [1 .. n -> Nat] /\ head \in 0 .. n /\ last \in Nat
      /\ \A r \in regions : r.blk \in 1 .. n /\ r.at \in Nat /\ r.len \in Nat
  BY DEF Inv, TypeOK, InBounds, Region
<1>1. CASE AllocIsolated(size)
  <2> DEFINE len == Max2(16, size)
  <2>1. len \in Nat /\ len + Word \in Nat
    BY DEF Max2
  <2>2. alloc_mem_block(len + Word) /\ Hand(n + 1, Word, len) /\ UNCHANGED <<head, last>>
    BY <1>1 DEF AllocIsolated
  <2> HIDE DEF len
  <2>3. /\ n' = n + 1
        /\ end' \in [1 .. n' -> Nat]
        /\ \A b \in 1 .. n : end'[b] = end[b]
        /\ end'[n + 1] = len + Word
        /\ \A r \in regions : r.blk # n + 1
    BY <2>1, <2>2, BlockLemma
  <2>4. /\ n + 1 \in 1 .. n' /\ Word \in Nat /\ n' \in Nat /\ n <= n'
        /\ Word <= Word /\ Word + len <= end'[n + 1]
        /\ \A r \in regions : r.blk = n + 1 => r.at + r.len <= Word - Word
    BY <1>0, <2>1, <2>3
  <2>5. InBounds' /\ Disjoint' /\ regions' \subseteq Region
    BY <2>1, <2>2, <2>3, <2>4, HandLemma
  <2>6. TypeOK'
    BY <1>0, <2>2, <2>3, <2>5 DEF TypeOK
  <2>7. BelowLast'
    <3> SUFFICES ASSUME NEW r \in regions', r.blk = head'
                 PROVE  r.at + r.len <= last'
      BY DEF BelowLast
    <3>1. r \in regions
      BY <1>0, <2>2 DEF Hand
    <3> QED
      BY <2>2, <3>1 DEF Inv, BelowLast
  <2> QED
    BY <2>5, <2>6, <2>7 DEF Inv
<1>2. CASE AllocNewHead(size)
  <2>1. /\ size + Word < Isolation /\ alloc_mem_block(BlockSize) /\ head' = n + 1
        /\ Hand(n + 1, Word, size) /\ last' = Align(Word + size)
    BY <1>2 DEF AllocNewHead
  <2>2. Align(Word + size) \in Nat /\ Word + size <= Align(Word + size)
    BY AlignLemma
  <2>3. /\ n' = n + 1
        /\ end' \in [1 .. n' -> Nat]
        /\ \A b \in 1 .. n : end'[b] = end[b]
        /\ end'[n + 1] = BlockSize
        /\ \A r \in regions : r.blk # n + 1
    BY <2>1, BlockLemma
  <2>4. /\ n + 1 \in 1 .. n' /\ Word \in Nat /\ n' \in Nat /\ n <= n'
        /\ Word <= Word /\ Word + size <= end'[n + 1]
        /\ \A r \in regions : r.blk = n + 1 => r.at + r.len <= Word - Word
    BY <1>0, <2>1, <2>3
  <2>5. InBounds' /\ Disjoint' /\ regions' \subseteq Region
    BY <2>1, <2>3, <2>4, HandLemma
  <2>6. TypeOK'
    BY <1>0, <2>1, <2>2, <2>3, <2>5 DEF TypeOK
  <2>7. BelowLast'
    <3> SUFFICES ASSUME NEW r \in regions', r.blk = head'
                 PROVE  r.at + r.len <= last'
      BY DEF BelowLast
    <3>1. r = [blk |-> n + 1, at |-> Word, len |-> size]
      BY <2>1, <2>3 DEF Hand
    <3> QED
      BY <2>1, <2>2, <3>1
  <2> QED
    BY <2>5, <2>6, <2>7 DEF Inv
<1>3. CASE AllocHead(size)
  <2>1. /\ Room(size) /\ Hand(head, last + Word, size)
        /\ last' = Align(last + Word + size) /\ UNCHANGED <<n, end, head>>
    BY <1>3 DEF AllocHead
  <2>2. last + Word + size \in Nat
    BY <1>0
  <2>3. Align(last + Word + size) \in Nat /\ last + Word + size <= Align(last + Word + size)
    BY <2>2, AlignLemma
  <2>4. /\ head \in 1 .. n' /\ last + Word \in Nat /\ n' \in Nat /\ n <= n'
        /\ end' \in [1 .. n' -> Nat]
        /\ \A b \in 1 .. n : end'[b] = end[b]
        /\ Word <= last + Word /\ (last + Word) + size <= end'[head]
        /\ \A r \in regions : r.blk = head => r.at + r.len <= (last + Word) - Word
    BY <1>0, <2>1 DEF Room, Inv, BelowLast
  <2>5. InBounds' /\ Disjoint' /\ regions' \subseteq Region
    BY <2>1, <2>4, HandLemma
  <2>6. TypeOK'
    BY <1>0, <2>1, <2>3, <2>5 DEF TypeOK
  <2>7. BelowLast'
    <3> SUFFICES ASSUME NEW r \in regions', r.blk = head'
                 PROVE  r.at + r.len <= last'
      BY DEF BelowLast
    <3>1. CASE r \in regions
      <4>1. r.at + r.len <= last
        BY <2>1, <3>1 DEF Inv, BelowLast
      <4> QED
        BY <1>0, <2>1, <2>3, <3>1, <4>1
    <3>2. CASE r = [blk |-> head, at |-> last + Word, len |-> size]
      BY <2>1, <2>3, <3>2
    <3> QED
      BY <2>1, <3>1, <3>2 DEF Hand
  <2> QED
    BY <2>5, <2>6, <2>7 DEF Inv
<1> QED
  BY <1>1, <1>2, <1>3 DEF alloc

(* The invariant holds in every state of every behaviour.                  *)
THEOREM InvHolds == Spec => []Inv
<1>1. Init => Inv
  BY DEF Init, Inv, TypeOK, InBounds, Disjoint, BelowLast
<1>2. Inv /\ [Next]_vars => Inv'
  <2> SUFFICES ASSUME Inv, [Next]_vars
               PROVE  Inv'
    OBVIOUS
  <2>1. ASSUME NEW size \in Sizes, alloc(size)
        PROVE  Inv'
    BY <2>1, SizesAssumption, AllocLemma
  <2>2. ASSUME NEW r \in regions, NEW size \in Sizes, realloc(r, size)
        PROVE  Inv'
    <3>1. Max2(size + 1, 2 * r.len) \in Nat
      BY SizesAssumption DEF Inv, TypeOK, Region, Max2
    <3> QED
      BY <2>2, <3>1, AllocLemma DEF realloc
  <2>3. CASE reset
    BY <2>3 DEF reset, Inv, TypeOK, InBounds, Disjoint, BelowLast
  <2>4. CASE UNCHANGED vars
    BY <2>4 DEF vars, Inv, TypeOK, InBounds, Disjoint, BelowLast
  <2> QED
    BY <2>1, <2>2, <2>3, <2>4 DEF Next
<1> QED
  BY <1>1, <1>2, PTL DEF Spec

(* Nothing handed out reaches beyond its block.                            *)
THEOREM InBoundsHolds == Spec => []InBounds
BY InvHolds, PTL DEF Inv

(* Nothing handed out overlaps anything else handed out.                   *)
THEOREM DisjointHolds == Spec => []Disjoint
BY InvHolds, PTL DEF Inv

=============================================================================
