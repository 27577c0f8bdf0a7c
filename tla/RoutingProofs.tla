--------------------------- MODULE RoutingProofs ----------------------------
(***************************************************************************)
(* Proofs about serve_mux and about path_join, which sanitizes its request *)
(* paths, for all patterns, hosts and paths.                               *)
(***************************************************************************)
EXTENDS ServeMux, PathWalk, WellFoundedInduction, TLAPS

-----------------------------------------------------------------------------
(* Sets of numbers and texts.                                              *)

(* A set of natural numbers has a least element: the searches of the code, *)
(* which are written with Min and Max, find something.                     *)
LEMMA LeastLemma ==
  ASSUME NEW S, S \subseteq Nat, S # {}
  PROVE  \E x \in S : \A y \in S : x <= y
<1> DEFINE R == OpToRel(<, Nat)
<1>1. IsWellFoundedOn(R, Nat)
  BY NatLessThanWellFounded, Zenon
<1>2. PICK x \in S : \A y \in S : ~(<<y, x>> \in R)
  BY <1>1, WFMin, Zenon
<1>3. \A y \in S : x <= y
  <2> SUFFICES ASSUME NEW y \in S PROVE x <= y
    OBVIOUS
  <2>1. x \in Nat /\ y \in Nat
    OBVIOUS
  <2>2. ~(y < x)
    BY <1>2, <2>1, Zenon DEF OpToRel
  <2> QED
    BY <2>1, <2>2
<1> QED
  BY <1>3

(* A set of natural numbers that is bounded has a greatest element.        *)
LEMMA GreatestLemma ==
  ASSUME NEW S, NEW bound \in Nat, S \subseteq 0 .. bound, S # {}
  PROVE  \E x \in S : \A y \in S : y <= x
<1> DEFINE T == {bound - x : x \in S}
<1>1. T \subseteq Nat /\ T # {}
  <2>1. \A x \in 0 .. bound : bound - x \in Nat
    OBVIOUS
  <2>2. \A x \in S : bound - x \in Nat
    BY <2>1, Zenon
  <2> QED
    BY <2>2, Zenon
<1>2. PICK t \in T : \A u \in T : t <= u
  BY <1>1, LeastLemma, Zenon
<1>3. PICK x \in S : t = bound - x
  BY Zenon
<1>4. \A y \in S : y <= x
  <2> SUFFICES ASSUME NEW y \in S PROVE y <= x
    BY Zenon
  <2>1. bound - y \in T
    BY Zenon
  <2>2. x \in 0 .. bound /\ y \in 0 .. bound
    BY Zenon
  <2> HIDE DEF T
  <2> QED
    BY <1>2, <1>3, <2>1, <2>2
<1> QED
  BY <1>4

(* FirstSlash finds the first slash, if there is one.                      *)
LEMMA FirstSlashLemma ==
  ASSUME NEW s \in Text
  PROVE  /\ FirstSlash(s) \in 0 .. Len(s)
         /\ FirstSlash(s) # 0 => s[FirstSlash(s)] = "/"
         /\ \A i \in 1 .. Len(s) :
              s[i] = "/" => FirstSlash(s) # 0 /\ FirstSlash(s) <= i
<1> DEFINE I == {i \in 1 .. Len(s) : s[i] = "/"}
<1>1. FirstSlash(s) = IF I # {} THEN Min(I) ELSE 0
  BY DEF FirstSlash, Slashes
<1>2. Len(s) \in Nat
  BY DEF Text
<1>3. CASE I = {}
  BY <1>1, <1>2, <1>3
<1>4. CASE I # {}
  <2>1. I \subseteq Nat
    BY <1>2
  <2>2. \E x \in I : \A y \in I : x <= y
    BY <1>4, <2>1, LeastLemma, Zenon
  <2>3. Min(I) \in I /\ \A y \in I : Min(I) <= y
    BY <2>2, Zenon DEF Min
  <2>4. FirstSlash(s) \in I /\ \A y \in I : FirstSlash(s) <= y
    BY <1>1, <1>4, <2>3
  <2> QED
    BY <1>2, <2>4
<1> QED
  BY <1>3, <1>4

-----------------------------------------------------------------------------
(* serve_mux                                                               *)

(* A slash is a text.                                                      *)
LEMMA SlashLemma == <<"/">> \in Text /\ Len(<<"/">>) = 1 /\ <<"/">>[1] = "/"
BY CharsAssumption DEF Text

(* Two texts one after the other are a text.                               *)
LEMMA JoinedLemma ==
  ASSUME NEW s \in Text, NEW t \in Text
  PROVE  /\ s \o t \in Text
         /\ Len(s) \in Nat /\ Len(t) \in Nat
         /\ Len(s \o t) = Len(s) + Len(t)
         /\ \A i \in 1 .. Len(s) : (s \o t)[i] = s[i]
         /\ \A i \in 1 .. Len(t) : (s \o t)[Len(s) + i] = t[i]
<1>1. /\ s \o t \in Text
      /\ Len(s) \in Nat /\ Len(t) \in Nat
      /\ Len(s \o t) = Len(s) + Len(t)
      /\ \A i \in 1 .. Len(s) + Len(t) :
           (s \o t)[i] = IF i <= Len(s) THEN s[i] ELSE t[i - Len(s)]
  BY DEF Text
<1>2. ASSUME NEW i \in 1 .. Len(t)
      PROVE  (s \o t)[Len(s) + i] = t[i]
  <2>1. /\ Len(s) + i \in 1 .. Len(s) + Len(t) /\ ~(Len(s) + i <= Len(s))
        /\ (Len(s) + i) - Len(s) = i
    BY <1>1
  <2> QED
    BY <1>1, <2>1, Zenon
<1> QED
  BY <1>1, <1>2

(* What handle() adds a redirect for: the pattern without its last slash.  *)
LEMMA FrontLemma ==
  ASSUME NEW p \in Text, Len(p) >= 2, LastOf(p) = "/"
  PROVE  ButLast(p) \in Text \ {<<>>} /\ ButLast(p) \o <<"/">> = p
<1>1. Len(p) \in Nat
  BY DEF Text
<1>2. \A i \in 1 .. Len(p) - 1 : p[i] \in Chars
  BY <1>1 DEF Text
<1>3. /\ ButLast(p) \in Text
      /\ Len(ButLast(p)) = Len(p) - 1
      /\ \A i \in 1 .. Len(p) - 1 : ButLast(p)[i] = p[i]
  BY <1>1, <1>2 DEF ButLast, Text
<1> DEFINE d == ButLast(p)
           q == d \o <<"/">>
<1>4. /\ q \in Text
      /\ Len(q) = Len(p)
      /\ \A i \in 1 .. Len(p) - 1 : q[i] = p[i]
      /\ q[Len(p)] = "/"
  <2> HIDE DEF d
  <2>1. /\ q \in Text /\ Len(q) = Len(d) + 1
        /\ \A i \in 1 .. Len(d) : q[i] = d[i]
        /\ q[Len(d) + 1] = "/"
    <3> DEFINE slash == <<"/">>
    <3>1. d \in Text /\ slash \in Text /\ Len(slash) = 1 /\ slash[1] = "/"
      BY <1>3, SlashLemma DEF d
    <3> HIDE DEF slash
    <3>2. /\ d \o slash \in Text /\ Len(d \o slash) = Len(d) + Len(slash)
          /\ \A i \in 1 .. Len(d) : (d \o slash)[i] = d[i]
          /\ \A i \in 1 .. Len(slash) : (d \o slash)[Len(d) + i] = slash[i]
      BY <3>1, JoinedLemma, Zenon
    <3>3. q = d \o slash
      BY DEF slash
    <3>4. 1 \in 1 .. Len(slash)
      BY <3>1
    <3> QED
      BY <3>1, <3>2, <3>3, <3>4, Zenon
  <2>2. Len(d) = Len(p) - 1 /\ \A i \in 1 .. Len(d) : d[i] = p[i]
    BY <1>3 DEF d
  <2> HIDE DEF q
  <2> QED
    BY <1>1, <2>1, <2>2
<1>5. \A i \in 1 .. Len(p) : q[i] = p[i]
  <2> HIDE DEF q
  <2> QED
    BY <1>1, <1>4 DEF LastOf
<1>6. q = p
  BY <1>4, <1>5 DEF Text
<1>7. ButLast(p) # <<>>
  BY <1>1, <1>3
<1> QED
  BY <1>3, <1>6, <1>7

(* A set of texts none of which is longer than a number has a longest one. *)
LEMMA LongestLemma ==
  ASSUME NEW S, NEW bound \in Nat, S \subseteq Text, S # {},
         \A p \in S : Len(p) <= bound
  PROVE  Longest(S) \in S
<1> DEFINE L == {Len(p) : p \in S}
<1>1. \A p \in S : Len(p) \in Nat
  BY DEF Text
<1>2. L \subseteq 0 .. bound /\ L # {}
  <2>1. \A p \in S : Len(p) \in 0 .. bound
    BY <1>1
  <2> QED
    BY <2>1, Zenon
<1>3. PICK x \in L : \A y \in L : y <= x
  BY <1>2, GreatestLemma, Zenon
<1>4. \E p \in S : \A q \in S : Len(q) <= Len(p)
  BY <1>3, Zenon
<1> QED
  BY <1>4 DEF Longest

(* An entry of mux_ is the handler of an accepted pattern, or leads to one.*)
Entry(m, a, p) ==
  \/ m[p] = User(p) /\ p \in a
  \/ m[p] = Redirect(PathOf(p \o <<"/">>)) /\ p \o <<"/">> \in a

(* The inductive invariant: mux_ has a key for each accepted pattern and   *)
(* for each directory's name, and no other.                                *)
MuxInv ==
  /\ accepted \subseteq Patterns
  /\ DOMAIN mux = accepted \cup Implicit
  /\ \A p \in DOMAIN mux : Entry(mux, accepted, p)

(* The keys of mux_ are texts that are not empty.                          *)
LEMMA KeysLemma ==
  ASSUME MuxInv
  PROVE  DOMAIN mux \subseteq Text \ {<<>>}
<1> SUFFICES ASSUME NEW p \in DOMAIN mux PROVE p \in Text \ {<<>>}
  OBVIOUS
<1>1. CASE p \in accepted
  BY <1>1, PatternsAssumption DEF MuxInv
<1>2. CASE p \in Implicit
  <2>1. PICK q \in accepted : Len(q) >= 2 /\ LastOf(q) = "/" /\ p = ButLast(q)
    BY <1>2 DEF Implicit
  <2>2. q \in Text
    BY PatternsAssumption DEF MuxInv
  <2> QED
    BY <2>1, <2>2, FrontLemma
<1> QED
  BY <1>1, <1>2 DEF MuxInv

(* handle() adds the pattern, and the redirect for the directory's name.   *)
LEMMA HandleLemma ==
  ASSUME MuxInv, NEW p \in Patterns, handle(p)
  PROVE  MuxInv'
<1>1. CASE user_defined(mux, p)
  <2>1. mux' = mux /\ accepted' = accepted
    BY <1>1 DEF handle, muxVars
  <2> QED
    BY <2>1 DEF MuxInv, Implicit, Entry
<1>2. CASE ~user_defined(mux, p)
  <2> DEFINE directory == Len(p) >= 2 /\ LastOf(p) = "/"
             m == WithRedirect(mux, p)
  <2>1. /\ mux' = Emplace(m, p, User(p))
        /\ accepted' = accepted \cup {p}
    BY <1>2 DEF handle
  <2>2. /\ DOMAIN mux' = DOMAIN m \cup {p}
        /\ \A q \in DOMAIN m : mux'[q] = m[q]
        /\ p \notin DOMAIN m => mux'[p] = User(p)
    BY <2>1 DEF Emplace
  <2>3. /\ DOMAIN m = DOMAIN mux \cup (IF directory THEN {ButLast(p)} ELSE {})
        /\ \A q \in DOMAIN m : \/ q \in DOMAIN mux /\ m[q] = mux[q]
                               \/ directory /\ q = ButLast(p) /\ m[q] = Redirect(PathOf(p))
    BY DEF WithRedirect, Assign, user_defined
  <2> HIDE DEF m
  <2>4. p \in Text
    BY PatternsAssumption
  <2>5. directory => ButLast(p) \o <<"/">> = p
    BY <2>4, FrontLemma
  <2>6. Implicit' = Implicit \cup (IF directory THEN {ButLast(p)} ELSE {})
    BY <2>1 DEF Implicit
  <2>7. accepted' \subseteq Patterns /\ DOMAIN mux' = accepted' \cup Implicit'
    BY <2>1, <2>2, <2>3, <2>6 DEF MuxInv
  <2>8. ASSUME NEW q \in DOMAIN mux'
        PROVE  Entry(mux', accepted', q)
    <3>1. CASE q \in DOMAIN mux /\ mux'[q] = mux[q]
      <4>1. Entry(mux, accepted, q)
        BY <3>1 DEF MuxInv
      <4> QED
        BY <2>1, <3>1, <4>1 DEF Entry
    <3>2. CASE directory /\ q = ButLast(p) /\ mux'[q] = Redirect(PathOf(p))
      BY <2>1, <2>5, <3>2, Zenon DEF Entry
    <3>3. CASE q = p /\ mux'[q] = User(p)
      BY <2>1, <3>3 DEF Entry
    <3> QED
      BY <2>2, <2>3, <2>8, <3>1, <3>2, <3>3, Zenon
  <2> QED
    BY <2>7, <2>8 DEF MuxInv
<1> QED
  BY <1>1, <1>2

(* MuxInv holds for every set of patterns and every order in which they    *)
(* are registered with serve_mux::handle.                                  *)
THEOREM MuxInvHolds == MuxSpec => []MuxInv
<1>1. MuxInit => MuxInv
  BY DEF MuxInit, MuxInv, Implicit
<1>2. MuxInv /\ [MuxNext]_muxVars => MuxInv'
  <2> SUFFICES ASSUME MuxInv, [MuxNext]_muxVars PROVE MuxInv'
    OBVIOUS
  <2>1. CASE MuxNext
    BY <2>1, HandleLemma DEF MuxNext
  <2>2. CASE UNCHANGED muxVars
    BY <2>2 DEF muxVars, MuxInv, Implicit, Entry
  <2> QED
    BY <2>1, <2>2
<1> QED
  BY <1>1, <1>2, PTL DEF MuxSpec

(* serve_mux::match finds the longest key that matches, if any does.       *)
LEMMA FoundLemma ==
  ASSUME MuxInv, NEW x \in Text,
         {p \in DOMAIN mux : path_match(p, x)} # {}
  PROVE  Longest({p \in DOMAIN mux : path_match(p, x)})
           \in {p \in DOMAIN mux : path_match(p, x)}
<1> DEFINE found == {p \in DOMAIN mux : path_match(p, x)}
<1>1. found \subseteq Text
  BY KeysLemma
<1>2. Len(x) \in Nat
  BY DEF Text
<1>3. \A p \in found : Len(p) <= Len(x)
  BY <1>2 DEF path_match, At
<1> HIDE DEF found
<1>4. found # {} => Longest(found) \in found
  BY <1>1, <1>2, <1>3, LongestLemma
<1> QED
  BY <1>4 DEF found

(* match does what the documentation says, unless a pattern is shadowed.   *)
LEMMA MatchLemma ==
  ASSUME MuxInv, Shadowed = {}, NEW x \in Text
  PROVE  match(x) = RefMatch(x)
<1> DEFINE found == {p \in DOMAIN mux : path_match(p, x)}
           best == Longest(found)
<1>1. RefMatch(x) = IF found = {} THEN NotFound
                    ELSE IF best \in accepted THEN User(best)
                    ELSE Redirect(PathOf(best \o <<"/">>))
  BY DEF MuxInv, RefMatch
<1>2. match(x) = IF found = {} THEN NotFound ELSE mux[best]
  BY DEF match
<1>3. found # {} => best \in DOMAIN mux
  BY FoundLemma
<1> HIDE DEF found, best
<1>4. ASSUME best \in DOMAIN mux, best \in accepted
      PROVE  mux[best] = User(best)
  <2>1. mux[best].kind = "user"
    BY <1>4 DEF Shadowed, user_defined
  <2>2. Entry(mux, accepted, best)
    BY <1>4 DEF MuxInv
  <2> QED
    BY <2>1, <2>2 DEF Entry, Redirect
<1>5. ASSUME best \in DOMAIN mux, best \notin accepted
      PROVE  mux[best] = Redirect(PathOf(best \o <<"/">>))
  BY <1>5 DEF MuxInv, Entry
<1> QED
  BY <1>1, <1>2, <1>3, <1>4, <1>5

(* Two texts make a text, which ends as the second does.                   *)
LEMMA JoinLemma ==
  ASSUME NEW s \in Text, NEW t \in Text
  PROVE  s \o t \in Text /\ (t # <<>> => LastOf(s \o t) = LastOf(t))
<1>1. /\ s \o t \in Text /\ Len(t) \in Nat
      /\ Len(s \o t) = Len(s) + Len(t)
      /\ \A i \in 1 .. Len(t) : (s \o t)[Len(s) + i] = t[i]
  BY JoinedLemma
<1>2. t # <<>> => Len(t) # 0
  BY DEF Text
<1>3. ASSUME t # <<>>
      PROVE  LastOf(s \o t) = LastOf(t)
  <2>1. Len(t) \in 1 .. Len(t)
    BY <1>1, <1>2, <1>3
  <2> QED
    BY <1>1, <2>1, Zenon DEF LastOf
<1> QED
  BY <1>1, <1>3

(* serve_mux routes requests as documented and its table holds nothing     *)
(* else, for all patterns, hosts and paths.                                *)
THEOREM RoutesLikeGoHolds == MuxSpec => []RoutesLikeGo
<1>1. MuxInv => RoutesLikeGo
  <2> SUFFICES ASSUME MuxInv PROVE RoutesLikeGo
    OBVIOUS
  <2>1. ASSUME Shadowed = {}, NEW method \in Methods, NEW host \in Hosts,
               NEW path \in RequestPaths
        PROVE  handler(method, host, path) = RefHandler(method, host, path)
    <3>1. host \in Text /\ path \in Text
      BY HostsAssumption, SettlesAssumption
    <3>2. match(host \o path) = RefMatch(host \o path) /\ match(path) = RefMatch(path)
      BY <2>1, <3>1, JoinLemma, MatchLemma, Zenon
    <3> QED
      BY <3>2 DEF handler, RefHandler
  <2> QED
    BY <2>1 DEF RoutesLikeGo, MuxInv, Entry
<1> QED
  BY <1>1, MuxInvHolds, PTL

(* The path of a pattern for a directory ends in a slash.                  *)
LEMMA PathOfLemma ==
  ASSUME NEW p \in Text \ {<<>>}, LastOf(p) = "/"
  PROVE  PathOf(p) \in Text \ {<<>>} /\ LastOf(PathOf(p)) = "/"
<1> DEFINE k == FirstSlash(p)
<1>1. Len(p) \in Nat /\ Len(p) # 0 /\ (\A i \in 1 .. Len(p) : p[i] \in Chars)
  BY DEF Text
<1>2. p[Len(p)] = "/"
  BY DEF LastOf
<1>3. k \in 1 .. Len(p)
  BY <1>1, <1>2, FirstSlashLemma
<1>4. PathOf(p) = SubSeq(p, k, Len(p))
  BY <1>1, <1>3, SMTT(20) DEF PathOf, Drop
<1> HIDE DEF k
<1>5. /\ PathOf(p) \in Seq(Chars)
      /\ Len(PathOf(p)) = Len(p) - k + 1
      /\ \A i \in 1 .. Len(p) - k + 1 : PathOf(p)[i] = p[k + i - 1]
  BY <1>1, <1>3, <1>4
<1>6. PathOf(p)[Len(p) - k + 1] = p[Len(p)]
  <2>1. Len(p) - k + 1 \in 1 .. Len(p) - k + 1 /\ k + (Len(p) - k + 1) - 1 = Len(p)
    BY <1>1, <1>3
  <2> QED
    BY <1>5, <2>1
<1> QED
  BY <1>1, <1>2, <1>3, <1>5, <1>6 DEF Text, LastOf

(* match redirects the name of a directory only, to the directory.         *)
LEMMA RedirectLemma ==
  ASSUME MuxInv, \A p \in accepted : Sanitized(p),
         NEW x \in Text, match(x).kind = "redirect"
  PROVE  /\ LastOf(x) # "/"
         /\ \E p \in accepted : LastOf(p) = "/" /\ match(x) = Redirect(PathOf(p))
<1> DEFINE found == {p \in DOMAIN mux : path_match(p, x)}
           best == Longest(found)
           dir == best \o <<"/">>
<1>1. match(x) = IF found = {} THEN NotFound ELSE mux[best]
  BY DEF match
<1>2. found # {} => best \in found
  BY FoundLemma
<1> HIDE DEF found
<1>3. found # {} /\ best \in found
  BY <1>1, <1>2 DEF NotFound
<1>4. best \in DOMAIN mux /\ path_match(best, x)
  BY <1>3 DEF found
<1> HIDE DEF best
<1>5. mux[best] = Redirect(PathOf(dir)) /\ dir \in accepted
  <2>1. mux[best].kind = "redirect"
    BY <1>1, <1>3
  <2>2. mux[best] # User(best)
    BY <2>1 DEF User
  <2>3. Entry(mux, accepted, best)
    BY <1>4 DEF MuxInv
  <2> QED
    BY <2>2, <2>3, Zenon DEF Entry
<1>6. best \in Text \ {<<>>} /\ Len(best) \in Nat \ {0}
  BY <1>4, KeysLemma DEF Text
<1>7. dir \in Text /\ LastOf(dir) = "/" /\ Len(dir) >= 2 /\ LastOf(ButLast(dir)) = LastOf(best)
  <2>1. /\ dir \in Text
        /\ Len(dir) = Len(best) + 1
        /\ \A i \in 1 .. Len(best) + 1 :
             dir[i] = IF i <= Len(best) THEN best[i] ELSE <<"/">>[i - Len(best)]
    BY <1>6, SlashLemma DEF Text
  <2> HIDE DEF dir
  <2>2. \A i \in 1 .. Len(best) : dir[i] \in Chars
    BY <1>6, <2>1 DEF Text
  <2>3. /\ Len(ButLast(dir)) = Len(best)
        /\ \A i \in 1 .. Len(best) : ButLast(dir)[i] = dir[i]
    BY <1>6, <2>1, <2>2 DEF ButLast
  <2>4. LastOf(ButLast(dir)) = best[Len(best)]
    BY <1>6, <2>1, <2>3 DEF LastOf
  <2>5. LastOf(dir) = "/"
    BY <1>6, <2>1, SlashLemma DEF LastOf
  <2> QED
    BY <1>6, <2>1, <2>4, <2>5 DEF LastOf
<1> HIDE DEF dir
<1>8. LastOf(best) # "/"
  BY <1>5, <1>7 DEF Sanitized
<1>9. best = x
  BY <1>4, <1>8 DEF path_match
<1> QED
  BY <1>1, <1>3, <1>5, <1>7, <1>8, <1>9

(* The answer for a path that is let through is no redirect, or leads to   *)
(* a directory, whose answer is none.                                      *)
LEMMA SettledLemma ==
  ASSUME MuxInv, \A p \in accepted : Sanitized(p),
         NEW method, NEW host \in Text, NEW q \in Text, ~Unclean(method, q)
  PROVE  Hop(method, host, handler(method, host, q)).kind # "redirect"
<1> DEFINE Answer(x) == handler(method, host, x)
<1>1. ASSUME NEW x \in Text, ~Unclean(method, x), Answer(x).kind = "redirect"
      PROVE  /\ x # <<>> => LastOf(x) # "/"
             /\ \E p \in accepted : LastOf(p) = "/" /\ Answer(x) = Redirect(PathOf(p))
  <2>1. Answer(x) = IF match(host \o x) # NotFound THEN match(host \o x) ELSE match(x)
    BY <1>1 DEF handler
  <2>2. host \o x \in Text /\ (x # <<>> => LastOf(host \o x) = LastOf(x))
    BY <1>1, JoinLemma
  <2> HIDE DEF Answer
  <2>3. CASE match(host \o x) # NotFound
    BY <1>1, <2>1, <2>2, <2>3, RedirectLemma, Zenon
  <2>4. CASE match(host \o x) = NotFound
    BY <1>1, <2>1, <2>4, RedirectLemma, Zenon
  <2> QED
    BY <2>3, <2>4, Zenon
<1>2. CASE Answer(q).kind # "redirect"
  BY <1>2 DEF Hop
<1>3. CASE Answer(q).kind = "redirect"
  <2>1. PICK p \in accepted : LastOf(p) = "/" /\ Answer(q) = Redirect(PathOf(p))
    BY <1>1, <1>3
  <2>2. p \in Text \ {<<>>}
    BY PatternsAssumption DEF MuxInv
  <2>3. PathOf(p) \in Text \ {<<>>} /\ LastOf(PathOf(p)) = "/"
    BY <2>1, <2>2, PathOfLemma
  <2>4. ~Unclean(method, PathOf(p))
    BY <2>1 DEF Sanitized, Unclean
  <2>5. Answer(PathOf(p)).kind # "redirect"
    BY <1>1, <2>3, <2>4
  <2>6. Hop(method, host, Answer(q)) = Answer(PathOf(p))
    BY <2>1 DEF Hop, Redirect
  <2> QED
    BY <2>5, <2>6
<1> QED
  BY <1>2, <1>3

(* Following redirects ends after three of them, for all patterns that are *)
(* sanitized, all hosts and all paths on which path_join settles.          *)
THEOREM NoRedirectLoopHolds == MuxSpec => []NoRedirectLoop
<1>1. MuxInv => NoRedirectLoop
  <2> SUFFICES ASSUME MuxInv, \A p \in accepted : Sanitized(p),
                      NEW method \in Methods, NEW host \in Hosts,
                      NEW path \in RequestPaths
               PROVE  Hop(method, host, Hop(method, host,
                        Hop(method, host, handler(method, host, path)))).kind # "redirect"
    BY DEF NoRedirectLoop
  <2> DEFINE Answer(x) == handler(method, host, x)
             Follow(cb) == Hop(method, host, cb)
             clean == CleanPath(path)
             twice == CleanPath(clean)
  <2>1. /\ path \in Text /\ clean \in Text /\ twice \in Text
        /\ CleanPath(twice) = twice
        /\ host \in Text
    BY HostsAssumption, SettlesAssumption
  <2>2. ~Unclean(method, twice)
    BY <2>1 DEF Unclean
  <2>3. \A q \in Text : ~Unclean(method, q) => Follow(Answer(q)).kind # "redirect"
    BY <2>1, SettledLemma
  <2>4. \A cb : cb.kind # "redirect" => Follow(cb) = cb
    BY DEF Hop
  <2>5. /\ Unclean(method, path) => Follow(Answer(path)) = Answer(clean)
        /\ Unclean(method, clean) => Follow(Answer(clean)) = Answer(twice)
    BY Zenon DEF Hop, handler, Redirect
  <2> HIDE DEF Answer, Follow, clean, twice
  <2>6. Follow(Follow(Follow(Answer(path)))).kind # "redirect"
    <3>1. CASE ~Unclean(method, path)
      BY <2>1, <2>3, <2>4, <3>1
    <3>2. CASE Unclean(method, path) /\ ~Unclean(method, clean)
      BY <2>1, <2>3, <2>4, <2>5, <3>2
    <3>3. CASE Unclean(method, path) /\ Unclean(method, clean)
      BY <2>1, <2>2, <2>3, <2>5, <3>3
    <3> QED
      BY <3>1, <3>2, <3>3
  <2> QED
    BY <2>6 DEF Answer, Follow
<1> QED
  BY <1>1, MuxInvHolds, PTL

-----------------------------------------------------------------------------
(* path_join                                                               *)

(* A part of a text is a text.                                             *)
LEMMA PartLemma ==
  ASSUME NEW s \in Text, NEW k \in 0 .. Len(s)
  PROVE  /\ SubSeq(s, 1, k) \in Text
         /\ Len(SubSeq(s, 1, k)) = k
         /\ \A i \in 1 .. k : SubSeq(s, 1, k)[i] = s[i]
         /\ Drop(s, k) \in Text
         /\ Len(Drop(s, k)) = Len(s) - k
         /\ \A i \in 1 .. Len(s) - k : Drop(s, k)[i] = s[k + i]
<1>1. Len(s) \in Nat /\ \A i \in 1 .. Len(s) : s[i] \in Chars
  BY DEF Text
<1>2. /\ SubSeq(s, 1, k) \in Text
      /\ Len(SubSeq(s, 1, k)) = k
      /\ \A i \in 1 .. k : SubSeq(s, 1, k)[i] = s[i]
  <2>1. \A i \in 1 .. k : s[i] \in Chars
    BY <1>1
  <2> QED
    BY <1>1, <2>1 DEF Text
<1>3. /\ Drop(s, k) \in Text
      /\ Len(Drop(s, k)) = Len(s) - k
      /\ \A i \in 1 .. Len(s) - k : Drop(s, k)[i] = s[k + i]
  <2>1. \A i \in k + 1 .. Len(s) : s[i] \in Chars
    BY <1>1
  <2> QED
    BY <1>1, <2>1 DEF Text, Drop
<1> QED
  BY <1>2, <1>3

(* LastSlash finds the last slash, if there is one.                        *)
LEMMA LastSlashLemma ==
  ASSUME NEW s \in Text
  PROVE  /\ LastSlash(s) \in 0 .. Len(s)
         /\ LastSlash(s) # 0 => s[LastSlash(s)] = "/"
         /\ \A i \in 1 .. Len(s) : s[i] = "/" => i <= LastSlash(s)
<1> DEFINE I == {i \in 1 .. Len(s) : s[i] = "/"}
<1>1. LastSlash(s) = IF I # {} THEN Max(I) ELSE 0
  BY DEF LastSlash, Slashes
<1>2. Len(s) \in Nat
  BY DEF Text
<1>3. CASE I = {}
  BY <1>1, <1>2, <1>3
<1>4. CASE I # {}
  <2>1. I \subseteq 0 .. Len(s)
    BY <1>2
  <2>2. \E x \in I : \A y \in I : y <= x
    BY <1>2, <1>4, <2>1, GreatestLemma, Zenon
  <2>3. Max(I) \in I /\ \A y \in I : y <= Max(I)
    BY <2>2, Zenon DEF Max
  <2>4. LastSlash(s) \in I /\ \A y \in I : y <= LastSlash(s)
    BY <1>1, <1>4, <2>3
  <2> QED
    BY <1>2, <2>4
<1> QED
  BY <1>3, <1>4

(* A directory ends in a slash; a name has none; what is entered into a    *)
(* directory is a name and a slash.                                        *)
Dir(d) == d \in Text /\ Len(d) >= 1 /\ d[Len(d)] = "/"

Name(f) == f \in Text /\ \A i \in 1 .. Len(f) : f[i] # "/"

Segment(s) ==
  /\ s \in Text /\ Len(s) >= 1
  /\ \A i \in 1 .. Len(s) : s[i] = "/" <=> i = Len(s)

(* What eat_file leaves: the text up to its last slash, or the root.       *)
LEMMA EatFileLemma ==
  ASSUME NEW s \in Text
  PROVE  /\ Dir(eat_file(s))
         /\ s # <<>> => Len(eat_file(s)) <= Len(s)
         /\ Dir(s) => eat_file(s) = s
         /\ Len(s) >= 1 /\ s[1] = "/" =>
              \E k \in 1 .. Len(s) : eat_file(s) = SubSeq(s, 1, k)
<1> DEFINE k == LastSlash(s)
<1>1. /\ Len(s) \in Nat /\ k \in 0 .. Len(s)
      /\ k # 0 => s[k] = "/"
      /\ \A i \in 1 .. Len(s) : s[i] = "/" => i <= k
  BY LastSlashLemma DEF Text
<1>2. eat_file(s) = IF k = 0 THEN <<"/">> ELSE SubSeq(s, 1, k)
  BY DEF eat_file
<1> HIDE DEF k
<1>3. /\ SubSeq(s, 1, k) \in Text
      /\ Len(SubSeq(s, 1, k)) = k
      /\ \A i \in 1 .. k : SubSeq(s, 1, k)[i] = s[i]
  BY <1>1, PartLemma
<1>4. s # <<>> => Len(s) >= 1
  BY <1>1 DEF Text
<1>5. CASE k = 0
  <2>1. ~Dir(s) /\ ~(Len(s) >= 1 /\ s[1] = "/")
    BY <1>1, <1>5 DEF Dir
  <2> QED
    BY <1>1, <1>2, <1>4, <1>5, <2>1, SlashLemma DEF Dir
<1>6. CASE k # 0
  <2>1. Dir(s) => k = Len(s)
    BY <1>1 DEF Dir
  <2>2. k = Len(s) => SubSeq(s, 1, k) = s
    BY <1>1, <1>3 DEF Text
  <2>3. Dir(SubSeq(s, 1, k))
    BY <1>1, <1>3, <1>6 DEF Dir
  <2> QED
    BY <1>1, <1>2, <1>3, <1>6, <2>1, <2>2, <2>3
<1> QED
  BY <1>5, <1>6

(* The directory of a file is the one it is in.                            *)
LEMMA FileLemma ==
  ASSUME NEW d, Dir(d), NEW f, Name(f)
  PROVE  eat_file(d \o f) = d
<1>1. d \in Text /\ f \in Text
  BY DEF Dir, Name
<1> DEFINE s == d \o f
<1>2. /\ s \in Text
      /\ Len(d) \in Nat /\ Len(f) \in Nat
      /\ Len(s) = Len(d) + Len(f)
      /\ \A i \in 1 .. Len(d) : s[i] = d[i]
      /\ \A i \in 1 .. Len(f) : s[Len(d) + i] = f[i]
  BY <1>1, JoinedLemma
<1> HIDE DEF s
<1>3. LastSlash(s) = Len(d)
  <2>1. /\ LastSlash(s) \in 0 .. Len(s)
        /\ LastSlash(s) # 0 => s[LastSlash(s)] = "/"
        /\ \A i \in 1 .. Len(s) : s[i] = "/" => i <= LastSlash(s)
    BY <1>2, LastSlashLemma
  <2>2. Len(d) <= LastSlash(s)
    BY <1>2, <2>1 DEF Dir
  <2>3. ASSUME Len(d) < LastSlash(s) PROVE FALSE
    <3> DEFINE i == LastSlash(s) - Len(d)
    <3>1. i \in 1 .. Len(f) /\ Len(d) + i = LastSlash(s)
      BY <1>2, <2>1, <2>3
    <3>2. s[LastSlash(s)] = f[i]
      BY <1>2, <3>1
    <3> QED
      BY <1>2, <2>1, <2>3, <3>1, <3>2 DEF Name
  <2> QED
    BY <1>2, <2>1, <2>2, <2>3
<1>4. eat_file(s) = SubSeq(s, 1, Len(d)) /\ Len(d) \in 0 .. Len(s)
  BY <1>2, <1>3 DEF eat_file, Dir
<1>5. SubSeq(s, 1, Len(d)) = d
  BY <1>1, <1>2, <1>4, PartLemma DEF Text
<1> QED
  BY <1>4, <1>5 DEF s

(* Entering a directory, and leaving it again.                             *)
LEMMA EnterLemma ==
  ASSUME NEW d, Dir(d), NEW s, Segment(s)
  PROVE  Dir(d \o s) /\ eat_file(ButLast(d \o s)) = d
<1> DEFINE t == d \o s
           f == SubSeq(s, 1, Len(s) - 1)
           u == d \o f
<1>1. d \in Text /\ s \in Text
  BY DEF Dir, Segment
<1>2. /\ t \in Text
      /\ Len(d) \in Nat /\ Len(s) \in Nat
      /\ Len(t) = Len(d) + Len(s)
      /\ \A i \in 1 .. Len(d) : t[i] = d[i]
      /\ \A i \in 1 .. Len(s) : t[Len(d) + i] = s[i]
  BY <1>1, JoinedLemma, Zenon
<1> HIDE DEF t
<1>3. Dir(t)
  BY <1>2 DEF Dir, Segment
<1>4. Len(s) - 1 \in 0 .. Len(s)
  BY <1>2 DEF Segment
<1>5. /\ f \in Text
      /\ Len(f) = Len(s) - 1
      /\ \A i \in 1 .. Len(s) - 1 : f[i] = s[i]
  BY <1>1, <1>4, PartLemma, Zenon
<1>6. Name(f)
  BY <1>2, <1>5 DEF Name, Segment
<1> HIDE DEF f
<1>7. /\ u \in Text
      /\ Len(u) = Len(d) + Len(f)
      /\ \A i \in 1 .. Len(d) : u[i] = d[i]
      /\ \A i \in 1 .. Len(f) : u[Len(d) + i] = f[i]
  BY <1>1, <1>5, JoinedLemma, Zenon
<1>8. eat_file(u) = d
  BY <1>6, FileLemma
<1> HIDE DEF u
<1>9. ButLast(t) = u
  <2>1. Len(t) - 1 \in 0 .. Len(t)
    BY <1>2, <1>4
  <2>2. /\ SubSeq(t, 1, Len(t) - 1) \in Text
        /\ Len(SubSeq(t, 1, Len(t) - 1)) = Len(t) - 1
        /\ \A i \in 1 .. Len(t) - 1 : SubSeq(t, 1, Len(t) - 1)[i] = t[i]
    BY <1>2, <2>1, PartLemma
  <2>3. ASSUME NEW i \in 1 .. Len(t) - 1
        PROVE  t[i] = u[i]
    <3>1. CASE i <= Len(d)
      BY <1>2, <1>7, <3>1
    <3>2. CASE i > Len(d)
      <4>1. PICK j \in 1 .. Len(f) : i = Len(d) + j
        <5>1. i - Len(d) \in 1 .. Len(f) /\ i = Len(d) + (i - Len(d))
          BY <1>2, <1>5, <2>1, <3>2
        <5> QED
          BY <5>1
      <4>2. t[Len(d) + j] = s[j] /\ f[j] = s[j]
        BY <1>2, <1>5, <4>1
      <4>3. u[Len(d) + j] = f[j]
        BY <1>7, <4>1
      <4> QED
        BY <4>1, <4>2, <4>3
    <3> QED
      BY <1>2, <3>1, <3>2
  <2>4. Len(u) = Len(t) - 1
    BY <1>2, <1>5, <1>7
  <2>5. SubSeq(t, 1, Len(t) - 1) = u
    BY <1>7, <2>2, <2>3, <2>4 DEF Text
  <2> QED
    BY <2>5 DEF ButLast
<1> QED
  BY <1>3, <1>8, <1>9 DEF t

(* No "." or ".." segment, and no backslash, in a text from the root.      *)
Clean(t) ==
  /\ t \in Text /\ Len(t) >= 1 /\ t[1] = "/"
  /\ \A i \in 1 .. Len(t) : t[i] # "\\"
  /\ \A i \in 1 .. Len(t) - 2 : ~(t[i] = "/" /\ t[i + 1] = "." /\ t[i + 2] = "/")
  /\ \A i \in 1 .. Len(t) - 3 :
       ~(t[i] = "/" /\ t[i + 1] = "." /\ t[i + 2] = "." /\ t[i + 3] = "/")

(* A text that does not begin with "./" or "../", and has no slash but at  *)
(* its end.                                                                *)
Plain(s) ==
  /\ s \in Text /\ Len(s) >= 1
  /\ \A i \in 1 .. Len(s) - 1 : s[i] # "/"
  /\ ~(Len(s) >= 2 /\ s[1] = "." /\ s[2] = "/")
  /\ ~(Len(s) >= 3 /\ s[1] = "." /\ s[2] = "." /\ s[3] = "/")

(* What check_path looks for inside and at the end of a text.              *)
LEMMA InsideLemma ==
  ASSUME NEW t \in Text
  PROVE  /\ HasInside(t, <<"\\">>) <=> \E i \in 1 .. Len(t) : t[i] = "\\"
         /\ HasInside(t, <<"/", ".", "/">>) =>
              \E i \in 1 .. Len(t) - 2 : t[i] = "/" /\ t[i + 1] = "." /\ t[i + 2] = "/"
         /\ HasInside(t, <<"/", ".", ".", "/">>) =>
              \E i \in 1 .. Len(t) - 3 :
                t[i] = "/" /\ t[i + 1] = "." /\ t[i + 2] = "." /\ t[i + 3] = "/"
         /\ HasAtEnd(t, <<"/", ".">>) =>
              Len(t) >= 2 /\ t[Len(t) - 1] = "/" /\ t[Len(t)] = "."
         /\ HasAtEnd(t, <<"/", ".", ".">>) =>
              Len(t) >= 3 /\ t[Len(t) - 2] = "/" /\ t[Len(t) - 1] = "." /\ t[Len(t)] = "."
<1>1. Len(t) \in Nat
  BY DEF Text
<1>2. HasInside(t, <<"\\">>) <=> \E i \in 1 .. Len(t) : t[i] = "\\"
  <2>1. ASSUME HasInside(t, <<"\\">>)
        PROVE  \E i \in 1 .. Len(t) : t[i] = "\\"
    <3>1. PICK k \in 0 .. Len(t) : At(t, k, <<"\\">>)
      BY <2>1 DEF HasInside
    <3>2. k + 1 \in 1 .. Len(t) /\ t[k + 1] = "\\"
      BY <1>1, <3>1 DEF At
    <3> QED
      BY <3>2
  <2>2. ASSUME NEW i \in 1 .. Len(t), t[i] = "\\"
        PROVE  HasInside(t, <<"\\">>)
    <3>1. i - 1 \in 0 .. Len(t) /\ (i - 1) + 1 = i
      BY <1>1
    <3>2. At(t, i - 1, <<"\\">>)
      BY <1>1, <2>2, <3>1 DEF At
    <3> QED
      BY <3>1, <3>2 DEF HasInside
  <2> QED
    BY <2>1, <2>2
<1>3. ASSUME HasInside(t, <<"/", ".", "/">>)
      PROVE  \E i \in 1 .. Len(t) - 2 : t[i] = "/" /\ t[i + 1] = "." /\ t[i + 2] = "/"
  <2>1. PICK k \in 0 .. Len(t) : At(t, k, <<"/", ".", "/">>)
    BY <1>3 DEF HasInside
  <2>2. k + 3 <= Len(t) /\ t[k + 1] = "/" /\ t[k + 2] = "." /\ t[k + 3] = "/"
    BY <1>1, <2>1 DEF At
  <2>3. k + 1 \in 1 .. Len(t) - 2 /\ (k + 1) + 1 = k + 2 /\ (k + 1) + 2 = k + 3
    BY <1>1, <2>2
  <2> QED
    BY <2>2, <2>3
<1>4. ASSUME HasInside(t, <<"/", ".", ".", "/">>)
      PROVE  \E i \in 1 .. Len(t) - 3 :
               t[i] = "/" /\ t[i + 1] = "." /\ t[i + 2] = "." /\ t[i + 3] = "/"
  <2>1. PICK k \in 0 .. Len(t) : At(t, k, <<"/", ".", ".", "/">>)
    BY <1>4 DEF HasInside
  <2>2. /\ k + 4 <= Len(t) /\ t[k + 1] = "/" /\ t[k + 2] = "."
        /\ t[k + 3] = "." /\ t[k + 4] = "/"
    BY <1>1, <2>1 DEF At
  <2>3. /\ k + 1 \in 1 .. Len(t) - 3 /\ (k + 1) + 1 = k + 2
        /\ (k + 1) + 2 = k + 3 /\ (k + 1) + 3 = k + 4
    BY <1>1, <2>2
  <2> QED
    BY <2>2, <2>3
<1>5. ASSUME HasAtEnd(t, <<"/", ".">>)
      PROVE  Len(t) >= 2 /\ t[Len(t) - 1] = "/" /\ t[Len(t)] = "."
  BY <1>1, <1>5 DEF HasAtEnd, At
<1>6. ASSUME HasAtEnd(t, <<"/", ".", ".">>)
      PROVE  Len(t) >= 3 /\ t[Len(t) - 2] = "/" /\ t[Len(t) - 1] = "." /\ t[Len(t)] = "."
  BY <1>1, <1>6 DEF HasAtEnd, At
<1> QED
  BY <1>2, <1>3, <1>4, <1>5, <1>6

(* A clean text that does not end in "/." or "/.." passes check_path.      *)
LEMMA CheckLemma ==
  ASSUME NEW t, Clean(t),
         ~(Len(t) >= 2 /\ t[Len(t) - 1] = "/" /\ t[Len(t)] = "."),
         ~(Len(t) >= 3 /\ t[Len(t) - 2] = "/" /\ t[Len(t) - 1] = "." /\ t[Len(t)] = ".")
  PROVE  check_path(t)
<1>1. t \in Text /\ t # <<>> /\ Head(t) = "/"
  BY DEF Clean, Text
<1>2. ~HasInside(t, <<"\\">>)
  BY <1>1, InsideLemma DEF Clean
<1>3. ~HasInside(t, <<"/", ".", "/">>)
  BY <1>1, InsideLemma DEF Clean
<1>4. ~HasInside(t, <<"/", ".", ".", "/">>)
  BY <1>1, InsideLemma DEF Clean
<1>5. ~HasAtEnd(t, <<"/", ".">>) /\ ~HasAtEnd(t, <<"/", ".", ".">>)
  BY <1>1, InsideLemma
<1> QED
  BY <1>1, <1>2, <1>3, <1>4, <1>5 DEF check_path

(* What a clean text begins with is clean.                                 *)
LEMMA CleanPartLemma ==
  ASSUME NEW t, Clean(t), NEW k \in 1 .. Len(t)
  PROVE  Clean(SubSeq(t, 1, k))
<1>1. t \in Text /\ Len(t) \in Nat /\ k \in 0 .. Len(t)
  BY DEF Clean, Text
<1> DEFINE u == SubSeq(t, 1, k)
<1>2. u \in Text /\ Len(u) = k /\ \A i \in 1 .. k : u[i] = t[i]
  BY <1>1, PartLemma
<1> HIDE DEF u
<1>3. Clean(u)
  BY <1>1, <1>2, SMTT(20) DEF Clean
<1> QED
  BY <1>3 DEF u

(* A plain text behind a clean directory makes no "." or ".." segment.     *)
LEMMA CleanEnterLemma ==
  ASSUME NEW d, Clean(d), Dir(d), NEW s, Plain(s),
         \A i \in 1 .. Len(s) : s[i] # "\\"
  PROVE  Clean(d \o s)
<1>1. d \in Text /\ s \in Text
  BY DEF Dir, Plain
<1> DEFINE t == d \o s
           k == Len(d)
<1>2. /\ t \in Text
      /\ k \in Nat /\ Len(s) \in Nat
      /\ Len(t) = k + Len(s)
      /\ \A i \in 1 .. k : t[i] = d[i]
      /\ \A i \in 1 .. Len(s) : t[k + i] = s[i]
  BY <1>1, JoinedLemma
<1> HIDE DEF t
<1>3. k >= 1 /\ d[k] = "/" /\ t[k] = "/"
  BY <1>2 DEF Dir
<1>4. ASSUME NEW i \in k + 1 .. Len(t)
      PROVE  i - k \in 1 .. Len(s) /\ t[i] = s[i - k]
  <2>1. i - k \in 1 .. Len(s) /\ k + (i - k) = i
    BY <1>2
  <2> QED
    BY <1>2, <2>1
<1>5. Len(t) >= 1 /\ t[1] = "/"
  BY <1>2, <1>3 DEF Clean
<1>6. ASSUME NEW i \in 1 .. Len(t)
      PROVE  t[i] # "\\"
  <2>1. CASE i <= k
    BY <1>2, <2>1 DEF Clean
  <2>2. CASE i > k
    BY <1>2, <1>4, <2>2, SMTT(20)
  <2> QED
    BY <1>2, <2>1, <2>2
<1>7. ASSUME NEW i \in k + 1 .. Len(t) - 1
      PROVE  t[i] # "/"
  <2>1. i \in k + 1 .. Len(t) /\ i - k \in 1 .. Len(s) - 1
    BY <1>2
  <2> QED
    BY <1>4, <2>1 DEF Plain
<1>8. ASSUME NEW i \in 1 .. Len(t) - 2, t[i] = "/", t[i + 1] = ".", t[i + 2] = "/"
      PROVE  FALSE
  <2>1. CASE i < k
    <3>1. i + 1 # k
      BY <1>3, <1>8
    <3>2. i \in 1 .. k - 2 /\ i + 1 \in 1 .. k /\ i + 2 \in 1 .. k /\ i \in 1 .. k
      BY <1>2, <2>1, <3>1
    <3>3. d[i] = "/" /\ d[i + 1] = "." /\ d[i + 2] = "/"
      BY <1>2, <1>8, <3>2
    <3> QED
      BY <3>2, <3>3 DEF Clean
  <2>2. CASE i = k
    <3>1. /\ Len(s) >= 2 /\ 1 \in 1 .. Len(s) /\ 2 \in 1 .. Len(s)
      BY <1>2, <2>2
    <3>2. t[k + 1] = s[1] /\ t[k + 2] = s[2]
      BY <1>2, <3>1
    <3> QED
      BY <1>8, <2>2, <3>1, <3>2 DEF Plain
  <2>3. CASE i > k
    <3>1. i \in k + 1 .. Len(t) - 1
      BY <1>2, <2>3
    <3> QED
      BY <1>7, <1>8, <3>1
  <2> QED
    BY <1>2, <2>1, <2>2, <2>3
<1>9. ASSUME NEW i \in 1 .. Len(t) - 3,
             t[i] = "/", t[i + 1] = ".", t[i + 2] = ".", t[i + 3] = "/"
      PROVE  FALSE
  <2>1. CASE i < k
    <3>1. i + 1 # k /\ i + 2 # k
      BY <1>3, <1>9
    <3>2. /\ i \in 1 .. k - 3 /\ i + 1 \in 1 .. k /\ i + 2 \in 1 .. k
          /\ i + 3 \in 1 .. k /\ i \in 1 .. k
      BY <1>2, <2>1, <3>1
    <3>3. d[i] = "/" /\ d[i + 1] = "." /\ d[i + 2] = "." /\ d[i + 3] = "/"
      BY <1>2, <1>9, <3>2
    <3> QED
      BY <3>2, <3>3 DEF Clean
  <2>2. CASE i = k
    <3>1. /\ Len(s) >= 3 /\ 1 \in 1 .. Len(s) /\ 2 \in 1 .. Len(s) /\ 3 \in 1 .. Len(s)
      BY <1>2, <2>2
    <3>2. t[k + 1] = s[1] /\ t[k + 2] = s[2] /\ t[k + 3] = s[3]
      BY <1>2, <3>1
    <3> QED
      BY <1>9, <2>2, <3>1, <3>2 DEF Plain
  <2>3. CASE i > k
    <3>1. i \in k + 1 .. Len(t) - 1
      BY <1>2, <2>3
    <3> QED
      BY <1>7, <1>9, <3>1
  <2> QED
    BY <1>2, <2>1, <2>2, <2>3
<1>10. Clean(t)
  BY <1>2, <1>5, <1>6, <1>8, <1>9 DEF Clean
<1> QED
  BY <1>10 DEF t

(* A file name other than "." and ".." in a clean directory passes         *)
(* check_path.                                                             *)
LEMMA CleanFileLemma ==
  ASSUME NEW d, Clean(d), Dir(d), NEW f, Plain(f), Name(f),
         \A i \in 1 .. Len(f) : f[i] # "\\",
         f # <<".">>, f # <<".", ".">>
  PROVE  check_path(d \o f)
<1>1. d \in Text /\ f \in Text
  BY DEF Dir, Plain
<1> DEFINE t == d \o f
           k == Len(d)
<1>2. /\ t \in Text
      /\ k \in Nat /\ Len(f) \in Nat
      /\ Len(t) = k + Len(f)
      /\ \A i \in 1 .. k : t[i] = d[i]
      /\ \A i \in 1 .. Len(f) : t[k + i] = f[i]
  BY <1>1, JoinedLemma
<1>3. Clean(t)
  BY CleanEnterLemma
<1> HIDE DEF t
<1>4. k >= 1 /\ t[k] = "/" /\ Len(f) >= 1
  BY <1>2 DEF Dir, Plain
<1>5. /\ "." \in Chars
      /\ Len(f) = 1 \/ Len(f) >= 2
      /\ Len(f) = 1 \/ Len(f) = 2 \/ Len(f) >= 3
  <2>1. \A x \in Nat : x >= 1 => /\ x = 1 \/ x >= 2
                                 /\ x = 1 \/ x = 2 \/ x >= 3
    OBVIOUS
  <2>2. /\ Len(f) = 1 \/ Len(f) >= 2
        /\ Len(f) = 1 \/ Len(f) = 2 \/ Len(f) >= 3
    BY <1>2, <1>4, <2>1, Zenon
  <2> QED
    BY <2>2, CharsAssumption
<1>6. ~(Len(t) >= 2 /\ t[Len(t) - 1] = "/" /\ t[Len(t)] = ".")
  <2> SUFFICES ASSUME t[Len(t) - 1] = "/", t[Len(t)] = "." PROVE FALSE
    OBVIOUS
  <2>1. CASE Len(f) = 1
    <3>1. f[1] = "."
      BY <1>2, <2>1
    <3>2. f = <<".">>
      BY <1>1, <1>5, <2>1, <3>1 DEF Text
    <3> QED
      BY <3>2
  <2>2. CASE Len(f) >= 2
    <3>1. Len(f) - 1 \in 1 .. Len(f) /\ k + (Len(f) - 1) = Len(t) - 1
      BY <1>2, <2>2
    <3>2. f[Len(f) - 1] = "/"
      BY <1>2, <3>1
    <3> QED
      BY <3>1, <3>2 DEF Name
  <2> QED
    BY <1>5, <2>1, <2>2, Zenon
<1>7. ~(Len(t) >= 3 /\ t[Len(t) - 2] = "/" /\ t[Len(t) - 1] = "." /\ t[Len(t)] = ".")
  <2> SUFFICES ASSUME t[Len(t) - 2] = "/", t[Len(t) - 1] = ".", t[Len(t)] = "."
               PROVE  FALSE
    OBVIOUS
  <2>1. CASE Len(f) = 1
    BY <1>2, <1>4, <2>1
  <2>2. CASE Len(f) = 2
    <3>1. f[1] = "." /\ f[2] = "."
      BY <1>2, <2>2
    <3>2. f = <<".", ".">>
      BY <1>1, <1>5, <2>2, <3>1 DEF Text
    <3> QED
      BY <3>2
  <2>3. CASE Len(f) >= 3
    <3>1. Len(f) - 2 \in 1 .. Len(f) /\ k + (Len(f) - 2) = Len(t) - 2
      BY <1>2, <2>3
    <3>2. f[Len(f) - 2] = "/"
      BY <1>2, <3>1
    <3> QED
      BY <3>1, <3>2 DEF Name
  <2> QED
    BY <1>5, <2>1, <2>2, <2>3, Zenon
<1>8. check_path(t)
  BY <1>3, <1>6, <1>7, CheckLemma
<1> QED
  BY <1>8 DEF t

(* No backslash in a text; a text that is no longer than another and has a *)
(* backslash only if the other has.                                        *)
NoBackslash(s) == \A i \in 1 .. Len(s) : s[i] # "\\"

Rest(s, r) == r \in Text /\ Len(r) <= Len(s) /\ (NoBackslash(s) => NoBackslash(r))

(* The parts of a text.                                                    *)
LEMMA RestLemma ==
  ASSUME NEW s \in Text, NEW k \in 0 .. Len(s)
  PROVE  Rest(s, Drop(s, k)) /\ Rest(s, SubSeq(s, 1, k)) /\ Rest(s, <<>>)
<1>1. Len(s) \in Nat
  BY DEF Text
<1>2. Rest(s, Drop(s, k))
  <2> DEFINE r == Drop(s, k)
  <2>1. r \in Text /\ Len(r) = Len(s) - k /\ \A i \in 1 .. Len(s) - k : r[i] = s[k + i]
    BY PartLemma
  <2> HIDE DEF r
  <2>2. \A i \in 1 .. Len(s) - k : k + i \in 1 .. Len(s)
    BY <1>1
  <2>3. NoBackslash(s) => NoBackslash(r)
    BY <2>1, <2>2 DEF NoBackslash
  <2>4. Len(r) <= Len(s)
    BY <1>1, <2>1
  <2>5. Rest(s, r)
    BY <2>1, <2>3, <2>4 DEF Rest
  <2> QED
    BY <2>5 DEF r
<1>3. Rest(s, SubSeq(s, 1, k))
  <2> DEFINE r == SubSeq(s, 1, k)
  <2>1. r \in Text /\ Len(r) = k /\ \A i \in 1 .. k : r[i] = s[i]
    BY PartLemma
  <2> HIDE DEF r
  <2>2. Rest(s, r)
    BY <1>1, <2>1 DEF Rest, NoBackslash
  <2> QED
    BY <2>2 DEF r
<1>4. Rest(s, <<>>)
  BY <1>1 DEF Rest, NoBackslash, Text
<1> QED
  BY <1>2, <1>3, <1>4

(* SkipSlashes leaves a part.                                              *)
LEMMA SkipLemma ==
  ASSUME NEW s \in Text
  PROVE  /\ Rest(s, SkipSlashes(s))
         /\ Len(s) >= 1 /\ s[1] = "/" => Len(SkipSlashes(s)) <= Len(s) - 1
<1> DEFINE I == {i \in 1 .. Len(s) : s[i] # "/"}
           k == Min(I)
<1>1. I = 1 .. Len(s) \ Slashes(s)
  BY DEF Slashes
<1>2. SkipSlashes(s) = IF I = {} THEN <<>> ELSE Drop(s, k - 1)
  BY <1>1, Zenon DEF SkipSlashes
<1>3. Len(s) \in Nat
  BY DEF Text
<1> HIDE DEF k
<1>4. CASE I = {}
  <2>1. SkipSlashes(s) = <<>> /\ 0 \in 0 .. Len(s)
    BY <1>1, <1>2, <1>3, <1>4
  <2>2. Rest(s, <<>>)
    BY <2>1, RestLemma
  <2> QED
    BY <1>3, <2>1, <2>2
<1>5. CASE I # {}
  <2>1. I \subseteq Nat
    BY <1>3
  <2>2. \E x \in I : \A y \in I : x <= y
    BY <1>5, <2>1, LeastLemma, Zenon
  <2>3. k \in I
    BY <2>2 DEF Min, k
  <2>4. k - 1 \in 0 .. Len(s) /\ k # 0 /\ (s[1] = "/" => k - 1 >= 1)
    BY <1>3, <2>3
  <2>5. Rest(s, Drop(s, k - 1)) /\ Len(Drop(s, k - 1)) = Len(s) - (k - 1)
    BY <2>4, RestLemma, PartLemma
  <2>6. SkipSlashes(s) = Drop(s, k - 1)
    BY <1>2, <1>5
  <2> HIDE DEF I
  <2>7. s[1] = "/" => Len(s) - (k - 1) <= Len(s) - 1
    BY <1>3, <2>4
  <2> QED
    BY <2>5, <2>6, <2>7
<1> QED
  BY <1>4, <1>5

(* The four things a turn of the loop may do, and how it moves between the *)
(* directories.                                                            *)
Stays(out, in, t, stack, new) == t.out = out /\ Rest(in, t.in) /\ new = stack

Leaves(out, in, t, stack, new) ==
  /\ t.out = eat_dir(out)
  /\ Rest(in, t.in)
  /\ new = IF Len(stack) = 1 THEN <<eat_dir(stack[1])>> ELSE ButLast(stack)

Ends(out, in, t, stack, new) ==
  /\ t.out = eat_file(out) \o in
  /\ t.in = <<>>
  /\ Name(in) /\ Plain(in) /\ in # <<".">> /\ in # <<".", ".">>
  /\ new = stack

Enters(out, in, t, stack, new) ==
  \E s : /\ Segment(s) /\ Plain(s) /\ Rest(in, s)
         /\ t.out = eat_file(out) \o s
         /\ Rest(in, t.in) /\ Len(t.in) + Len(s) <= Len(in)
         /\ new = Append(stack, LastOf(stack) \o s)

(* A turn of the loop of path_join does one of them.                       *)
LEMMA TurnLemma ==
  ASSUME NEW out \in Text, out # <<>>, NEW in \in Text, in # <<>>, NEW stack
  PROVE  LET t == Turn(out, in)
             new == Enter(stack, in)
         IN  \/ Stays(out, in, t, stack, new)
             \/ Leaves(out, in, t, stack, new)
             \/ Ends(out, in, t, stack, new)
             \/ Enters(out, in, t, stack, new)
<1> DEFINE t == Turn(out, in)
           new == Enter(stack, in)
           dot == At(in, 0, <<".", "/">>)
           dots == At(in, 0, <<".", ".", "/">>)
           k == FirstSlash(in)
<1>1. Len(in) \in Nat /\ Len(in) >= 1
  BY DEF Text
<1>2. Rest(in, <<>>)
  BY <1>1, RestLemma
<1>3. CASE in = <<".">>
  BY <1>2, <1>3, Zenon DEF Turn, Enter, Stays
<1>4. CASE in # <<".">> /\ dot
  <2>1. 2 \in 0 .. Len(in)
    BY <1>1, <1>4 DEF At
  <2>2. Rest(in, Drop(in, 2))
    BY <2>1, RestLemma
  <2>3. t.out = out /\ t.in = Drop(in, 2) /\ new = stack
    BY <1>4, Zenon DEF Turn, Enter
  <2> QED
    BY <2>2, <2>3, Zenon DEF Stays
<1>5. CASE in # <<".">> /\ ~dot /\ in = <<".", ".">>
  <2>1. /\ t.out = eat_dir(out) /\ t.in = <<>>
        /\ new = IF Len(stack) = 1 THEN <<eat_dir(stack[1])>> ELSE ButLast(stack)
    BY <1>5, Zenon DEF Turn, Enter
  <2> QED
    BY <1>2, <2>1, Zenon DEF Leaves
<1>6. CASE in # <<".">> /\ ~dot /\ in # <<".", ".">> /\ dots
  <2>1. 3 \in 0 .. Len(in)
    BY <1>1, <1>6 DEF At
  <2>2. Rest(in, Drop(in, 3))
    BY <2>1, RestLemma
  <2>3. /\ t.out = eat_dir(out) /\ t.in = Drop(in, 3)
        /\ new = IF Len(stack) = 1 THEN <<eat_dir(stack[1])>> ELSE ButLast(stack)
    BY <1>6, Zenon DEF Turn, Enter
  <2> QED
    BY <2>2, <2>3, Zenon DEF Leaves
<1>7. CASE in # <<".">> /\ ~dot /\ in # <<".", ".">> /\ ~dots
  <2>1. /\ k \in 0 .. Len(in)
        /\ k # 0 => in[k] = "/"
        /\ \A i \in 1 .. Len(in) : in[i] = "/" => k # 0 /\ k <= i
    BY FirstSlashLemma
  <2>2. (IF LastOf(out) # "/" THEN eat_file(out) ELSE out) = eat_file(out)
    <3>1. CASE LastOf(out) = "/"
      <4>1. Dir(out)
        BY <3>1 DEF Dir, LastOf, Text
      <4> QED
        BY <3>1, <4>1, EatFileLemma
    <3>2. CASE LastOf(out) # "/"
      BY <3>2
    <3> QED
      BY <3>1, <3>2
  <2>3. /\ ~(Len(in) >= 2 /\ in[1] = "." /\ in[2] = "/")
        /\ ~(Len(in) >= 3 /\ in[1] = "." /\ in[2] = "." /\ in[3] = "/")
    <3>1. Len(in) >= 2 /\ in[1] = "." /\ in[2] = "/" => dot
      BY <1>1 DEF At
    <3>2. Len(in) >= 3 /\ in[1] = "." /\ in[2] = "." /\ in[3] = "/" => dots
      BY <1>1 DEF At
    <3> QED
      BY <1>7, <3>1, <3>2
  <2>4. CASE k = 0
    <3>1. t.out = eat_file(out) \o in /\ t.in = <<>> /\ new = stack
      BY <1>7, <2>2, <2>4, Zenon DEF Turn, Enter
    <3>2. Name(in) /\ Plain(in)
      BY <1>1, <2>1, <2>3, <2>4 DEF Name, Plain
    <3> QED
      BY <1>7, <3>1, <3>2, Zenon DEF Ends
  <2>5. CASE k # 0
    <3> DEFINE s == SubSeq(in, 1, k)
               r == Drop(in, k)
    <3>1. /\ t.out = eat_file(out) \o s
          /\ t.in = SkipSlashes(r)
          /\ new = Append(stack, LastOf(stack) \o s)
      BY <1>7, <2>2, <2>5, Zenon DEF Turn, Enter
    <3>2. /\ s \in Text /\ Len(s) = k /\ \A i \in 1 .. k : s[i] = in[i]
          /\ r \in Text /\ Len(r) = Len(in) - k
      BY <2>1, PartLemma
    <3>3. Rest(in, s) /\ Rest(in, r)
      BY <2>1, RestLemma
    <3> HIDE DEF t, new, s, r, k
    <3>4. Rest(r, SkipSlashes(r))
      BY <3>2, SkipLemma
    <3>5. Rest(in, t.in) /\ Len(t.in) + Len(s) <= Len(in)
      <4>1. t.in \in Text /\ Len(t.in) \in Nat /\ Len(t.in) <= Len(r)
        BY <3>1, <3>4 DEF Rest, Text
      <4>2. NoBackslash(in) => NoBackslash(t.in)
        BY <3>1, <3>3, <3>4 DEF Rest
      <4> QED
        BY <1>1, <2>1, <3>2, <4>1, <4>2 DEF Rest
    <3>6. Segment(s)
      BY <1>1, <2>1, <2>5, <3>2 DEF Segment
    <3>7. Plain(s)
      <4>1. \A i \in 1 .. Len(s) - 1 : s[i] # "/"
        BY <1>1, <2>1, <2>5, <3>2
      <4>2. /\ Len(s) >= 2 => Len(in) >= 2 /\ s[1] = in[1] /\ s[2] = in[2]
            /\ Len(s) >= 3 => Len(in) >= 3 /\ s[3] = in[3]
        BY <1>1, <2>1, <3>2
      <4> QED
        BY <2>1, <2>3, <2>5, <3>2, <4>1, <4>2 DEF Plain
    <3>8. Enters(out, in, t, stack, new)
      BY <3>1, <3>3, <3>5, <3>6, <3>7, Zenon DEF Enters
    <3> QED
      BY <3>8 DEF t, new
  <2> QED
    BY <2>4, <2>5
<1> QED
  BY <1>3, <1>4, <1>5, <1>6, <1>7, Zenon

(* The stack of directories: each is the one before and a segment.         *)
Stack(stack) ==
  /\ stack \in Seq(Text) /\ Len(stack) >= 1
  /\ \A i \in 1 .. Len(stack) : Dir(stack[i])
  /\ \A i \in 1 .. Len(stack) - 1 : \E s : Segment(s) /\ stack[i + 1] = stack[i] \o s

(* From the root, and without backslashes: clean, and a directory as long  *)
(* as there is something left to be read.                                  *)
CleanSoFar(out, in) ==
  /\ NoBackslash(in)
  /\ Clean(out)
  /\ IF in = <<>> THEN check_path(out) ELSE Dir(out)

(* The inductive invariant of the loop of path_join.                       *)
JoinInv ==
  /\ base \in Bases /\ rel \in Rels
  /\ written \in Text /\ written # <<>> /\ left \in Text
  /\ Len(written) + Len(left) <= Larger(1, Len(base)) + Len(rel)
  /\ Stack(dirs)
  /\ eat_file(written) = dirs[Len(dirs)]
  /\ Rooted /\ NoBackslash(rel) => CleanSoFar(written, left)

(* A clean directory passes check_path.                                    *)
LEMMA CleanDirLemma ==
  ASSUME NEW d, Clean(d), Dir(d)
  PROVE  check_path(d)
<1>1. d[Len(d)] # "."
  BY DEF Dir
<1> QED
  BY <1>1, CheckLemma

(* A length is one, or more.                                               *)
LEMMA LengthLemma ==
  ASSUME NEW S, NEW s \in Seq(S), Len(s) >= 1
  PROVE  Len(s) = 1 \/ Len(s) >= 2
<1>1. \A x \in Nat : x >= 1 => x = 1 \/ x >= 2
  OBVIOUS
<1>2. Len(s) \in Nat
  OBVIOUS
<1> QED
  BY <1>1, <1>2, Zenon

(* eat_file of nothing is the root.                                        *)
LEMMA EatNothingLemma == eat_file(<<>>) = <<"/">>
<1>1. <<>> \in Text /\ Len(<<>>) = 0
  BY DEF Text
<1>2. LastSlash(<<>>) \in 0 .. 0
  BY <1>1, LastSlashLemma
<1> QED
  BY <1>2 DEF eat_file

(* What eat_dir leaves.                                                    *)
LEMMA EatDirLemma ==
  ASSUME NEW s \in Text, s # <<>>
  PROVE  /\ Dir(eat_dir(s))
         /\ Len(eat_dir(s)) <= Len(s)
         /\ Clean(s) => Clean(eat_dir(s))
         /\ eat_dir(eat_file(s)) = eat_dir(s)
<1> DEFINE d == eat_file(s)
           f == SubSeq(d, 1, Len(d) - 1)
<1>1. Dir(d) /\ Len(d) <= Len(s) /\ eat_file(d) = d
  <2>1. Dir(d) /\ Len(d) <= Len(s)
    BY EatFileLemma
  <2>2. d \in Text
    BY <2>1 DEF Dir
  <2> HIDE DEF d
  <2> QED
    BY <2>1, <2>2, EatFileLemma
<1>2. Clean(s) => Clean(d)
  <2>1. ASSUME Clean(s) PROVE Clean(d)
    <3>1. PICK k \in 1 .. Len(s) : d = SubSeq(s, 1, k)
      BY <2>1, EatFileLemma DEF Clean
    <3> QED
      BY <2>1, <3>1, CleanPartLemma
  <2> QED
    BY <2>1
<1>3. eat_dir(s) = eat_file(f) /\ eat_dir(d) = eat_file(f)
  BY <1>1 DEF eat_dir, ButLast
<1> HIDE DEF d
<1>4. d \in Text /\ Len(d) \in Nat /\ Len(s) \in Nat /\ Len(d) >= 1
  BY <1>1 DEF Dir, Text
<1>5. f \in Text /\ Len(f) = Len(d) - 1
  <2>1. Len(d) - 1 \in 0 .. Len(d)
    BY <1>4
  <2> QED
    BY <1>4, <2>1, PartLemma, Zenon
<1> HIDE DEF f
<1>6. Dir(eat_file(f)) /\ (f # <<>> => Len(eat_file(f)) <= Len(f))
  BY <1>5, EatFileLemma
<1>7. Len(eat_file(f)) <= Len(s)
  <2>1. CASE f = <<>>
    <3>1. Len(eat_file(f)) = 1
      BY <2>1, EatNothingLemma
    <3> QED
      BY <1>1, <1>4, <3>1
  <2>2. CASE f # <<>>
    <3>1. Len(eat_file(f)) \in Nat /\ Len(eat_file(f)) <= Len(f)
      BY <1>6, <2>2 DEF Dir, Text
    <3> QED
      BY <1>1, <1>4, <1>5, <3>1
  <2> QED
    BY <2>1, <2>2
<1>8. ASSUME Clean(d) PROVE Clean(eat_file(f))
  <2>1. CASE Len(d) = 1
    <3>1. f = <<>>
      BY <1>5, <2>1 DEF Text
    <3>2. eat_file(f) = <<"/">>
      BY <3>1, EatNothingLemma
    <3>3. d = <<"/">>
      BY <1>4, <1>8, <2>1, SlashLemma DEF Clean, Text
    <3> QED
      BY <1>8, <3>2, <3>3
  <2>2. CASE Len(d) >= 2
    <3>1. Len(d) - 1 \in 1 .. Len(d)
      BY <1>4, <2>2
    <3>2. Clean(f)
      BY <1>8, <3>1, CleanPartLemma DEF f
    <3>3. PICK k \in 1 .. Len(f) : eat_file(f) = SubSeq(f, 1, k)
      BY <1>5, <3>2, EatFileLemma, SMTT(20) DEF Clean
    <3> QED
      BY <3>2, <3>3, CleanPartLemma
  <2>3. Len(d) = 1 \/ Len(d) >= 2
    BY <1>4, LengthLemma, Zenon DEF Text
  <2> QED
    BY <2>1, <2>2, <2>3, Zenon
<1> QED
  BY <1>2, <1>3, <1>6, <1>7, <1>8 DEF d

(* The stack before the last directory entered; what it was entered from.  *)
LEMMA FrontStackLemma ==
  ASSUME NEW stack, Stack(stack), Len(stack) >= 2
  PROVE  /\ Stack(ButLast(stack))
         /\ ButLast(stack)[Len(ButLast(stack))] = eat_dir(stack[Len(stack)])
<1> DEFINE k == Len(stack) - 1
           front == ButLast(stack)
<1>1. Len(stack) \in Nat /\ Len(stack) >= 2 /\ stack \in Seq(Text)
  BY DEF Stack
<1>2. /\ k \in Nat /\ k >= 1 /\ k + 1 = Len(stack)
      /\ k \in 1 .. Len(stack) - 1 /\ k \in 1 .. Len(stack)
  BY <1>1
<1>3. \A i \in 1 .. k : stack[i] \in Text
  BY <1>1, <1>2
<1>4. front \in Seq(Text) /\ Len(front) = k /\ \A i \in 1 .. k : front[i] = stack[i]
  BY <1>1, <1>2, <1>3 DEF ButLast
<1> HIDE DEF front, k
<1>5. PICK s : Segment(s) /\ stack[k + 1] = stack[k] \o s
  BY <1>2, Zenon DEF Stack
<1>6. Dir(stack[k]) /\ Dir(stack[Len(stack)])
  BY <1>1, <1>2 DEF Stack
<1>7. eat_file(ButLast(stack[Len(stack)])) = stack[k]
  BY <1>2, <1>5, <1>6, EnterLemma, Zenon
<1>8. eat_dir(stack[Len(stack)]) = stack[k]
  <2>1. eat_file(stack[Len(stack)]) = stack[Len(stack)]
    BY <1>6, EatFileLemma DEF Dir
  <2> QED
    BY <1>7, <2>1 DEF eat_dir
<1>9. Stack(front)
  <2>1. ASSUME NEW i \in 1 .. Len(front) PROVE Dir(front[i])
    <3>1. i \in 1 .. k /\ i \in 1 .. Len(stack)
      BY <1>1, <1>2, <1>4
    <3>2. Dir(stack[i])
      BY <3>1 DEF Stack
    <3> QED
      BY <1>4, <3>1, <3>2
  <2>2. ASSUME NEW i \in 1 .. Len(front) - 1
        PROVE  \E q : Segment(q) /\ front[i + 1] = front[i] \o q
    <3>1. i \in 1 .. Len(stack) - 1 /\ i \in 1 .. k /\ i + 1 \in 1 .. k
      BY <1>1, <1>2, <1>4
    <3>2. \E q : Segment(q) /\ stack[i + 1] = stack[i] \o q
      BY <3>1, Zenon DEF Stack
    <3> QED
      BY <1>4, <3>1, <3>2, Zenon
  <2> QED
    BY <1>2, <1>4, <2>1, <2>2, Zenon DEF Stack
<1>10. front[Len(front)] = stack[k]
  BY <1>2, <1>4
<1> QED
  BY <1>8, <1>9, <1>10 DEF front

(* The stack with one more directory.                                      *)
LEMMA PushStackLemma ==
  ASSUME NEW stack, Stack(stack), NEW s, Segment(s)
  PROVE  LET new == Append(stack, LastOf(stack) \o s)
         IN  Stack(new) /\ new[Len(new)] = stack[Len(stack)] \o s
<1> DEFINE d == LastOf(stack) \o s
           new == Append(stack, d)
           k == Len(stack)
<1>1. k \in Nat /\ k >= 1 /\ k \in 1 .. k /\ stack \in Seq(Text)
  BY DEF Stack
<1>2. Dir(stack[k]) /\ d = stack[k] \o s
  BY <1>1 DEF Stack, LastOf
<1>3. Dir(d)
  BY <1>2, EnterLemma
<1> HIDE DEF d
<1>4. /\ new \in Seq(Text) /\ Len(new) = k + 1
      /\ \A i \in 1 .. k : new[i] = stack[i]
      /\ new[k + 1] = d
  BY <1>1, <1>3 DEF Dir
<1> HIDE DEF new
<1>5. \A i \in 1 .. Len(new) : Dir(new[i])
  BY <1>1, <1>3, <1>4 DEF Stack
<1>6. ASSUME NEW i \in 1 .. Len(new) - 1
      PROVE  \E q : Segment(q) /\ new[i + 1] = new[i] \o q
  <2>1. CASE i = k
    <3>1. Segment(s) /\ new[i + 1] = new[i] \o s
      BY <1>1, <1>2, <1>4, <2>1, Zenon
    <3> QED
      BY <3>1
  <2>2. CASE i # k
    <3>1. i \in 1 .. k - 1 /\ i \in 1 .. k /\ i + 1 \in 1 .. k
      BY <1>1, <1>4, <2>2
    <3>2. \E q : Segment(q) /\ stack[i + 1] = stack[i] \o q
      BY <3>1, Zenon DEF Stack
    <3> QED
      BY <1>4, <3>1, <3>2, Zenon
  <2> QED
    BY <2>1, <2>2, Zenon
<1>7. Stack(new)
  <2>1. Len(new) >= 1
    BY <1>1, <1>4
  <2> QED
    BY <1>4, <1>5, <1>6, <2>1, Zenon DEF Stack
<1>8. new[Len(new)] = stack[k] \o s
  BY <1>2, <1>4
<1> QED
  BY <1>7, <1>8 DEF new, d

(* What a turn of the loop keeps.                                          *)
Keeps(out, in, t, new) ==
  /\ t.out \in Text /\ t.out # <<>> /\ t.in \in Text
  /\ Len(t.out) + Len(t.in) <= Len(out) + Len(in)
  /\ Stack(new)
  /\ eat_file(t.out) = new[Len(new)]
  /\ in # <<>> /\ CleanSoFar(out, in) => CleanSoFar(t.out, t.in)

(* "." leaves everything where it is.                                      *)
LEMMA StaysLemma ==
  ASSUME NEW out \in Text, out # <<>>, NEW in \in Text, in # <<>>, NEW stack, Stack(stack),
         eat_file(out) = stack[Len(stack)],
         NEW t, NEW new, Stays(out, in, t, stack, new)
  PROVE  Keeps(out, in, t, new)
<1>1. t.out = out /\ Rest(in, t.in) /\ new = stack
  BY DEF Stays
<1>2. Len(out) \in Nat /\ Len(in) \in Nat /\ Len(t.in) \in Nat
  BY <1>1 DEF Rest, Text
<1>3. Len(t.out) + Len(t.in) <= Len(out) + Len(in)
  BY <1>1, <1>2 DEF Rest
<1>4. ASSUME CleanSoFar(out, in) PROVE CleanSoFar(t.out, t.in)
  <2>1. Clean(out) /\ Dir(out) /\ NoBackslash(t.in)
    BY <1>1, <1>4 DEF CleanSoFar, Rest
  <2>2. check_path(out)
    BY <2>1, CleanDirLemma
  <2> QED
    BY <1>1, <2>1, <2>2 DEF CleanSoFar
<1> QED
  BY <1>1, <1>3, <1>4 DEF Keeps, Rest

(* ".." goes back to the directory before.                                 *)
LEMMA LeavesLemma ==
  ASSUME NEW out \in Text, out # <<>>, NEW in \in Text, in # <<>>, NEW stack, Stack(stack),
         eat_file(out) = stack[Len(stack)],
         NEW t, NEW new, Leaves(out, in, t, stack, new)
  PROVE  Keeps(out, in, t, new)
<1> DEFINE d == eat_dir(out)
<1>1. /\ t.out = d /\ Rest(in, t.in)
      /\ new = IF Len(stack) = 1 THEN <<eat_dir(stack[1])>> ELSE ButLast(stack)
  BY DEF Leaves
<1>2. /\ Dir(d) /\ Len(d) <= Len(out) /\ (Clean(out) => Clean(d))
      /\ eat_dir(stack[Len(stack)]) = d
  BY EatDirLemma
<1>3. eat_file(d) = d
  BY <1>2, EatFileLemma DEF Dir
<1> HIDE DEF d
<1>4. d \in Text /\ d # <<>>
  BY <1>2 DEF Dir
<1>5. Len(d) \in Nat /\ Len(out) \in Nat /\ Len(in) \in Nat /\ Len(t.in) \in Nat
  BY <1>1, <1>4 DEF Rest, Text
<1>6. Len(t.out) + Len(t.in) <= Len(out) + Len(in)
  BY <1>1, <1>2, <1>5 DEF Rest
<1>7. Stack(new) /\ new[Len(new)] = d
  <2>1. CASE Len(stack) = 1
    <3>1. new = <<d>>
      BY <1>1, <1>2, <2>1
    <3>2. new \in Seq(Text) /\ Len(new) = 1 /\ new[1] = d
      BY <1>4, <3>1
    <3>3. \A i \in 1 .. Len(new) : i = 1
      BY <3>2
    <3>4. 1 .. Len(new) - 1 = {}
      BY <3>2
    <3>5. Len(new) >= 1
      BY <3>2
    <3>6. \A i \in 1 .. Len(new) : Dir(new[i])
      BY <1>2, <3>2, <3>3, Zenon
    <3>7. \A i \in 1 .. Len(new) - 1 : \E s : Segment(s) /\ new[i + 1] = new[i] \o s
      BY <3>4, Zenon
    <3> QED
      BY <3>2, <3>5, <3>6, <3>7, Zenon DEF Stack
  <2>2. CASE Len(stack) >= 2
    <3>1. ~(Len(stack) = 1)
      <4>1. \A x \in Nat : x >= 2 => ~(x = 1)
        OBVIOUS
      <4>2. Len(stack) \in Nat
        BY DEF Stack
      <4> QED
        BY <2>2, <4>1, <4>2, Zenon
    <3>2. new = ButLast(stack)
      BY <1>1, <3>1, Zenon
    <3> QED
      BY <1>2, <2>2, <3>2, FrontStackLemma
  <2>3. Len(stack) = 1 \/ Len(stack) >= 2
    BY LengthLemma, Zenon DEF Stack
  <2> QED
    BY <2>1, <2>2, <2>3, Zenon
<1>8. ASSUME CleanSoFar(out, in) PROVE CleanSoFar(t.out, t.in)
  <2>1. Clean(d) /\ Dir(d) /\ NoBackslash(t.in)
    BY <1>1, <1>2, <1>8 DEF CleanSoFar, Rest
  <2>2. check_path(d)
    BY <2>1, CleanDirLemma
  <2> QED
    BY <1>1, <2>1, <2>2, Zenon DEF CleanSoFar
<1> QED
  BY <1>1, <1>3, <1>4, <1>6, <1>7, <1>8 DEF Keeps, Rest

(* A file name ends the path.                                              *)
LEMMA EndsLemma ==
  ASSUME NEW out \in Text, out # <<>>, NEW in \in Text, in # <<>>, NEW stack, Stack(stack),
         eat_file(out) = stack[Len(stack)],
         NEW t, NEW new, Ends(out, in, t, stack, new)
  PROVE  Keeps(out, in, t, new)
<1> DEFINE d == eat_file(out)
<1>1. Dir(d) /\ Len(d) <= Len(out) /\ (Dir(out) => d = out)
  BY EatFileLemma
<1>2. /\ t.out = d \o in /\ t.in = <<>>
      /\ Name(in) /\ Plain(in) /\ in # <<".">> /\ in # <<".", ".">>
      /\ new = stack
  BY DEF Ends
<1> HIDE DEF d
<1>3. /\ t.out \in Text /\ Len(t.out) = Len(d) + Len(in)
      /\ Len(d) \in Nat /\ Len(in) \in Nat /\ Len(out) \in Nat
      /\ Len(d) >= 1
  BY <1>1, <1>2, JoinedLemma DEF Dir
<1>4. t.out # <<>> /\ Len(t.out) + Len(t.in) <= Len(out) + Len(in)
  BY <1>1, <1>2, <1>3
<1>5. eat_file(t.out) = new[Len(new)]
  BY <1>1, <1>2, FileLemma DEF d
<1>6. ASSUME CleanSoFar(out, in) PROVE CleanSoFar(t.out, t.in)
  <2>1. Clean(d) /\ Dir(d) /\ NoBackslash(in)
    BY <1>1, <1>6 DEF CleanSoFar
  <2>2. check_path(t.out)
    BY <1>2, <2>1, CleanFileLemma DEF NoBackslash
  <2>3. Clean(t.out)
    BY <1>2, <2>1, CleanEnterLemma DEF NoBackslash
  <2> QED
    BY <1>2, <2>2, <2>3 DEF CleanSoFar, NoBackslash
<1>7. t.in \in Text
  BY <1>2 DEF Text
<1> QED
  BY <1>2, <1>3, <1>4, <1>5, <1>6, <1>7 DEF Keeps

(* A name with a slash enters a directory.                                 *)
LEMMA EntersLemma ==
  ASSUME NEW out \in Text, out # <<>>, NEW in \in Text, in # <<>>, NEW stack, Stack(stack),
         eat_file(out) = stack[Len(stack)],
         NEW t, NEW new, Enters(out, in, t, stack, new)
  PROVE  Keeps(out, in, t, new)
<1> DEFINE d == eat_file(out)
<1>1. Dir(d) /\ Len(d) <= Len(out) /\ (Dir(out) => d = out)
  BY EatFileLemma
<1>2. PICK s : /\ Segment(s) /\ Plain(s) /\ Rest(in, s)
               /\ t.out = d \o s
               /\ Rest(in, t.in) /\ Len(t.in) + Len(s) <= Len(in)
               /\ new = Append(stack, LastOf(stack) \o s)
  BY Zenon DEF Enters
<1> HIDE DEF d
<1>3. Dir(t.out)
  BY <1>1, <1>2, EnterLemma, Zenon
<1>4. /\ t.out \in Text /\ Len(t.out) = Len(d) + Len(s)
      /\ Len(d) \in Nat /\ Len(s) \in Nat
  BY <1>1, <1>2, JoinedLemma DEF Dir, Segment
<1>5. Len(out) \in Nat /\ Len(in) \in Nat /\ Len(t.in) \in Nat
  BY <1>2 DEF Rest, Text
<1>6. t.out # <<>> /\ Len(t.out) + Len(t.in) <= Len(out) + Len(in)
  <2>1. Len(d) <= Len(out) /\ Len(t.in) + Len(s) <= Len(in) /\ Len(t.out) = Len(d) + Len(s)
    BY <1>1, <1>2, <1>4
  <2>2. \A a, b, c, e, f, g \in Nat :
          a <= b /\ c + e <= f /\ g = a + e => g + c <= b + f
    OBVIOUS
  <2>3. Len(t.out) \in Nat /\ Len(t.out) >= 1
    BY <1>3 DEF Dir, Text
  <2>4. Len(t.out) + Len(t.in) <= Len(out) + Len(in)
    BY <1>4, <1>5, <2>1, <2>2, <2>3, Zenon
  <2>5. t.out # <<>>
    <3>1. \A x : x = <<>> => Len(x) = 0
      OBVIOUS
    <3>2. Len(t.out) # 0
      BY <2>3
    <3> QED
      BY <3>1, <3>2, Zenon
  <2> QED
    BY <2>4, <2>5, Zenon
<1>7. Stack(new) /\ new[Len(new)] = d \o s
  BY <1>2, PushStackLemma, Zenon DEF d
<1>8. eat_file(t.out) = new[Len(new)]
  BY <1>2, <1>3, <1>4, <1>7, EatFileLemma, Zenon
<1>9. ASSUME CleanSoFar(out, in) PROVE CleanSoFar(t.out, t.in)
  <2>1. Clean(d) /\ Dir(d) /\ NoBackslash(s) /\ NoBackslash(t.in)
    BY <1>1, <1>2, <1>9 DEF CleanSoFar, Rest
  <2>2. Clean(t.out)
    BY <1>2, <2>1, CleanEnterLemma, Zenon DEF NoBackslash
  <2>3. check_path(t.out)
    BY <1>3, <2>2, CleanDirLemma
  <2> QED
    BY <1>3, <2>1, <2>2, <2>3, Zenon DEF CleanSoFar
<1> QED
  BY <1>2, <1>4, <1>6, <1>7, <1>8, <1>9, Zenon DEF Keeps, Rest

(* The loop starts with what the invariant asks for.                       *)
LEMMA StartLemma ==
  ASSUME JoinInit
  PROVE  JoinInv
<1>1. base \in Text /\ rel \in Text /\ base \in Bases /\ rel \in Rels
  BY JoinAssumption DEF JoinInit
<1>2. Len(base) \in Nat /\ Len(rel) \in Nat
  BY <1>1 DEF Text
<1>3. Clean(<<"/">>) /\ Dir(<<"/">>) /\ check_path(<<"/">>)
  <2>1. Clean(<<"/">>) /\ Dir(<<"/">>)
    BY SlashLemma DEF Clean, Dir
  <2> QED
    BY <2>1, CleanDirLemma
<1>4. /\ written \in Text /\ written # <<>> /\ left \in Text
      /\ Len(written) + Len(left) <= Larger(1, Len(base)) + Len(rel)
      /\ Rooted /\ NoBackslash(rel) => CleanSoFar(written, left)
  <2>1. CASE rel # <<>> /\ Head(rel) = "/"
    <3>1. Len(rel) >= 1 /\ rel[1] = "/"
      BY <1>1, <2>1 DEF Text
    <3>2. written = <<"/">> /\ left = SkipSlashes(rel)
      BY <2>1 DEF JoinInit, Start
    <3>3. Rest(rel, left) /\ Len(left) <= Len(rel) - 1
      BY <1>1, <3>1, <3>2, SkipLemma
    <3>4. Len(left) \in Nat
      BY <3>3 DEF Rest, Text
    <3>5. Len(written) + Len(left) <= Larger(1, Len(base)) + Len(rel)
      BY <1>2, <3>2, <3>3, <3>4, SlashLemma DEF Larger
    <3>6. NoBackslash(rel) => CleanSoFar(written, left)
      BY <1>3, <3>2, <3>3 DEF CleanSoFar, Rest
    <3> QED
      BY <3>2, <3>3, <3>5, <3>6, SlashLemma DEF Rest
  <2>2. CASE ~(rel # <<>> /\ Head(rel) = "/")
    <3>1. written = (IF base = <<>> THEN <<"/">> ELSE base) /\ left = rel
      BY <2>2 DEF JoinInit, Start
    <3>2. /\ written \in Text /\ written # <<>>
          /\ Len(written) \in Nat /\ Len(written) <= Larger(1, Len(base))
      BY <1>1, <1>2, <3>1, SlashLemma DEF Larger
    <3>3. Len(written) + Len(left) <= Larger(1, Len(base)) + Len(rel)
      BY <1>2, <3>1, <3>2 DEF Larger
    <3>4. Rooted /\ NoBackslash(rel) => CleanSoFar(written, left)
      BY <1>3, <2>2, <3>1 DEF Rooted, CleanSoFar
    <3> QED
      BY <1>1, <3>1, <3>2, <3>3, <3>4
  <2> QED
    BY <2>1, <2>2
<1>5. dirs = <<eat_file(written)>> /\ Dir(eat_file(written))
  BY <1>4, EatFileLemma DEF JoinInit
<1>6. Stack(dirs) /\ eat_file(written) = dirs[Len(dirs)]
  <2>1. dirs \in Seq(Text) /\ Len(dirs) = 1 /\ dirs[1] = eat_file(written)
    BY <1>5 DEF Dir
  <2> QED
    BY <1>5, <2>1 DEF Stack
<1> QED
  BY <1>1, <1>4, <1>6 DEF JoinInv

(* The inductive invariant of path_join's loop, for all paths.             *)
THEOREM JoinInvHolds == JoinSpec => []JoinInv
<1>1. JoinInit => JoinInv
  BY StartLemma
<1>2. JoinInv /\ [NextTurn]_joinVars => JoinInv'
  <2> SUFFICES ASSUME JoinInv, [NextTurn]_joinVars PROVE JoinInv'
    OBVIOUS
  <2>1. CASE NextTurn
    <3> DEFINE t == Turn(written, left)
    <3>1. /\ written \in Text /\ written # <<>> /\ left \in Text /\ left # <<>>
          /\ Stack(dirs) /\ eat_file(written) = dirs[Len(dirs)]
      BY <2>1 DEF JoinInv, NextTurn
    <3>2. /\ written' = t.out /\ left' = t.in /\ dirs' = Enter(dirs, left)
          /\ base' = base /\ rel' = rel
      BY <2>1 DEF NextTurn
    <3>3. \/ Stays(written, left, t, dirs, dirs')
          \/ Leaves(written, left, t, dirs, dirs')
          \/ Ends(written, left, t, dirs, dirs')
          \/ Enters(written, left, t, dirs, dirs')
      BY <3>1, <3>2, TurnLemma
    <3> HIDE DEF t
    <3>4. Keeps(written, left, t, dirs')
      <4>1. CASE Stays(written, left, t, dirs, dirs')
        BY <3>1, <4>1, StaysLemma
      <4>2. CASE Leaves(written, left, t, dirs, dirs')
        BY <3>1, <4>2, LeavesLemma
      <4>3. CASE Ends(written, left, t, dirs, dirs')
        BY <3>1, <4>3, EndsLemma
      <4>4. CASE Enters(written, left, t, dirs, dirs')
        BY <3>1, <4>4, EntersLemma
      <4> QED
        BY <3>3, <4>1, <4>2, <4>3, <4>4
    <3>5. Len(written') + Len(left') <= Larger(1, Len(base')) + Len(rel')
      <4>1. Len(written') + Len(left') <= Len(written) + Len(left)
        BY <3>2, <3>4, Zenon DEF Keeps
      <4>2. Len(written) + Len(left) <= Larger(1, Len(base)) + Len(rel)
        BY DEF JoinInv
      <4>3. /\ Len(written) \in Nat /\ Len(left) \in Nat
            /\ Len(written') \in Nat /\ Len(left') \in Nat
            /\ Larger(1, Len(base)) + Len(rel) \in Nat
        <5>1. base \in Text /\ rel \in Text /\ written' \in Text /\ left' \in Text
          BY <3>2, <3>4, JoinAssumption DEF JoinInv, Keeps
        <5>2. Len(base) \in Nat /\ Len(rel) \in Nat /\ Len(written') \in Nat /\ Len(left') \in Nat
          BY <5>1 DEF Text
        <5>3. Len(written) \in Nat /\ Len(left) \in Nat
          BY <3>1 DEF Text
        <5> QED
          BY <5>2, <5>3 DEF Larger
      <4>4. Larger(1, Len(base')) + Len(rel') = Larger(1, Len(base)) + Len(rel)
        BY <3>2
      <4> QED
        BY <4>1, <4>2, <4>3, <4>4
    <3>6. (Rooted /\ NoBackslash(rel))' => CleanSoFar(written', left')
      BY <3>1, <3>2, <3>4 DEF JoinInv, Keeps, Rooted
    <3> QED
      BY <3>2, <3>4, <3>5, <3>6, Zenon DEF JoinInv, Keeps
  <2>2. CASE UNCHANGED joinVars
    BY <2>2 DEF joinVars, JoinInv, Rooted
  <2> QED
    BY <2>1, <2>2
<1> QED
  BY <1>1, <1>2, PTL DEF JoinSpec

(* Sanitizes, for every base path, relative path and query.                *)
THEOREM SanitizesHolds == JoinSpec => []Sanitizes
<1>1. JoinInv => Sanitizes
  <2> SUFFICES ASSUME JoinInv PROVE Sanitizes
    OBVIOUS
  <2>1. base \in Text /\ rel \in Text /\ written \in Text /\ left \in Text
    BY JoinAssumption DEF JoinInv
  <2>2. /\ Len(base) \in Nat /\ Len(rel) \in Nat /\ Len(written) \in Nat /\ Len(left) \in Nat
        /\ Larger(1, Len(base)) \in Nat
    BY <2>1 DEF Text, Larger
  <2>3. ASSUME NEW base_query \in Queries, NEW rel_query \in Queries
        PROVE  Len(written) + Len(left) + Len(QueryOf(base_query, rel, rel_query)) + 1
                 <= BufferSize(base, base_query, rel, rel_query)
    <3>1. /\ base_query \in Text /\ rel_query \in Text
          /\ Len(base_query) \in Nat /\ Len(rel_query) \in Nat
      BY JoinAssumption DEF Text
    <3>2. ASSUME NEW q \in Text
          PROVE  Len(Query(q)) \in Nat /\ Len(Query(q)) <= 1 + Len(q)
      <4>1. Len(q) \in Nat
        BY DEF Text
      <4>2. CASE q = <<>>
        BY <4>1, <4>2 DEF Query
      <4>3. CASE q # <<>>
        <5>1. q \in Seq(Chars \cup {"?"}) /\ <<"?">> \in Seq(Chars \cup {"?"}) /\ Len(<<"?">>) = 1
          BY DEF Text
        <5>2. Len(<<"?">> \o q) = 1 + Len(q)
          BY <5>1
        <5> QED
          BY <4>1, <4>3, <5>2 DEF Query
      <4> QED
        BY <4>2, <4>3
    <3>3. /\ Len(QueryOf(base_query, rel, rel_query)) \in Nat
          /\ Len(QueryOf(base_query, rel, rel_query))
               <= 1 + Larger(Len(base_query), Len(rel_query))
      <4>1. CASE rel = <<>> /\ rel_query = <<>>
        <5>1. QueryOf(base_query, rel, rel_query) = Query(base_query)
          BY <4>1 DEF QueryOf
        <5> QED
          BY <3>1, <3>2, <5>1 DEF Larger
      <4>2. CASE ~(rel = <<>> /\ rel_query = <<>>)
        <5>1. QueryOf(base_query, rel, rel_query) = Query(rel_query)
          BY <4>2 DEF QueryOf
        <5> QED
          BY <3>1, <3>2, <5>1 DEF Larger
      <4> QED
        BY <4>1, <4>2
    <3>4. Larger(Len(base_query), Len(rel_query)) \in Nat
      BY <3>1 DEF Larger
    <3>5. Len(written) + Len(left) <= Larger(1, Len(base)) + Len(rel)
      BY DEF JoinInv
    <3> QED
      BY <2>2, <3>3, <3>4, <3>5, SMTT(20) DEF BufferSize
  <2>4. ASSUME left = <<>>, Rooted, ~HasInside(rel, <<"\\">>)
        PROVE  check_path(written)
    <3>1. NoBackslash(rel)
      BY <2>1, <2>4, InsideLemma DEF NoBackslash
    <3> QED
      BY <2>4, <3>1 DEF JoinInv, CleanSoFar
  <2>5. eat_file(written) = dirs[Len(dirs)]
    BY DEF JoinInv
  <2> QED
    BY <2>3, <2>4, <2>5 DEF Sanitizes
<1> QED
  BY <1>1, JoinInvHolds, PTL

=============================================================================
