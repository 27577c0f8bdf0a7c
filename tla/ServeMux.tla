----------------------------- MODULE ServeMux -----------------------------
(***************************************************************************)
(* serve_mux: patterns are registered with handle(), requests are routed   *)
(* by handler().  A pattern or a path is a sequence of characters, where   *)
(* one character stands for a whole path segment or host name; path_join   *)
(* (module PathJoin) sanitizes request paths.                              *)
(***************************************************************************)
EXTENDS PathJoin

CONSTANTS
  Patterns,       \* the patterns an application registers
  Hosts,          \* the hosts of requests
  RequestPaths    \* the paths of requests

ASSUME PatternsAssumption == Patterns \subseteq Text \ {<<>>}

ASSUME HostsAssumption == Hosts \subseteq Text

(* path_join makes a text of a text and settles: applied a third time it   *)
(* changes nothing more.  This is a matter of path_join alone, which the   *)
(* proofs about serve_mux take from here.                                  *)
ASSUME SettlesAssumption ==
  \A path \in RequestPaths :
    LET clean == CleanPath(path)
        twice == CleanPath(clean)
    IN  {path, clean, twice} \subseteq Text /\ CleanPath(twice) = twice

VARIABLES
  mux,          \* mux_: a function on patterns
  accepted      \* the patterns for which handle() has returned true

muxVars == <<mux, accepted>>

(* request_cb: a user's handler, named after the pattern it was registered *)
(* with, a redirect_handler(301, path), or status_handler(404).            *)
User(pattern) == [kind |-> "user", path |-> pattern]

Redirect(path) == [kind |-> "redirect", path |-> path]

NotFound == [kind |-> "status", path |-> <<>>]

MuxInit ==
  /\ mux = << >>
  /\ accepted = {}

-----------------------------------------------------------------------------
user_defined(m, pattern) == pattern \in DOMAIN m /\ m[pattern].kind = "user"

(* mux_.emplace: nothing happens when the key exists.                      *)
Emplace(m, pattern, cb) ==
  [p \in DOMAIN m \cup {pattern} |-> IF p \in DOMAIN m THEN m[p] ELSE cb]

(* An entry is added, or replaces the one for its key.                     *)
Assign(m, pattern, cb) ==
  [p \in DOMAIN m \cup {pattern} |-> IF p = pattern THEN cb ELSE m[p]]

(* Skip the host part of a pattern.                                        *)
PathOf(pattern) == Drop(pattern, FirstSlash(pattern) - 1)

(* Variants stand for plausible mistakes; no specification uses them.      *)
(* Variant: the redirect leads to the path it was added for.               *)
WithRedirectSelf(m, pattern) ==
  IF Len(pattern) >= 2 /\ LastOf(pattern) = "/" /\ ~user_defined(m, ButLast(pattern))
  THEN Assign(m, ButLast(pattern), Redirect(ButLast(PathOf(pattern))))
  ELSE m

(* If pattern ends with '/', add implicit permanent redirect.              *)
WithRedirect(m, pattern) ==
  IF Len(pattern) >= 2 /\ LastOf(pattern) = "/" /\ ~user_defined(m, ButLast(pattern))
  THEN Assign(m, ButLast(pattern), Redirect(PathOf(pattern)))
  ELSE m

(* serve_mux::handle with a callable cb.                                   *)
handle(pattern) ==
  IF user_defined(mux, pattern)
  THEN UNCHANGED muxVars
  ELSE /\ mux' = Emplace(WithRedirect(mux, pattern), pattern, User(pattern))
       /\ accepted' = accepted \cup {pattern}

MuxNext == \E pattern \in Patterns : handle(pattern)

MuxSpec == MuxInit /\ [][MuxNext]_muxVars

-----------------------------------------------------------------------------
(* Routing a request.                                                      *)

path_match(pattern, path) ==
  IF LastOf(pattern) = "/" THEN At(path, 0, pattern) ELSE pattern = path

Longest(patterns) ==
  CHOOSE p \in patterns : \A q \in patterns : Len(q) <= Len(p)

(* Variant: the first pattern that matches wins, not the longest.          *)
matchShortest(path) ==
  LET found == {p \in DOMAIN mux : path_match(p, path)}
  IN  IF found = {} THEN NotFound
      ELSE mux[CHOOSE p \in found : \A q \in found : Len(p) <= Len(q)]

(* serve_mux::match; NotFound stands for the empty request_cb.             *)
match(path) ==
  LET found == {p \in DOMAIN mux : path_match(p, path)}
  IN  IF found = {} THEN NotFound ELSE mux[Longest(found)]

Methods == {"GET", "CONNECT"}

(* What serve_mux::handler redirects to sanitize the path.                 *)
Unclean(method, path) == method # "CONNECT" /\ CleanPath(path) # path

(* serve_mux::handler                                                      *)
handler(method, host, path) ==
  IF Unclean(method, path) THEN Redirect(CleanPath(path))
  ELSE IF match(host \o path) # NotFound THEN match(host \o path)
  ELSE match(path)

-----------------------------------------------------------------------------
(* What the documentation promises, from the accepted patterns alone: the  *)
(* longest pattern wins, patterns with the host before those without; and  *)
(* "/dir" leads to "/dir/" unless it was registered itself.                *)

Implicit == {ButLast(p) : p \in {q \in accepted : Len(q) >= 2 /\ LastOf(q) = "/"}}

RefMatch(path) ==
  LET found == {p \in accepted \cup Implicit : path_match(p, path)}
      best == Longest(found)
  IN  IF found = {} THEN NotFound
      ELSE IF best \in accepted THEN User(best)
      ELSE Redirect(PathOf(best \o <<"/">>))

RefHandler(method, host, path) ==
  IF Unclean(method, path) THEN Redirect(CleanPath(path))
  ELSE IF RefMatch(host \o path) # NotFound THEN RefMatch(host \o path)
  ELSE RefMatch(path)

(* A client that follows a redirect asks again.                            *)
Hop(method, host, cb) ==
  IF cb.kind = "redirect" THEN handler(method, host, cb.path) ELSE cb

(* Registered patterns that handle() accepted but whose key was taken by   *)
(* the implicit redirect of a longer one.                                  *)
Shadowed == {p \in accepted : ~user_defined(mux, p)}

(* A pattern for a directory whose path serve_mux::handler lets through.   *)
Sanitized(pattern) ==
  LastOf(pattern) = "/" =>
    /\ CleanPath(PathOf(pattern)) = PathOf(pattern)
    /\ Len(pattern) >= 2 => LastOf(ButLast(pattern)) # "/"

-----------------------------------------------------------------------------
(* Once a pattern is registered, routing follows the rules of golang's     *)
(* ServeMux, whatever the order of registration, as long as no accepted    *)
(* pattern is shadowed; and mux_ has a handler for accepted patterns only, *)
(* and redirects that lead to them.                                        *)
RoutesLikeGo ==
  /\ \A p \in DOMAIN mux :
       \/ mux[p] = User(p) /\ p \in accepted
       \/ mux[p] = Redirect(PathOf(p \o <<"/">>)) /\ p \o <<"/">> \in accepted
  /\ accepted # {} /\ Shadowed = {} =>
       \A method \in Methods, host \in Hosts, path \in RequestPaths :
         handler(method, host, path) = RefHandler(method, host, path)

(* A client that follows redirects gets an answer: sanitizing redirects    *)
(* and the implicit ones never chase each other, unless a pattern is       *)
(* registered for a path that is itself redirected.                        *)
NoRedirectLoop ==
  accepted # {} /\ (\A p \in accepted : Sanitized(p)) =>
    \A method \in Methods, host \in Hosts, path \in RequestPaths :
      Hop(method, host, Hop(method, host,
        Hop(method, host, handler(method, host, path)))).kind # "redirect"

=============================================================================
