---------------------------- MODULE MCFunctions ----------------------------
(***************************************************************************)
(* The functions of the library, each against a definition of what it is   *)
(* for: on every input up to a length, and those that a machine goes       *)
(* through (serve_mux for every order of registration, path_join turn by   *)
(* turn, parse_uint byte by byte, the calendar day by day, select_h2 entry *)
(* by entry) in all of its states.                                         *)
(***************************************************************************)
EXTENDS MCServeMux, PathWalk, ParseUint, Dates, Targets, Status, TlsAlpn, Tokens

CONSTANTS MaxRel,       \* bound: characters of a rel_path
          MaxPath,      \* bound: characters of a path
          MaxTarget     \* bound: bytes of a request target

VARIABLES fn,   \* what is under test
          in    \* its input, grown element by element

WalkBases == {<<>>, <<"a">>, <<"/", "a">>, <<"/", "a", "/">>, <<"a", "/", ".", ".">>}

WalkRels == UNION {[1 .. k -> {"/", ".", "a"}] : k \in 0 .. MaxRel}

WalkQueries == {<<>>, <<"q">>, <<"q", "q">>}

(* The digits around MaxInt and a letter.                                  *)
NumberBytes == {48, 49, 50, 55, 56, 57, 97}

(* The first, the last and other seconds of a day.                         *)
DayTimes == {0, 59, 3600, 86399}

(* The HTTP/2 identifiers, an unrelated one, one that starts like "h2" and *)
(* one that has it inside.                                                 *)
AlpnEntries == { NGHTTP2_H2_ALPN, NGHTTP2_H2_16_ALPN, NGHTTP2_H2_14_ALPN,
                 <<1, 120>>, <<3, 104, 50, 99>>, <<4, 2, 104, 50, 120>> }

Machines == {"mux", "walk", "number", "date", "alpn"}

Limit == [path |-> MaxPath, target |-> MaxTarget, status |-> 2, token |-> 2]

(* What the input is made of: '#', '%', '/', '0', '2', 'F', '?', 'a' and a *)
(* byte beyond ASCII for targets; a method and a status; a name and a      *)
(* change to it.                                                           *)
Elements ==
  CASE fn = "path" -> {"/", ".", "a"}
    [] fn = "target" -> {35, 37, 47, 48, 50, 70, 63, 97, 233}
    [] fn = "status" -> IF in = <<>> THEN {"GET", "HEAD", "POST"} ELSE 100 .. 599
    [] fn = "token" -> IF in = <<>> THEN DOMAIN Names
                       ELSE {"", "short", "long", "first", "last"}

CallInit ==
  /\ fn \in Machines \cup DOMAIN Limit
  /\ in = <<>>
  /\ MuxInit /\ NumberInit /\ CalendarInit /\ AlpnInit /\ JoinInit
  /\ fn # "walk" => base = <<>> /\ rel = <<>>

Call ==
  /\ fn \notin Machines
  /\ Len(in) < Limit[fn]
  /\ \E x \in Elements : in' = Append(in, x)
  /\ UNCHANGED <<muxVars, joinVars, numberVars, calendarVars, alpnVars>>

Register ==
  /\ fn = "mux" /\ MuxNext
  /\ UNCHANGED <<in, joinVars, numberVars, calendarVars, alpnVars>>

Join ==
  /\ fn = "walk" /\ NextTurn
  /\ UNCHANGED <<in, muxVars, numberVars, calendarVars, alpnVars>>

Parse ==
  /\ fn = "number" /\ NextByte
  /\ UNCHANGED <<in, muxVars, joinVars, calendarVars, alpnVars>>

Pass ==
  /\ fn = "date" /\ CalendarNext
  /\ UNCHANGED <<in, muxVars, joinVars, numberVars, alpnVars>>

Negotiate ==
  /\ fn = "alpn" /\ AlpnNext
  /\ UNCHANGED <<in, muxVars, joinVars, numberVars, calendarVars>>

CallNext == (Call \/ Register \/ Join \/ Parse \/ Pass \/ Negotiate) /\ UNCHANGED fn

CallSpec ==
  /\ CallInit
  /\ [][CallNext]_<<fn, in, muxVars, joinVars, numberVars, calendarVars, alpnVars>>

-----------------------------------------------------------------------------
(* The reference: cut the path at its slashes, drop empty and "." segments,*)
(* let ".." remove the segment before it.                                  *)

RECURSIVE Segments(_)
Segments(s) ==
  LET i == FirstSlash(s)
  IN  IF i = 0 THEN <<s>> ELSE <<SubSeq(s, 1, i - 1)>> \o Segments(Drop(s, i))

Dot == <<".">>

DotDot == <<".", ".">>

Resolve(segments) ==
  FoldLeft(LAMBDA done, seg :
             CASE seg \in {<<>>, Dot} -> done
               [] seg = DotDot -> IF done = <<>> THEN done ELSE Front(done)
               [] OTHER -> Append(done, seg),
           <<>>, segments)

(* The path names a directory when its last segment does.                  *)
Reference(s) ==
  LET segs == Segments(s)
      names == Resolve(segs)
      text == FlattenSeq([i \in 1 .. Len(names) |-> <<"/">> \o names[i]])
  IN  IF names = <<>> \/ Last(segs) \in {<<>>, Dot, DotDot}
      THEN text \o <<"/">> ELSE text

(* An empty segment right after "." or ".." ("/.//a").                     *)
DotThenEmpty(s) ==
  LET segs == Segments(s)
  IN  \E i \in 1 .. Len(segs) - 1 : /\ segs[i] \in {Dot, DotDot}
                                    /\ segs[i + 1] = <<>>
                                    /\ i + 1 < Len(segs)

-----------------------------------------------------------------------------
(* path_join sanitizes a request path to what the reference makes of it    *)
(* (except when an empty segment follows a "." or ".." segment), and a     *)
(* result of path_join of a result is left alone, so the redirects to      *)
(* sanitized paths end.                                                    *)
MatchesReference ==
  fn = "path" =>
    LET clean == CleanPath(in)
        twice == CleanPath(clean)
    IN  /\ DotThenEmpty(in) \/ clean = Reference(in)
        /\ CleanPath(twice) = twice

(* asio_http2_server.h: a path with . or .. elements is redirected to "an  *)
(* equivalent .- and ..-free URL": path_join returns the sanitized form of *)
(* every rooted path.                                                      *)
Equivalent ==
  fn = "path" /\ in # <<>> /\ Head(in) = "/" => CleanPath(in) = Reference(in)

-----------------------------------------------------------------------------
(* "http://h", "http://u@h:080" and "http://[::1]:8", continued by the     *)
(* input.                                                                  *)
Uris ==
  LET http == <<104, 116, 116, 112, 58, 47, 47>>
  IN  { http \o authority \o in :
          authority \in { <<104>>, <<117, 64, 104, 58, 48, 56, 48>>,
                          <<91, 58, 58, 49, 93, 58, 56>> } }

Urls == { url \in { http_parser_parse_url(text) : text \in Uris } : Accepts(url) }

(* A URI from its fields.                                                  *)
UriText(u) ==
  LET opt(before, f, after) == IF u[f] = <<>> THEN <<>> ELSE before \o u[f] \o after
  IN  u["SCHEMA"] \o <<Colon, Slash, Slash>> \o opt(<<>>, "USERINFO", <<64>>)
        \o (IF ipv6_numeric_addr(u["HOST"]) THEN Bracketed(u["HOST"]) ELSE u["HOST"])
        \o opt(<<Colon>>, "PORT", <<>>) \o u["PATH"] \o opt(<<Question>>, "QUERY", <<>>)
        \o opt(<<35>>, "FRAGMENT", <<>>)

(* '?' or '#' with nothing to introduce, and a second '#' before a         *)
(* fragment, are the delimiters a field does not tell of.                  *)
Bare(text) ==
  \E i \in 1 .. Len(text) :
    /\ text[i] \in {Question, 35}
    /\ i = Len(text) \/ text[i + 1] = 35

HostField == <<"host", <<120>> >>

(* Request targets survive their conversions: the parser's fields make up  *)
(* the URI they were read from; the server's request has the method and    *)
(* the uri() of the request that the client's submit returned, whatever    *)
(* Host field the application adds, and that uri() has the address to      *)
(* connect to for it; the client's promised request those of the pushed    *)
(* one; and the Location of a sanitizing redirect, percent_encode_path of  *)
(* the path followed by the query, comes back from the client as the same  *)
(* path and query.                                                         *)
TargetsRoundTrip ==
  fn = "target" =>
    /\ \A text \in Uris :
         LET url == http_parser_parse_url(text)
         IN  url.ok /\ ~Bare(text) =>
               UriText(url.u) = text
    /\ \A url \in Urls, extra \in {<<>>, <<HostField>>} :
         LET uri == UriRef(url.u)
             received == Request(Block("GET", uri, PathField(uri), extra))
             promised == Promised(received, "GET", in)
             to == host_service_from_uri(url.u)
         IN  /\ uri.host = (IF ipv6_numeric_addr(to.host) THEN Bracketed(to.host) ELSE to.host)
                             \o (IF to.service = to.scheme THEN <<>>
                                 ELSE <<Colon>> \o utos(PortNumber(to.service)))
             /\ received = [Submitted(url.u) EXCEPT !.method = "GET"]
             /\ Request(Block("GET", received.uri, in, extra)) = promised
    /\ \A query \in {<<>>, in} :
         LET target == PathField([raw_path |-> percent_encode_path(in), raw_query |-> query])
         IN  split_path(target).path = in /\ split_path(target).raw_query = query

(* asio_http2_client.h, request::method(): "Returns method (e.g., GET)":   *)
(* the request that submit returns has the method it was submitted with,   *)
(* which is the one the server receives.                                   *)
MethodKept ==
  fn = "target" =>
    \A url \in Urls :
      LET uri == UriRef(url.u)
      IN  Submitted(url.u).method = Request(Block("GET", uri, PathField(uri), <<>>)).method

-----------------------------------------------------------------------------
(* The pages of status_handler (every status) and of redirect_handler (the *)
(* redirections) are framed as HTTP requires: the client reads back the    *)
(* status, content-length is the size of the body that is sent, but for    *)
(* HEAD, and there is none where the status rules out a body.              *)
PagesFramed ==
  fn = "status" /\ Len(in) = 2 =>
    LET method == in[1]
        code == in[2]
        redirects == IF code \in 300 .. 308 \ {304} THEN {redirect_handler(method, code)} ELSE {}
    IN  /\ parse_uint(stringify_status(code)) = code
        /\ \A page \in {status_handler(method, code)} \cup redirects :
             /\ parse_uint(page.status) = code
             /\ IF page.length = NoLength THEN page.body = <<>>
                ELSE /\ method # "HEAD" => parse_uint(page.length) = Len(page.body)
                     /\ StatusHasBody(code)

-----------------------------------------------------------------------------
Changed(name, change) ==
  LET n == Len(name)
  IN  CASE change = "" -> name
        [] change = "short" -> SubSeq(name, 1, n - 1)
        [] change = "long" -> name \o "s"
        [] change = "first" -> "_" \o SubSeq(name, 2, n)
        [] change = "last" -> SubSeq(name, 1, n - 1) \o "_"

(* Every header field with an enumerator is recognised, by its name and by *)
(* no other: a name that differs in length, in the first or in the last    *)
(* character is another field.                                             *)
TokensExact ==
  fn = "token" /\ Len(in) = 2 =>
    LET name == Changed(Names[in[1]], in[2])
    IN  lookup_token(name) = IF in[2] = "" THEN in[1] ELSE "-1"

=============================================================================
