------------------------------ MODULE Targets ------------------------------
(***************************************************************************)
(* What becomes of a URI: session::submit turns it into pseudo header      *)
(* fields, which the server's on_header_callback turns back into a request *)
(* with its uri_ref; response::push does the same in the other direction.  *)
(* A string is a sequence of byte values.                                  *)
(***************************************************************************)
EXTENDS Util, UrlParser, TLC

Colon == 58

Bracketed(host) == <<91>> \o host \o <<93>>

(* inet_pton: of the hosts the parser lets through only IPv6 addresses     *)
(* have colons; with a zone they are not numeric.                          *)
ipv6_numeric_addr(host) == Colon \in ToSet(host) /\ Percent \notin ToSet(host)

(* submit and host_service_from_uri take a URI only with scheme and host.  *)
Accepts(url) == url.ok /\ url.u["SCHEMA"] # <<>> /\ url.u["HOST"] # <<>>

(* host_service_from_uri: where to connect; the scheme names the service   *)
(* of a URI without a port.                                                *)
host_service_from_uri(u) ==
  [scheme |-> u["SCHEMA"], host |-> u["HOST"],
   service |-> IF u["PORT"] # <<>> THEN u["PORT"] ELSE u["SCHEMA"]]

(* The uri_ref that submit gives the request.                              *)
UriRef(u) ==
  LET raw_path == IF u["PATH"] = <<>> THEN <<Slash>> ELSE u["PATH"]
      host == IF ipv6_numeric_addr(u["HOST"]) THEN Bracketed(u["HOST"]) ELSE u["HOST"]
      port == IF u["PORT"] = <<>> THEN <<>> ELSE <<Colon>> \o utos(PortNumber(u["PORT"]))
  IN  [scheme |-> u["SCHEMA"], host |-> host \o port,
       path |-> percent_decode(raw_path), raw_path |-> raw_path, raw_query |-> u["QUERY"]]

(* The :path submit sends.                                                 *)
PathField(uri) ==
  uri.raw_path \o (IF uri.raw_query = <<>> THEN <<>> ELSE <<Question>> \o uri.raw_query)

(* The header block of submit and of push_promise.  extra: the header      *)
(* fields of the application.                                              *)
Block(method, uri, path, extra) ==
  << <<":method", method>>, <<":scheme", uri.scheme>>,
     <<":path", path>>, <<":authority", uri.host>> >> \o extra

(* Variants stand for plausible mistakes; no specification uses them.      *)
(* Variant: Host replaces :authority.                                      *)
on_headerHost(req, name, value) ==
  CASE name = ":method" -> [req EXCEPT !.method = value]
    [] name = ":scheme" -> [req EXCEPT !.uri.scheme = value]
    [] name \in {":authority", "host"} -> [req EXCEPT !.uri.host = value]
    [] name = ":path" ->
         [req EXCEPT !.uri = split_path(value) @@ @]
    [] OTHER -> req

(* on_header_callback for a request or a promised request; other fields    *)
(* are kept in header() (ServerStreams and ClientStreams have the limit).  *)
on_header(req, name, value) ==
  CASE name = ":method" -> [req EXCEPT !.method = value]
    [] name = ":scheme" -> [req EXCEPT !.uri.scheme = value]
    [] name = ":authority" -> [req EXCEPT !.uri.host = value]
    [] name = ":path" -> [req EXCEPT !.uri = split_path(value) @@ @]
    [] name = "host" /\ req.uri.host = <<>> -> [req EXCEPT !.uri.host = value]
    [] OTHER -> req

Request(block) ==
  FoldLeft(LAMBDA req, field : on_header(req, field[1], field[2]),
           [method |-> <<>>,
            uri |-> [scheme |-> <<>>, host |-> <<>>, path |-> <<>>, raw_path |-> <<>>,
                     raw_query |-> <<>>]], block)

(* The request of submit; its method_ is not set.                          *)
Submitted(u) == [method |-> <<>>, uri |-> UriRef(u)]

(* push_promise: the promised request on the server, whose uri has the     *)
(* scheme and host of the request it answers.                              *)
Promised(req, method, raw_path_query) ==
  [method |-> method,
   uri |-> split_path(raw_path_query)
             @@ [scheme |-> req.uri.scheme, host |-> req.uri.host]]

=============================================================================
