---------------------------- MODULE MCServeMux ----------------------------
(***************************************************************************)
(* ServeMux for TLC: the patterns of a small site on two hosts, and every  *)
(* request path up to a length.                                            *)
(***************************************************************************)
EXTENDS ServeMux

CONSTANTS MaxLen   \* bound on the length of request paths

SiteChars == {"/", ".", "?", "a", "b", "g", "h", "q"}

SitePatterns ==
  { <<"/">>, <<"/", "a">>, <<"/", "a", "/">>, <<"/", "a", "/", "b">>,
    <<"/", "a", "/", "b", "/">>, <<"h", "/">>, <<"h", "/", "a">>,
    <<"h", "/", "a", "/">>, <<"/", "b", "/", "/">> }

SiteHosts == { <<"h">>, <<"g">> }

SitePaths == UNION {[1 .. n -> {"/", ".", "a", "b"}] : n \in 1 .. MaxLen}

-----------------------------------------------------------------------------
(* asio_http2_server.h: handle() "will fail and returns false if same      *)
(* pattern has been already registered [...] Otherwise returns true": a    *)
(* pattern that was accepted is served by the handler given for it.        *)
AcceptedIsServed == \A p \in accepted : mux[p] = User(p)

=============================================================================
