------------------------------- MODULE Tokens -------------------------------
(***************************************************************************)
(* lookup_token of http2.cc: how on_header_callback recognises the names   *)
(* of header fields.                                                       *)
(***************************************************************************)
EXTENDS Naturals, Sequences

(* The enumerators of http2.h and the names they stand for.                *)
Names ==
  [ HD__AUTHORITY |-> ":authority", HD__HOST |-> ":host", HD__METHOD |-> ":method",
    HD__PATH |-> ":path", HD__PROTOCOL |-> ":protocol", HD__SCHEME |-> ":scheme",
    HD__STATUS |-> ":status", HD_ACCEPT_ENCODING |-> "accept-encoding",
    HD_ACCEPT_LANGUAGE |-> "accept-language", HD_ALT_SVC |-> "alt-svc",
    HD_CACHE_CONTROL |-> "cache-control", HD_CONNECTION |-> "connection",
    HD_CONTENT_LENGTH |-> "content-length", HD_CONTENT_TYPE |-> "content-type",
    HD_COOKIE |-> "cookie", HD_DATE |-> "date", HD_EARLY_DATA |-> "early-data",
    HD_EXPECT |-> "expect", HD_FORWARDED |-> "forwarded", HD_HOST |-> "host",
    HD_HTTP2_SETTINGS |-> "http2-settings", HD_IF_MODIFIED_SINCE |-> "if-modified-since",
    HD_KEEP_ALIVE |-> "keep-alive", HD_LINK |-> "link", HD_LOCATION |-> "location",
    HD_PROXY_CONNECTION |-> "proxy-connection",
    HD_SEC_WEBSOCKET_ACCEPT |-> "sec-websocket-accept",
    HD_SEC_WEBSOCKET_KEY |-> "sec-websocket-key", HD_SERVER |-> "server", HD_TE |-> "te",
    HD_TRAILER |-> "trailer", HD_TRANSFER_ENCODING |-> "transfer-encoding",
    HD_UPGRADE |-> "upgrade", HD_USER_AGENT |-> "user-agent", HD_VIA |-> "via",
    HD_X_FORWARDED_FOR |-> "x-forwarded-for", HD_X_FORWARDED_PROTO |-> "x-forwarded-proto" ]

(* The cases of lookup_token: length of the name, its last character, what *)
(* comes before it, and the token.                                         *)
ShortCases ==
  { <<2, "e", "t", "HD_TE">>, <<3, "a", "vi", "HD_VIA">>, <<4, "e", "dat", "HD_DATE">>,
    <<4, "k", "lin", "HD_LINK">>, <<4, "t", "hos", "HD_HOST">>,
    <<5, "h", ":pat", "HD__PATH">>, <<5, "t", ":hos", "HD__HOST">>,
    <<6, "e", "cooki", "HD_COOKIE">>, <<6, "r", "serve", "HD_SERVER">>,
    <<6, "t", "expec", "HD_EXPECT">>, <<7, "c", "alt-sv", "HD_ALT_SVC">>,
    <<7, "d", ":metho", "HD__METHOD">>, <<7, "e", ":schem", "HD__SCHEME">>,
    <<7, "e", "upgrad", "HD_UPGRADE">>, <<7, "r", "traile", "HD_TRAILER">>,
    <<7, "s", ":statu", "HD__STATUS">>, <<8, "n", "locatio", "HD_LOCATION">>,
    <<9, "d", "forwarde", "HD_FORWARDED">>, <<9, "l", ":protoco", "HD__PROTOCOL">> }

LongCases ==
  { <<10, "a", "early-dat", "HD_EARLY_DATA">>, <<10, "e", "keep-aliv", "HD_KEEP_ALIVE">>,
    <<10, "n", "connectio", "HD_CONNECTION">>, <<10, "t", "user-agen", "HD_USER_AGENT">>,
    <<10, "y", ":authorit", "HD__AUTHORITY">>, <<12, "e", "content-typ", "HD_CONTENT_TYPE">>,
    <<13, "l", "cache-contro", "HD_CACHE_CONTROL">>,
    <<14, "h", "content-lengt", "HD_CONTENT_LENGTH">>,
    <<14, "s", "http2-setting", "HD_HTTP2_SETTINGS">>,
    <<15, "e", "accept-languag", "HD_ACCEPT_LANGUAGE">>,
    <<15, "g", "accept-encodin", "HD_ACCEPT_ENCODING">>,
    <<15, "r", "x-forwarded-fo", "HD_X_FORWARDED_FOR">>,
    <<16, "n", "proxy-connectio", "HD_PROXY_CONNECTION">>,
    <<17, "e", "if-modified-sinc", "HD_IF_MODIFIED_SINCE">>,
    <<17, "g", "transfer-encodin", "HD_TRANSFER_ENCODING">>,
    <<17, "o", "x-forwarded-prot", "HD_X_FORWARDED_PROTO">>,
    <<17, "y", "sec-websocket-ke", "HD_SEC_WEBSOCKET_KEY">>,
    <<20, "t", "sec-websocket-accep", "HD_SEC_WEBSOCKET_ACCEPT">> }

(* Variants stand for plausible mistakes; no specification uses them.      *)
(* Variant: the last character is not compared.                            *)
MatchesAnyLast(name, case) ==
  Len(name) = case[1] /\ SubSeq(name, 1, case[1] - 1) = case[3]

(* switch (namelen), switch (name[namelen - 1]), streq_l(prefix, name,     *)
(* namelen - 1).                                                           *)
Matches(name, case) ==
  LET n == case[1]
  IN  /\ Len(name) = n
      /\ SubSeq(name, n, n) = case[2]
      /\ SubSeq(name, 1, n - 1) = case[3]

(* The token, or "-1".                                                     *)
lookup_token(name) ==
  LET found == {case \in ShortCases \cup LongCases : Matches(name, case)}
  IN  IF found = {} THEN "-1" ELSE (CHOOSE case \in found : TRUE)[4]

=============================================================================
