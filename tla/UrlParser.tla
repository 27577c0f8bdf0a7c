----------------------------- MODULE UrlParser -----------------------------
(***************************************************************************)
(* http_parser_parse_url, which cuts a URI into fields: one automaton over *)
(* the whole text, a second one over what the first took for the host.     *)
(* Both read a field as one run of bytes, so that a field is the sequence  *)
(* of the bytes read in its states, and is set if it is not empty.  The    *)
(* build is the default, strict one; a string is a sequence of bytes.      *)
(***************************************************************************)
EXTENDS Integers, Sequences, SequencesExt

IS_NUM(c) == c \in 48 .. 57

IS_ALPHA(c) == c \in 65 .. 90 \cup 97 .. 122

IS_HEX(c) == IS_NUM(c) \/ c \in 65 .. 70 \cup 97 .. 102

(* - _ . ! ~ * ' ( )                                                       *)
IS_MARK(c) == c \in {45, 95, 46, 33, 126, 42, 39, 40, 41}

(* % ; : & = + $ , besides.                                                *)
IS_USERINFO_CHAR(c) ==
  IS_ALPHA(c) \/ IS_NUM(c) \/ IS_MARK(c) \/ c \in {37, 59, 58, 38, 61, 43, 36, 44}

(* What is printable, but for '#' and '?'.                                 *)
IS_URL_CHAR(c) == c \in 33 .. 126 \ {35, 63}

IS_HOST_CHAR(c) == IS_ALPHA(c) \/ IS_NUM(c) \/ c \in {46, 45}

parse_url_char(s, ch) ==
  LET server == CASE ch = 47 -> "path"
                  [] ch = 63 -> "query_string_start"
                  [] ch = 64 -> "server_with_at"
                  [] IS_USERINFO_CHAR(ch) \/ ch \in {91, 93} -> "server"
                  [] OTHER -> "dead"
  IN  CASE s = "spaces_before_url" /\ ch \in {47, 42} -> "path"
        [] s \in {"spaces_before_url", "schema"} /\ IS_ALPHA(ch) -> "schema"
        [] s = "schema" /\ ch = 58 -> "schema_slash"
        [] s = "schema_slash" /\ ch = 47 -> "schema_slash_slash"
        [] s = "schema_slash_slash" /\ ch = 47 -> "server_start"
        [] s = "server_with_at" /\ ch # 64 -> server
        [] s \in {"server_start", "server"} -> server
        [] s = "path" /\ IS_URL_CHAR(ch) -> "path"
        [] s = "path" /\ ch = 63 -> "query_string_start"
        [] s \in {"query_string_start", "query_string"} /\ (IS_URL_CHAR(ch) \/ ch = 63) ->
             "query_string"
        [] s \in {"path", "query_string_start", "query_string", "fragment_start"}
             /\ ch = 35 -> "fragment_start"
        [] s \in {"fragment_start", "fragment"} /\ (IS_URL_CHAR(ch) \/ ch = 63) -> "fragment"
        [] s = "fragment" /\ ch = 35 -> "fragment"
        [] OTHER -> "dead"

http_parse_host_char(s, ch) ==
  CASE s \in {"userinfo_start", "userinfo"} /\ ch = 64 -> "host_start"
    [] s \in {"userinfo_start", "userinfo"} /\ IS_USERINFO_CHAR(ch) -> "userinfo"
    [] s = "host_start" /\ ch = 91 -> "v6_start"
    [] s \in {"host_start", "host"} /\ IS_HOST_CHAR(ch) -> "host"
    [] s \in {"host", "v6_end"} /\ ch = 58 -> "port_start"
    [] s \in {"v6", "v6_zone"} /\ ch = 93 -> "v6_end"
    [] s \in {"v6_start", "v6"} /\ (IS_HEX(ch) \/ ch \in {58, 46}) -> "v6"
    [] s = "v6" /\ ch = 37 -> "v6_zone_start"
    [] s \in {"v6_zone_start", "v6_zone"}
         /\ (IS_ALPHA(ch) \/ IS_NUM(ch) \/ ch \in {37, 46, 45, 95, 126}) -> "v6_zone"
    [] s \in {"port_start", "port"} /\ IS_NUM(ch) -> "port"
    [] OTHER -> "dead"

(* The field a state adds its byte to; a delimiter belongs to none.        *)
FieldOf(s) ==
  CASE s = "schema" -> "SCHEMA"
    [] s \in {"server", "server_with_at", "host", "v6", "v6_zone_start", "v6_zone"} -> "HOST"
    [] s = "path" -> "PATH"
    [] s = "query_string" -> "QUERY"
    [] s = "fragment" -> "FRAGMENT"
    [] s = "port" -> "PORT"
    [] s = "userinfo" -> "USERINFO"
    [] OTHER -> "none"

Fields == {"SCHEMA", "HOST", "PORT", "PATH", "QUERY", "FRAGMENT", "USERINFO", "none"}

(* Runs the automaton of the host, or of the whole text, over buf: its last*)
(* state and the fields it read.                                           *)
RunOver(buf, host, start) ==
  FoldLeft(LAMBDA r, ch : LET s == IF host THEN http_parse_host_char(r.s, ch)
                                   ELSE parse_url_char(r.s, ch)
                          IN  [s |-> s, u |-> [r.u EXCEPT ![FieldOf(s)] = Append(@, ch)]],
           [s |-> start, u |-> [f \in Fields |-> <<>>]], buf)

(* http_parse_host: fails where the authority is not complete.             *)
http_parse_host(host, found_at) ==
  LET r == RunOver(host, TRUE,
                   IF found_at THEN "userinfo_start" ELSE "host_start")
  IN  [ok |-> r.s \in {"host", "v6_end", "port"}, u |-> r.u]

PortNumber(digits) == FoldLeft(LAMBDA v, ch : (v * 10) + (ch - 48), 0, digits)

(* http_parser_parse_url, never for CONNECT.  '@' is read by               *)
(* server_with_at only, inside what becomes the host.                      *)
http_parser_parse_url(buf) ==
  LET r == RunOver(buf, FALSE, "spaces_before_url")
      authority == r.u["HOST"]
      h == http_parse_host(authority, 64 \in ToSet(authority))
      u == IF authority = <<>> THEN r.u
           ELSE [r.u EXCEPT !["HOST"] = h.u["HOST"], !["PORT"] = h.u["PORT"],
                            !["USERINFO"] = h.u["USERINFO"]]
  IN  [ok |-> /\ buf # <<>>
              /\ r.s # "dead"
              /\ u["SCHEMA"] # <<>> => authority # <<>>
              /\ authority # <<>> => h.ok
              /\ \A i \in 1 .. Len(u["PORT"]) : PortNumber(SubSeq(u["PORT"], 1, i)) <= 65535,
       u |-> u]

=============================================================================
