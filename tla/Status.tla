------------------------------- MODULE Status -------------------------------
(***************************************************************************)
(* Status codes: the tables of http2.cc, and the pages that redirect_      *)
(* handler and status_handler of asio_server_request_handler.cc answer     *)
(* with, as far as response_impl and http2_handler::start_response send    *)
(* them.  A body is a sequence whose length stands for its size.           *)
(***************************************************************************)
EXTENDS Util

(* The codes stringify_status has a literal for.                           *)
Literals ==
  {100, 101, 103} \cup 200 .. 206 \cup (300 .. 308 \ {306}) \cup 400 .. 417
    \cup {421, 426, 428, 429, 431, 451} \cup 500 .. 505 \cup {511}

(* The literals are the digits of their case labels; make_string_ref_uint  *)
(* prints the others with utos.                                            *)
stringify_status(code) ==
  IF code \in Literals
  THEN <<48 + (code \div 100), 48 + ((code \div 10) % 10), 48 + (code % 10)>>
  ELSE utos(code)

(* The phrase is its code; the empty one that of no code in the table.     *)
get_reason_phrase(code) == IF code \in Literals \cup {425} THEN <<code>> ELSE <<>>

(* The markup around title and heading is one element each.                *)
create_html(code) ==
  LET text == stringify_status(code) \o <<32>> \o get_reason_phrase(code)
  IN  <<"title">> \o text \o <<"h1">> \o text \o <<"end">>

StatusHasBody(code) == code = 101 \/ (code \div 100 # 1 /\ code \notin {304, 204})

expect_response_body(method, code) == method # "HEAD" /\ StatusHasBody(code)

-----------------------------------------------------------------------------
NoLength == <<>>

(* write_head(code, h) and end(html): the :status field, content-length    *)
(* (or NoLength), and the body the data provider will send.                *)
Respond(method, code, length, html) ==
  [status |-> utos(code), length |-> length,
   body |-> IF expect_response_body(method, code) THEN html ELSE <<>>]

redirect_handler(method, code) ==
  LET html == IF method = "GET" THEN create_html(code) ELSE <<>>
  IN  Respond(method, code, utos(Len(html)), html)

(* Variants stand for plausible mistakes; no specification uses them.      *)
(* Variant: a page is made for every status.                               *)
status_handlerAlways(method, code) ==
  Respond(method, code, utos(Len(create_html(code))), create_html(code))

status_handler(method, code) ==
  IF ~StatusHasBody(code)
  THEN Respond(method, code, NoLength, <<>>)
  ELSE Respond(method, code, utos(Len(create_html(code))), create_html(code))

=============================================================================
