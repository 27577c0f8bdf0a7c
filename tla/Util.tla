-------------------------------- MODULE Util --------------------------------
(***************************************************************************)
(* Pure functions of util.cc, util.h and asio_common.h: percent coding,    *)
(* splitting of request targets, printing of numbers.  A string is a       *)
(* sequence of byte values.                                                *)
(***************************************************************************)
EXTENDS Integers, Sequences, SequencesExt

DropFirst(s, n) == SubSeq(s, n + 1, Len(s))

Percent == 37

Slash == 47

Question == 63

is_digit(c) == c \in 48 .. 57

is_alpha(c) == c \in 65 .. 90 \cup 97 .. 122

is_hex_digit(c) == is_digit(c) \/ c \in 65 .. 70 \cup 97 .. 102

(* - . _ ~                                                                 *)
in_rfc3986_unreserved_chars(c) ==
  is_alpha(c) \/ is_digit(c) \/ c \in {45, 46, 95, 126}

(* ! $ & ' ( ) * + , ; =                                                   *)
in_rfc3986_sub_delims(c) == c \in {33, 36, 38, 39, 40, 41, 42, 43, 44, 59, 61}

(* UPPER_XDIGITS[n]                                                        *)
XDigit(n) == IF n < 10 THEN 48 + n ELSE 55 + n

EncodeByte(c) ==
  IF in_rfc3986_unreserved_chars(c) \/ in_rfc3986_sub_delims(c) \/ c = Slash
  THEN <<c>>
  ELSE <<Percent, XDigit(c \div 16), XDigit(c % 16)>>

percent_encode_path(s) == FlattenSeq([i \in 1 .. Len(s) |-> EncodeByte(s[i])])

hex_to_uint(c) ==
  CASE c <= 57 -> c - 48
    [] c > 57 /\ c <= 90 -> c - 65 + 10
    [] c > 90 /\ c <= 122 -> c - 97 + 10
    [] OTHER -> 256

RECURSIVE percent_decode(_)
percent_decode(s) ==
  IF s = <<>> THEN <<>>
  ELSE IF /\ Len(s) >= 3
          /\ s[1] = Percent
          /\ is_hex_digit(s[2])
          /\ is_hex_digit(s[3])
  THEN <<(hex_to_uint(s[2]) * 16 + hex_to_uint(s[3])) % 256>>
         \o percent_decode(DropFirst(s, 3))
  ELSE <<s[1]>> \o percent_decode(Tail(s))

(* split_path of asio_common.h; i is the position of '?', or 0.            *)
split_path(s) ==
  LET i == SelectInSeq(s, LAMBDA c : c = Question)
      raw == IF i = 0 THEN s ELSE SubSeq(s, 1, i - 1)
  IN  [path |-> percent_decode(raw), raw_path |-> raw,
       raw_query |-> IF i = 0 THEN <<>> ELSE DropFirst(s, i)]

-----------------------------------------------------------------------------
RECURSIVE utos(_)
utos(n) == IF n < 10 THEN <<48 + n>> ELSE utos(n \div 10) \o <<48 + (n % 10)>>

=============================================================================
