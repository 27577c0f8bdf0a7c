----------------------------- MODULE ParseUint -----------------------------
(***************************************************************************)
(* parse_uint of util.cc, on a numeral that grows byte by byte.  The loop  *)
(* of parse_uint_digits reads its bytes in order and never looks ahead, so *)
(* every state is one call of parse_uint.                                  *)
(***************************************************************************)
EXTENDS Integers, Sequences

CONSTANTS MaxInt,     \* std::numeric_limits<int64_t>::max()
          Bytes,      \* what numerals are made of
          MaxNumber   \* bound: bytes of a numeral

ASSUME NumberAssumption ==
  /\ MaxInt \in Nat /\ MaxInt >= 10
  /\ Bytes \subseteq Nat
  /\ MaxNumber \in Nat

(* Arithmetic on int64_t wraps around if it overflows.                     *)
Wrap(x) == x % (MaxInt + 1)

IsDigit(c) == 48 <= c /\ c <= 57

(* Variant, as a plausible mistake that no specification uses: only the    *)
(* multiplication is guarded against overflow.                             *)
FitsTimesOnly(x, d) == x <= MaxInt \div 10

(* x * 10 + d does not overflow.                                           *)
Fits(x, d) == x <= MaxInt \div 10 /\ Wrap(x * 10) <= MaxInt - d

(* A turn of the loop of parse_uint_digits: sum and count are its n and i. *)
Scan(st, c) ==
  CASE st.at = "end" -> st
    [] st.at = "loop" /\ ~IsDigit(c) -> [st EXCEPT !.at = "end"]
    [] st.at = "loop" /\ IsDigit(c) /\ Fits(st.sum, c - 48) ->
         [sum |-> Wrap(Wrap(st.sum * 10) + (c - 48)), count |-> st.count + 1, at |-> "loop"]
    [] OTHER -> [sum |-> -1, count |-> 0, at |-> "end"]

ScanStart == [sum |-> 0, count |-> 0, at |-> "loop"]

(* What parse_uint makes of it for a string of that length; -1 is failure. *)
Parsed(st, len) ==
  IF st.count = 0 \/ st.sum = -1 \/ st.count # len THEN -1 ELSE st.sum

parse_uint(s) ==
  LET after[k \in 0 .. Len(s)] == IF k = 0 THEN ScanStart ELSE Scan(after[k - 1], s[k])
  IN  Parsed(after[Len(s)], Len(s))

-----------------------------------------------------------------------------
VARIABLES
  numeral,   \* the string
  scan,      \* where parse_uint_digits is at its end
  value      \* the number its digits denote

numberVars == <<numeral, scan, value>>

NumberInit == numeral = <<>> /\ scan = ScanStart /\ value = 0

NextByte ==
  /\ Len(numeral) < MaxNumber
  /\ \E c \in Bytes :
       /\ numeral' = Append(numeral, c)
       /\ scan' = Scan(scan, c)
       /\ value' = IF IsDigit(c) THEN (value * 10) + (c - 48) ELSE value

NumberSpec == NumberInit /\ [][NextByte]_numberVars

-----------------------------------------------------------------------------
(* parse_uint (status codes, content-length) returns the number a string   *)
(* of digits denotes if it fits into an int64_t, and -1 for anything else. *)
ParsesExactly ==
  Parsed(scan, Len(numeral)) =
    IF /\ numeral # <<>>
       /\ \A k \in 1 .. Len(numeral) : IsDigit(numeral[k])
       /\ value <= MaxInt
    THEN value ELSE -1

=============================================================================
