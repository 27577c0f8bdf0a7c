----------------------------- MODULE PathJoin -----------------------------
(***************************************************************************)
(* path_join of http2.cc, which serve_mux uses to sanitize request paths,  *)
(* and check_path of util.cc.  A path is a sequence of characters; only    *)
(* "/", "." and "?" matter to the code, so a few others stand for the rest.*)
(***************************************************************************)
EXTENDS Naturals, Sequences, FiniteSetsExt

CONSTANT Chars   \* the characters

ASSUME CharsAssumption == {"/", "."} \subseteq Chars

Text == Seq(Chars)

Drop(s, k) == SubSeq(s, k + 1, Len(s))

ButLast(s) == SubSeq(s, 1, Len(s) - 1)

LastOf(s) == s[Len(s)]

(* t stands in s after its first k characters.                             *)
At(s, k, t) == k + Len(t) <= Len(s) /\ \A j \in 1 .. Len(t) : s[k + j] = t[j]

(* The position of the first, of the last "/" in s; 0 if there is none.    *)
Slashes(s) == {i \in 1 .. Len(s) : s[i] = "/"}

FirstSlash(s) == IF Slashes(s) = {} THEN 0 ELSE Min(Slashes(s))

LastSlash(s) == IF Slashes(s) = {} THEN 0 ELSE Max(Slashes(s))

(* eat_file: what is kept of the output when a file name is taken off.     *)
eat_file(out) ==
  IF LastSlash(out) = 0 THEN <<"/">> ELSE SubSeq(out, 1, LastSlash(out))

(* Variants stand for plausible mistakes; no specification uses them.      *)
(* Variant: only the file name is taken off, not the directory.            *)
eat_dirFile(out) == eat_file(out)

eat_dir(out) == eat_file(ButLast(eat_file(out)))

(* Variant: of several slashes only one is skipped.                        *)
SkipSlashesOne(s) == IF s # <<>> /\ Head(s) = "/" THEN Tail(s) ELSE s

(* for (; first != last && *first == '/'; ++first)                         *)
SkipSlashes(s) ==
  LET others == 1 .. Len(s) \ Slashes(s)
  IN  IF others = {} THEN <<>> ELSE Drop(s, Min(others) - 1)

(* One turn of the loop over rel_path: out has been written, in is left to *)
(* be read.  The loop is left (break) by leaving nothing to be read.       *)
Turn(out, in) ==
  LET dir == IF LastOf(out) # "/" THEN eat_file(out) ELSE out
      i == FirstSlash(in)
  IN  IF in = <<".">> THEN [out |-> out, in |-> <<>>]
      ELSE IF At(in, 0, <<".", "/">>) THEN [out |-> out, in |-> Drop(in, 2)]
      ELSE IF in = <<".", ".">> THEN [out |-> eat_dir(out), in |-> <<>>]
      ELSE IF At(in, 0, <<".", ".", "/">>)
      THEN [out |-> eat_dir(out), in |-> Drop(in, 3)]
      ELSE IF i = 0 THEN [out |-> dir \o in, in |-> <<>>]
      ELSE [out |-> dir \o SubSeq(in, 1, i), in |-> SkipSlashes(Drop(in, i))]

(* The loop from a state on to its end.                                    *)
Walk(start) ==
  LET from[s \in [out : Text, in : Text]] ==
        IF s.in = <<>> THEN s.out ELSE from[Turn(s.out, s.in)]
  IN  from[start]

Query(q) == IF q = <<>> THEN <<>> ELSE <<"?">> \o q

Larger(a, b) == IF a < b THEN b ELSE a

(* The bytes that path_join asks the allocator for.                        *)
BufferSize(base_path, base_query, rel_path, rel_query) ==
  Larger(1, Len(base_path)) + Len(rel_path) + 1 + Larger(Len(base_query), Len(rel_query)) + 1

(* Where the loop starts; with an empty rel_path there is nothing to read. *)
Start(base_path, rel_path) ==
  IF rel_path # <<>> /\ Head(rel_path) = "/"
  THEN [out |-> <<"/">>, in |-> SkipSlashes(rel_path)]
  ELSE [out |-> IF base_path = <<>> THEN <<"/">> ELSE base_path, in |-> rel_path]

(* What is appended to the path.                                           *)
QueryOf(base_query, rel_path, rel_query) ==
  Query(IF rel_path = <<>> /\ rel_query = <<>> THEN base_query ELSE rel_query)

path_join(base_path, base_query, rel_path, rel_query) ==
  Walk(Start(base_path, rel_path)) \o QueryOf(base_query, rel_path, rel_query)

(* What serve_mux::handler compares a request path with.                   *)
CleanPath(path) == path_join(<<>>, <<>>, path, <<>>)

-----------------------------------------------------------------------------
HasInside(s, t) == \E k \in 0 .. Len(s) : At(s, k, t)

HasAtEnd(s, t) == Len(t) <= Len(s) /\ At(s, Len(s) - Len(t), t)

(* util::check_path                                                        *)
check_path(path) ==
  /\ path # <<>>
  /\ Head(path) = "/"
  /\ ~HasInside(path, <<"\\">>)
  /\ ~HasInside(path, <<"/", ".", ".", "/">>)
  /\ ~HasInside(path, <<"/", ".", "/">>)
  /\ ~HasAtEnd(path, <<"/", ".", ".">>)
  /\ ~HasAtEnd(path, <<"/", ".">>)

=============================================================================
