------------------------------ MODULE PathWalk ------------------------------
(***************************************************************************)
(* The loop of path_join, turn by turn, beside a stack of directories that *)
(* the segments of rel_path enter and leave.                               *)
(***************************************************************************)
EXTENDS PathJoin

CONSTANTS Bases, Rels, Queries   \* what path_join is called with

ASSUME JoinAssumption ==
  Bases \subseteq Text /\ Rels \subseteq Text /\ Queries \subseteq Text

VARIABLES
  base, rel,       \* base_path and rel_path
  written, left,   \* what is in the buffer, what of rel_path is left to be read
  dirs             \* the directories entered, the current one last

joinVars == <<base, rel, written, left, dirs>>

JoinInit ==
  /\ base \in Bases
  /\ rel \in Rels
  /\ written = Start(base, rel).out
  /\ left = Start(base, rel).in
  /\ dirs = <<eat_file(written)>>

(* Where the next segment leads: "." stays, ".." goes back to the directory*)
(* before (the first one is base_path's), a name that ends in a slash goes *)
(* into a directory.                                                       *)
Enter(stack, in) ==
  LET i == FirstSlash(in)
  IN  IF in = <<".">> \/ At(in, 0, <<".", "/">>) THEN stack
      ELSE IF in = <<".", ".">> \/ At(in, 0, <<".", ".", "/">>)
      THEN IF Len(stack) = 1 THEN <<eat_dir(stack[1])>> ELSE ButLast(stack)
      ELSE IF i = 0 THEN stack
      ELSE Append(stack, LastOf(stack) \o SubSeq(in, 1, i))

NextTurn ==
  /\ left # <<>>
  /\ written' = Turn(written, left).out
  /\ left' = Turn(written, left).in
  /\ dirs' = Enter(dirs, left)
  /\ UNCHANGED <<base, rel>>

JoinSpec == JoinInit /\ [][NextTurn]_joinVars

-----------------------------------------------------------------------------
(* rel_path starts at the root, as for serve_mux.                          *)
Rooted == base = <<>> \/ (rel # <<>> /\ Head(rel) = "/")

(* path_join sanitizes.  The directory of what it has written is the one   *)
(* the segments lead to, so ".." takes off exactly what was entered, and   *)
(* never more than the root.  It never writes beyond the buffer it asked   *)
(* for, with either query and the NUL.  What it returns from the root      *)
(* passes check_path, the test before a file is opened, unless rel_path    *)
(* has a backslash.                                                        *)
Sanitizes ==
  /\ eat_file(written) = dirs[Len(dirs)]
  /\ \A base_query, rel_query \in Queries :
       Len(written) + Len(left) + Len(QueryOf(base_query, rel, rel_query)) + 1
         <= BufferSize(base, base_query, rel, rel_query)
  /\ left = <<>> /\ Rooted /\ ~HasInside(rel, <<"\\">>) => check_path(written)

=============================================================================
