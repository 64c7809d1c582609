----------------------------- MODULE MCGitSync -----------------------------
(* A small instance of GitSync for TLC: A and B are forks that share the     *)
(* commit base, A's main.  A's a1, on base, is there by its tag t only, and  *)
(* the tag is deleted and made again.  B's main is at bad, which does not    *)
(* parse, and is then moved by force to b2, on b1 on base.                   *)
EXTENDS GitSync

CONSTANTS A, B, main, v1, base, a1, b1, b2, bad, t

MCParents ==
  [c \in Commit |-> CASE c = base -> {} [] c = b2 -> {b1} [] OTHER -> {base}]
MCTarget == [x \in Tag |-> a1]
MCMoves ==
  [r \in Repo |->
     IF r = A THEN {<<main, None, base>>, <<v1, None, t>>, <<v1, t, None>>}
     ELSE {<<main, None, bad>>, <<main, bad, b2>>}]
=============================================================================
