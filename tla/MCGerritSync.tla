---------------------------- MODULE MCGerritSync ----------------------------
(* A small instance of GerritSync for TLC: change 7, of which the ninth and  *)
(* the tenth patch set matter, p9 and p10, and its meta commits m1, m2 and   *)
(* m3, that merges it into main.  The branch tmp begins at x, is moved by    *)
(* force to bad, which does not parse, or deleted; cfg is refs/meta/config.  *)
EXTENDS GerritSync

CONSTANTS main, tmp, cfg, base, p9, p10, m1, m2, m3, x, bad, issue

MCParents ==
  [c \in Commit |-> CASE c \in {base, m1} -> {} [] c = m2 -> {m1} [] c = m3 -> {m2}
                      [] OTHER -> {base}]
MCStatusOf == [c \in Commit |-> CASE c = m1 -> "new" [] c = m3 -> "merged" [] OTHER -> NoStatus]
MCUploads == [c \in Commit |-> CASE c = m1 -> p9 [] c = m2 -> p10 [] OTHER -> None]
MCIssues == [c \in Commit |-> IF c = p9 THEN {issue} ELSE {}]
MCPosition ==
  [n \in Name |-> CASE n = <<7, 10>> -> 1 [] n = <<7, 9>> -> 2 [] n = <<7, 0>> -> 3
                    [] n = main -> 4 [] n = tmp -> 5 [] n = cfg -> 6]
MCMoves ==
  {{<<main, None, base>>, <<cfg, None, base>>, <<tmp, None, x>>},
   {<< <<7, 9>>, None, p9>>, << <<7, 0>>, None, m1>>},
   {<< <<7, 10>>, None, p10>>, << <<7, 0>>, m1, m2>>},
   {<<main, base, p10>>, << <<7, 0>>, m2, m3>>},
   {<<tmp, x, None>>}, {<<tmp, x, bad>>}}
=============================================================================
