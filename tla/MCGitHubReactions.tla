-------------------------- MODULE MCGitHubReactions --------------------------
EXTENDS GitHubReactions

\* A reaction to the first issue, which has all the comments.
MCInitComments == [i \in Issue |-> IF i = 1 THEN Comment ELSE {}]
MCInitReactions == [i \in InitOpen |-> [w \in Place |-> IF w = Body THEN {i} ELSE {}]]
=============================================================================
