---------------------------- MODULE MCGitHubSync ----------------------------
EXTENDS GitHubSync

\* An issue with two pages of comments and of events; the others are yet to be opened.
MCInitUp ==
  [i \in Issue |->
    [fields |-> IF i = 1 THEN [NoFields EXCEPT !.updated = 3, !.closed = TRUE, !.closedAt = 2]
                ELSE NoFields,
     labels |-> {},
     comments |-> [c \in Comment |-> IF i = 1 THEN [at |-> c, body |-> 0]
                                     ELSE NoText],
     feed |-> [f \in Feed |-> IF i = 1 /\ f = "events" THEN 3 ELSE 0],
     gone |-> FALSE]]
=============================================================================
