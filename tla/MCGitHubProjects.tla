--------------------------- MODULE MCGitHubProjects ---------------------------
EXTENDS GitHubProjects, TLC

MCInitProjects == [j \in Project |-> [title |-> 1, fields |-> Field]]

\* Each issue is in each project, and the corpus has that.
MCItems == [j \in Project |-> [NoItem EXCEPT !.id = 1, !.updated = 1]]
MCInitUp == [i \in Issue |-> [NoMeta EXCEPT !.items = MCItems]]
MCInitMem ==
  [issues |-> [i \in Issue |-> [Blank EXCEPT !.items = MCItems, !.linked = Project,
                                            !.eventMaxTime = 1]],
   projects |-> MCInitProjects, numItems |-> Cardinality(Issue \X Project)]

Symmetry == Permutations(Process) \union Permutations(Name)
=============================================================================
