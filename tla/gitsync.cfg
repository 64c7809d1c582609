CONSTANTS
  A = A
  B = B
  main = main
  v1 = v1
  base = base
  a1 = a1
  b1 = b1
  b2 = b2
  bad = bad
  t = t
  None = None
  Repo = {A, B}
  Ref = {main, v1}
  Commit = {base, a1, b1, b2, bad}
  Tag = {t}
  Unparseable = {bad}
  Parents <- MCParents
  Target <- MCTarget
  Moves <- MCMoves
  MaxFaults = 1
  MaxCrashes = 1
SPECIFICATION FairSpec
INVARIANTS TypeOK NothingForgotten QueuedIsFetched RefsFollowCommits ReplayMatches
PROPERTIES CatchesUp
CHECK_DEADLOCK FALSE
