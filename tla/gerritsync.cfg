CONSTANTS
  main = main
  tmp = tmp
  cfg = cfg
  base = base
  p9 = p9
  p10 = p10
  m1 = m1
  m2 = m2
  m3 = m3
  x = x
  bad = bad
  issue = issue
  None = None
  NoStatus = NoStatus
  Branch = {main, tmp, cfg}
  Untracked = {cfg}
  CL = {7}
  PatchSet = {9, 10}
  Commit = {base, p9, p10, m1, m2, m3, x, bad}
  Parents <- MCParents
  Unparseable = {bad}
  StatusOf <- MCStatusOf
  Private = {m2}
  Labelled = {m2, m3}
  Uploads <- MCUploads
  Issue = {issue}
  Issues <- MCIssues
  Status = {"new", "merged"}
  Position <- MCPosition
  Moves <- MCMoves
  BatchSize = 2
  MaxFaults = 1
  MaxCrashes = 1
SPECIFICATION FairSpec
INVARIANTS TypeOK MissingIsNeeded RefsFollowCommits ChangesFollowMeta UploadsAreIndexed ReplayMatches
PROPERTIES CatchesUp
