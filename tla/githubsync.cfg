CONSTANTS
  Issue = {1, 2}
  PR = {2}
  Label = {bug}
  Comment = {1, 2, 3}
  Pages = 2
  IssuesPerPage = 1
  PerPage = 2
  InitUp <- MCInitUp
  InitNow = 4
  MaxTime = 5
  MaxEdits = 2
  MaxFaults = 1
SPECIFICATION FairSpec
INVARIANTS TypeOK SyncedIsWhole CountersMatch
PROPERTIES CatchesUp
