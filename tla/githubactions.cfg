CONSTANTS
  Run = {1, 2, 3, 4, 5}
  Job = {build}
  Mode = {"poll", "since", "backfill"}
  Cap = 3
  Minute = 1
  Hour = 2
  Day = 3
  MaxAge = 8
  Since = 1
  InitCreated <- MCInitCreated
  InitNow = 7
  MaxTime = 8
  MaxEdits = 2
  MaxFaults = 1
SPECIFICATION FairSpec
INVARIANTS NothingBehindHighWater PassIsComplete
PROPERTIES RunsArrive
