CONSTANTS
  a = a
  b = b
  Record = {a, b}
  MaxLog = 3
  MaxSegs = 3
  MaxRestarts = 1
  ChanCap = 2
  MaxFaults = 1
  Skipped = Skipped
SPECIFICATION FairSpec
CONSTRAINT FirstIsA
INVARIANTS TypeOK AppliedIsServed SplitIsReal
PROPERTIES CatchesUp ImplementsMutationLog
CHECK_DEADLOCK FALSE
