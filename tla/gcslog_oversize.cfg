CONSTANTS
  Record = {1, 2}
  Weight <- SmallAndBig
  Target = 1
  Slack = 0
  MaxLog = 2
  MaxSegs = 3
  MaxRestarts = 0
SPECIFICATION Spec
INVARIANT NoSegmentMissing
CHECK_DEADLOCK FALSE
