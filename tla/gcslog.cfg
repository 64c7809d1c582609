CONSTANTS
  Record = {1, 2}
  Weight <- SmallAndBig
  Target = 3
  Slack = 1
  MaxLog = 4
  MaxSegs = 3
  MaxRestarts = 2
SPECIFICATION FairSpec
INVARIANT BucketIsPrefix
PROPERTIES EverythingIsStored ImplementsSegmentLog
CHECK_DEADLOCK FALSE
