CONSTANTS
  LongPolls = {p, q}
  MaxSize = 2
SPECIFICATION FairPollSpec
INVARIANTS TypeOK SleepersAreUpToDate
PROPERTY GrowthIsAnswered
