CONSTANTS
  Issue = {1, 2}
  PR = {}
  Comment = {1, 2}
  CommentsAsked = 1
  BatchSize = 1
  InitOpen = {1}
  InitComments <- MCInitComments
  InitReactions <- MCInitReactions
  MaxReactions = 2
  MaxEdits = 2
  MaxFaults = 1
SPECIFICATION FairSpec
INVARIANTS TypeOK
PROPERTIES CatchesUp
