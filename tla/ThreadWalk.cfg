\* Pages of two posts; times within one second.
CONSTANTS
  Base = 2
  PageSize = 2
  MaxPosts = 3
  MaxReplies = 1
  MaxTime = 2
  MaxFaults = 1
SPECIFICATION FairSpec
\* Nobody has to post or read.
INVARIANT GapHasCause
INVARIANT DisorderHasCause
INVARIANT WalkIsComplete
PROPERTY ReaderCatchesUp
CHECK_DEADLOCK FALSE
