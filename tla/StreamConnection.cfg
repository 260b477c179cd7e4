\* One connection that takes in two frames before a write blocks.
CONSTANT Buffer = 2
SPECIFICATION FairSpec
\* The connection ends.
INVARIANT FramesAreWhole
INVARIANT NoWriteAfterReturn
PROPERTY HandlerEnds
PROPERTY PingsGoOn
CHECK_DEADLOCK FALSE
