SPECIFICATION Spec
CONSTANTS
  Absent = Absent
  Grown <- MCGrown
  MaxEvents = 2
  MaxBreaks = 1
INVARIANT MessagesArriveWhole
INVARIANT StreamArrivesWhole
PROPERTY StallHasCause
CHECK_DEADLOCK FALSE
