SPECIFICATION SearchSpec
CONSTANTS
  Words <- MCWords
  Rows <- MCRows
  MaxRows = 2
  MaxDeeds = 5
INVARIANT HitsAnswerTheScreen
INVARIANT DraftLostHasCause
INVARIANT SearchIsLastTyped
CHECK_DEADLOCK FALSE
