SPECIFICATION WidgetsSpec
CONSTANTS
  Letters <- MCLetters
  TableRows <- MCRows
  Selects <- MCSelects
  Buttons <- MCButtons
  MaxClicks = 3
INVARIANT LeadsWhereItSays
INVARIANT ClickDoesItsOwn
PROPERTY ToastHasItsTime
CHECK_DEADLOCK FALSE
