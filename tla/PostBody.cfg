SPECIFICATION Spec
CONSTANTS
  h1 = h1
  h2 = h2
  Hosts <- MCHosts
  Languages <- MCLanguages
  Labels <- MCLabels
  Raws <- MCRaws
  Opened <- MCOpened
  MaxRuns = 2
  MaxFaults = 1
INVARIANT TextSurvives
INVARIANT DressedOnce
INVARIANT BlankHasCause
PROPERTY GoneIsLeftAlone
PROPERTY BodyRecovers
CHECK_DEADLOCK FALSE
