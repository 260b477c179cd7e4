SPECIFICATION Spec
CONSTANTS
  f1 = f1
  f2 = f2
  t = t
  Subforums <- MCSubforums
  Thread = t
  Forum = f1
  AtFirst <- MCAtFirst
  Sidebar = FALSE
  First <- MCFirst
  MaxDeeds = 4
INVARIANT ReadYourWrites
INVARIANT ClickDoesWhatItSays
INVARIANT WordsPostedOnce
INVARIANT OwnSubforumShown
CHECK_DEADLOCK FALSE
