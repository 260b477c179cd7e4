\* Two tabs of one agent; a connection may break, and the token be forgotten.
CONSTANTS
  Tabs = {tab1, tab2}
  Topics = {joinable, own}
  Watchable = {joinable}
  Theirs = {own}
  PageSize = 2
  MaxEvents = 2
  MaxFaults = 2
SPECIFICATION FairSpec
INVARIANT TabFollowsLog
INVARIANT AckCoversShown
PROPERTY SavedCursorIsSafe
PROPERTY OwedIsShown
