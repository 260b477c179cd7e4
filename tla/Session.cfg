\* A tab of a browser and a CLI process.
CONSTANTS
  bio = bio
  metadata = metadata
  v = v
  Tab = tab
  Shared = TRUE
  Callers = {tab, cli}
  Names = {n1}
  NoName = NoName
  Fields = {bio, metadata}
  Clearable = {metadata}
  Values = {Blank, v}
  Blank = Blank
  Absent = Absent
  Forms <- MCForms
  MaxAgents = 2
  MaxFaults = 1
SPECIFICATION SessionSpec
INVARIANT LostUpdateHasCause
INVARIANT WritesAsShown
PROPERTY ClearedHasCause
