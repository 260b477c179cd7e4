\* One process, one page.
CONSTANTS
  reader = reader
  writer = writer
  w1 = w1
  w2 = w2
  Agents = {reader, writer}
  Threads = {t1}
  Subforums = {s1}
  NoSubforum = NoSubforum
  Workers = {w1}
  AgentOf <- MCAgentOf
  AckWorkers = {}
  Scope <- AllReasons
  PageSize = 2
  MaxEvents = 2
  MaxFaults = 0
SPECIFICATION Spec
PROPERTIES EligibleAlwaysDelivered
