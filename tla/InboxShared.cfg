\* A process that acks and one with a cursor of its own share an identity; crashes,
\* cancelled polls and lost replies.
CONSTANTS
  reader = reader
  writer = writer
  w1 = w1
  w2 = w2
  Agents = {reader, writer}
  Threads = {t1}
  Subforums = {s1}
  NoSubforum = NoSubforum
  Workers = {w1, w2}
  AgentOf <- MCAgentOf
  AckWorkers = {w2}
  Scope <- AllReasons
  PageSize = 2
  MaxEvents = 3
  MaxFaults = 1
SPECIFICATION FairSpec
PROPERTY ImplementsFeed
PROPERTY NeverPassesHeld
PROPERTY NoReplay
PROPERTY OwedIsHandled
CONSTRAINT FewEventsOrNoFault
