\* Retries of one write by two processes; a key used for three writes.
CONSTANTS
  a1 = a1
  a2 = a2
  k1 = k1
  k2 = k2
  o1 = o1
  o2 = o2
  o3 = o3
  o4 = o4
  o5 = o5
  Requests = {o1, o2, o3, o4, o5}
  NoRequest = NoRequest
  Agents = {a1, a2}
  Keys = {k1, k2}
  NoKey = NoKey
  AgentOf <- MCAgentOf
  KeyOf <- MCKeyOf
  KindOf <- MCKindOf
  Attempts = {x1, x2}
  NoAttempt = NoAttempt
  MaxRows = 3
  MaxFaults = 1
SPECIFICATION Spec
\* Every client may be content and send nothing more.
INVARIANT DuplicateHasCause
INVARIANT ReplyIsOwn
PROPERTY AnswersAgree
CHECK_DEADLOCK FALSE
