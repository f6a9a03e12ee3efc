SPECIFICATION FairAgentSpec
CONSTANTS
  a1 = a1
  u1 = u1
  h1 = h1
  h2 = h2
  Urls = {u1}
  Instances = {a1}
  Handlers = {h1, h2}
  HandlerSets = {{h1}, {h1, h2}}
  ServiceLists <- Lists
  AgentFaults = {"stream", "refuse", "eof", "degrade", "die", "kill"}
INVARIANTS
  AgentTypeOK
  SendersAreServed
PROPERTIES
  AgentEnds
CHECK_DEADLOCK FALSE
