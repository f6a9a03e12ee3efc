SPECIFICATION SystemSpec
CONSTANTS
  a1 = a1
  a2 = a2
  c1 = c1
  c2 = c2
  c3 = c3
  u1 = u1
  h1 = h1
  h2 = h2
  NoCall = NoCall
  Calls = {c1, c2}
  Urls = {u1}
  Instances = {a1, a2}
  Handlers = {h1, h2}
  HandlerSets = {{h1, h2}}
  Faults = {"crash", "busy"}
  MaxRows = 4
  ServiceLists <- OneList
  AgentFaults = {"die", "kill"}
  UrlOf <- SameUrl
  NetFaults = TRUE
SYMMETRY Symmetric
INVARIANTS
  SystemTypeOK
  RegisteredOnce
  AckedStaysDelisted
  WatchedIsListed
PROPERTIES
  LifecycleOrdered
CHECK_DEADLOCK FALSE
