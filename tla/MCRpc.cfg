SPECIFICATION RpcSpec
CONSTANTS
  c1 = c1
  c2 = c2
  i1 = i1
  i2 = i2
  u1 = u1
  u2 = u2
  h1 = h1
  h2 = h2
  Calls = {c1, c2}
  Urls = {u1}
  Instances = {i1, i2}
  Handlers = {h1, h2}
  HandlerSets = {{h1, h2}, {}}
  MaxRows = 2
  RpcFaults = {"crash", "lose", "garble"}
SYMMETRY Symmetric
INVARIANTS
  RpcTypeOK
  LogTellsOutcome
  AgentCallsTraceable
PROPERTIES
  CallersSeeRegistry
