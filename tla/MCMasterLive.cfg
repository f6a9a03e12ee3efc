SPECIFICATION FairSpec
CONSTANTS
  c1 = c1
  c2 = c2
  c3 = c3
  i1 = i1
  i2 = i2
  u1 = u1
  u2 = u2
  h1 = h1
  h2 = h2
  NoCall = NoCall
  Calls = {c1, c2, c3}
  Urls = {u1}
  Instances = {i1}
  Handlers = {h1}
  HandlerSets = {{h1}}
  Faults = {"busy"}
  MaxRows = 1
PROPERTY
  CallsReturn
