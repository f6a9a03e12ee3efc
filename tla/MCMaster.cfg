SPECIFICATION Spec
CONSTANTS
  c1 = c1
  c2 = c2
  c3 = c3
  i1 = i1
  i2 = i2
  u1 = u1
  u2 = u2
  h1 = h1
  h2 = h2
  NoCall = NoCall
  Calls = {c1, c2}
  Urls = {u1}
  Instances = {i1, i2}
  Handlers = {h1, h2}
  HandlerSets <- SomeSets
  Faults = {"query", "begin", "busy", "exec", "commit", "crash"}
  MaxRows = 3
SYMMETRY Symmetric
INVARIANTS
  TypeOK
  LockHeldInTransaction
  AckedRegisterStored
  AckedUnregisterDead
  SearchComplete
PROPERTIES
  RowsOnlyDie
  ImplementsRegistry
