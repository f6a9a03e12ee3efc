SPECIFICATION FairBackendsSpec
CONSTANTS
  c1 = c1
  c2 = c2
  c3 = c3
  s1 = s1
  Rpcs = {c1, c2, c3}
  MaxWorkers = 3
  MaxHung = 1
  Streams = {s1}
INVARIANTS
  BackendsTypeOK
  ServingWhileListening
  MetricsMatchAnswers
PROPERTIES
  QueuedCallsServed
CHECK_DEADLOCK FALSE
