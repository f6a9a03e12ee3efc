SPECIFICATION BackendsSpec
CONSTANTS
  c1 = c1
  c2 = c2
  c3 = c3
  s1 = s1
  Rpcs = {c1, c2, c3}
  MaxWorkers = 2
  MaxHung = 0
  Streams = {}
INVARIANTS
  StartedCountsRunning
CHECK_DEADLOCK FALSE
