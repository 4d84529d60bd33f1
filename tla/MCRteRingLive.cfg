CONSTANTS
  p1 = p1
  p2 = p2
  c1 = c1
  Producers = {p1, p2}
  Consumers = {c1}
  Rings <- LiveRings
  Size = 4
  Mod = 16
  Start = 14
  MaxBurst = 1
SPECIFICATION FairObserverSpec
INVARIANT QueriesHonest
PROPERTY CallsReturn
