CONSTANTS
  p1 = p1
  p2 = p2
  c1 = c1
  c2 = c2
  Producers = {p1, p2}
  Consumers = {c1, c2}
  Rings <- SeveralCores
  Size = 4
  Mod = 16
  Start = 14
  MaxBurst = 2
SPECIFICATION Spec
SYMMETRY SideSymmetry
INVARIANT SlotsDisjoint
