CONSTANTS
  w1 = w1
  w2 = w2
  Writers = {w1, w2}
  BitXor <- MCBitXor
  Tables <- AllTables
SPECIFICATION Spec
SYMMETRY WriterSymmetry
CHECK_DEADLOCK FALSE
INVARIANT StoredReachable
INVARIANT SafeWithoutSlotRace
INVARIANT IndexIdentifiesKey
INVARIANT LimitsSuffice
