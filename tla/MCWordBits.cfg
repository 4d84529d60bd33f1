CONSTANTS
  numEntries = 3
  MaxInc = 3
  MaxMessages = 10
  Bases = {0, 8}
  MemSize = 32
  Ids = {1, 515}
  Types = {0, 7}
  Payloads <- MCPayloads
  MaxRpcs = 2
  Heads = {h1, h2}
  Elems = {e1, e2, e3}
  NULL = NULL
  RingThreads = {r1, r2}
  RingNames = {"n1", "n2"}
  Requests <- MCRequests
  Zones = {"z1", "z2"}
  UintBits = 7
  HeaderSize = 8
  LineSize = 8
  Primary = "p"
  Secondaries = {"s"}
  TailqNames <- MCTailqNames
  RTE_TAILQ_NAMESIZE = 4
  RTE_MAX_TAILQ = 4
  SlabBits = 2
  LineSlabs = 2
  ContextSlabs = 5
  BitCounts = {3, 9}
  SlabValues <- MCSlabValues
  ByteBits = 2
  Golden = 239
  Seeds = {0, 200}
  Memories <- MCMemories
  KeyLengths = {0, 1, 2, 3, 4, 5, 6, 7, 8, 9, 10, 11, 12, 13, 24, 25}
  CounterBits = 4
  cc_shift = 2
  NSEC_PER_SEC = 3
  MaxCycles = 40
  Users = {u1, u2, u3}
  SignBit = 2
  MaxSum = 3
  NumBits = 6
SPECIFICATION LibrarySpec
CHECK_DEADLOCK FALSE
INVARIANT OriginalBitReturned
