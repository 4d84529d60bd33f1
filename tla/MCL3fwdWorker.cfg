SPECIFICATION FairSpec
CONSTANTS
  MAX_NUM_WQ = 2
  SendAddrs = {0, 8, 16}
  RecvBufs = {b1, b2}
  Nids = {0, 1, 2, 3}
  NoAddr = NoAddr
  OutOfOrder = TRUE
  MaxPosts = 8
  MaxDeliveries = 4
  msgs_per_dest = 3
  msg_entry_size = 2
  NidMod = 2
  StaleHigh = {1}
  StalePayloadLens = {0}
  SourceNids = {0, 1}
INVARIANTS
  WqSenseExact
  LiveEntriesRecent
  ResponseIntact
  RepliesInOrder
  BufferSingleOwner
PROPERTIES
  ImplementsFifo
  WorkerStops
  RequestsAnswered
CHECK_DEADLOCK FALSE
