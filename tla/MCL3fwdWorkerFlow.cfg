SPECIFICATION Spec
CONSTANTS
  MAX_NUM_WQ = 4
  SendAddrs = {0, 8, 16, 24, 32}
  RecvBufs = {b1, b2}
  Nids = {0, 1, 2, 3}
  NoAddr = NoAddr
  OutOfOrder = FALSE
  MaxPosts = 8
  MaxDeliveries = 4
  msgs_per_dest = 5
  msg_entry_size = 2
  NidMod = 2
  StaleHigh = {0, 1}
  StalePayloadLens = {0, 57005}
  SourceNids = {1}
INVARIANTS
  BuffersConserved
CHECK_DEADLOCK FALSE
