SPECIFICATION Spec
CONSTANTS
  MAX_NUM_WQ = 2
  SendAddrs = {0, 8, 16}
  RecvBufs = {b1, b2}
  Nids = {0}
  NoAddr = NoAddr
  OutOfOrder = FALSE
  MaxPosts = 8
  MaxDeliveries = 4
  msgs_per_dest = 3
  msg_entry_size = 2
  NidMod = 2
  StaleHigh = {0}
  StalePayloadLens = {0}
  SourceNids = {0}
INVARIANT BuffersConserved
CHECK_DEADLOCK FALSE
