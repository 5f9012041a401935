SPECIFICATION FairSpec
CONSTANTS
  Num = 2
  IdxMod = 8
  CntMod = 32
  PruVring = 16
  IndexFirst = FALSE
  HostRaces = TRUE
  m1 = m1
  m2 = m2
  huge = huge
  Msgs = {m1, huge}
  Oversized = {huge}
  NoMsg = NoMsg
  MaxPosted = 3
INVARIANT ExclusiveOwnership
PROPERTIES ImplementsChannel Delivery SenderWakes
