SPECIFICATION FairSpec
CONSTANTS
  Num = 2
  IdxMod = 8
  CntMod = 32
  PruVring = 18
  IndexFirst = TRUE
  HostRaces = FALSE
  m1 = m1
  m2 = m2
  huge = huge
  Msgs = {m1, huge}
  Oversized = {huge}
  NoMsg = NoMsg
  MaxPosted = 3
PROPERTY SenderWakes
