SPECIFICATION Spec
CONSTANTS
  Num = 2
  IdxMod = 8
  CntMod = 32
  PruVring = 16
  IndexFirst = TRUE
  HostRaces = TRUE
  m1 = m1
  m2 = m2
  huge = huge
  Msgs = {m1, m2, huge}
  Oversized = {huge}
  NoMsg = NoMsg
  MaxPosted = 3
INVARIANT ExclusiveOwnership
