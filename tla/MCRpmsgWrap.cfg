SPECIFICATION Spec
CONSTANTS
  Num = 2
  IdxMod = 4
  CntMod = 32
  PruVring = 16
  IndexFirst = TRUE
  HostRaces = FALSE
  m1 = m1
  m2 = m2
  huge = huge
  Msgs = {m1, huge}
  Oversized = {huge}
  NoMsg = NoMsg
  MaxPosted = 6
INVARIANT TakesAdvertised
