SPECIFICATION Spec
CONSTANTS
  Num = 2
  IdxMod = 8
  CntMod = 32
  PruVring = 16
  IndexFirst = TRUE
  HostRaces = FALSE
  m1 = m1
  m2 = m2
  huge = huge
  Msgs = {m1, m2, huge}
  Oversized = {huge}
  NoMsg = NoMsg
  MaxPosted = 3
SYMMETRY MCSymmetry
INVARIANTS TypeOK IndicesAgree ExclusiveOwnership TakesAdvertised
PROPERTY ImplementsChannel
