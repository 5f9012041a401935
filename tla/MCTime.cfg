SPECIFICATION Spec
CONSTANTS
  Modulus = 48
  Stopped = 11
  Delays = {1, 7, 24}
  Extensions = {23, 24}
  MaxGap = 12
  MaxCycles = 110
INVARIANTS TypeOK TimerTracksDeadline NeverEarly NeverMissed
CHECK_DEADLOCK FALSE
