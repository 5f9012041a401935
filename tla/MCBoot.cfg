SPECIFICATION FairSpec
CONSTANTS
  Firmware = {1, 2}
  PruVring = 16
  PruKick = 17
  Num = 16
  Align = 16
  Page = 4096
  Pages = {1, 2, 3}
  Buffers = 2
  MaxRuns = 3
  MaxCommands = 1
INVARIANTS TypeOK AttachedToRings PartsApart FreshReply DiesOnlyIfLate
PROPERTY DeviceAppears
CHECK_DEADLOCK FALSE
