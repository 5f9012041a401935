SPECIFICATION FairSpec
CONSTANTS
  NumSensors = 2
  BitsPerByte = 2
  Bytes = 1
  StartTime = 3
  ResponseTime = 9
  PulseTime = 18
  ReleaseTime = 20
  DecisionTime = 10
  ExtensionTime = 6
  SensorDelay = {4, 8}
  SensorPulse = 16
  SensorLow = 10
  SensorHigh <- MCSensorHigh
INVARIANTS TypeOK StoresInOwnRecord GoodSensorsRead RecordsComplete LinesReleased FailuresRejected
PROPERTY ImplementsLoop
