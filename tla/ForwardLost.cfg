SPECIFICATION Spec
CONSTANTS
  STAGES = 2
  PERIOD = 4
  Ports = {p}
  NoPort = NoPort
  MaxWait = 6
PROPERTY FinishedBeatHeld
