SPECIFICATION Spec
CONSTANTS
  STAGES = 2
  PERIOD = 5
  Ports = {p, q}
  NoPort = NoPort
  MaxWait = 2
INVARIANTS TypeOK BeatsMoveOnce
PROPERTY ImplementsFifo
SYMMETRY Symmetry
