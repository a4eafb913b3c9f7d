SPECIFICATION Spec
CONSTANTS
  RATIO = 3
  TAIL = 2
  PHASES = 2
  MaxBeats = 2
  MayDrop = {"fw"}
INVARIANT NaWhole
