SPECIFICATION FairSpec
CONSTANTS
  RATIO = 3
  TAIL = 2
  PHASES = 2
  MaxBeats = 2
  MayDrop = {"fw"}
INVARIANTS TypeOK FwRipWhole NaWholeAlone
PROPERTY EgressRecovers
