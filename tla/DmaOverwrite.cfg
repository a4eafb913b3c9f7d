SPECIFICATION Spec
CONSTANTS
  PORT_NUM = 2
  Words = 3
  InFull = 2
  InCap = 4
  OutCap = 6
PROPERTY ResponsesIntact
