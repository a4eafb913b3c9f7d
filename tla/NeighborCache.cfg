SPECIFICATION Spec
CONSTANTS
  Ports = {p0, p1}
  Addrs = {a, b, c}
  Macs = {m, n}
  NoMac = NoMac
  NoAddr = NoAddr
  NUM_ENTRIES = 2
SYMMETRY Symmetry
INVARIANTS TypeOK KeysUnique
PROPERTIES ImplementsMap FifoAlone NaLearned
