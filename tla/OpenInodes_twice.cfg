CONSTANTS
  Procs = {p, q}
  Nodes = {m, n}
  Sectors = {r, s}
  None = None
SPECIFICATION Spec
INVARIANT OneInodePerSector
