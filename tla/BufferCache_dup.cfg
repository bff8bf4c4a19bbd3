CONSTANTS
  c1 = c1
  c2 = c2
  b1 = b1
  b2 = b2
  s1 = s1
  s2 = s2
  s3 = s3
  Flusher = flusher
  None = None
  Clients <- TwoClients
  Blocks <- TwoBlocks
  Sectors <- ThreeSectors
  M = 2
  Errands <- ContendedWrites
SPECIFICATION Spec
INVARIANT OneBlockPerSector
