CONSTANTS
  t1 = t1
  t2 = t2
  t3 = t3
  t4 = t4
  None = None
  Threads <- Four
  TryThreads <- One
  CPUs = {0, 1, 2}
  Dirs = {d}
  MaxChanges = 1
SPECIFICATION MCSpec
INVARIANT ReleasedOnce
