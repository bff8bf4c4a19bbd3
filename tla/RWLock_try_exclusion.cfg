CONSTANTS
  Threads = {t1, t2, t3, t4}
  TryThreads = {t4}
SPECIFICATION Spec
INVARIANT Exclusion
