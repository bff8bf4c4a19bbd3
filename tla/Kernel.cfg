CONSTANTS
  t1 = t1
  t2 = t2
  t3 = t3
  ncpu = 2
  NoThread = NoThread
  Idle = Idle
  NoCpu = NoCpu
  MaxSleep = 2
  Threads <- ThreeThreads
  Programs <- Scenarios
  Main = Main
  p1 = p1
  p2 = p2
  p3 = p3
  None = None
  Procs = {Main, p1, p2, p3}
  MaxLoad = 1
  PageFails = {p1, p2, p3}
SYMMETRY Renamings
SPECIFICATION MCSpec
INVARIANT ThreadsAreSound
INVARIANT FamilyIsSound
PROPERTY NobodyOversleeps
PROPERTY ImplementsMonitor
