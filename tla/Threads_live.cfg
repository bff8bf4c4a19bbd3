CONSTANTS
  t1 = t1
  t2 = t2
  t3 = t3
  ncpu = 2
  NoThread = NoThread
  Idle = Idle
  NoCpu = NoCpu
  MaxSleep = 1
  Threads <- TwoThreads
  Programs <- LiveScenarios
  Main = Main
  p1 = p1
  p2 = p2
  p3 = p3
  None = None
  Procs = {Main, p1, p2, p3}
  MaxLoad = 1
  PageFails = {p1, p2, p3}
SPECIFICATION ThreadsFairSpec
PROPERTY ThreadsMakeProgress
