CONSTANTS
  None = None
  Nobody = Nobody
  Threads <- Three
  nice <- MCNice
  Weight <- MCWeight
  Latency = 4
  SleepCredit = 3
  MaxTime = 5
  TickLength = 3
  Readers = {r1}
  Writers = {w1, w2}
  Messages <- Texts
  MaxRead = 2
  Producers = {p1, p2}
  Consumers = {c1, c2}
  Items = {1, 2}
  NoItem = 0
  Capacity = 2
SPECIFICATION MCSpec
INVARIANT IInv
INVARIANT PipeIsSafe
INVARIANT QueueIsSafe
INVARIANT KernelHeapIsSound
INVARIANT UserHeapIsSound
INVARIANT SpacesAreSound
INVARIANT ContainersKeepTheirElements
INVARIANT CallsKeepTheirPromise
INVARIANT SyscallsAreSound
INVARIANT ScreenShowsText
INVARIANT ConsoleIsSound
INVARIANT RelayLosesNothing
PROPERTY PipeIsFifo
PROPERTY QueueIsFifo
PROPERTY VruntimeNeverDecreases
