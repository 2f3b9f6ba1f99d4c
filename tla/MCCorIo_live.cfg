SPECIFICATION FairSpec
CONSTANTS
  f1 = f1
  f2 = f2
  f3 = f3
  d1 = d1
  d2 = d2
  Original = Original
  Null = Null
  MaxCache = 0
  Grow = 4
  IdMod = 2
  SIGTERM = 15
  CountMax = 3
  Fiber <- MCFiber
  Fd <- MCFd1
  Ops <- MCRecv
  Signals <- MCNone
  Delays <- MCSleep
  TimeMax = 1
  Yields = FALSE
  Stops <- MCRuns
  Tidy = TRUE
PROPERTIES BlockedServed SleepersWake
