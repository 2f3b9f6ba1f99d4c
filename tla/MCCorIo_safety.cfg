SPECIFICATION Spec
CONSTANTS
  f1 = f1
  f2 = f2
  f3 = f3
  d1 = d1
  d2 = d2
  Original = Original
  Null = Null
  MaxCache = 0
  Grow = 4
  IdMod = 2
  SIGTERM = 15
  CountMax = 3
  Fiber <- MCFiber
  Fd <- MCFd2
  Ops <- MCOps
  Signals <- MCSignals
  Delays <- MCSleeps
  TimeMax = 2
  Yields = TRUE
  Stops <- MCBoth
  Tidy = TRUE
INVARIANTS OneRing TimersSorted NobodyIsForgotten
PROPERTIES WakesTheWaiter NotEarly KillEndsCall ImplementsSched
SYMMETRY MCSymmetry
