SPECIFICATION FairSpec
CONSTANTS
  f1 = f1
  f2 = f2
  f3 = f3
  Fiber <- MCFiber3
  Original = Original
  Null = Null
  MaxCache = 1
  Grow = 2
  IdMod = 2
  SIGTERM = 15
  CountMax = 4
  Signals <- MCKillOnly
INVARIANTS TypeOK OnePlace SlotTable ExitingIsDead RunningIsCpu CacheBound
PROPERTIES ImplementsTasks ReadyRuns
