SPECIFICATION FairSpec
CONSTANTS
  a = a
  b = b
  c = c
  Fd <- MCFd3
  NoSock <- MCNoSock
INVARIANTS Table InterestIsPending NoDangling
PROPERTIES ImplementsPoller ConditionServed
