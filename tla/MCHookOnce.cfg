SPECIFICATION FairSpec
CONSTANTS
  t1 = t1
  t2 = t2
  t3 = t3
  recv = recv
  send = send
  close = close
  Thread <- MCThread
  Api <- MCApi
INVARIANTS CallsAreInstalled DoneIsComplete
PROPERTY CallReturns
