SPECIFICATION FairSpec
CONSTANTS
  c1 = c1
  c2 = c2
  Null = Null
  Client <- MCClient
  BufSize = 2
  Room = 2
  Lines <- MCLines
CHECK_DEADLOCK FALSE
INVARIANTS EchoesInOrder OneFiberPerSocket
PROPERTIES Answered
