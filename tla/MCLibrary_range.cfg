SPECIFICATION LibSpec
CONSTANTS
  Kinds <- MCArray
  Thing <- MCOne
  Wild = TRUE
  h1 = h1
  h2 = h2
  e1 = e1
  e2 = e2
  e3 = e3
  e4 = e4
  f1 = f1
  f2 = f2
  v1 = v1
  v2 = v2
  v3 = v3
  o1 = o1
  o2 = o2
  s1 = s1
  s2 = s2
  Null = Null
  Heads <- MCHeads
  Entry <- MCEntry
  Fiber <- MCFibers
  Freed = Freed
  Value <- MCValues
  KeyMax = 2
  TableKey <- MCThree
  Stored <- MCOne
  Hash <- MCHash
  MinSize = 1
  TableSizes <- MCTableSizes
  Box <- MCThree
  Object <- MCTwo
  Named <- MCNamed
  ArraySizes <- MCArraySizes
  Default = 3
  Chunk = 2
  MaxCount = 3
  MaxCapacity = 12
  Thread <- MCFibers
  User <- MCUsers
  Strict <- MCStrict
  TlsMax = 3
  KeysMax = 2
  ListMax = 3
  Socket <- MCUsers
  Reader <- MCOne
  Micros = 4
  Millis = 2
  Ticks = 8
  Day = 1
  Steps <- MCSteps
  Offsets <- MCOffsets
  CounterMax = 22
  Alphabets <- MCAlphabets
  Octets <- MCOctets
  LabelLen = 2
  NameLen = 4
  PortMax = 98
PROPERTIES ArrayRangeOnlyDeletes
CHECK_DEADLOCK FALSE
