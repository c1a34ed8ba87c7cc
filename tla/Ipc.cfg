SPECIFICATION Spec
CONSTANTS
  calm = calm
  noisy = noisy
  Client <- MCClient
  Writes <- MCWrites
  StatusOf <- MCStatusOf
  Activated = TRUE
  MaxLine = 3
  ReadSize = 2
  MaxOut = 3
  SockRoom = 1
  MaxWrites = 2
  MaxVersion = 2
  MaxConnects = 1
  MaxRestarts = 1
INVARIANTS
  TypeOK
  LinesWhole
  AnswersInOrder
  QueuesBounded
  UpToDate
PROPERTIES
  ImplementsFeed
  Served
CHECK_DEADLOCK FALSE
