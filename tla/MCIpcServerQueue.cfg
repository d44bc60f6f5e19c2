SPECIFICATION Spec
CONSTANTS
  a = a
  b = b
  d = d
  empty = empty
  garbage = garbage
  c1 = c1
  c2 = c2
  Bodies <- MCBodies
  EmptyBody = empty
  Garbage = garbage
  MemoryKinds <- MCMemoryKinds
  Conns <- MCOneConn
  PeerDocuments <- MCQueueDocuments
  Segments <- MCSegments
  ReadMax = 2
  Backlog = 1
  SockRoom = 1
  SigPipe = "ignored"
  MaxMsgs = 4
  MaxStray = 0
INVARIANTS EchoInOrder LeaksOnlyForLeavers
PROPERTIES ClosedIsFinal LeaversAreFreed WritesAreRead
CHECK_DEADLOCK FALSE
