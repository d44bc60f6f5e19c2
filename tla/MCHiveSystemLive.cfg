SPECIFICATION SystemSpec
CONSTANTS
  a = a
  b = b
  empty = empty
  garbage = garbage
  c1 = c1
  c2 = c2
  c3 = c3
  Bodies <- MCBodies
  EmptyBody = empty
  Garbage = garbage
  MemoryKinds <- MCMemoryKinds
  Conns <- MCTwoConns
  Mixes <- MCPingAndOne
  HelloWorld = a
  Arguments <- MCLongOrNone
  PeerDocuments <- MCDocuments
  Segments <- MCSegments
  ReadMax = 2
  Backlog = 1
  SockRoom = 1
  SigPipe = "ignored"
  MaxMsgs = 1
  MaxStray = 0
PROPERTIES PublishedArrives ImplementsService
CHECK_DEADLOCK FALSE
