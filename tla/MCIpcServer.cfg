SPECIFICATION Spec
CONSTANTS
  a = a
  b = b
  d = d
  empty = empty
  garbage = garbage
  c1 = c1
  c2 = c2
  Bodies <- MCBodies
  EmptyBody = empty
  Garbage = garbage
  MemoryKinds <- MCMemoryKinds
  Conns <- MCTwoConns
  PeerDocuments <- MCDocuments
  Segments <- MCSegments
  ReadMax = 2
  Backlog = 1
  SockRoom = 1
  SigPipe = "default"
  MaxMsgs = 2
  MaxStray = 1
INVARIANTS InOrderDispatch OnlyUndisciplinedPeersEndIt
SYMMETRY MCSymmetry
CHECK_DEADLOCK FALSE
