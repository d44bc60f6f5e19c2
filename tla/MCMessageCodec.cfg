SPECIFICATION Spec
CONSTANTS
  a = a
  b = b
  empty = empty
  garbage = garbage
  Bodies <- MCBodies
  EmptyBody = empty
  Garbage = garbage
  MemoryKinds <- MCMemoryKinds
INVARIANTS RoundTrip NeverAnotherBody TimestampRead
CHECK_DEADLOCK FALSE
