SPECIFICATION Spec
CONSTANTS
  h1 = h1
  h2 = h2
  h3 = h3
  Hives <- MCHives
  NoFile = NoFile
  MaxRemovals = 1
INVARIANTS SaidMeansListening
CHECK_DEADLOCK FALSE
