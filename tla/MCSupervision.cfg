SPECIFICATION SupervisionSpec
CONSTANTS
  h1 = h1
  h2 = h2
  h3 = h3
  Hives <- MCHives
  NoFile = NoFile
  NoHive = NoHive
  ByHand <- MCByHand
  MaxRemovals = 1
INVARIANTS SupervisionTypeOK OneHivePerPath SuccessMeansNeverServed
PROPERTIES StartedServesOrEnds StrangerDiesOnlyByStaleHandle RunReturnsWithoutChildren RunEndsWithItsHive
CHECK_DEADLOCK FALSE
