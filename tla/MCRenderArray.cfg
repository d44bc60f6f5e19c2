SPECIFICATION Spec
CONSTANTS
  a1 = a1
  a2 = a2
  a3 = a3
  p1 = p1
  p2 = p2
  long = long
  short = short
  Arrays = {a1, a2, a3}
  Procs = {p1, p2}
  Owner <- TwoByOne
  Renderers = {a2}
  Names = {long, short}
  Cut <- FirstByte
  Stdin = {p2}
  Size = 256
  NoObject = NoObject
  NoName = NoName
INVARIANT TypeOK
INVARIANT MappedIsSized
INVARIANT DescriptorsAreHeld
INVARIANT CutOffOnlyByAnother
INVARIANT NothingLeftBehind
CHECK_DEADLOCK FALSE
