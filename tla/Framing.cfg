\* Every stream of up to nine bytes into a buffer of four.
SPECIFICATION Spec
CONSTANTS
  Limit = 4
  MaxStream = 9
  Streams <- AllStreams
INVARIANTS
  FramingTypeOK
  ReadAsksForBytes
  NothingLeftBehind
  FramesWhole
  FramesExact
