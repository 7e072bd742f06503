SPECIFICATION Spec

CONSTANTS
  Radix = 4
  FixInt = 1
  FixNeg = 2
  FixStr = 1
  FixTable = 1
  MaxNesting = 2
  DefaultSize = 4
  NumberRoom = 3
  MaxChanges = 2
  MessageArgs <- MCMessageArgs
  JsonValues <- MCJsonValues
  JsonTexts <- MCJsonTexts
  Options <- MCOptions
  Formats <- MCFormats
  CountWord = 1024
  Messages <- MCMessages
  DigestArgs <- MCDigestArgs
  Base = 16
  A <- MCA
  C = 11
  X <- MCX
  Seeds <- MCSeeds
  RandomArgs <- MCRandomArgs
  MaxDraws = 5

INVARIANTS
  PackRoundTrips
  JsonRoundTrips
  BuffersFit
  JsonBuffersFreed
  StructRoundTrips
  DigestPadded
  RandomSequence

CHECK_DEADLOCK FALSE
