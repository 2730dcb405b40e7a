SPECIFICATION FairSpec
CONSTANTS
  s1 = s1
  s2 = s2
  Streams = {s1, s2}
  Body <- BodyOf
  BlockSize = 2
  SpecWindow = 1
  FirstFrameSize = 2
  Windows = {0, 2}
  FrameSizes = {1}
  Increments = {1}
  MaxCredit = 2
  MaxIn = 1
  MaxRare = 1
INVARIANTS
    PeerAccepts
    WholeBody
PROPERTIES
    PumpsEnd
CHECK_DEADLOCK FALSE
