SPECIFICATION InboundSpec
CONSTANTS
  Ids = {i1, i2, i3}
  MaxSeq = 4
  MaxFrames = 1
  MaxGap = 2
  Initiator = FALSE
  MaxStreams = 2
  MaxIds = 2
  MaxStreamBytes = 2
  MaxBytes = 2
SYMMETRY Symmetry
INVARIANTS RetainedExactly TimersMatch
PROPERTIES ClosedForGood
CHECK_DEADLOCK FALSE
