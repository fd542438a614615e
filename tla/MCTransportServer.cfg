SPECIFICATION Spec
CONSTANTS
  Ids = {i1, i2}
  MaxSeq = 2
  MaxFrames = 1
  MaxGap = 1
  Initiator = TRUE
  MaxStreams = 1
  MaxIds = 2
  MaxStreamBytes = 1
  MaxBytes = 1
SYMMETRY Symmetry
PROPERTIES ClosedForGood
CHECK_DEADLOCK FALSE
