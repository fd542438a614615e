SPECIFICATION FairSpec
CONSTANTS
  Ids = {i1}
  MaxSeq = 5
  MaxFrames = 2
  MaxGap = 2
  Initiator = FALSE
  MaxStreams = 1
  MaxIds = 1
  MaxStreamBytes = 3
  MaxBytes = 3
INVARIANTS TypeOK NothingSkipped NoStrandedFrame
PROPERTIES OrderedDeliverySpec HeldFramesResolve
CHECK_DEADLOCK FALSE
