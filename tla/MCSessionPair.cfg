SPECIFICATION Spec
CONSTANTS
  Ids = {i1}
  MaxSeq = 3
  MaxFrames = 1
  MaxGap = 1
  ClientMaxStreams = 1
  ServerMaxStreams = 1
  MaxIds = 1
  MaxStreamBytes = 2
  MaxBytes = 2
INVARIANTS EndToEnd NoEarlySuccess BlamedOnlyInRace
CHECK_DEADLOCK FALSE
