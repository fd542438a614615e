SPECIFICATION Spec
CONSTANTS
  r1 = r1
  r2 = r2
  Streams <- MCStreams
  MaxChunks <- MCChunks
  MaxStreams = 1
  MaxSessions = 2
INVARIANTS TypeOK ResponseIntegrity UploadIntegrity SlotsMatch
PROPERTIES OneAnswer RequestsEnd TargetWorkEnds
CHECK_DEADLOCK FALSE
