SPECIFICATION Spec
CONSTANTS
  Streams <- MCStreams
  BrowserScript <- MCBrowser
  TargetScript <- MCTarget
  MaxWebSockets = 1
INVARIANTS TypeOK FramesIntact NothingLost PumpRuns SlotsMatch
PROPERTIES WebSocketsEnd ClientHalvesEnd
CHECK_DEADLOCK FALSE
