SPECIFICATION Spec
CONSTANTS
  Streams <- MCStreams
  BrowserScript <- MCBrowser
  TargetScript <- MCTarget
  MaxWebSockets = 1
INVARIANT NoOrphanSocket
CHECK_DEADLOCK FALSE
