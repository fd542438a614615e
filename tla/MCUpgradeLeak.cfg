SPECIFICATION Spec
CONSTANTS
  Streams <- MCStreams
  BrowserScript <- MCBrowser
  TargetScript <- MCTarget
  MaxWebSockets = 1
INVARIANT NoIdLeaks
CHECK_DEADLOCK FALSE
