SPECIFICATION LeavingSpec
CONSTANTS
  ClientKinds = {"initialize", "request", "shutdown", "exit", "bad"}
  MaxMsgs = 2
  InputSize = 2
  OutputSize = 1
  Burst = 1
  WatchPid = TRUE
  MayAbort = FALSE
PROPERTIES DisconnectEndsServing ServerEnds
