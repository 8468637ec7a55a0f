SPECIFICATION ReadingSpec
CONSTANTS
  ClientKinds = {"initialize"}
  MaxMsgs = 5
  InputSize = 1
  OutputSize = 1
  Burst = 1
  WatchPid = FALSE
  MayAbort = FALSE
PROPERTIES ClientNeverStuck RepliesReachClient
