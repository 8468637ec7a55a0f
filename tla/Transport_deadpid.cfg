SPECIFICATION FairSpec
CONSTANTS
  ClientKinds = {"initialize"}
  MaxMsgs = 1
  InputSize = 1
  OutputSize = 1
  Burst = 1
  WatchPid = TRUE
  MayAbort = FALSE
PROPERTY DeadPidEndsServing
