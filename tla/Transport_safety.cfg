SPECIFICATION Spec
CONSTANTS
  ClientKinds = {"initialize", "request", "shutdown", "exit", "bad"}
  MaxMsgs = 2
  InputSize = 2
  OutputSize = 1
  Burst = 2
  WatchPid = TRUE
  MayAbort = TRUE
INVARIANTS TypeOK InOrder NothingLost NoSleepOnMessage CloseHasCause RepliesInOrder
