\* The loop with three requests and one request of the server.
CONSTANTS
  r1 = r1
  r2 = r2
  r3 = r3
  noid = noid
  Requests = {r1, r2, r3}
  NoId = noid
  MaxAsked = 1
  MaxInbox = 2
SPECIFICATION LSpec
INVARIANTS LTypeOK
PROPERTIES SessionSpec RequestsAnswered CommandsAreContained
CHECK_DEADLOCK FALSE
