SPECIFICATION Spec
CONSTANTS
  Ids = {i1, i2}
  Handles = {h}
  Endpoints = {e1, e2}
  Admins = {1, 2}
  Calls = {1, 2}
  TTL = 1
  MaxTime = 2
  NoRow = NoRow
  NoId = NoId
  NoHandle = NoHandle
  NoEndpoint = NoEndpoint
INVARIANTS TypeOK
PROPERTIES AbsentWasAbsent SentWhereBotWas CallsEnd
CHECK_DEADLOCK FALSE
