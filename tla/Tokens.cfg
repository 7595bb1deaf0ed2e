SPECIFICATION Spec
CONSTANTS
  Sites = {s1}
  Convs = {v1, v2}
  Requests = {1, 2, 3}
  TTL = 1
  Life = 2
  MaxTime = 2
  NoSite = NoSite
  NoConv = NoConv
  NoEntry = NoEntry
INVARIANTS TypeOK EndsWithSite RefusedIsGone
PROPERTY RequestsEnd
CHECK_DEADLOCK FALSE
