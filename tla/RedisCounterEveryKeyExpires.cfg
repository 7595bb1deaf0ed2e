SPECIFICATION Spec
CONSTANTS
  Callers = {p1}
  Convs = {c1}
  Watermarks <- MCWatermarks
  MaxCount = 3
  NoConv = NoConv
INVARIANTS EveryKeyExpires
CHECK_DEADLOCK FALSE
