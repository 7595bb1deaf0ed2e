SPECIFICATION Spec
CONSTANTS
  Callers = {p1, p2}
  Convs = {c1}
  Watermarks <- MCWatermarks
  MaxCount = 5
  NoConv = NoConv
PROPERTIES AtomicIncr
CHECK_DEADLOCK FALSE
