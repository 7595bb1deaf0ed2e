SPECIFICATION Spec
CONSTANTS
  Callers = {p1, p2}
  Convs = {c1}
  Watermarks <- MCWatermarks
  MaxCount = 3
  NoConv = NoConv
INVARIANTS TypeOK
PROPERTIES NoReissue ImplementsAtomicCounter
CHECK_DEADLOCK FALSE
