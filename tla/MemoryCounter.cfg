SPECIFICATION Spec
CONSTANTS
  Callers = {p1, p2, p3}
  Convs = {c1}
  Watermarks <- MCWatermarks
  MaxCount = 3
  NoConv = NoConv
INVARIANTS TypeOK CounterCoversIssued
PROPERTIES AtomicUnlessDisturbed
CHECK_DEADLOCK FALSE
