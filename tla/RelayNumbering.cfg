SPECIFICATION Spec
CONSTANTS
  Posts = {u1}
  Replies = {b1}
  Resyncs = {g1}
  Convs = {c1}
  Sockets = {}
  NoConv = NoConv
  NoSocket = NoSocket
  Managers = {"redis", "memory"}
  MaxCount = 3
  Watermarks <- MCWatermarks
  Names = {"a", "b"}
  Forms <- NoFiles
SYMMETRY Symmetry
INVARIANTS IdsRepeatOnlyAfterRewind WatermarkCoversOwnId
CHECK_DEADLOCK FALSE
