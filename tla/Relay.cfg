SPECIFICATION Spec
CONSTANTS
  Posts = {u1}
  Replies = {b1}
  Resyncs = {}
  Convs = {c1}
  Sockets = {s1}
  NoConv = NoConv
  NoSocket = NoSocket
  Managers = {"redis", "memory"}
  MaxCount = 1
  Watermarks <- NoWatermarks
  Names = {"a", "b"}
  Forms <- MCForms
INVARIANTS TypeOK AttachmentsBeforeBot FailedIsUnseen EchoMeansTaken
PROPERTIES KeepsExchange
CHECK_DEADLOCK FALSE
