SPECIFICATION Spec
CONSTANTS
  Convs = {c1, c2}
  Sockets = {s1, s2, s3}
  Senders = {p1, p2}
  NoConv = NoConv
  NoSocket = NoSocket
INVARIANTS TypeOK MapTracksNewest OwnStream OncePerTranscript
PROPERTIES OldSocketSilent SendEnds ConnectedInTimeIsServed
CHECK_DEADLOCK FALSE
