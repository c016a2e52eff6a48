SPECIFICATION FairSpec
CONSTANTS
  c1 = c1
  c2 = c2
  Conns = {c1}
  U32 = 8
  Deflated <- MCDeflated
  PipeCap = 2
  Flaky = {c1}
  Tls = TRUE
  Batches <- PackedBatches
  MaxSends = 2
  ClientMax = 2
  Boundary = 2
  Compressing = {c1}
  WriteTimeouts = {c1}
  AckTimeouts = {c1}
  Cancelling = {c1}
  Reusing = {}
  ServerMax = 23
  ChannelCap = 1
  Keepalive = TRUE
  AcceptErrors = TRUE
INVARIANTS
  AckedIsDelivered
  HandlerEndsAsExpected
PROPERTIES
  SendTerminates
  ConnectionReclaimed
