SPECIFICATION Spec
CONSTANTS
  c1 = c1
  c2 = c2
  Conns = {c1}
  U32 = 8
  Deflated <- MCDeflated
  PipeCap = 2
  Flaky = {}
  Tls = FALSE
  Batches <- SmallBatches
  MaxSends = 1
  ClientMax = 2
  Boundary = 2
  Compressing = {}
  WriteTimeouts = {}
  AckTimeouts = {}
  Cancelling = {}
  Reusing = {}
  ServerMax = 1
  ChannelCap = 1
  Keepalive = TRUE
  AcceptErrors = FALSE
INVARIANTS
  OkMeansReceived
