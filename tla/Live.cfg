SPECIFICATION FairSpec
CONSTANTS
  c1 = c1
  c2 = c2
  Conns = {c1, c2}
  U32 = 8
  Deflated <- MCDeflated
  PipeCap = 1
  Flaky = {}
  Tls = FALSE
  Batches <- SingleBatch
  MaxSends = 1
  ClientMax = 2
  Boundary = 1
  Compressing = {c1, c2}
  WriteTimeouts = {}
  AckTimeouts = {}
  Cancelling = {}
  Reusing = {}
  ServerMax = 50
  ChannelCap = 1
  Keepalive = TRUE
  AcceptErrors = FALSE
PROPERTIES
  SendTerminates
  ConnectionReclaimed
  ListenerStops
