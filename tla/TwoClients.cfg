SPECIFICATION TimedSpec
CONSTANTS
  c1 = c1
  c2 = c2
  Conns = {c1, c2}
  U32 = 8
  Deflated <- MCDeflated
  PipeCap = 2
  Flaky = {}
  Tls = FALSE
  Batches <- PairBatch
  MaxSends = 1
  ClientMax = 2
  Boundary = 2
  Compressing = {c1}
  WriteTimeouts = {}
  AckTimeouts = {c1, c2}
  Cancelling = {c1}
  Reusing = {}
  ServerMax = 50
  ChannelCap = 1
  Keepalive = TRUE
  AcceptErrors = FALSE
  AckLen = 4
  Interval = 2
INVARIANTS
  NoLostAck
  GaugeExact
PROPERTIES
  ImplementsDelivery
  KeepaliveProtects
