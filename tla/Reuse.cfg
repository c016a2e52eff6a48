SPECIFICATION Spec
CONSTANTS
  c1 = c1
  c2 = c2
  Conns = {c1}
  U32 = 8
  Deflated <- MCDeflated
  PipeCap = 2
  Flaky = {c1}
  Tls = FALSE
  Batches <- PlainBatches
  MaxSends = 2
  ClientMax = 2
  Boundary = 2
  Compressing = {}
  WriteTimeouts = {c1}
  AckTimeouts = {c1}
  Cancelling = {c1}
  Reusing = {c1}
  ServerMax = 1
  ChannelCap = 1
  Keepalive = TRUE
  AcceptErrors = TRUE
INVARIANTS
  DeliveredInOrderOnce
  OneOutstanding
  NoLostAck
