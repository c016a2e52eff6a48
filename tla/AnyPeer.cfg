SPECIFICATION Spec
CONSTANTS
  p1 = p1
  Conns = {p1}
  U32 = 8
  Deflated <- MCDeflated
  PipeCap = 1
  Flaky = {}
  Tls = FALSE
  ServerMax = 25
  ChannelCap = 1
  Keepalive = TRUE
  AcceptErrors = FALSE
  PeerFrames <- MCFrames
  MaxFrames = 4
INVARIANTS
  NoLostAck
  AckCoversWindow
  DeliversTheWire
