SPECIFICATION TimedSpec
CONSTANTS
  c1 = c1
  Conns = {c1}
  U32 = 8
  Deflated <- MCDeflated
  PipeCap = 1
  Flaky = {}
  Tls = FALSE
  Batches <- MCBatches
  MaxSends = 2
  ClientMax = 2
  Boundary = 2
  Compressing = {}
  WriteTimeouts = {c1}
  AckTimeouts = {c1}
  Cancelling = {c1}
  Reusing = {}
  Answers <- MCAnswers
  MaxAnswers = 3
  WriteLen = 2
  AckLen = 2
INVARIANTS
  OkAtFirstCoveringAck
  WritesBatches
  WritePhaseBounded
PROPERTIES
  TimeoutsBoundSend
