SPECIFICATION FairSpec
CONSTANTS
  Payloads <- MCPayloads
  LEN_BUF = 5
  DATA_BUF = 2
  LineBound = 0
  Values = {1, 2}
  Bad = Bad
INVARIANTS HandshakeInStep FramesInStep
PROPERTIES DatagramsAlternate KeepsSending
CHECK_DEADLOCK FALSE
