SPECIFICATION Spec
CONSTANTS
  UriSize = 12
  ElementSize = 8
  KeySize = 2
  MaxPayloadLength = 2
  MaskSize = 2
  Requests <- MCRequests
  Frames <- MCFrames
  Mask <- MCMask
  PingPayload <- MCPingPayload
  IdleTicks = 2
  PongTicks = 1
  Room = {0, 1, 9}
  MaxFragments = 2
  MaxChunk = 1
  MaxFrames = 3
  MaxWire = 4
INVARIANTS
  TypeOK
  SplitsDontMatter
  OnlyHandshakesUpgrade
  HandshakesUpgrade
  DeliveredAsSent
  AnsweredPingsKeep
PROPERTIES
  EventuallyClosed
CHECK_DEADLOCK FALSE
