SPECIFICATION Spec
CONSTANTS
  MaxFilter = 3
  Scripts <- MCScripts
  Messages <- MCMessages
  PacketIds = {513}
  Options <- MCOptions
  ServerMaximumQoS = 1
  MaxPacketSize = 300
  MaxDeliveries = 1
INVARIANTS   FramesFit
CHECK_DEADLOCK FALSE
