SPECIFICATION Spec
CONSTANTS
  RECV_BD_CNT = 2
  SEND_BD_CNT = 2
  TxQueue = 1
  Pieces = 2
  Failures = 1
  Traffic <- MCTraffic
CHECK_DEADLOCK FALSE
PROPERTY WritePacketReturns
