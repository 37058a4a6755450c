CONSTANTS
  PACKETS = 3
  INDEX_END = 16
  None = None
SPECIFICATION NetSpec
CHECK_DEADLOCK FALSE
INVARIANTS
  ReceivedInOrder
  SentIntact
PROPERTY DnsReturns
