CONSTANTS
  Value <- MCValue
  Default = "default"
  RING_LENGTH = 3
  QUEUE_SIZE = 2
  INDEX_SIZE = 10
SPECIFICATION FairSpec
INVARIANTS
  UnseenEventsSignalled
PROPERTIES
  ImplementsFifo
  EventsArrive
