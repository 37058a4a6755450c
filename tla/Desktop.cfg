CONSTANTS
  CLIENTS = 2
  Sizes <- OneSize
  MouseEvents <- SomeMoves
  WIDTH = 2
  HEIGHT = 1
  ABS_MAX = 2
  EVENT_RING = 2
  SLOTS = 20
  MAX_INPUT = 5
  MAX_PENDING = 1
  None = None
SPECIFICATION Spec
CHECK_DEADLOCK FALSE
INVARIANTS
  CallsHandled
  DrawsInBounds
PROPERTY ClosedWindowsQuiet CallsAnswered
