CONSTANTS
  RING = 6
  LINE_BUF = 2
  FILE_BUF = 3
  LEFTPAD = 1
  FONT_WIDTH = 2
  FONT_HEIGHT = 2
  WINDOW_WIDTH = 8
  WINDOW_HEIGHT = 5
  MAX_KEYS = 4
SPECIFICATION Spec
CHECK_DEADLOCK FALSE
INVARIANTS
  KeysInOrder
  InBounds
PROPERTY KeysRead
