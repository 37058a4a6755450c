CONSTANTS
  ENTRIES = 2
  LEVELS = 3
  PHYS_END = 8
  MAX_LIVE = 2
  None = None
SPECIFICATION TableSpec
INVARIANTS
  TablesExact
PROPERTY ImplementsPageMap
