CONSTANTS
  Machines <- OneDevice
  INDEX_END = 10
  CAPACITY = 4
  PAGE_SECTORS = 2
  RegionStart = {0, 1}
  MAX_REGIONS = 1
  Value = {v, w}
  None = None
SPECIFICATION Spec
CHECK_DEADLOCK FALSE
INVARIANTS
  BuffersLive
  DriveExact
  DisplayExact
PROPERTY CallsReturn
