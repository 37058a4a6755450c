CONSTANTS
  DISK_SECTOR_SIZE = 2
  PAGE_SECTORS = 2
  FAT12_END = 19
  FAT16_END = 28
  SECTORS_16_END = 20
  MAIN_LEN = 2
  EXT_LEN = 1
  MAX_LONG_ENTRIES = 3
  MAX_LONG_ENTRY_LENGTH = 2
  MAX_LONG_RESULT_LENGTH = 5
  REPLY = 4
  CERTIFICATES = 2
  HEAP = 20
  Volumes <- SomeVolumes
  Paths <- SomePaths
SPECIFICATION FatSpec
CHECK_DEADLOCK FALSE
INVARIANTS
  ReadsExact
  
  Confined
PROPERTY RequestsEnd
