CONSTANTS
  Process = {p1, p2}
  Frame = {f1, f2, f3, f4}
  HEAP_PAGES = 3
  File = {file}
  FILE_PAGES = 2
  None = None
SPECIFICATION Spec
SYMMETRY Symmetry
CHECK_DEADLOCK FALSE
INVARIANTS
  MemoryIsolated
  PagesInPlace
  TranslationsAgree
