CONSTANTS
  PROCESS_COUNT = 4
  CAPABILITIES_PER_PAGE = 2
  BootHandlers <- MCHandlers
  BootGrantees <- MCGrantees
  SpawnArgs <- MCSpawnArgs
  Forwards <- MCForwards
SPECIFICATION ServedSpec
INVARIANT ValidationEnds
PROPERTIES
  AuthorityPersists
  NoSelfAuthority
  ReadyProcessesRun
  CallsEnd
