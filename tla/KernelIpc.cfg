CONSTANTS
  PROCESS_COUNT = 4
  CAPABILITIES_PER_PAGE = 2
  BootHandlers <- IpcHandlers
  BootGrantees <- IpcGrantees
  SpawnArgs <- IpcSpawnArgs
  Forwards <- IpcForwards
SPECIFICATION Spec
INVARIANTS
  TypeOK
  ExactlyOneRequest
  ReplyFindsCaller
  RequestsDispatchable
PROPERTIES
  PidsNeverReused
  ImplementsRpc
