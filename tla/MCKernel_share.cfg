SPECIFICATION Spec
CONSTANTS
  NPROCS = 3
  RUNCOUNT = 1
  PRINTCHAR <- MCPrintChar
  LockApps <- AllApps
  LockInit = 0
  PRIORITY <- MCPriority
  SHARE <- MCShare
  TICKETS <- MCTickets
  Settings <- Share
INVARIANTS ShareRespected
