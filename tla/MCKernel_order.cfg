SPECIFICATION Spec
CONSTANTS
  NPROCS = 5
  RUNCOUNT = 4
  PRINTCHAR <- MCPrintChar
  LockApps <- AllApps
  LockInit = 0
  PRIORITY <- MCPriority
  SHARE <- MCShare
  TICKETS <- MCTickets
  Settings <- Ordered
INVARIANTS PrintsByPriority PrintsInOrder
PROPERTIES TurnaroundTimes ImplementsPrintLog
