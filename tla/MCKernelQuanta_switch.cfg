SPECIFICATION QuantaSpec
CONSTANTS
  NPROCS = 4
  RUNCOUNT = 1
  PRINTCHAR <- MCPrintChar
  LockApps <- AllButLast
  LockInit = 0
  PRIORITY <- MCPriority
  SHARE <- MCShare
  TICKETS <- MCTickets
  Settings <- ClockOn
INVARIANTS TypeOK CurrentOwnsCPU SearchesOnlyWhenDone BoundedWait
PROPERTIES ImplementsThreads
