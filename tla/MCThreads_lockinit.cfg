SPECIFICATION FairSpec
CONSTANTS
  NPROCS = 3
  RUNCOUNT = 1
  PRINTCHAR <- MCPrintChar
  LockApps <- AllApps
  LockInit = 1
PROPERTIES PrintsAppear
