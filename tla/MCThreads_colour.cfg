SPECIFICATION FairSpec
CONSTANTS
  NPROCS = 3
  RUNCOUNT = 1
  PRINTCHAR <- MCPrintChar
  LockApps <- NoApps
  LockInit = 0
PROPERTIES PrintsAppear
