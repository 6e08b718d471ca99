SPECIFICATION FairSpec
CONSTANTS
  NPROCS = 4
  RUNCOUNT = 2
  PRINTCHAR <- MCPrintChar
  LockApps <- NoApps
  LockInit = 7
INVARIANTS CursorBound
PROPERTIES ImplementsFairPrintLog
