SPECIFICATION FairSpec
CONSTANTS
  NPROCS = 4
  RUNCOUNT = 2
  PRINTCHAR <- MCPrintChar
  LockApps <- AllApps
  LockInit = 0
INVARIANTS TypeOK MutualExclusion NoStaleCursor CursorBound IInv
PROPERTIES ImplementsPrintLog ImplementsFairPrintLog
