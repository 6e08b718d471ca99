SPECIFICATION FairSpec
CONSTANTS
  NPROCS = 4
  INT_MAX = 3
  Priorities <- MCPriorities
  Shares <- MCShares
  COLS = 3
  ROWS = 3
  WORD = 256
  Words <- MCWords
  Unknown <- MCUnknown
  OtherFormats <- MCOtherFormats
INVARIANTS LoopsPick CursorInConsole PrintedRight FieldRight
PROPERTIES LoopsEnd LoopsSearch
