SPECIFICATION FairSpec
CONSTANTS
  NPROCS = 3
  Lines <- MCLines
  Calls <- MCCalls
  Exceptions <- MCExceptions
INVARIANTS TypeOK TrapNumber SegmentsFit ControllerReady
PROPERTIES KernelEntered ImplementsContexts ClockReturns
