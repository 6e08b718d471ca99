SPECIFICATION Spec
CONSTANTS
  NPROCS = 3
  SECTORSIZE = 4
  PAGESIZE = 8
  BUFSIZE = 8
  NSECTORS = 8
  MEMSIZE = 56
  ELFHDR = 24
  Codes <- MCCodes
  Kernels <- MCKernels
  MoreArgs <- MCMoreArgs
  Programs <- Unaligned
INVARIANTS AppsLoaded
