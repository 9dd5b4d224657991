\* Up to three records, cut after any byte, with their schema or without it.
CONSTANTS
  Base = 4
  UsizeMax = 31
  LenWidth = 1
  PreallocLimit = 2
  ValidUtf8 <- MCValidUtf8
  Containers <- MCSent
  Samples <- MCSamples
  MaxRecords = 3
  Roots <- MCRoots
  Inputs <- MCInputs
SPECIFICATION SessionSpec
INVARIANTS FailsOnlyOnMissing
PROPERTIES PrefixDelivered SessionEnds
CHECK_DEADLOCK FALSE
