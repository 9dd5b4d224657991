\* Streams of up to two records whose adapters may change the wire format.
CONSTANTS
  Base = 4
  UsizeMax = 31
  LenWidth = 1
  PreallocLimit = 2
  ValidUtf8 <- MCValidUtf8
  Containers <- MCAdapted
  Samples <- MCSamples
  MaxRecords = 2
  Roots <- MCRoots
  Inputs <- MCInputs
SPECIFICATION StreamSpec
INVARIANTS PrefixCorrect RootSizeExact SerializedSizeTight
CHECK_DEADLOCK FALSE
