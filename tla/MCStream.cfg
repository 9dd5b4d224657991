\* Streams of up to three records of each container, one-byte lengths.
CONSTANTS
  Base = 4
  UsizeMax = 31
  LenWidth = 1
  PreallocLimit = 2
  ValidUtf8 <- MCValidUtf8
  Containers <- MCContainers
  Samples <- MCSamples
  MaxRecords = 3
  Roots <- MCRoots
  Inputs <- MCInputs
SPECIFICATION StreamSpec
INVARIANTS StreamTypeOK AtRecord SizesExact SerializedSizeTight
PROPERTY Delivery
CHECK_DEADLOCK FALSE
