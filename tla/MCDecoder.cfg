\* Every input of up to three bytes and some longer ones, one-byte lengths.
CONSTANTS
  Base = 4
  UsizeMax = 15
  LenWidth = 1
  PreallocLimit = 2
  ValidUtf8 <- MCValidUtf8
  MaxLen = 3
  Selected = TRUE
  Roots <- MCRoots
  Inputs <- MCInputs
SPECIFICATION FairSpec
INVARIANTS
  TypeOK Contiguous Reencodes RejectsOnlyMalformed TruncationRejected
  BorrowTransparent OwnedBounded LazyPayload StaticWidth
PROPERTIES TagStep FieldsEnd
CHECK_DEADLOCK FALSE
