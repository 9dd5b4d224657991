\* Every call for up to five elements; the limit allows four.
CONSTANTS
  Base = 4
  UsizeMax = 15
  LenWidth = 1
  PreallocLimit = 8
  ValidUtf8 <- MCValidUtf8
  Lens <- MCLens
  Avails <- MCAvails
  Widths <- MCWidths
  SizeOfB = 2
SPECIFICATION Spec
INVARIANTS TypeOK Initialised InCapacity OnceEach Full TrustedReads
CHECK_DEADLOCK FALSE
