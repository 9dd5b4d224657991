\* Length prefixes wider than usize, as on a 32-bit target.
CONSTANTS
  Base = 4
  UsizeMax = 15
  LenWidth = 4
  PreallocLimit = 2
  ValidUtf8 <- MCValidUtf8
  MaxLen = 0
  Selected = TRUE
  Roots <- MCRoots
  Inputs <- MCWideInputs
SPECIFICATION Spec
INVARIANTS Reencodes RejectsOnlyMalformed
CHECK_DEADLOCK FALSE
