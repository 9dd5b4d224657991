\* Ty::size of an array whose width overflows usize.
CONSTANTS
  Base = 4
  UsizeMax = 15
  LenWidth = 1
  PreallocLimit = 2
  ValidUtf8 <- MCValidUtf8
  MaxLen = 1
  Selected = FALSE
  Roots <- MCRoots
  Inputs <- MCInputs
SPECIFICATION Spec
INVARIANT SizeIsComplete
CHECK_DEADLOCK FALSE
