\* Up to two iterators over every vector, and into_dyn_vec of up to two elements.
CONSTANTS
  Base = 4
  UsizeMax = 15
  LenWidth = 1
  PreallocLimit = 4
  ValidUtf8 <- MCValidUtf8
  Types <- MCTypes
  Inputs <- MCInputs
  AsTypes <- MCAsTypes
  PrimitiveValueSize = 2
  MaxIters = 2
SPECIFICATION Spec
INVARIANTS TypeOK InBounds EmptyMeansNone ElementWise DynBounded
PROPERTY IsVector
CHECK_DEADLOCK FALSE
