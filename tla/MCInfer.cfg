\* Field types of up to three levels and thirteen adapters for each.
CONSTANTS
  Names = {"A", "B", "Vec", "Map", "Few", "Bytes", "Box", "Len", "Array", "Slice", "Tuple", "Const", "Pod", "Infer"}
  Depth = 4
  FieldTypes <- MCFieldTypes
  Adapters <- MCAdapters
SPECIFICATION Spec
INVARIANTS RoundTrip AllReplaced
CHECK_DEADLOCK FALSE
