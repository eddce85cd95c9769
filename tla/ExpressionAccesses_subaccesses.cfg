\* A data space in a subscript.
SPECIFICATION Spec
CONSTANTS
  Names = {"A", "m"}
  Iterators = {}
  MaxArrayDim = 2
  MaxNodes = 5
INVARIANT AllAccessesMade
