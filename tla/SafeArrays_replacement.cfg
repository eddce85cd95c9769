\* A component that contains the text of an earlier one (arrays of one dimension).
SPECIFICATION Spec
CONSTANTS
  Names = {"A"}
  Iterators = {}
  MaxArrayDim = 1
  MaxNodes = 10
INVARIANT ComponentsAreCalls
