SPECIFICATION Spec
CONSTANTS
  Names = {"A", "B", "i"}
  Iterators = {"i"}
  MaxArrayDim = 2
  MaxNodes = 8
INVARIANTS
  AccessesAreOfTheTree
  StringifyNeverFails
  DimensionLimit
  CalledArraysAreInvariant
