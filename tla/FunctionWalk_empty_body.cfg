\* A loop whose body takes no position.
SPECIFICATION Spec
CONSTANTS
  Headers <- GoodHeaders
  Conds <- NestConds
  Blocks <- SomeBlocks
  AllowEmptyBody = TRUE
  Starts = {0, 1, 2, 3}
  MaxDepth = 2
INVARIANT EmittedInOrder
