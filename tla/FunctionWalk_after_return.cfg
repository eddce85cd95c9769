\* A call after the return.
SPECIFICATION Spec
CONSTANTS
  Headers <- GoodHeaders
  Conds <- NestConds
  Blocks <- SomeBlocks
  AllowEmptyBody = FALSE
  Starts = {0, 1, 2}
  MaxDepth = 1
PROPERTY NothingAfterReturn
