\* The builder implements FunctionWalk, with all that calls can do.
SPECIFICATION Spec
CONSTANTS
  Fns <- MCFns
  Entry = "main"
  Params <- MCParams
  Source <- InliningSource
  Reserved <- MCReserved
  Headers <- InliningHeaders
  Conds <- InliningConds
  AllowEmptyBody = FALSE
  MaxStarts <- RefinementStarts
  KeyFirst = TRUE
  MaxDepth = 1
  Blocks <- MCBlocks
INVARIANTS
  TypeOK
  CalleesAreBlocks
  InlinedReadsFollowWrites
  
  NoUncaughtException
PROPERTIES ImplementsWalk
