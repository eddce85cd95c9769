\* A call of a function that returns a number.
SPECIFICATION Spec
CONSTANTS
  Fns <- MCFns
  Entry = "main"
  Params <- MCParams
  Source <- LiteralReturn
  Reserved <- MCReserved
  Headers <- InliningHeaders
  Conds <- InliningConds
  AllowEmptyBody = FALSE
  MaxStarts <- InliningStarts
  KeyFirst = FALSE
  MaxDepth = 1
INVARIANT NoUncaughtException
