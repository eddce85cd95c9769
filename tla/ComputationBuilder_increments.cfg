\* A statement that increments the bound of its loop.
SPECIFICATION Spec
CONSTANTS
  Fns <- MCFns
  Entry = "main"
  Params <- MCParams
  Source <- Increments
  Reserved <- MCReserved
  Headers <- InliningHeaders
  Conds <- InliningConds
  AllowEmptyBody = FALSE
  MaxStarts <- InliningStarts
  KeyFirst = FALSE
  MaxDepth = 1
PROPERTY LoopsStayInvariant
