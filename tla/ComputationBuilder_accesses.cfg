\* Every kind of statement, and what is refused.
SPECIFICATION Spec
CONSTANTS
  Fns <- MCFns
  Entry = "main"
  Params <- AccessParams
  Source <- AccessSource
  Reserved <- MCReserved
  Headers <- AccessHeaders
  Conds <- AccessConds
  AllowEmptyBody = FALSE
  MaxStarts <- AccessStarts
  KeyFirst = TRUE
  MaxDepth = 2
PROPERTY AssignmentsKeepLoops
