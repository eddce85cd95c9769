\* Schedules and scopes of functions whose loops all have a body.
SPECIFICATION Spec
CONSTANTS
  Headers <- AllHeaders
  Conds <- AllConds
  Blocks <- AllBlocks
  AllowEmptyBody = FALSE
  Starts = {0, 1, 2, 3, 4, 5}
  MaxDepth = 3
INVARIANTS TypeOK EmittedInOrder ScheduleShape BalancedScopes
PROPERTY ExitForRestores
