SPECIFICATION Spec
CONSTANTS
  Functions <- MCFunctions
  EntryPoint = "main"
  Stmts = {"s", "t"}
  Return = "return"
  Files <- MCFiles
  MaxFiles = 2
  Meaning <- MCMeaning
INVARIANTS
  
  RefusedForACause
