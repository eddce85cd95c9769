\* Two files with functions of one name.
SPECIFICATION Spec
CONSTANTS
  Functions <- MCFunctions
  EntryPoint = "main"
  Stmts = {"s", "t"}
  Return = "return"
  Files <- MCFiles
  MaxFiles = 2
  Meaning <- MCMeaning
INVARIANT CalleesAreTheirs
