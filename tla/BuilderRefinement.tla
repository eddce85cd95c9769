--------------------------- MODULE BuilderRefinement ---------------------------
(***************************************************************************)
(* ComputationBuilder implements FunctionWalk: what FunctionWalk's         *)
(* properties say of a walk holds of the entry function's builder, with    *)
(* the nested builders at work on the context they share with it.          *)
(***************************************************************************)
EXTENDS NonRecursive

CONSTANT Blocks   \* what the callees may contribute, as in FunctionWalk

(* To the entry function's builder the build of a callee is nothing at     *)
(* all, and the inlining of the call a single step that appends a block.   *)
(* Its context is the one set aside while a callee is built.               *)
EntryContext ==
  IF Len(frames) = 1 THEN positionContext ELSE frames[1].oldContext

EntryStage ==
  IF frames[1].stmt.kind \in {"none", "call", "return"}
    THEN frames[1].stmt.kind ELSE "simple"

(* MaxStarts bounds the statements of each function here, whatever calls   *)
(* there are in them, so that the walk needs no bound.                     *)
Walk == INSTANCE FunctionWalk WITH
  Starts <- Nat,
  ctx <- EntryContext,
  open <- frames[1].open,
  stage <- EntryStage,
  haveFoundAReturn <- frames[1].haveFoundAReturn,
  emitted <- Schedules(frames[1].computation),
  started <- frames[1].started,
  status <- IF status \in {"uncaught", "crash"} THEN "exit" ELSE status

(* Every build is a walk: whatever the nested builders do to the shared    *)
(* context and to subComputations, the caller's statements get the         *)
(* schedules, scopes and refusals FunctionWalk gives them                  *)
(* (inlineFunctionCall's oldContext, skipToPosition and advanceSchedule).  *)
ImplementsWalk == Walk!Spec
===============================================================================
