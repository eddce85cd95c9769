----------------------------- MODULE FunctionWalk -----------------------------
(***************************************************************************)
(* One ComputationBuilder walking the body of one function: the control of *)
(* processBody, processSingleStmt, addStmt and processReturnStmt, and the  *)
(* PositionContext and schedules they produce.                             *)
(*                                                                         *)
(* The function is not fixed: each step takes the next statement of the    *)
(* source, or the end of the innermost body, so the behaviours are the     *)
(* walks of all functions within the bounds.  Two things are abstracted    *)
(* here and detailed in ComputationBuilder.  The expressions of a          *)
(* statement are reduced to the calls in them, and any statement may be    *)
(* one they make the builder refuse (Reject).  A callee that has been      *)
(* built is the block of its statements' schedules.                        *)
(***************************************************************************)
EXTENDS OpenStructures

CONSTANTS
  Blocks,          \* the callees' blocks: sequences of schedules
  AllowEmptyBody,  \* whether a loop body may take no schedule position
  Starts,          \* bound: the numbers of statements and calls after which
                   \* the function may have one more
  MaxDepth         \* bound on its nesting

ASSUME BlocksAssumption == \A b \in Blocks : IsBlock(b)

VARIABLES
  ctx,              \* *positionContext
  open,             \* the structures being walked, outermost first
  stage,            \* the kind of the statement between advanceSchedule and
                    \* its end, "none" outside
  haveFoundAReturn,
  emitted,          \* the schedules of the Computation's statements so far
  started,          \* how many statements and calls have been started
  status            \* "running", "exit" (stopped by an error) or "done"

vars == <<ctx, open, stage, haveFoundAReturn, emitted, started, status>>

Init ==
  /\ ctx = EmptyContext
  /\ open = << >>
  /\ stage = "none"
  /\ haveFoundAReturn = FALSE
  /\ emitted = << >>
  /\ started = 0
  /\ status = "running"

-------------------------------------------------------------------------------
(* Utils::printErrorAndExit. *)
Exit ==
  /\ status' = "exit"
  /\ UNCHANGED <<ctx, open, stage, haveFoundAReturn, emitted, started>>

(* The builder refuses the statement it is at, for its type or for an      *)
(* expression in it.                                                       *)
Reject == status = "running" /\ Exit

(* processSingleStmt takes the next statement of the innermost body. *)
Start ==
  /\ status = "running"
  /\ stage = "none"
  /\ started \in Starts
  /\ started' = started + 1

(* A statement that is neither a for nor an if. *)
BeginStmt(kind) ==
  /\ Start
  /\ ctx' = Advance(ctx)
  /\ stage' = kind
  /\ UNCHANGED <<open, haveFoundAReturn, emitted, status>>

(* The end of inlineFunctionCall: append the callee's block, and go to the *)
(* position after it.  A call that is a statement of its own ends with it. *)
InlineCall(b) ==
  /\ status = "running"
  /\ stage \in {"simple", "call"}
  /\ started \in Starts
  /\ IF HasIterSpaceString(ctx) /\ CanSkip(ctx.schedule)
       THEN /\ emitted' = emitted \o Place(ctx.schedule, b)
            /\ \E last \in TuplePositions(ctx.schedule, b) :
                 ctx' = Advance(SkipTo(ctx, last))
            /\ started' = started + 1
            /\ stage' = IF stage = "call" THEN "none" ELSE stage
            /\ UNCHANGED <<open, haveFoundAReturn, status>>
       ELSE Exit

(* A call of a reserved function takes its position and does nothing more. *)
ReservedCall ==
  /\ status = "running"
  /\ stage = "call"
  /\ stage' = "none"
  /\ UNCHANGED <<ctx, open, haveFoundAReturn, emitted, started, status>>

(* addStmt on a statement that is no return. *)
AddStmt ==
  /\ status = "running"
  /\ stage = "simple"
  /\ IF ~haveFoundAReturn /\ HasIterSpaceString(ctx)
       THEN /\ emitted' = Append(emitted, ctx.schedule)
            /\ stage' = "none"
            /\ UNCHANGED <<ctx, open, haveFoundAReturn, started, status>>
       ELSE Exit

(* addStmt on a return: processReturnStmt. *)
AddReturn ==
  /\ status = "running"
  /\ stage = "return"
  /\ IF ~haveFoundAReturn /\ ctx.nestLevel = 0
       THEN /\ haveFoundAReturn' = TRUE
            /\ stage' = "none"
            /\ UNCHANGED <<ctx, open, emitted, started, status>>
       ELSE Exit

-------------------------------------------------------------------------------
OpenFor(h) ==
  /\ Start
  /\ Len(open) < MaxDepth
  /\ LET at == Advance(ctx) IN
       IF ForError(h) = "none"
         THEN /\ ctx' = EnterFor(at, h)
              /\ open' = Append(open, Scope("for", h, at))
              /\ UNCHANGED <<stage, haveFoundAReturn, emitted, status>>
         ELSE /\ status' = "exit"
              /\ UNCHANGED <<ctx, open, stage, haveFoundAReturn, emitted>>

(* The innermost body has no further statement. *)
EndOfBody(kinds) ==
  /\ status = "running"
  /\ stage = "none"
  /\ open # << >>
  /\ Back(open).kind \in kinds

CloseFor ==
  /\ EndOfBody({"for"})
  /\ AllowEmptyBody \/ ~Back(ctx.schedule).valueIsVar
  /\ ctx' = ExitFor(ctx)
  /\ open' = PopBack(open)
  /\ UNCHANGED <<stage, haveFoundAReturn, emitted, started, status>>

OpenIf(c) ==
  /\ Start
  /\ Len(open) < MaxDepth
  /\ IF IfError(c)
       THEN /\ status' = "exit"
            /\ UNCHANGED <<ctx, open, stage, haveFoundAReturn, emitted>>
       ELSE /\ ctx' = EnterIf(ctx, c)
            /\ open' = Append(open, Scope("then", c, ctx))
            /\ UNCHANGED <<stage, haveFoundAReturn, emitted, status>>

CloseIf ==
  /\ EndOfBody({"then", "else"})
  /\ ctx' = ExitIf(ctx)
  /\ open' = PopBack(open)
  /\ UNCHANGED <<stage, haveFoundAReturn, emitted, started, status>>

(* The then branch ends and there is an else: entered as one more if, with *)
(* the operator of the condition negated.                                  *)
ElseBranch ==
  /\ EndOfBody({"then"})
  /\ LET at == ExitIf(ctx) IN
       \E op \in Negations(Back(open).node.op) :
         LET c == [Back(open).node EXCEPT !.op = op] IN
           IF IfError(c)
             THEN Exit
             ELSE /\ ctx' = EnterIf(at, c)
                  /\ open' = Append(PopBack(open), Scope("else", c, at))
                  /\ UNCHANGED <<stage, haveFoundAReturn, emitted, started,
                                 status>>

(* The end of the function's body. *)
Finish ==
  /\ status = "running"
  /\ stage = "none"
  /\ open = << >>
  /\ status' = "done"
  /\ UNCHANGED <<ctx, open, stage, haveFoundAReturn, emitted, started>>

Terminated == status # "running" /\ UNCHANGED vars

Next ==
  \/ \E kind \in {"simple", "call", "return"} : BeginStmt(kind)
  \/ \E b \in Blocks : InlineCall(b)
  \/ ReservedCall
  \/ AddStmt
  \/ AddReturn
  \/ \E h \in Headers : OpenFor(h)
  \/ CloseFor
  \/ \E c \in Conds : OpenIf(c)
  \/ ElseBranch
  \/ CloseIf
  \/ Reject
  \/ Finish
  \/ Terminated

Spec == Init /\ [][Next]_vars

-------------------------------------------------------------------------------
(***************************************************************************)
(* Properties.                                                             *)
(***************************************************************************)

(* The type invariant of the walk. *)
TypeOK ==
  /\ ctx \in ContextSet(Iterators)
  /\ open \in Seq(Scopes)
  /\ stage \in {"none", "simple", "call", "return"}
  /\ haveFoundAReturn \in BOOLEAN
  /\ emitted \in Seq(Seq(Vals))
  /\ started \in Nat
  /\ status \in {"running", "exit", "done"}

(* The schedule names exactly the iterators of the enclosing loops,        *)
(* outermost first, each behind the position of its loop; between          *)
(* advanceSchedule and the end of a statement it ends in a position, so    *)
(* skipToPosition never meets an iterator.  enterFor and exitFor keep the  *)
(* tuple and the iterators in step by counting pops (exitFor pops two      *)
(* entries without looking at them).                                       *)
ScheduleShape ==
  /\ Shape(ctx.schedule, ctx.iterators)
  /\ stage # "none" => Len(ctx.schedule) = 2 * Len(ctx.iterators) + 1

(* The context's iterators, constraints, invariants and nest level are     *)
(* those the open structures brought, no more and no less, whatever has    *)
(* been entered and left in between.  The code keeps them in five parallel *)
(* lists that every exitFor and exitIf pops by a fixed count.              *)
BalancedScopes == Balanced(ctx, open)

(* Leaving a for restores the context it was entered in, the schedule      *)
(* included: "Remove context information from a for loop"                  *)
(* (PositionContext.hpp).                                                  *)
ExitForRestores ==
  [][ Len(open') < Len(open) /\ Back(open).kind = "for"
        => ctx' = Back(open).at ]_vars

(* The order of the schedules is the order of the statements in the        *)
(* source, with the statements of inlined calls where they were called:    *)
(* any two statements emitted, however far apart, are ordered by their     *)
(* schedules as the walk met them, and none shares its schedule with       *)
(* another.                                                                *)
EmittedInOrder == InScheduleOrder(emitted)

(* A statement the walk gets past after a return has added nothing to the  *)
(* Computation: "Returns are only allowed at the end of functions"         *)
(* (ComputationBuilder.cpp).                                               *)
NothingAfterReturn ==
  [][ haveFoundAReturn /\ stage' = "none" => emitted' = emitted ]_vars
===============================================================================
