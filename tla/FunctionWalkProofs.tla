-------------------------- MODULE FunctionWalkProofs --------------------------
(***************************************************************************)
(* Theorems about FunctionWalk.  IInv, the conjunction of the type         *)
(* invariant, the shape of the schedule and the balance of the scopes, is  *)
(* inductive: exitFor and exitIf pop blindly, and what they pop is known   *)
(* only from what the open structures pushed.  OrderInv, inductive         *)
(* together with IInv, says where the builder stands relative to each      *)
(* schedule emitted: past it, and strictly past it at a statement.         *)
(***************************************************************************)
EXTENDS FunctionWalk, OpenStructuresProofs, SequenceTheorems

(* The inductive invariant. *)
IInv == TypeOK /\ ScheduleShape /\ BalancedScopes

(* The invariant, with its part about the context by name. *)
LEMMA InvGood == IInv <=> /\ Good(ctx, open)
                          /\ open \in Seq(Scopes)
                          /\ stage \in {"none", "simple", "call", "return"}
                          /\ haveFoundAReturn \in BOOLEAN
                          /\ emitted \in Seq(Seq(Vals))
                          /\ started \in Nat
                          /\ status \in {"running", "exit", "done"}
                          /\ stage # "none" =>
                               Len(ctx.schedule) = 2 * Len(ctx.iterators) + 1
BY DEF IInv, Good, TypeOK, ScheduleShape, BalancedScopes

(* The same of the next state. *)
LEMMA InvGoodAfter ==
  ASSUME Good(ctx', open'), open' \in Seq(Scopes),
         stage' \in {"none", "simple", "call", "return"},
         haveFoundAReturn' \in BOOLEAN, emitted' \in Seq(Seq(Vals)),
         started' \in Nat, status' \in {"running", "exit", "done"},
         stage' # "none" => Len(ctx'.schedule) = 2 * Len(ctx'.iterators) + 1
  PROVE  IInv'
BY DEF IInv, Good, TypeOK, ScheduleShape, BalancedScopes

(* A new builder satisfies the invariant. *)
LEMMA InitInvariant == Init => IInv
<1> SUFFICES ASSUME Init PROVE IInv
  OBVIOUS
<1>1. ctx = EmptyContext /\ open = << >> /\ stage = "none"
  BY DEF Init
<1>2. Good(ctx, open)
  BY <1>1, GoodEmpty
<1>3. /\ open \in Seq(Scopes)
      /\ stage \in {"none", "simple", "call", "return"}
      /\ haveFoundAReturn \in BOOLEAN
      /\ emitted \in Seq(Seq(Vals))
      /\ started \in Nat
      /\ status \in {"running", "exit", "done"}
      /\ ~(stage # "none")
  <2>1. open \in Seq(Scopes) /\ emitted \in Seq(Seq(Vals)) /\ started \in Nat
    BY <1>1 DEF Init
  <2>2. /\ haveFoundAReturn \in BOOLEAN
        /\ stage \in {"none", "simple", "call", "return"}
        /\ status \in {"running", "exit", "done"}
        /\ ~(stage # "none")
    BY <1>1, Zenon DEF Init
  <2> QED BY <2>1, <2>2
<1> QED
  BY <1>2, <1>3 DEF IInv, Good, TypeOK, ScheduleShape, BalancedScopes

(* Every step of the walk preserves the invariant. *)
LEMMA NextInvariant == IInv /\ [Next]_vars => IInv'
<1> SUFFICES ASSUME IInv, [Next]_vars PROVE IInv'
  OBVIOUS
<1> USE DEF Start
<1>1. /\ Good(ctx, open)
      /\ open \in Seq(Scopes)
      /\ stage \in {"none", "simple", "call", "return"}
      /\ haveFoundAReturn \in BOOLEAN
      /\ emitted \in Seq(Seq(Vals))
      /\ started \in Nat
      /\ status \in {"running", "exit", "done"}
      /\ stage # "none" => Len(ctx.schedule) = 2 * Len(ctx.iterators) + 1
  BY InvGood
<1>2. /\ ctx.schedule \in Seq(Vals)
      /\ ctx.iterators \in Seq(Iterators)
  BY <1>1, ContextTypes DEF Good
<1>3. ASSUME Exit PROVE IInv'
  BY <1>1, <1>3, InvGoodAfter DEF Exit
<1>4. ASSUME NEW kind \in {"simple", "call", "return"}, BeginStmt(kind) PROVE IInv'
  <2>1. /\ ctx' = Advance(ctx) /\ stage' = kind /\ started' = started + 1
        /\ UNCHANGED <<open, haveFoundAReturn, emitted, status>>
    BY <1>4 DEF BeginStmt
  <2>2. Good(ctx', open') /\ Len(ctx'.schedule) = 2 * Len(ctx'.iterators) + 1
    BY <1>1, <2>1, GoodAdvance
  <2> QED BY <1>1, <2>1, <2>2, InvGoodAfter
<1>5. ASSUME NEW b \in Blocks, InlineCall(b) PROVE IInv'
  <2>1. CASE Exit
    BY <1>3, <2>1
  <2>2. CASE ~Exit
    <3>1. /\ stage \in {"simple", "call"}
          /\ emitted' = emitted \o Place(ctx.schedule, b)
          /\ \E last \in TuplePositions(ctx.schedule, b) :
               ctx' = Advance(SkipTo(ctx, last))
          /\ started' = started + 1
          /\ stage' = IF stage = "call" THEN "none" ELSE stage
          /\ UNCHANGED <<open, haveFoundAReturn, status>>
          /\ CanSkip(ctx.schedule)
      BY <1>5, <2>2 DEF InlineCall
    <3>2. ctx.schedule # << >> /\ ~Back(ctx.schedule).valueIsVar
      BY <1>1, <1>2, <3>1 DEF CanSkip
    <3>3. Back(ctx.schedule).num \in Nat
      BY <1>2, <3>2, PopBackProperties, ValCases DEF Vals
    <3>4. PICK last \in TuplePositions(ctx.schedule, b) :
            ctx' = Advance(SkipTo(ctx, last))
      BY <3>1
    <3>5. last \in Int /\ last + 1 \in Nat
      BY <3>3, TuplePositionType, BlocksAssumption DEF IsBlock
    <3>6. Good(ctx', open') /\ Len(ctx'.schedule) = 2 * Len(ctx'.iterators) + 1
      BY <1>1, <3>1, <3>4, <3>5, GoodInline
    <3>7. emitted' \in Seq(Seq(Vals))
      <4>1. Place(ctx.schedule, b) \in Seq(Seq(Vals))
        BY <1>2, <3>2, PlaceFacts, BlocksAssumption DEF IsBlock
      <4> QED BY <1>1, <3>1, <4>1, ConcatProperties
    <3> QED BY <1>1, <3>1, <3>6, <3>7, InvGoodAfter
  <2> QED BY <2>1, <2>2
<1>6. ASSUME ReservedCall PROVE IInv'
  BY <1>1, <1>6, InvGoodAfter DEF ReservedCall
<1>7. ASSUME AddStmt PROVE IInv'
  <2>1. CASE Exit
    BY <1>3, <2>1
  <2>2. CASE ~Exit
    <3>1. /\ emitted' = Append(emitted, ctx.schedule)
          /\ stage' = "none"
          /\ UNCHANGED <<ctx, open, haveFoundAReturn, started, status>>
      BY <1>7, <2>2 DEF AddStmt
    <3>2. emitted' \in Seq(Seq(Vals))
      BY <1>1, <1>2, <3>1
    <3> QED BY <1>1, <3>1, <3>2, InvGoodAfter
  <2> QED BY <2>1, <2>2
<1>8. ASSUME AddReturn PROVE IInv'
  <2>1. CASE Exit
    BY <1>3, <2>1
  <2>2. CASE ~Exit
    <3>1. /\ haveFoundAReturn' = TRUE
          /\ stage' = "none"
          /\ UNCHANGED <<ctx, open, emitted, started, status>>
      BY <1>8, <2>2 DEF AddReturn
    <3> QED BY <1>1, <3>1, InvGoodAfter
  <2> QED BY <2>1, <2>2
<1>9. ASSUME NEW h \in Headers, OpenFor(h) PROVE IInv'
  <2>1. CASE ForError(h) = "none"
    <3> DEFINE at == Advance(ctx)
    <3>1. /\ ctx' = EnterFor(at, h)
          /\ open' = Append(open, Scope("for", h, at))
          /\ started' = started + 1 /\ stage = "none"
          /\ UNCHANGED <<stage, haveFoundAReturn, emitted, status>>
      BY <1>9, <2>1 DEF OpenFor
    <3>2. Good(at, open) /\ Len(at.schedule) = 2 * Len(at.iterators) + 1
      BY <1>1, GoodAdvance
    <3>3. /\ Scope("for", h, at) \in Scopes
          /\ Good(ctx', open')
      BY <1>1, <3>1, <3>2, GoodEnterFor
    <3>4. open' \in Seq(Scopes)
      BY <1>1, <3>1, <3>3
    <3> QED BY <1>1, <3>1, <3>3, <3>4, InvGoodAfter
  <2>2. CASE ForError(h) # "none"
    <3>1. /\ status' = "exit" /\ started' = started + 1
          /\ UNCHANGED <<ctx, open, stage, haveFoundAReturn, emitted>>
      BY <1>9, <2>2 DEF OpenFor
    <3> QED BY <1>1, <3>1, InvGoodAfter
  <2> QED BY <2>1, <2>2
<1>10. ASSUME CloseFor PROVE IInv'
  <2>1. /\ open # << >> /\ Back(open).kind = "for" /\ stage = "none"
        /\ ctx' = ExitFor(ctx)
        /\ open' = PopBack(open)
        /\ UNCHANGED <<stage, haveFoundAReturn, emitted, started, status>>
    BY <1>10 DEF CloseFor, EndOfBody
  <2>2. Good(ctx', open')
    BY <1>1, <2>1, GoodExitFor
  <2>3. open' \in Seq(Scopes)
    BY <1>1, <2>1, BackOpen
  <2> QED BY <1>1, <2>1, <2>2, <2>3, InvGoodAfter
<1>11. ASSUME NEW c \in Conds, OpenIf(c) PROVE IInv'
  <2>1. CASE ~IfError(c)
    <3>1. /\ ctx' = EnterIf(ctx, c)
          /\ open' = Append(open, Scope("then", c, ctx))
          /\ started' = started + 1 /\ stage = "none"
          /\ UNCHANGED <<stage, haveFoundAReturn, emitted, status>>
      BY <1>11, <2>1 DEF OpenIf
    <3>2. c \in CondSet
      BY SourceAssumption
    <3>3. /\ Scope("then", c, ctx) \in Scopes
          /\ Good(ctx', open')
      BY <1>1, <3>1, <3>2, GoodEnterIf
    <3>4. open' \in Seq(Scopes)
      BY <1>1, <3>1, <3>3
    <3> QED BY <1>1, <3>1, <3>3, <3>4, InvGoodAfter
  <2>2. CASE IfError(c)
    <3>1. /\ status' = "exit" /\ started' = started + 1
          /\ UNCHANGED <<ctx, open, stage, haveFoundAReturn, emitted>>
      BY <1>11, <2>2 DEF OpenIf
    <3> QED BY <1>1, <3>1, InvGoodAfter
  <2> QED BY <2>1, <2>2
<1>12. ASSUME ElseBranch PROVE IInv'
  <2>1. CASE Exit
    BY <1>3, <2>1
  <2>2. CASE ~Exit
    <3> DEFINE at == ExitIf(ctx)
    <3>1. open # << >> /\ Back(open).kind = "then" /\ stage = "none"
      BY <1>12 DEF ElseBranch, EndOfBody
    <3>2. PICK op \in Negations(Back(open).node.op) :
            LET c == [Back(open).node EXCEPT !.op = op] IN
              /\ ctx' = EnterIf(at, c)
              /\ open' = Append(PopBack(open), Scope("else", c, at))
              /\ UNCHANGED <<stage, haveFoundAReturn, emitted, started, status>>
      BY <1>12, <2>2 DEF ElseBranch
    <3> DEFINE c == [Back(open).node EXCEPT !.op = op]
    <3>3. Back(open).node \in CondSet
      BY <1>1, <3>1, BackOpen
    <3>4. op \in Ops
      BY <3>3 DEF Negations, Ops, Comparisons
    <3>5. c \in CondSet
      BY <3>3, <3>4 DEF CondSet
    <3>6. Good(at, PopBack(open)) /\ PopBack(open) \in Seq(Scopes)
      BY <1>1, <3>1, GoodExitIf, BackOpen
    <3> HIDE DEF c, at
    <3>7. /\ Scope("else", c, at) \in Scopes
          /\ Good(EnterIf(at, c), Append(PopBack(open), Scope("else", c, at)))
      BY <3>5, <3>6, GoodEnterIf
    <3>8. /\ Good(ctx', open')
          /\ open' = Append(PopBack(open), Scope("else", c, at))
          /\ UNCHANGED <<stage, haveFoundAReturn, emitted, started, status>>
      BY <3>2, <3>7 DEF c, at
    <3>9. open' \in Seq(Scopes)
      BY <3>6, <3>7, <3>8
    <3> QED BY <1>1, <3>1, <3>8, <3>9, InvGoodAfter
  <2> QED BY <2>1, <2>2
<1>13. ASSUME CloseIf PROVE IInv'
  <2>1. /\ open # << >> /\ Back(open).kind # "for" /\ stage = "none"
        /\ ctx' = ExitIf(ctx)
        /\ open' = PopBack(open)
        /\ UNCHANGED <<stage, haveFoundAReturn, emitted, started, status>>
    BY <1>13 DEF CloseIf, EndOfBody
  <2>2. Good(ctx', open')
    BY <1>1, <2>1, GoodExitIf
  <2>3. open' \in Seq(Scopes)
    BY <1>1, <2>1, BackOpen
  <2> QED BY <1>1, <2>1, <2>2, <2>3, InvGoodAfter
<1>14. ASSUME Reject PROVE IInv'
  BY <1>3, <1>14 DEF Reject
<1>15. ASSUME Finish PROVE IInv'
  BY <1>1, <1>15, InvGoodAfter DEF Finish
<1>16. ASSUME UNCHANGED vars PROVE IInv'
  BY <1>1, <1>16, InvGoodAfter DEF vars
<1> QED
  BY <1>4, <1>5, <1>6, <1>7, <1>8, <1>9, <1>10, <1>11, <1>12, <1>13, <1>14,
     <1>15, <1>16
  DEF Next, Terminated

(* The type invariant holds of every function's walk. *)
THEOREM TypeCorrect == Spec => []TypeOK
<1>1. IInv => TypeOK
  BY DEF IInv
<1> QED BY <1>1, InitInvariant, NextInvariant, PTL DEF Spec

(* Every schedule the walk builds names its loops' iterators, so that      *)
(* skipToPosition never stops a build and exitFor pops an iterator.        *)
THEOREM SchedulesWellFormed == Spec => []ScheduleShape
<1>1. IInv => ScheduleShape
  BY DEF IInv
<1> QED BY <1>1, InitInvariant, NextInvariant, PTL DEF Spec

(* Whatever has been entered and left, empty bodies included, the context  *)
(* holds the iterators, constraints and invariants of the open structures. *)
THEOREM ScopesBalanced == Spec => []BalancedScopes
<1>1. IInv => BalancedScopes
  BY DEF IInv
<1> QED BY <1>1, InitInvariant, NextInvariant, PTL DEF Spec
-------------------------------------------------------------------------------
(* Where the builder stands. *)
OrderInv == Ordered(emitted, ctx.schedule, stage # "none")

(* A new builder has emitted nothing. *)
LEMMA InitOrder == Init => OrderInv
BY DEF Init, OrderInv, Ordered, InScheduleOrder

(* Steps that keep the schedule and emit nothing. *)
LEMMA SameOrder ==
  ASSUME OrderInv, ctx'.schedule = ctx.schedule, UNCHANGED emitted,
         stage' \in {"none", stage}
  PROVE  OrderInv'
BY DEF OrderInv, Ordered

(* Steps that end behind everything emitted, at a statement or not. *)
LEMMA NewOrder ==
  ASSUME NEW w, Ordered(emitted', ctx'.schedule, w), stage' = "none" \/ w = TRUE
  PROVE  OrderInv'
BY DEF OrderInv, Ordered

(* Every step preserves the order, if a loop is never left with an empty  *)
(* body.                                                                  *)
LEMMA NextOrder ==
  ASSUME AllowEmptyBody = FALSE
  PROVE  IInv /\ OrderInv /\ [Next]_vars => OrderInv'
<1> SUFFICES ASSUME IInv, OrderInv, [Next]_vars PROVE OrderInv'
  OBVIOUS
<1> USE DEF Start
<1>1. /\ Good(ctx, open)
      /\ open \in Seq(Scopes)
      /\ emitted \in Seq(Seq(Vals))
      /\ stage # "none" => Len(ctx.schedule) = 2 * Len(ctx.iterators) + 1
      /\ TypeOK
  BY DEF IInv, TypeOK, Good, ScheduleShape, BalancedScopes
<1>2. /\ ctx \in ContextSet(Iterators)
      /\ ctx.schedule \in Seq(Vals)
      /\ ctx.iterators \in Seq(Iterators)
      /\ Shape(ctx.schedule, ctx.iterators)
  BY <1>1, ContextTypes DEF Good
<1>3. ASSUME Exit PROVE OrderInv'
  BY <1>3, SameOrder DEF Exit
<1>4. ASSUME NEW kind \in {"simple", "call", "return"}, BeginStmt(kind)
      PROVE  OrderInv'
  <2>1. ctx'.schedule = AdvanceSchedule(ctx.schedule) /\ emitted' = emitted
    BY <1>2, <1>4, AdvanceContext DEF BeginStmt
  <2>2. Ordered(emitted', ctx'.schedule, TRUE)
    BY <1>1, <1>2, <2>1, OrderedAdvance DEF OrderInv
  <2> QED BY <2>2, NewOrder
<1>5. ASSUME NEW b \in Blocks, InlineCall(b) PROVE OrderInv'
  <2>1. CASE Exit
    BY <1>3, <2>1
  <2>2. CASE ~Exit
    <3>1. /\ stage # "none"
          /\ emitted' = emitted \o Place(ctx.schedule, b)
          /\ \E last \in TuplePositions(ctx.schedule, b) :
               ctx' = Advance(SkipTo(ctx, last))
      BY <1>5, <2>2 DEF InlineCall
    <3>2. /\ ctx.schedule # << >> /\ ~Back(ctx.schedule).valueIsVar
          /\ Back(ctx.schedule).num \in Nat
      BY <1>1, <3>1, StatementFacts DEF AtStatement
    <3>3. PICK last \in TuplePositions(ctx.schedule, b) :
            ctx' = Advance(SkipTo(ctx, last))
      BY <3>1
    <3>4. last \in Int /\ last + 1 \in Nat
      BY <3>2, TuplePositionType, BlocksAssumption DEF IsBlock
    <3>5. ctx'.schedule = Append(PopBack(ctx.schedule), Num(last + 1))
      BY <1>1, <3>1, <3>3, <3>4, GoodInline
    <3>6. Ordered(emitted, ctx.schedule, TRUE)
      BY <3>1 DEF OrderInv, Ordered
    <3>7. Ordered(emitted', ctx'.schedule, TRUE)
      BY <1>1, <1>2, <3>1, <3>2, <3>5, <3>6, OrderedInline, BlocksAssumption
    <3> QED BY <3>7, NewOrder
  <2> QED BY <2>1, <2>2
<1>6. ASSUME ReservedCall PROVE OrderInv'
  BY <1>6, SameOrder DEF ReservedCall
<1>7. ASSUME AddStmt PROVE OrderInv'
  <2>1. CASE Exit
    BY <1>3, <2>1
  <2>2. CASE ~Exit
    <3>1. /\ emitted' = Append(emitted, ctx.schedule)
          /\ stage # "none" /\ stage' = "none"
          /\ ctx' = ctx
      BY <1>7, <2>2 DEF AddStmt
    <3>2. ctx.schedule # << >> /\ ~Back(ctx.schedule).valueIsVar
      BY <1>1, <3>1, StatementFacts DEF AtStatement
    <3>3. Ordered(emitted, ctx.schedule, TRUE)
      BY <3>1 DEF OrderInv, Ordered
    <3>4. Ordered(emitted', ctx'.schedule, FALSE)
      BY <1>1, <1>2, <3>1, <3>2, <3>3, OrderedAppend
    <3> QED BY <3>1, <3>4, NewOrder
  <2> QED BY <2>1, <2>2
<1>8. ASSUME AddReturn PROVE OrderInv'
  BY <1>8, SameOrder DEF AddReturn, Exit
<1>9. ASSUME NEW h \in Headers, OpenFor(h) PROVE OrderInv'
  <2>1. CASE ForError(h) = "none"
    <3>1. /\ ctx' = EnterFor(Advance(ctx), h) /\ emitted' = emitted
          /\ stage' = stage /\ stage = "none"
      BY <1>9, <2>1 DEF OpenFor
    <3>2. Ordered(emitted', ctx'.schedule, FALSE)
      BY <1>1, <1>2, <3>1, OrderedEnterFor DEF OrderInv
    <3> QED BY <3>1, <3>2, NewOrder
  <2>2. CASE ForError(h) # "none"
    BY <1>9, <2>2, SameOrder DEF OpenFor
  <2> QED BY <2>1, <2>2
<1>10. ASSUME CloseFor PROVE OrderInv'
  <2>1. /\ open # << >> /\ Back(open).kind = "for" /\ stage = "none"
        /\ ~Back(ctx.schedule).valueIsVar
        /\ ctx' = ExitFor(ctx)
        /\ UNCHANGED <<stage, emitted>>
    BY <1>10 DEF CloseFor, EndOfBody
  <2>2. Ordered(emitted', ctx'.schedule, FALSE)
    BY <1>1, <2>1, OrderedExitFor DEF OrderInv
  <2> QED BY <2>1, <2>2, NewOrder
<1>11. ASSUME NEW c \in Conds, OpenIf(c) PROVE OrderInv'
  <2>1. ctx'.schedule = ctx.schedule /\ UNCHANGED <<stage, emitted>>
    <3>1. EnterIf(ctx, c).schedule = ctx.schedule
      BY <1>1, SourceAssumption, GoodEnterIf
    <3> QED BY <1>11, <3>1 DEF OpenIf
  <2> QED BY <2>1, SameOrder
<1>12. ASSUME ElseBranch PROVE OrderInv'
  <2>1. CASE Exit
    BY <1>3, <2>1
  <2>2. CASE ~Exit
    <3>1. open # << >> /\ Back(open).kind = "then"
      BY <1>12 DEF ElseBranch, EndOfBody
    <3>2. PICK op \in Negations(Back(open).node.op) :
            /\ ctx' = EnterIf(ExitIf(ctx), [Back(open).node EXCEPT !.op = op])
            /\ UNCHANGED <<stage, emitted>>
      BY <1>12, <2>2 DEF ElseBranch
    <3>3. Good(ExitIf(ctx), PopBack(open)) /\ ExitIf(ctx).schedule = ctx.schedule
      BY <1>1, <3>1, GoodExitIf
    <3>4. ExitIf(ctx) \in ContextSet(Iterators)
      BY <3>3 DEF Good
    <3>5. \A d : EnterIf(ExitIf(ctx), d).schedule = ctx.schedule
      BY <3>3, <3>4 DEF EnterIf, ContextSet
    <3> QED BY <3>2, <3>5, SameOrder
  <2> QED BY <2>1, <2>2
<1>13. ASSUME CloseIf PROVE OrderInv'
  <2>1. /\ open # << >> /\ Back(open).kind # "for"
        /\ ctx' = ExitIf(ctx)
        /\ UNCHANGED <<stage, emitted>>
    BY <1>13 DEF CloseIf, EndOfBody
  <2>2. ctx'.schedule = ctx.schedule
    BY <1>1, <2>1, GoodExitIf
  <2> QED BY <2>1, <2>2, SameOrder
<1>14. ASSUME Reject PROVE OrderInv'
  BY <1>3, <1>14 DEF Reject
<1>15. ASSUME Finish PROVE OrderInv'
  BY <1>15, SameOrder DEF Finish
<1>16. ASSUME UNCHANGED vars PROVE OrderInv'
  BY <1>16, SameOrder DEF vars
<1> QED
  BY <1>4, <1>5, <1>6, <1>7, <1>8, <1>9, <1>10, <1>11, <1>12, <1>13, <1>14,
     <1>15, <1>16
  DEF Next, Terminated

(* When every loop body takes at least one position, the statements of a   *)
(* Computation have pairwise different schedules in the order of the       *)
(* source, inlined ones included, for functions of every length, depth and *)
(* callees.                                                                *)
THEOREM StatementsInOrder ==
  ASSUME AllowEmptyBody = FALSE
  PROVE  Spec => []EmittedInOrder
<1>1. Init => IInv /\ OrderInv
  BY InitInvariant, InitOrder
<1>2. (IInv /\ OrderInv) /\ [Next]_vars => (IInv /\ OrderInv)'
  BY NextInvariant, NextOrder
<1>3. IInv /\ OrderInv => EmittedInOrder
  BY DEF OrderInv, Ordered, EmittedInOrder
<1> QED BY <1>1, <1>2, <1>3, PTL DEF Spec

-------------------------------------------------------------------------------
(***************************************************************************)
(* exitFor gives back the context enterFor was called in, the schedule     *)
(* included, although it pops two entries without looking at them.         *)
(* ForSchedules, inductive together with IInv, says why they are the       *)
(* loop's: the schedule a for was entered in is still the beginning of the *)
(* schedule, and no step within the loop comes near it.                    *)
(***************************************************************************)

SameUpTo(n, s, t) == \A i \in 1 .. n : s[i] = t[i]

(* The length of the schedule where a for stands. *)
Depth(c) == Len(c.iterators)
AtFor(c) == Len(c.schedule) = 2 * Depth(c) + 1

ForSchedules(c, o) ==
  \A k \in 1 .. Len(o) : o[k].kind = "for" =>
    /\ AtFor(o[k].at)
    /\ SameUpTo(2 * Depth(o[k].at) + 1, o[k].at.schedule, c.schedule)
    /\ Depth(o[k].at) < Depth(c)
    /\ \A l \in k + 1 .. Len(o) : Depth(o[k].at) < Depth(o[l].at)

(* Every scope's depth is a number. *)
LEMMA Depths ==
  ASSUME NEW o \in Seq(Scopes)
  PROVE  /\ Len(o) \in Nat
         /\ \A k \in 1 .. Len(o) : o[k].at \in ContextSet(Iterators) /\ Depth(o[k].at) \in Nat
<1>1. Len(o) \in Nat /\ \A k \in 1 .. Len(o) : o[k] \in Scopes
  BY ElementOfSeq, LenProperties
<1>2. \A s \in Scopes : s.at \in ContextSet(Iterators)
  BY DEF Scopes
<1>3. \A c \in ContextSet(Iterators) : Depth(c) \in Nat
  BY ContextTypes, LenProperties DEF Depth
<1> QED
  BY <1>1, <1>2, <1>3

(* Whatever changes behind the last iterator is no for's. *)
LEMMA BehindTheIterators ==
  ASSUME NEW o \in Seq(Scopes), NEW c, NEW d, ForSchedules(c, o),
         Depth(c) \in Nat, Depth(d) = Depth(c),
         SameUpTo(2 * Depth(c), c.schedule, d.schedule)
  PROVE  ForSchedules(d, o)
<1>1. ASSUME NEW k \in 1 .. Len(o), o[k].kind = "for"
      PROVE  SameUpTo(2 * Depth(o[k].at) + 1, o[k].at.schedule, d.schedule)
  <2> DEFINE m == Depth(o[k].at)
  <2>1. m \in Nat /\ m < Depth(c) /\ SameUpTo(2 * m + 1, o[k].at.schedule, c.schedule)
    BY <1>1, Depths DEF ForSchedules
  <2> HIDE DEF m
  <2>2. \A i \in 1 .. 2 * m + 1 : i \in 1 .. 2 * Depth(c)
    BY <2>1
  <2> QED
    BY <2>1, <2>2 DEF SameUpTo, m
<1> QED
  BY <1>1 DEF ForSchedules

(* Entering a structure extends the schedule at most. *)
LEMMA Entered ==
  ASSUME NEW o \in Seq(Scopes), NEW s \in Scopes, NEW d, ForSchedules(s.at, o),
         2 * Depth(s.at) <= Len(s.at.schedule),
         SameUpTo(Len(s.at.schedule), s.at.schedule, d.schedule),
         Depth(d) \in Nat, Depth(s.at) <= Depth(d),
         s.kind = "for" => AtFor(s.at) /\ Depth(s.at) < Depth(d)
  PROVE  ForSchedules(d, Append(o, s))
<1> DEFINE p == Append(o, s)
           n == Len(o)
           c == s.at
<1>1. n \in Nat /\ Len(p) = n + 1 /\ p[n + 1] = s /\ \A k \in 1 .. n : p[k] = o[k]
  BY AppendProperties, LenProperties
<1>2. c \in ContextSet(Iterators) /\ Depth(c) \in Nat /\ Len(c.schedule) \in Nat
  BY ContextTypes, LenProperties DEF Scopes, Depth
<1> HIDE DEF p, n, c
<1>3. ASSUME NEW k \in 1 .. n + 1, p[k].kind = "for"
      PROVE  /\ AtFor(p[k].at)
             /\ SameUpTo(2 * Depth(p[k].at) + 1, p[k].at.schedule, d.schedule)
             /\ Depth(p[k].at) < Depth(d)
             /\ \A l \in k + 1 .. n + 1 : Depth(p[k].at) < Depth(p[l].at)
  <2>1. CASE k = n + 1
    <3>1. p[k].at = c /\ AtFor(c) /\ Depth(c) < Depth(d)
      BY <1>1, <1>3, <2>1 DEF c
    <3>2. SameUpTo(2 * Depth(c) + 1, c.schedule, d.schedule)
      BY <3>1 DEF AtFor, c
    <3>3. k + 1 .. n + 1 = {}
      BY <1>1, <2>1
    <3> QED
      BY <3>1, <3>2, <3>3
  <2>2. CASE k # n + 1
    <3>1. k \in 1 .. n /\ p[k] = o[k]
      BY <1>1, <2>2
    <3> DEFINE m == Depth(o[k].at)
    <3>2. /\ AtFor(o[k].at) /\ m \in Nat /\ m < Depth(c)
          /\ SameUpTo(2 * m + 1, o[k].at.schedule, c.schedule)
          /\ \A l \in k + 1 .. n : m < Depth(o[l].at)
      BY <1>3, <3>1, Depths DEF ForSchedules, n, c
    <3> HIDE DEF m
    <3>3. SameUpTo(2 * m + 1, o[k].at.schedule, d.schedule)
      <4>1. \A i \in 1 .. 2 * m + 1 : i \in 1 .. Len(c.schedule)
        BY <1>2, <3>2 DEF c
      <4> QED
        BY <3>2, <4>1 DEF SameUpTo, c
    <3>4. m < Depth(d)
      BY <1>2, <3>2 DEF c
    <3>5. ASSUME NEW l \in k + 1 .. n + 1
          PROVE  m < Depth(p[l].at)
      <4>1. CASE l = n + 1
        BY <1>1, <3>2, <4>1 DEF c
      <4>2. CASE l # n + 1
        <5>1. l \in k + 1 .. n /\ l \in 1 .. n
          BY <1>1, <3>1, <4>2
        <5> QED
          BY <1>1, <3>2, <5>1
      <4> QED
        BY <4>1, <4>2
    <3> QED
      BY <3>1, <3>2, <3>3, <3>4, <3>5 DEF m
  <2> QED
    BY <2>1, <2>2
<1> QED
  BY <1>1, <1>3 DEF ForSchedules, p

(* Leaving one, the iterators are those it was entered in. *)
LEMMA Left ==
  ASSUME NEW o \in Seq(Scopes), o # << >>, NEW c, NEW d, ForSchedules(c, o),
         Depth(d) = Depth(Back(o).at),
         SameUpTo(2 * Depth(d), c.schedule, d.schedule)
  PROVE  ForSchedules(d, PopBack(o))
<1> DEFINE p == PopBack(o)
           n == Len(o)
<1>1. /\ n \in Nat /\ n >= 1 /\ Len(p) = n - 1
      /\ \A k \in 1 .. n - 1 : p[k] = o[k]
  <2>1. n \in Nat \ {0} /\ Len(p) = n - 1 /\ \A k \in 1 .. n - 1 : p[k] = o[k]
    BY PopBackProperties
  <2> QED
    BY <2>1
<1>2. Depth(d) = Depth(o[n].at) /\ Depth(d) \in Nat
  BY <1>1, Depths DEF Back
<1> HIDE DEF p, n
<1>3. ASSUME NEW k \in 1 .. n - 1, o[k].kind = "for"
      PROVE  /\ AtFor(o[k].at)
             /\ SameUpTo(2 * Depth(o[k].at) + 1, o[k].at.schedule, d.schedule)
             /\ Depth(o[k].at) < Depth(d)
             /\ \A l \in k + 1 .. n - 1 : Depth(o[k].at) < Depth(o[l].at)
  <2> DEFINE m == Depth(o[k].at)
  <2>1. k \in 1 .. n /\ n \in k + 1 .. n /\ \A l \in k + 1 .. n - 1 : l \in k + 1 .. n
    BY <1>1
  <2>2. /\ AtFor(o[k].at) /\ m \in Nat
        /\ SameUpTo(2 * m + 1, o[k].at.schedule, c.schedule)
        /\ \A l \in k + 1 .. n : m < Depth(o[l].at)
    BY <1>3, <2>1, Depths DEF ForSchedules, n
  <2> HIDE DEF m
  <2>3. m < Depth(d)
    BY <1>2, <2>1, <2>2
  <2>4. SameUpTo(2 * m + 1, o[k].at.schedule, d.schedule)
    <3>1. \A i \in 1 .. 2 * m + 1 : i \in 1 .. 2 * Depth(d)
      BY <1>2, <2>2, <2>3
    <3> QED
      BY <2>2, <3>1 DEF SameUpTo
  <2> QED
    BY <2>1, <2>2, <2>3, <2>4 DEF m
<1> QED
  BY <1>1, <1>3 DEF ForSchedules, p

-------------------------------------------------------------------------------
(* What the operations do to the schedule. *)

(* A good context's schedule ends in an iterator or is one entry longer    *)
(* than the iterators and their positions.                                 *)
LEMMA GoodLength ==
  ASSUME NEW c, NEW o, Good(c, o)
  PROVE  /\ c.schedule \in Seq(Vals) /\ c.iterators \in Seq(Iterators) /\ Depth(c) \in Nat
         /\ Len(c.schedule) \in Nat
         /\ 2 * Depth(c) <= Len(c.schedule)
         /\ c.schedule # << >> /\ ~Back(c.schedule).valueIsVar => AtFor(c)
<1>1. c.schedule \in Seq(Vals) /\ c.iterators \in Seq(Iterators)
  BY ContextTypes DEF Good
<1>2. Depth(c) \in Nat /\ Len(c.schedule) \in Nat
  BY <1>1, LenProperties DEF Depth
<1>3. /\ Len(c.schedule) \in {2 * Depth(c), 2 * Depth(c) + 1}
      /\ \A k \in 1 .. Depth(c) : c.schedule[2 * k] = Var(c.iterators[k])
  BY DEF Good, Shape, Depth
<1>4. ASSUME Len(c.schedule) = 2 * Depth(c), c.schedule # << >>
      PROVE  Back(c.schedule).valueIsVar
  <2>1. Len(c.schedule) # 0
    BY <1>1, <1>4, EmptySeq
  <2>2. Depth(c) \in 1 .. Depth(c)
    BY <1>2, <1>4, <2>1
  <2>3. Back(c.schedule) = Var(c.iterators[Depth(c)])
    BY <1>3, <1>4, <2>2 DEF Back
  <2> QED
    BY <2>3 DEF Var
<1> QED
  BY <1>1, <1>2, <1>3, <1>4 DEF AtFor

(* A number in place of the last one, behind the last iterator. *)
LEMMA Replaced ==
  ASSUME NEW s \in Seq(Vals), s # << >>, NEW v
  PROVE  SameUpTo(Len(s) - 1, s, Append(PopBack(s), v))
<1>1. /\ PopBack(s) \in Seq(Vals) /\ Len(PopBack(s)) = Len(s) - 1
      /\ Len(s) \in Nat \ {0}
      /\ \A i \in 1 .. Len(s) - 1 : PopBack(s)[i] = s[i]
  BY PopBackProperties
<1>2. PopBack(s) \in Seq(Vals \cup {v})
  BY <1>1, LenProperties, ElementOfSeq, IsASeq
<1>3. \A i \in 1 .. Len(s) - 1 : Append(PopBack(s), v)[i] = PopBack(s)[i]
  BY <1>1, <1>2, AppendProperties
<1> QED
  BY <1>1, <1>3 DEF SameUpTo

(* advanceSchedule changes only the last entry, behind what the fors need. *)
LEMMA AdvanceKeeps ==
  ASSUME NEW c, NEW o \in Seq(Scopes), Good(c, o), ForSchedules(c, o)
  PROVE  ForSchedules(Advance(c), o) /\ Depth(Advance(c)) = Depth(c)
<1> DEFINE s == c.schedule
<1>1. /\ s \in Seq(Vals) /\ Depth(c) \in Nat /\ Len(s) \in Nat /\ 2 * Depth(c) <= Len(s)
      /\ s # << >> /\ ~Back(s).valueIsVar => AtFor(c)
  BY GoodLength
<1>2. Advance(c).schedule = AdvanceSchedule(s) /\ Depth(Advance(c)) = Depth(c)
  BY AdvanceContext DEF Good, Depth
<1>3. SameUpTo(2 * Depth(c), s, AdvanceSchedule(s))
  <2>1. CASE s = << >> \/ Back(s).valueIsVar
    <3>1. AdvanceSchedule(s) = Append(s, Num(0))
      BY <2>1 DEF AdvanceSchedule
    <3>2. Num(0) \in Vals
      BY DEF Num, Vals, ScheduleVals, NumVals
    <3>3. \A i \in 1 .. Len(s) : Append(s, Num(0))[i] = s[i]
      BY <1>1, <3>2, AppendProperties
    <3>4. \A i \in 1 .. 2 * Depth(c) : i \in 1 .. Len(s)
      BY <1>1
    <3> QED
      BY <3>1, <3>3, <3>4 DEF SameUpTo
  <2>2. CASE s # << >> /\ ~Back(s).valueIsVar
    <3>1. AdvanceSchedule(s) = Append(PopBack(s), Num(Back(s).num + 1))
      BY <2>2 DEF AdvanceSchedule
    <3>2. Len(s) - 1 = 2 * Depth(c)
      <4>1. Len(s) = 2 * Depth(c) + 1
        BY <1>1, <2>2, Zenon DEF AtFor
      <4> HIDE DEF s
      <4> QED
        BY <1>1, <4>1
    <3> HIDE DEF s
    <3>3. s \in Seq(Vals) /\ s # << >>
      BY <1>1, <2>2
    <3>4. SameUpTo(Len(s) - 1, s, AdvanceSchedule(s))
      BY ONLY <3>1, <3>3, Replaced
    <3> QED
      BY <3>2, <3>4
  <2> QED
    BY <2>1, <2>2
<1> QED
  BY <1>1, <1>2, <1>3, BehindTheIterators

(* enterFor only appends to the schedule. *)
LEMMA EnterForKeeps ==
  ASSUME NEW c, NEW o \in Seq(Scopes), NEW h \in Headers, Good(c, o), AtFor(c),
         ForSchedules(c, o)
  PROVE  ForSchedules(EnterFor(c, h), Append(o, Scope("for", h, c)))
<1> DEFINE sc == Scope("for", h, c)
           d == EnterFor(c, h)
<1>1. c.schedule \in Seq(Vals) /\ c.iterators \in Seq(Iterators) /\ Depth(c) \in Nat
  BY GoodLength
<1>2. sc \in Scopes /\ sc.at = c /\ sc.kind = "for"
  BY GoodEnterFor DEF AtFor, Depth, Scope
<1>3. d.schedule = Append(c.schedule, Var(h.iter)) /\ d.iterators = Append(c.iterators, h.iter)
  BY DEF EnterFor, PushValue
<1>4. h.iter \in Iterators /\ Var(h.iter) \in Vals
  BY SourceAssumption DEF HeaderSet, Var, Vals, ScheduleVals, VarVals
<1>5. SameUpTo(Len(c.schedule), c.schedule, d.schedule)
  BY <1>1, <1>3, <1>4, AppendProperties DEF SameUpTo
<1>6. Depth(d) = Depth(c) + 1
  BY <1>1, <1>3, <1>4, AppendProperties DEF Depth
<1> HIDE DEF sc, d
<1>7. 2 * Depth(c) <= Len(c.schedule) /\ Depth(d) \in Nat /\ Depth(c) < Depth(d)
  BY <1>1, <1>6 DEF AtFor
<1>8. /\ ForSchedules(sc.at, o) /\ 2 * Depth(sc.at) <= Len(sc.at.schedule)
      /\ SameUpTo(Len(sc.at.schedule), sc.at.schedule, d.schedule)
      /\ Depth(sc.at) < Depth(d) /\ AtFor(sc.at)
  BY <1>2, <1>5, <1>7
<1>9. Depth(sc.at) <= Depth(d)
  BY <1>1, <1>2, <1>6
<1>10. ForSchedules(d, Append(o, sc))
  BY <1>2, <1>7, <1>8, <1>9, Entered
<1> QED
  BY <1>10 DEF d, sc

(* enterIf and exitIf leave the schedule alone. *)
LEMMA EnterIfKeeps ==
  ASSUME NEW c, NEW o \in Seq(Scopes), NEW cond \in CondSet, NEW kind \in {"then", "else"},
         Good(c, o), ForSchedules(c, o)
  PROVE  ForSchedules(EnterIf(c, cond), Append(o, Scope(kind, cond, c)))
<1> DEFINE sc == Scope(kind, cond, c)
           d == EnterIf(c, cond)
<1>1. c \in ContextSet(Iterators) /\ Depth(c) \in Nat /\ 2 * Depth(c) <= Len(c.schedule)
  BY GoodLength DEF Good
<1>2. sc \in Scopes /\ sc.at = c /\ sc.kind # "for" /\ d.schedule = c.schedule
  BY GoodEnterIf DEF Scope
<1>3. Depth(d) = Depth(c)
  BY <1>1 DEF EnterIf, ContextSet, Depth
<1>4. SameUpTo(Len(c.schedule), c.schedule, d.schedule)
  BY <1>2 DEF SameUpTo
<1> HIDE DEF sc, d
<1>5. ForSchedules(d, Append(o, sc))
  BY <1>1, <1>2, <1>3, <1>4, Entered
<1> QED
  BY <1>5 DEF d, sc

(* Leaving a for whose body has taken a position: what is left of the      *)
(* schedule has the length it had where the for stands.                    *)
LEMMA ExitForKeeps ==
  ASSUME NEW c, NEW o \in Seq(Scopes), o # << >>, Back(o).kind = "for",
         Good(c, o), ForSchedules(c, o), ~Back(c.schedule).valueIsVar
  PROVE  /\ ForSchedules(ExitFor(c), PopBack(o))
         /\ ExitFor(c) = Back(o).at
<1> DEFINE at == Back(o).at
           d == ExitFor(c)
           s == c.schedule
           n == Len(o)
<1>1. /\ Good(d, PopBack(o)) /\ SameScopes(d, at)
      /\ d.schedule = PopBack(PopBack(s)) /\ Len(s) >= 2
  BY GoodExitFor
<1>2. /\ s \in Seq(Vals) /\ Depth(c) \in Nat /\ Len(s) \in Nat
      /\ s # << >> => Len(s) = 2 * Depth(c) + 1
  BY GoodLength DEF AtFor
<1>3. Len(s) = 2 * Depth(c) + 1
  BY <1>1, <1>2, EmptySeq
<1>4. /\ at \in ContextSet(Iterators) /\ d \in ContextSet(Iterators) /\ Depth(at) \in Nat
      /\ at.iterators \in Seq(Iterators) /\ at.schedule \in Seq(Vals)
  BY <1>1, BackOpen, ContextTypes, LenProperties DEF Good, Depth
<1>5. Depth(c) = Depth(at) + 1 /\ Depth(d) = Depth(at)
  <2>1. c.iterators = EnterFor(at, Back(o).node).iterators
    BY BackBalanced DEF Good, SameScopes, After
  <2>2. c.iterators = Append(at.iterators, Back(o).node.iter) /\ Back(o).node.iter \in Iterators
    BY <2>1, BackOpen, SourceAssumption DEF EnterFor, HeaderSet
  <2> QED
    BY <1>1, <1>4, <2>2, AppendProperties DEF Depth, SameScopes
<1>6. /\ d.schedule \in Seq(Vals) /\ Len(d.schedule) = Len(s) - 2
      /\ SameUpTo(Len(s) - 2, s, d.schedule)
  <2>1. /\ PopBack(s) \in Seq(Vals) /\ Len(PopBack(s)) = Len(s) - 1
        /\ \A i \in 1 .. Len(s) - 1 : PopBack(s)[i] = s[i]
    <3>1. s # << >>
      BY <1>1, <1>2, EmptySeq
    <3> HIDE DEF s
    <3> QED
      BY <1>2, <3>1, PopBackProperties
  <2>2. PopBack(s) # << >>
    BY <1>1, <1>2, <2>1, EmptySeq
  <2>3. /\ PopBack(PopBack(s)) \in Seq(Vals) /\ Len(PopBack(PopBack(s))) = Len(s) - 1 - 1
        /\ \A i \in 1 .. Len(s) - 1 - 1 : PopBack(PopBack(s))[i] = PopBack(s)[i]
    BY <2>1, <2>2, PopBackProperties
  <2>4. \A i \in 1 .. Len(s) - 2 : i \in 1 .. Len(s) - 1 /\ i \in 1 .. Len(s) - 1 - 1
    BY <1>2
  <2>5. Len(s) - 1 - 1 = Len(s) - 2
    BY <1>2
  <2> QED
    BY <1>1, <2>1, <2>3, <2>4, <2>5 DEF SameUpTo
<1>7. /\ Len(at.schedule) = 2 * Depth(at) + 1
      /\ SameUpTo(2 * Depth(at) + 1, at.schedule, s)
  <2>1. n \in 1 .. n
    BY EmptySeq
  <2> QED
    BY <2>1 DEF ForSchedules, AtFor, Back
<1> HIDE DEF at, d, s, n
<1>8. d.schedule = at.schedule
  <2>1. Len(d.schedule) = Len(at.schedule)
    BY <1>3, <1>4, <1>5, <1>6, <1>7
  <2>2. \A i \in 1 .. Len(d.schedule) : d.schedule[i] = at.schedule[i]
    <3>1. Len(s) - 2 = Len(d.schedule) /\ 2 * Depth(at) + 1 = Len(d.schedule)
      BY <1>6, <1>7, <2>1
    <3> QED
      BY <1>6, <1>7, <3>1 DEF SameUpTo
  <2> QED
    BY <1>4, <1>6, <2>1, <2>2, SeqEqual
<1>9. d = at
  <2>1. /\ d.iterators = at.iterators /\ d.constraints = at.constraints
        /\ d.invariants = at.invariants /\ d.nestLevel = at.nestLevel
    BY <1>1 DEF SameScopes
  <2>2. \A x, y \in ContextSet(Iterators) :
          /\ x.iterators = y.iterators /\ x.constraints = y.constraints
          /\ x.invariants = y.invariants /\ x.nestLevel = y.nestLevel
          /\ x.schedule = y.schedule
          => x = y
    BY DEF ContextSet
  <2> QED
    BY <1>4, <1>8, <2>1, <2>2
<1>10. SameUpTo(2 * Depth(d), s, d.schedule)
  <2>1. \A i \in 1 .. 2 * Depth(d) : i \in 1 .. Len(s) - 2
    BY <1>3, <1>4, <1>5
  <2> QED
    BY <1>6, <2>1 DEF SameUpTo
<1>11. ForSchedules(d, PopBack(o))
  BY <1>5, <1>10, Left DEF at, s
<1> QED
  BY <1>9, <1>11 DEF d, at

(* exitIf returns to the context of the if, that of the loop it is in. *)
LEMMA ExitIfKeeps ==
  ASSUME NEW c, NEW o \in Seq(Scopes), o # << >>, Back(o).kind # "for",
         Good(c, o), ForSchedules(c, o)
  PROVE  ForSchedules(ExitIf(c), PopBack(o))
<1>1. c \in ContextSet(Iterators) /\ Back(o).at \in ContextSet(Iterators)
  BY BackOpen DEF Good
<1>2. c.iterators = Back(o).at.iterators
  <2>1. c.iterators = EnterIf(Back(o).at, Back(o).node).iterators
    BY BackBalanced DEF Good, SameScopes, After
  <2> QED
    BY <1>1, <2>1 DEF EnterIf, ContextSet
<1>3. ExitIf(c).schedule = c.schedule /\ ExitIf(c).iterators = c.iterators
  BY <1>1 DEF ExitIf, ContextSet
<1>4. /\ Depth(ExitIf(c)) = Depth(Back(o).at)
      /\ SameUpTo(2 * Depth(ExitIf(c)), c.schedule, ExitIf(c).schedule)
  BY <1>2, <1>3 DEF Depth, SameUpTo
<1> QED
  BY <1>4, Left

-------------------------------------------------------------------------------
(* Every step keeps ForSchedules, and one that leaves a for restores its   *)
(* context.                                                                *)
Restored == Len(open') < Len(open) /\ Back(open).kind = "for" => ctx' = Back(open).at

(* At the start no structure is open. *)
LEMMA InitForSchedules == Init => ForSchedules(ctx, open)
BY DEF Init, ForSchedules

(* The step that closes a for gives its context back. *)
LEMMA StepRestores ==
  ASSUME AllowEmptyBody = FALSE, IInv, ForSchedules(ctx, open), [Next]_vars
  PROVE  ForSchedules(ctx, open)' /\ Restored
<1>1. /\ Good(ctx, open) /\ open \in Seq(Scopes) /\ Len(open) \in Nat
      /\ stage # "none" => AtFor(ctx)
  BY InvGood, LenProperties DEF AtFor, Depth
<1>2. ASSUME UNCHANGED open, ForSchedules(ctx', open)
      PROVE  ForSchedules(ctx, open)' /\ Restored
  BY <1>1, <1>2 DEF ForSchedules, AtFor, SameUpTo, Depth, Restored
<1>3. ASSUME UNCHANGED <<ctx, open>>
      PROVE  ForSchedules(ctx, open)' /\ Restored
  BY <1>2, <1>3
<1>4. ASSUME NEW s, open' = Append(open, s), ForSchedules(ctx', Append(open, s)), s \in Scopes
      PROVE  ForSchedules(ctx, open)' /\ Restored
  <2>1. Len(open') = Len(open) + 1
    BY <1>1, <1>4, AppendProperties
  <2>2. ForSchedules(ctx', open')
    BY <1>4
  <2> QED
    BY <1>1, <2>1, <2>2 DEF ForSchedules, AtFor, SameUpTo, Depth, Restored
<1>5. ASSUME NEW kind \in {"simple", "call", "return"}, BeginStmt(kind)
      PROVE  ForSchedules(ctx, open)' /\ Restored
  <2>1. ctx' = Advance(ctx) /\ UNCHANGED open
    BY <1>5 DEF BeginStmt
  <2> QED
    BY <1>1, <1>2, <2>1, AdvanceKeeps
<1>6. ASSUME NEW b \in Blocks, InlineCall(b)
      PROVE  ForSchedules(ctx, open)' /\ Restored
  <2>1. CASE Exit
    BY <1>3, <2>1 DEF Exit
  <2>2. CASE ~Exit
    <3>1. /\ stage \in {"simple", "call"} /\ CanSkip(ctx.schedule) /\ UNCHANGED open
          /\ \E last \in TuplePositions(ctx.schedule, b) : ctx' = Advance(SkipTo(ctx, last))
      BY <1>6, <2>2 DEF InlineCall
    <3>2. PICK last \in TuplePositions(ctx.schedule, b) : ctx' = Advance(SkipTo(ctx, last))
      BY <3>1
    <3> DEFINE s == ctx.schedule
    <3>3. s \in Seq(Vals) /\ Depth(ctx) \in Nat /\ Len(s) = 2 * Depth(ctx) + 1
      BY <1>1, <3>1, GoodLength DEF AtFor
    <3>4. s # << >> /\ ~Back(s).valueIsVar
      BY <3>1, <3>3, EmptySeq DEF CanSkip
    <3>5. Back(s) \in Vals
      <4> HIDE DEF s
      <4> QED
        BY <3>3, <3>4, PopBackProperties
    <3>6. Back(s).num \in Nat
      BY <3>4, <3>5, ValCases DEF Vals
    <3>7. last \in Int /\ last + 1 \in Nat
      BY <3>6, BlocksAssumption, TuplePositionType DEF IsBlock
    <3>8. Good(ctx', open) /\ ctx'.schedule = Append(PopBack(s), Num(last + 1))
      <4>1. Len(ctx.schedule) = 2 * Len(ctx.iterators) + 1
        BY <3>3 DEF Depth
      <4>2. /\ Good(Advance(SkipTo(ctx, last)), open)
            /\ Advance(SkipTo(ctx, last)).schedule = Append(PopBack(ctx.schedule), Num(last + 1))
        BY <1>1, <3>7, <4>1, GoodInline
      <4> QED
        BY <3>2, <4>2
    <3>9. ctx'.iterators = ctx.iterators
      BY <1>1, <3>8 DEF Good, Balanced, SameScopes
    <3>10. SameUpTo(Len(s) - 1, s, ctx'.schedule)
      <4> HIDE DEF s
      <4> QED
        BY <3>3, <3>4, <3>8, Replaced
    <3>11. Len(s) - 1 = 2 * Depth(ctx) /\ Depth(ctx') = Depth(ctx)
      BY <3>3, <3>9 DEF Depth
    <3> QED
      BY <1>1, <1>2, <3>1, <3>3, <3>10, <3>11, BehindTheIterators
  <2> QED
    BY <2>1, <2>2
<1>7. ASSUME ReservedCall \/ AddStmt \/ AddReturn \/ Reject \/ Finish \/ UNCHANGED vars
      PROVE  ForSchedules(ctx, open)' /\ Restored
  BY <1>3, <1>7 DEF ReservedCall, AddStmt, AddReturn, Reject, Finish, Exit, vars
<1>8. ASSUME NEW h \in Headers, OpenFor(h)
      PROVE  ForSchedules(ctx, open)' /\ Restored
  <2>1. CASE ForError(h) = "none"
    <3> DEFINE at == Advance(ctx)
               s == Scope("for", h, at)
    <3>1. ctx' = EnterFor(at, h) /\ open' = Append(open, s)
      BY <1>8, <2>1 DEF OpenFor
    <3>2. Good(at, open) /\ AtFor(at) /\ ForSchedules(at, open)
      BY <1>1, GoodAdvance, AdvanceKeeps DEF AtFor, Depth
    <3>3. s \in Scopes
      BY <1>1, <3>2, GoodEnterFor DEF AtFor, Depth
    <3>4. ForSchedules(EnterFor(at, h), Append(open, s))
      BY <1>1, <3>2, EnterForKeeps
    <3> HIDE DEF s, at
    <3> QED
      BY <1>4, <3>1, <3>3, <3>4
  <2>2. CASE ForError(h) # "none"
    BY <1>3, <1>8, <2>2 DEF OpenFor
  <2> QED
    BY <2>1, <2>2
<1>9. ASSUME CloseFor
      PROVE  ForSchedules(ctx, open)' /\ Restored
  <2>1. /\ open # << >> /\ Back(open).kind = "for" /\ ~Back(ctx.schedule).valueIsVar
        /\ ctx' = ExitFor(ctx) /\ open' = PopBack(open)
    BY <1>9 DEF CloseFor, EndOfBody
  <2>2. ForSchedules(ctx', open') /\ ctx' = Back(open).at
    BY <1>1, <2>1, ExitForKeeps
  <2> QED
    BY <2>2 DEF ForSchedules, AtFor, SameUpTo, Depth, Restored
<1>10. ASSUME NEW c \in Conds, OpenIf(c)
       PROVE  ForSchedules(ctx, open)' /\ Restored
  <2>1. CASE ~IfError(c)
    <3> DEFINE s == Scope("then", c, ctx)
    <3>1. ctx' = EnterIf(ctx, c) /\ open' = Append(open, s)
      BY <1>10, <2>1 DEF OpenIf
    <3>2. s \in Scopes /\ ForSchedules(ctx', Append(open, s))
      BY <1>1, <3>1, SourceAssumption, GoodEnterIf, EnterIfKeeps
    <3> HIDE DEF s
    <3> QED
      BY <1>4, <3>1, <3>2
  <2>2. CASE IfError(c)
    BY <1>3, <1>10, <2>2 DEF OpenIf
  <2> QED
    BY <2>1, <2>2
<1>11. ASSUME ElseBranch
       PROVE  ForSchedules(ctx, open)' /\ Restored
  <2>1. CASE Exit
    BY <1>3, <2>1 DEF Exit
  <2>2. CASE ~Exit
    <3> DEFINE at == ExitIf(ctx)
    <3>1. open # << >> /\ Back(open).kind = "then"
      BY <1>11 DEF ElseBranch, EndOfBody
    <3>2. PICK op \in Negations(Back(open).node.op) :
            LET c == [Back(open).node EXCEPT !.op = op] IN
              /\ ctx' = EnterIf(at, c)
              /\ open' = Append(PopBack(open), Scope("else", c, at))
      BY <1>11, <2>2 DEF ElseBranch
    <3> DEFINE c == [Back(open).node EXCEPT !.op = op]
    <3>3. c \in CondSet
      <4>1. Back(open).node \in CondSet
        BY <1>1, <3>1, BackOpen
      <4>2. op \in Ops
        BY <4>1 DEF Negations, Ops, Comparisons
      <4> QED
        BY <4>1, <4>2 DEF CondSet
    <3>4. /\ Good(at, PopBack(open)) /\ PopBack(open) \in Seq(Scopes)
          /\ ForSchedules(at, PopBack(open))
      BY <1>1, <3>1, GoodExitIf, BackOpen, ExitIfKeeps
    <3>5. ctx' = EnterIf(at, c) /\ open' = Append(PopBack(open), Scope("else", c, at))
      BY <3>2
    <3> HIDE DEF c, at
    <3>6. /\ Scope("else", c, at) \in Scopes
          /\ ForSchedules(EnterIf(at, c), Append(PopBack(open), Scope("else", c, at)))
      BY <3>3, <3>4, GoodEnterIf, EnterIfKeeps
    <3>7. Restored
      BY <3>1 DEF Restored
    <3>8. ForSchedules(ctx', open')
      BY <3>5, <3>6
    <3> QED
      BY <3>7, <3>8 DEF ForSchedules, AtFor, SameUpTo, Depth
  <2> QED
    BY <2>1, <2>2
<1>12. ASSUME CloseIf
       PROVE  ForSchedules(ctx, open)' /\ Restored
  <2>1. open # << >> /\ Back(open).kind # "for" /\ ctx' = ExitIf(ctx) /\ open' = PopBack(open)
    BY <1>12 DEF CloseIf, EndOfBody
  <2>2. ForSchedules(ctx', open')
    BY <1>1, <2>1, ExitIfKeeps
  <2> QED
    BY <2>1, <2>2 DEF ForSchedules, AtFor, SameUpTo, Depth, Restored
<1> QED
  BY <1>5, <1>6, <1>7, <1>8, <1>9, <1>10, <1>11, <1>12 DEF Next, Terminated

(* When every loop body takes at least one position, exitFor leaves the    *)
(* context enterFor was called in, at any depth and after any structures,  *)
(* statements and calls: what it pops without looking is what was pushed.  *)
THEOREM ForsAreRestored ==
  ASSUME AllowEmptyBody = FALSE
  PROVE  Spec => ExitForRestores
<1>1. Init => IInv /\ ForSchedules(ctx, open)
  BY InitInvariant, InitForSchedules
<1>2. (IInv /\ ForSchedules(ctx, open)) /\ [Next]_vars => (IInv /\ ForSchedules(ctx, open))'
  BY NextInvariant, StepRestores
<1>3. IInv /\ ForSchedules(ctx, open) /\ [Next]_vars
        => [Len(open') < Len(open) /\ Back(open).kind = "for" => ctx' = Back(open).at]_vars
  BY StepRestores DEF Restored
<1> QED
  BY <1>1, <1>2, <1>3, PTL DEF Spec, ExitForRestores
===============================================================================
