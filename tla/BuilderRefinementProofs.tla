----------------------- MODULE BuilderRefinementProofs ------------------------
(***************************************************************************)
(* Every build is a walk: the builder of the root function takes the steps *)
(* of FunctionWalk, and those of the builders nested in it are stutters.   *)
(* WalkInv of BuilderWalkProofs says that what it inlines are blocks.      *)
(***************************************************************************)
EXTENDS BuilderRefinement, BuilderWalkProofs

(* The two machines share ExecSchedule and PositionContext: the instance *)
(* in the mapping and the modules extended here define the same.         *)
LEMMA SameOperators ==
  /\ Walk!EmptyContext = EmptyContext
  /\ \A c : Walk!Advance(c) = Advance(c)
  /\ \A c, p : Walk!SkipTo(c, p) = SkipTo(c, p)
  /\ \A c, h : Walk!EnterFor(c, h) = EnterFor(c, h)
  /\ \A c : Walk!ExitFor(c) = ExitFor(c)
  /\ \A c, d : Walk!EnterIf(c, d) = EnterIf(c, d)
  /\ \A c : Walk!ExitIf(c) = ExitIf(c)
<1>1. Walk!EmptyContext = EmptyContext
  BY DEF Walk!EmptyContext, EmptyContext
<1>2. \A c : Walk!Advance(c) = Advance(c)
  BY DEF Walk!Advance, Advance, Walk!AdvanceSchedule, AdvanceSchedule, Walk!Back, Back,
         Walk!PopBack, PopBack, Walk!Num, Num
<1>3. \A c, p : Walk!SkipTo(c, p) = SkipTo(c, p)
  BY DEF Walk!SkipTo, SkipTo, Walk!SkipToPosition, SkipToPosition, Walk!PopBack, PopBack,
         Walk!Num, Num
<1>4. \A c, h : Walk!EnterFor(c, h) = EnterFor(c, h)
  BY DEF Walk!EnterFor, EnterFor, Walk!Constraint, Constraint, Walk!PushValue, PushValue,
         Walk!Var, Var, Walk!NewInvariants, NewInvariants, Walk!NamesIn, NamesIn
<1>5. \A c : Walk!ExitFor(c) = ExitFor(c)
  BY DEF Walk!ExitFor, ExitFor, Walk!PopBack, PopBack, Walk!PopValue, PopValue
<1>6. \A c, d : Walk!EnterIf(c, d) = EnterIf(c, d)
  BY DEF Walk!EnterIf, EnterIf, Walk!Constraint, Constraint
<1>7. \A c : Walk!ExitIf(c) = ExitIf(c)
  BY DEF Walk!ExitIf, ExitIf, Walk!PopBack, PopBack
<1> QED
  BY <1>1, <1>2, <1>3, <1>4, <1>5, <1>6, <1>7

(* Refusals and orders are the same as well. *)
LEMMA SameConditions ==
  /\ \A h : Walk!ForError(h) = ForError(h)
  /\ \A d : Walk!IfError(d) = IfError(d)
  /\ \A op : Walk!Negations(op) = Negations(op)
  /\ \A c : Walk!HasIterSpaceString(c) = HasIterSpaceString(c)
  /\ \A t : Walk!CanSkip(t) = CanSkip(t)
  /\ \A k, n, c : Walk!Scope(k, n, c) = Scope(k, n, c)
  /\ \A t : Walk!Back(t) = Back(t)
  /\ \A t : Walk!PopBack(t) = PopBack(t)
  /\ \A t, b : Walk!Place(t, b) = Place(t, b)
  /\ \A t, b : Walk!TuplePositions(t, b) = TuplePositions(t, b)
<1>1. \A h : Walk!ForError(h) = ForError(h)
  BY DEF Walk!ForError, ForError, Walk!ValidIncrement, ValidIncrement
<1>2. \A d : Walk!IfError(d) = IfError(d)
  BY DEF Walk!IfError, IfError
<1>3. \A op : Walk!Negations(op) = Negations(op)
  BY DEF Walk!Negations, Negations, Walk!Ops, Ops, Walk!Comparisons, Comparisons
<1>4. \A c : Walk!HasIterSpaceString(c) = HasIterSpaceString(c)
  BY DEF Walk!HasIterSpaceString, HasIterSpaceString, Walk!Comparisons, Comparisons
<1>5. \A t : Walk!CanSkip(t) = CanSkip(t)
  BY DEF Walk!CanSkip, CanSkip, Walk!Back, Back
<1>6. \A k, n, c : Walk!Scope(k, n, c) = Scope(k, n, c)
  BY DEF Walk!Scope, Scope
<1>7. \A t : Walk!Back(t) = Back(t) /\ Walk!PopBack(t) = PopBack(t)
  BY DEF Walk!Back, Back, Walk!PopBack, PopBack
<1>8. \A t, b : Walk!Place(t, b) = Place(t, b)
  BY DEF Walk!Place, Place, Walk!Back, Back, Walk!PopBack, PopBack, Walk!Num, Num
<1>9. \A t, b : Walk!TuplePositions(t, b) = TuplePositions(t, b)
  BY DEF Walk!TuplePositions, TuplePositions, Walk!Back, Back
<1> QED
  BY <1>1, <1>2, <1>3, <1>4, <1>5, <1>6, <1>7, <1>8, <1>9

-------------------------------------------------------------------------------
(* The stage of a builder's statement. *)
Stage(b) == IF b.stmt.kind \in {"none", "call", "return"} THEN b.stmt.kind ELSE "simple"

(* A step of a nested builder is none of the walk's. *)
LEMMA NestedStep ==
  ASSUME IInv, Len(frames) > 1, NEW b, frames' = [frames EXCEPT ![Len(frames)] = b],
         UNCHANGED status
  PROVE  UNCHANGED Walk!vars
<1> DEFINE S == Elements(frames) \cup {b}
           n == Len(frames)
<1>1. n \in Nat \ {0} /\ frames \in Seq(S) /\ n \in 1 .. n /\ b \in S
  BY AtWork, Wider DEF IInv
<1> HIDE DEF S
<1>2. /\ Len(frames') = n
      /\ \A i \in 1 .. n : frames'[i] = IF i = n THEN b ELSE frames[i]
  BY <1>1, ExceptSeq
<1>3. Len(frames') # 1 /\ Len(frames) # 1 /\ frames'[1] = frames[1]
  BY <1>1, <1>2
<1> QED
  BY <1>3 DEF Walk!vars, EntryContext, EntryStage

(* A step of the entry function's builder. *)
LEMMA OwnStep ==
  ASSUME IInv, ~(Len(frames) > 1), NEW b, NEW c,
         frames' = [frames EXCEPT ![Len(frames)] = b], positionContext' = c
  PROVE  /\ EntryContext = positionContext /\ EntryContext' = c
         /\ frames[1] = Top /\ frames'[1] = b
         /\ EntryStage = Stage(Top) /\ EntryStage' = Stage(b)
<1> DEFINE S == Elements(frames) \cup {b}
<1>1. Len(frames) \in Nat \ {0} /\ frames \in Seq(S) /\ b \in S /\ Top = frames[Len(frames)]
  BY AtWork, Wider DEF IInv
<1>2. Len(frames) = 1 /\ 1 \in 1 .. Len(frames)
  BY <1>1
<1> HIDE DEF S
<1>3. /\ Len(frames') = 1
      /\ \A i \in 1 .. 1 : frames'[i] = IF i = 1 THEN b ELSE frames[i]
  BY <1>1, <1>2, ExceptSeq
<1>4. frames'[1] = b
  BY <1>3
<1>5. frames[1] = Top
  BY <1>1, <1>2
<1> QED
  BY <1>2, <1>3, <1>4, <1>5 DEF EntryContext, EntryStage, Stage

(* It does something to the statement it is at that the walk does not see. *)
LEMMA OwnStutter ==
  ASSUME IInv, NEW b, Stay(b),
         Stage(b) = Stage(Top), b.haveFoundAReturn = Top.haveFoundAReturn,
         b.started = Top.started, b.open = Top.open,
         Schedules(b.computation) = Schedules(Top.computation)
  PROVE  UNCHANGED Walk!vars
<1>1. /\ frames' = [frames EXCEPT ![Len(frames)] = b] /\ positionContext' = positionContext
      /\ UNCHANGED status
  BY DEF Stay, Move
<1>2. CASE Len(frames) > 1
  BY <1>1, <1>2, NestedStep
<1>3. CASE ~(Len(frames) > 1)
  <2>1. /\ EntryContext = positionContext /\ EntryContext' = positionContext
        /\ frames[1] = Top /\ frames'[1] = b
        /\ EntryStage = Stage(Top) /\ EntryStage' = Stage(b)
    BY <1>1, <1>3, OwnStep
  <2> QED
    BY <1>1, <2>1 DEF Walk!vars
<1> QED
  BY <1>2, <1>3

(* Any builder stopping stops the walk. *)
LEMMA Stops ==
  ASSUME Running, NEW how \in {"exit", "uncaught", "crash"}, Stop(how)
  PROVE  Walk!Reject
BY DEF Running, Stop, Walk!Reject, Walk!Exit, EntryContext, EntryStage

-------------------------------------------------------------------------------
WalkStep == Walk!Next \/ UNCHANGED Walk!vars

(* A refusal, an exception nobody catches or a null pointer is the walk's  *)
(* Reject.                                                                 *)
LEMMA Rejects ==
  ASSUME Running, Exit \/ Stop("uncaught") \/ Stop("crash")
  PROVE  WalkStep
BY Stops DEF Exit, WalkStep, Walk!Next

(* The entry function's BeginStmt is the walk's; a nested one is a stutter. *)
LEMMA SimBeginStmt ==
  ASSUME IInv, WalkInv, NEW s \in Source[Top.fn], BeginStmt(s) PROVE WalkStep
<1>1. /\ BuilderOK(Top) /\ Top.fn \in Fns /\ FrameOK(Top, positionContext)
      /\ Running /\ Top.stmt.kind = "none"
  BY WorkingFrame DEF BuilderOK, BeginStmt, CanStart, BetweenStmts
<1>2. CASE Exit
  BY <1>1, <1>2, Rejects
<1>3. CASE s.kind # "unsupported"
  <2> DEFINE b == [Started EXCEPT !.stmt = s, !.todo = Work(s)]
             c == Advance(positionContext)
             kind == Stage(b)
  <2>1. /\ frames' = [frames EXCEPT ![Len(frames)] = b] /\ positionContext' = c
        /\ UNCHANGED status
    BY <1>3 DEF BeginStmt, Move
  <2>2. /\ b.stmt = s /\ b.started = Top.started + 1
        /\ b.open = Top.open /\ b.haveFoundAReturn = Top.haveFoundAReturn
        /\ b.computation = Top.computation
    BY <1>1 DEF BuilderOK, Started
  <2> HIDE DEF b, c
  <2>3. CASE Len(frames) > 1
    BY <2>1, <2>3, NestedStep DEF WalkStep
  <2>4. CASE ~(Len(frames) > 1)
    <3>1. /\ EntryContext = positionContext /\ EntryContext' = c
          /\ frames[1] = Top /\ frames'[1] = b
          /\ EntryStage = Stage(Top) /\ EntryStage' = kind
      BY <2>1, <2>4, OwnStep
    <3>2. kind \in {"simple", "call", "return"} /\ Stage(Top) = "none"
      BY <1>1, <1>3, <2>2, WorkOfStmt DEF Stage
    <3>3. status = "running" /\ Top.started \in Nat
      BY <1>1 DEF Running, FrameOK
    <3>4. Walk!Advance(positionContext) = c
      BY SameOperators DEF c
    <3> HIDE DEF kind
    <3>5. Walk!BeginStmt(kind)
      BY <2>1, <2>2, <3>1, <3>2, <3>3, <3>4 DEF Walk!BeginStmt, Walk!Start
    <3> QED
      BY <3>2, <3>5 DEF WalkStep, Walk!Next
  <2> QED
    BY <2>3, <2>4
<1> QED
  BY <1>2, <1>3 DEF BeginStmt

(* Declarations and accesses are stutters. *)
LEMMA SimDeclare == ASSUME IInv, WalkInv, Declare PROVE WalkStep
<1> DEFINE d == Head(Top.todo).decl
           b == [Top EXCEPT !.varDecls = Append(@, d.name),
                            !.todo = Initialise(d) \o Tail(@)]
<1>1. BuilderOK(Top) /\ Running
  BY WorkingFrame DEF Declare, Working
<1>2. CASE Exit
  BY <1>1, <1>2, Rejects
<1>3. CASE Stay(b)
  <2>1. /\ b.stmt = Top.stmt /\ b.started = Top.started
        /\ b.open = Top.open /\ b.haveFoundAReturn = Top.haveFoundAReturn
        /\ b.computation = Top.computation
    BY <1>1 DEF BuilderOK
  <2> HIDE DEF b
  <2> QED
    BY <1>3, <2>1, OwnStutter DEF WalkStep, Stage
<1> QED
  BY <1>2, <1>3 DEF Declare

LEMMA SimAccessed == ASSUME IInv, WalkInv, NEW accesses, Accessed(accesses) PROVE WalkStep
<1> DEFINE b == [Top EXCEPT !.dataAccesses = @ \cup accesses, !.todo = Tail(@)]
<1>1. BuilderOK(Top) /\ Stay(b)
  BY WorkingFrame DEF Accessed
<1>2. /\ b.stmt = Top.stmt /\ b.started = Top.started
      /\ b.open = Top.open /\ b.haveFoundAReturn = Top.haveFoundAReturn
      /\ b.computation = Top.computation
  BY <1>1 DEF BuilderOK
<1> HIDE DEF b
<1> QED
  BY <1>1, <1>2, OwnStutter DEF WalkStep, Stage

(* What the end of a call leaves of the builder. *)
LEMMA AfterCallFields ==
  ASSUME NEW b, DOMAIN b = DOMAIN Builder(b.fn), NEW read
  PROVE  LET c == AfterCall(b, read) IN
           /\ c.stmt = IF b.stmt.kind = "call" THEN NoStmt ELSE b.stmt
           /\ c.started = b.started /\ c.open = b.open
           /\ c.haveFoundAReturn = b.haveFoundAReturn
           /\ c.computation = b.computation
BY DEF AfterCall, Builder

(* A call that is not inlined: the walk's ReservedCall. *)
LEMMA SimCallReserved == ASSUME IInv, WalkInv, CallReserved PROVE WalkStep
<1>1. PICK read : Stay(AfterCall(Top, read))
  BY Zenon DEF CallReserved
<1> DEFINE b == AfterCall(Top, read)
<1>2. /\ BuilderOK(Top) /\ Running /\ DOMAIN Top = DOMAIN Builder(Top.fn)
  BY WorkingFrame DEF BuilderOK, Builder, CallReserved, Working
<1>3. /\ b.stmt = IF Top.stmt.kind = "call" THEN NoStmt ELSE Top.stmt
      /\ b.started = Top.started /\ b.open = Top.open
      /\ b.haveFoundAReturn = Top.haveFoundAReturn
      /\ b.computation = Top.computation
  BY <1>2, AfterCallFields
<1>4. Stay(b)
  BY <1>1
<1> HIDE DEF b
<1>5. CASE Top.stmt.kind # "call"
  BY <1>3, <1>4, <1>5, OwnStutter DEF WalkStep, Stage
<1>6. CASE Top.stmt.kind = "call"
  <2>1. /\ frames' = [frames EXCEPT ![Len(frames)] = b] /\ positionContext' = positionContext
        /\ UNCHANGED status
    BY <1>4 DEF Stay, Move
  <2>2. CASE Len(frames) > 1
    BY <2>1, <2>2, NestedStep DEF WalkStep
  <2>3. CASE ~(Len(frames) > 1)
    <3>1. /\ EntryContext = positionContext /\ EntryContext' = positionContext
          /\ frames[1] = Top /\ frames'[1] = b
          /\ EntryStage = Stage(Top) /\ EntryStage' = Stage(b)
      BY <2>1, <2>3, OwnStep
    <3>2. Stage(Top) = "call" /\ Stage(b) = "none" /\ status = "running"
      BY <1>2, <1>3, <1>6 DEF Stage, NoStmt, Running
    <3>3. Walk!ReservedCall
      BY <1>3, <2>1, <3>1, <3>2 DEF Walk!ReservedCall
    <3> QED
      BY <3>3 DEF WalkStep, Walk!Next
  <2> QED
    BY <2>2, <2>3
<1> QED
  BY <1>5, <1>6

(* The end of a return, and of a statement. *)
LEMMA SimAddReturn == ASSUME IInv, WalkInv, AddReturn PROVE WalkStep
<1> DEFINE value == Top.stmt.value
           returned == Top.computation.returnValues \o
                         [i \in 1 .. Len(value) |-> DataSpace(value[i].name)]
           b == [Top EXCEPT !.haveFoundAReturn = TRUE, !.stmt = NoStmt,
                            !.computation.returnValues = returned]
<1>1. /\ BuilderOK(Top) /\ Running /\ FrameOK(Top, positionContext)
      /\ DOMAIN Top.computation = {"dataSpaces", "stmts", "returnValues"}
      /\ Top.stmt.kind = "return"
  BY WorkingFrame DEF BuilderOK, ComputationOK, AddReturn
<1>2. CASE Exit
  BY <1>1, <1>2, Rejects
<1>3. CASE Stay(b) /\ ~Top.haveFoundAReturn /\ positionContext.nestLevel = 0
  <2> HIDE DEF returned
  <2>1. /\ b.stmt = NoStmt /\ b.started = Top.started
        /\ b.open = Top.open /\ b.haveFoundAReturn = TRUE
        /\ b.computation = [Top.computation EXCEPT !.returnValues = returned]
    BY <1>1 DEF BuilderOK
  <2> HIDE DEF b
  <2>2. Schedules(b.computation) = Schedules(Top.computation)
    BY <1>1, <2>1 DEF Schedules
  <2>3. /\ frames' = [frames EXCEPT ![Len(frames)] = b] /\ positionContext' = positionContext
        /\ UNCHANGED status
    BY <1>3 DEF Stay, Move
  <2>4. CASE Len(frames) > 1
    BY <2>3, <2>4, NestedStep DEF WalkStep
  <2>5. CASE ~(Len(frames) > 1)
    <3>1. /\ EntryContext = positionContext /\ EntryContext' = positionContext
          /\ frames[1] = Top /\ frames'[1] = b
          /\ EntryStage = Stage(Top) /\ EntryStage' = Stage(b)
      BY <2>3, <2>5, OwnStep
    <3>2. Stage(Top) = "return" /\ Stage(b) = "none" /\ status = "running"
      BY <1>1, <2>1 DEF Stage, NoStmt, Running
    <3>3. Walk!AddReturn
      BY <1>3, <2>1, <2>2, <2>3, <3>1, <3>2 DEF Walk!AddReturn
    <3> QED
      BY <3>3 DEF WalkStep, Walk!Next
  <2> QED
    BY <2>4, <2>5
<1> QED
  BY <1>2, <1>3 DEF AddReturn

LEMMA SimAddStmt == ASSUME IInv, WalkInv, AddStmt PROVE WalkStep
<1> DEFINE reads == NamesAccessed(TRUE)
           writes == NamesAccessed(FALSE)
           new == NewDataSpaces(reads, writes)
           stmt == [schedule |-> positionContext.schedule, reads |-> reads,
                    writes |-> writes]
           b == [Top EXCEPT !.computation.dataSpaces = @ \cup new,
                            !.computation.stmts = Append(@, stmt),
                            !.stmt = NoStmt]
           c == positionContext
           s == c.schedule
<1>1. /\ FrameOK(Top, c) /\ BuilderOK(Top) /\ Running /\ AtStatement(c)
      /\ DOMAIN Top.computation = {"dataSpaces", "stmts", "returnValues"}
      /\ IsSequence(Top.computation.stmts)
      /\ Top.stmt.kind \notin {"none", "return"} /\ Top.todo = << >>
  BY WorkingFrame DEF BuilderOK, ComputationOK, AddStmt, FrameOK
<1>2. CASE Exit \/ Stop("uncaught")
  BY <1>1, <1>2, Rejects
<1>3. CASE Stay(b) /\ ~Top.haveFoundAReturn /\ HasIterSpaceString(c)
  <2>1. stmt.schedule = s
    OBVIOUS
  <2> HIDE DEF new, stmt
  <2>2. /\ b.stmt = NoStmt /\ b.started = Top.started
        /\ b.open = Top.open /\ b.haveFoundAReturn = Top.haveFoundAReturn
        /\ b.computation = [Top.computation EXCEPT
                              !.dataSpaces = Top.computation.dataSpaces \cup new,
                              !.stmts = Append(Top.computation.stmts, stmt)]
    BY <1>1 DEF BuilderOK
  <2> HIDE DEF b
  <2>3. b.computation.stmts = Append(Top.computation.stmts, stmt)
    BY <1>1, <2>2
  <2>4. s \in Seq(Vals) /\ Schedules(Top.computation) \in Seq(Seq(Vals))
    BY <1>1, StatementFacts DEF FrameOK, BlockOK, IsFormed
  <2>5. Schedules(b.computation) = Append(Schedules(Top.computation), s)
    <3> HIDE DEF s
    <3> QED
      BY <1>1, <2>1, <2>3, <2>4, SchedulesAppend
  <2>6. /\ frames' = [frames EXCEPT ![Len(frames)] = b] /\ positionContext' = c
        /\ UNCHANGED status
    BY <1>3 DEF Stay, Move
  <2>7. CASE Len(frames) > 1
    BY <2>6, <2>7, NestedStep DEF WalkStep
  <2>8. CASE ~(Len(frames) > 1)
    <3>1. /\ EntryContext = c /\ EntryContext' = c
          /\ frames[1] = Top /\ frames'[1] = b
          /\ EntryStage = Stage(Top) /\ EntryStage' = Stage(b)
      BY <2>6, <2>8, OwnStep
    <3>2. Stage(b) = "none" /\ status = "running"
      BY <1>1, <2>2 DEF Stage, NoStmt, Running
    <3>3. Stage(Top) = "simple"
      <4>1. Top.stmt.kind # "call"
        BY <1>1 DEF FrameOK, StmtWork
      <4> QED
        BY <1>1, <4>1 DEF Stage
    <3>4. Walk!HasIterSpaceString(c)
      BY <1>3, SameConditions
    <3>5. Walk!AddStmt
      BY <1>3, <2>2, <2>5, <2>6, <3>1, <3>2, <3>3, <3>4 DEF Walk!AddStmt
    <3> QED
      BY <3>5 DEF WalkStep, Walk!Next
  <2> QED
    BY <2>7, <2>8
<1> QED
  BY <1>1, <1>2, <1>3, Zenon DEF AddStmt

(* Inlining is one step of the walk, whose callee is the block inlined. *)
LEMMA SimInlineCall ==
  ASSUME IInv, WalkInv, InlineCall,
         AllowEmptyBody = FALSE, \A p : IsBlock(p) => p \in Blocks
  PROVE  WalkStep
<1> DEFINE f == Call.callee
           callee == subComputations[f]
           ctx == positionContext
           t == ctx.schedule
           values == callee.returnValues
           value == ReturnedValue(callee, renamings)
           read == IF values # << >> /\ Head(Top.todo).reads /\ ~IsIterator(value)
                     THEN {[name |-> value, isRead |-> TRUE]} ELSE {}
           into == AppendComputation(Top.computation, f, callee, t, Call.args, renamings)
           a == [Top EXCEPT !.started = @ + 1, !.computation = into]
           b == AfterCall(a, read)
           ts == Schedules(Top.computation)
           block == Block(f, callee)
<1>1. /\ FrameOK(Top, ctx) /\ BuilderOK(Top) /\ Top.fn \in Fns
      /\ ComputationOK(Top.computation)
      /\ Running /\ Top.todo # << >> /\ f \in DOMAIN subComputations
  BY WorkingFrame DEF BuilderOK, InlineCall, Working
<1>2. CASE Exit
  BY <1>1, <1>2, Rejects
<1>3. CASE ~Exit
  <2>1. /\ frames' = [frames EXCEPT ![Len(frames)] = b]
        /\ \E last \in TuplePositions(t, block) : ctx' = Advance(SkipTo(ctx, last))
        /\ UNCHANGED status
        /\ HasIterSpaceString(ctx) /\ CanSkip(t)
    BY <1>3 DEF InlineCall, PastBlock
  <2>2. PICK last \in TuplePositions(t, block) : ctx' = Advance(SkipTo(ctx, last))
    BY <2>1
  <2> DEFINE c == Advance(SkipTo(ctx, last))
  <2>3. /\ f \in Fns /\ ComputationOK(callee) /\ IsFormed(Schedules(callee))
        /\ block \in Blocks
    <3>1. f \in DOMAIN subComputations /\ AllowEmptyBody = FALSE
      BY <1>1
    <3> HIDE DEF f
    <3> QED
      BY <3>1, CalleeBlock
  <2> HIDE DEF callee, f, read
  <2>4. /\ DOMAIN a = DOMAIN Builder(a.fn)
        /\ a.stmt = Top.stmt /\ a.todo = Top.todo
        /\ a.started = Top.started + 1
        /\ a.open = Top.open /\ a.haveFoundAReturn = Top.haveFoundAReturn
        /\ a.computation = into
    BY <1>1 DEF BuilderOK, Builder
  <2> HIDE DEF a
  <2>5. /\ b.stmt = IF Top.stmt.kind = "call" THEN NoStmt ELSE Top.stmt
        /\ b.started = Top.started + 1 /\ b.open = Top.open
        /\ b.haveFoundAReturn = Top.haveFoundAReturn
        /\ b.computation = into
    BY <2>4, AfterCallFields
  <2> HIDE DEF b
  <2>6. StmtWork(Top) /\ Top.stmt.kind \notin {"none", "return"}
    BY <1>1 DEF FrameOK, StmtWork
  <2>7. AtStatement(ctx) /\ Good(ctx, Top.open)
    BY <1>1, <2>6 DEF FrameOK
  <2>8. t \in Seq(Vals) /\ t # << >> /\ ~Back(t).valueIsVar /\ ts \in Seq(Seq(Vals))
    BY <1>1, <2>7, StatementFacts DEF FrameOK, BlockOK, IsFormed
  <2>9. Schedules(into) = ts \o Place(t, block)
    <3> HIDE DEF t
    <3> QED
      BY <1>1, <2>3, <2>8, SchedulesInlined
  <2> HIDE DEF into
  <2>10. CASE Len(frames) > 1
    BY <2>1, <2>10, NestedStep DEF WalkStep
  <2>11. CASE ~(Len(frames) > 1)
    <3>1. /\ EntryContext = ctx /\ EntryContext' = c
          /\ frames[1] = Top /\ frames'[1] = b
          /\ EntryStage = Stage(Top) /\ EntryStage' = Stage(b)
      BY <2>1, <2>2, <2>11, OwnStep
    <3> HIDE DEF block, ts, c
    <3>2. /\ Stage(Top) \in {"simple", "call"} /\ status = "running"
          /\ Stage(b) = IF Stage(Top) = "call" THEN "none" ELSE Stage(Top)
      BY <1>1, <2>5, <2>6 DEF Stage, NoStmt, Running
    <3>3. Top.started \in Nat
      BY <1>1 DEF FrameOK
    <3>4. /\ Walk!HasIterSpaceString(ctx) /\ Walk!CanSkip(t)
          /\ Walk!Place(t, block) = Place(t, block)
          /\ Walk!TuplePositions(t, block) = TuplePositions(t, block)
          /\ Walk!Advance(Walk!SkipTo(ctx, last)) = c
      BY <2>1, SameConditions, SameOperators DEF c
    <3>5. Walk!InlineCall(block)
      <4>1. Schedules(b.computation) = ts \o Place(t, block) /\ ts = Schedules(Top.computation)
        BY <2>5, <2>9 DEF ts
      <4>2. \E l \in Walk!TuplePositions(t, block) :
              EntryContext' = Walk!Advance(Walk!SkipTo(ctx, l))
        BY <2>2, <3>1, <3>4
      <4> QED
        BY <2>1, <2>5, <3>1, <3>2, <3>3, <3>4, <4>1, <4>2 DEF Walk!InlineCall
    <3> QED
      BY <2>3, <3>5 DEF WalkStep, Walk!Next
  <2> QED
    BY <2>10, <2>11
<1> QED
  BY <1>2, <1>3

(* The caller waits, its context set aside; the shared one is the callee's. *)
LEMMA SimBuildCallee == ASSUME IInv, WalkInv, BuildCallee PROVE WalkStep
<1> DEFINE n == Len(frames)
           caller == [Top EXCEPT !.oldContext = positionContext, !.building = TRUE]
           fs == [frames EXCEPT ![n] = caller]
           new == Builder(Call.callee)
           S == Elements(frames) \cup {caller, new}
<1>1. frames' = Append(fs, new) /\ UNCHANGED status
  BY AtWork DEF BuildCallee, IInv
<1>2. n \in Nat \ {0} /\ BuilderOK(Top) /\ Top = frames[n]
  BY WorkingFrame, AtWork DEF IInv
<1>3. frames \in Seq(S) /\ caller \in S /\ new \in S /\ n \in 1 .. n
  BY <1>2, AtWork, Wider DEF IInv
<1>4. /\ caller.stmt = Top.stmt /\ caller.started = Top.started /\ caller.open = Top.open
      /\ caller.haveFoundAReturn = Top.haveFoundAReturn
      /\ caller.computation = Top.computation /\ caller.oldContext = positionContext
  BY <1>2 DEF BuilderOK
<1> HIDE DEF S, caller, new, n
<1>5. /\ fs \in Seq(S) /\ Len(fs) = n
      /\ \A i \in 1 .. n : fs[i] = IF i = n THEN caller ELSE frames[i]
  BY <1>3, ExceptSeq DEF n
<1> HIDE DEF fs
<1>6. /\ Len(Append(fs, new)) = n + 1
      /\ \A i \in 1 .. n : Append(fs, new)[i] = fs[i]
  BY <1>3, <1>5, AppendProperties
<1>7. Len(frames') # 1 /\ 1 \in 1 .. n /\ frames'[1] = IF n = 1 THEN caller ELSE frames[1]
  BY <1>1, <1>2, <1>5, <1>6
<1>8. UNCHANGED Walk!vars
  <2>1. CASE n = 1
    <3>1. frames'[1] = caller /\ frames[1] = Top
      BY <1>2, <1>7, <2>1
    <3> QED
      BY <1>1, <1>4, <1>7, <2>1, <3>1 DEF Walk!vars, EntryContext, EntryStage, n
  <2>2. CASE n # 1
    BY <1>1, <1>7, <2>2 DEF Walk!vars, EntryContext, EntryStage, n
  <2> QED
    BY <2>1, <2>2
<1> QED
  BY <1>8 DEF WalkStep

(* It goes on in the context set aside. *)
LEMMA SimFinishCallee == ASSUME IInv, WalkInv, FinishCallee PROVE WalkStep
<1> DEFINE n == Len(frames)
           S == Elements(frames)
           fs == PopBack(frames)
           m == Len(fs)
           caller == [fs[m] EXCEPT !.oldContext = EmptyContext]
           T == S \cup {caller}
<1>1. /\ frames' = [fs EXCEPT ![m] = caller] /\ positionContext' = fs[m].oldContext
      /\ UNCHANGED status /\ n > 1
  BY DEF FinishCallee, CallerContext, Back
<1>2. n \in Nat \ {0} /\ frames \in Seq(S) /\ frames # << >>
  BY AtWork DEF IInv, BuildersOK
<1> HIDE DEF S
<1>3. fs \in Seq(S) /\ m = n - 1 /\ \A i \in 1 .. n - 1 : fs[i] = frames[i]
  BY <1>2, PopBackProperties
<1> HIDE DEF fs
<1>4. m \in Nat \ {0} /\ m \in 1 .. m /\ 1 \in 1 .. m /\ m \in 1 .. n /\ fs[m] = frames[m]
  BY <1>1, <1>2, <1>3
<1>5. BuilderOK(fs[m])
  BY <1>4 DEF IInv, BuildersOK
<1>6. /\ caller.stmt = fs[m].stmt /\ caller.started = fs[m].started
      /\ caller.open = fs[m].open /\ caller.haveFoundAReturn = fs[m].haveFoundAReturn
      /\ caller.computation = fs[m].computation
  BY <1>5 DEF BuilderOK
<1>7. fs \in Seq(T) /\ caller \in T
  BY <1>3, Wider
<1> HIDE DEF caller, T, n, m
<1>8. /\ Len(frames') = m
      /\ \A i \in 1 .. m : frames'[i] = IF i = m THEN caller ELSE fs[i]
  BY <1>1, <1>4, <1>7, ExceptSeq DEF m
<1>9. /\ frames'[1] = IF m = 1 THEN caller ELSE frames[1]
      /\ Len(frames) # 1 /\ fs[1] = frames[1]
  BY <1>1, <1>2, <1>3, <1>4, <1>8 DEF n
<1>10. UNCHANGED Walk!vars
  <2>1. CASE m = 1
    <3>1. frames'[1] = caller /\ fs[m] = frames[1] /\ Len(frames') = 1
      BY <1>8, <1>9, <2>1
    <3>2. EntryContext' = EntryContext
      BY <1>1, <1>9, <3>1 DEF EntryContext
    <3> QED
      BY <1>1, <1>6, <3>1, <3>2 DEF Walk!vars, EntryStage
  <2>2. CASE m # 1
    BY <1>1, <1>8, <1>9, <2>2 DEF Walk!vars, EntryContext, EntryStage
  <2> QED
    BY <2>1, <2>2
<1> QED
  BY <1>10 DEF WalkStep

-------------------------------------------------------------------------------
(* The structures: what a step between statements changes. *)
LEMMA OwnMove ==
  ASSUME IInv, WalkInv, BetweenStmts, NEW c, NEW b, Move(c, b),
         b.stmt = Top.stmt, b.haveFoundAReturn = Top.haveFoundAReturn,
         b.computation = Top.computation
  PROVE  \/ WalkStep
         \/ /\ EntryContext = positionContext /\ EntryContext' = c
            /\ frames[1] = Top /\ frames'[1] = b
            /\ EntryStage = "none" /\ EntryStage' = "none"
            /\ status = "running"
            /\ UNCHANGED <<status, frames[1].haveFoundAReturn, Schedules(frames[1].computation)>>
<1>1. /\ frames' = [frames EXCEPT ![Len(frames)] = b] /\ positionContext' = c
      /\ UNCHANGED status /\ Top.stmt.kind = "none" /\ status = "running"
  BY DEF Move, BetweenStmts, Running
<1>2. CASE Len(frames) > 1
  BY <1>1, <1>2, NestedStep DEF WalkStep
<1>3. CASE ~(Len(frames) > 1)
  <2>1. /\ EntryContext = positionContext /\ EntryContext' = c
        /\ frames[1] = Top /\ frames'[1] = b
        /\ EntryStage = Stage(Top) /\ EntryStage' = Stage(b)
    BY <1>1, <1>3, OwnStep
  <2> QED
    BY <1>1, <2>1 DEF Stage
<1> QED
  BY <1>2, <1>3

(* One lemma for each step between statements. *)
LEMMA SimOpenFor == ASSUME IInv, WalkInv, NEW h \in Headers, OpenFor(h) PROVE WalkStep
<1> DEFINE at == Advance(positionContext)
           new == Append(Top.open, Scope("for", h, at))
           c == EnterFor(at, h)
           b == [Started EXCEPT !.open = new]
<1>1. /\ BetweenStmts /\ Running /\ Len(Top.open) < MaxDepth
      /\ IF ForError(h) = "none" THEN Move(c, b) ELSE Exit
  BY DEF OpenFor, CanOpen, CanStart, BetweenStmts, Enter
<1>2. CASE Exit
  BY <1>1, <1>2, Rejects
<1>3. CASE ForError(h) = "none" /\ Move(c, b)
  <2>1. BuilderOK(Top) /\ Top.started \in Nat
    BY <1>1, Between
  <2>2. /\ b.stmt = Top.stmt /\ b.haveFoundAReturn = Top.haveFoundAReturn
        /\ b.computation = Top.computation /\ b.started = Top.started + 1 /\ b.open = new
    BY <2>1 DEF BuilderOK, Started
  <2>3. /\ Walk!ForError(h) = "none" /\ Walk!EnterFor(Walk!Advance(positionContext), h) = c
        /\ Walk!Scope("for", h, Walk!Advance(positionContext)) = Scope("for", h, at)
    BY <1>3, SameOperators, SameConditions
  <2> HIDE DEF b, c
  <2>4. \/ WalkStep
        \/ /\ EntryContext = positionContext /\ EntryContext' = c
           /\ frames[1] = Top /\ frames'[1] = b
           /\ EntryStage = "none" /\ EntryStage' = "none"
           /\ status = "running"
           /\ UNCHANGED <<status, frames[1].haveFoundAReturn, Schedules(frames[1].computation)>>
    BY <1>1, <1>3, <2>2, OwnMove
  <2>5. WalkStep \/ Walk!OpenFor(h)
    BY <1>1, <2>1, <2>2, <2>3, <2>4 DEF Walk!OpenFor, Walk!Start
  <2> QED
    BY <2>5 DEF WalkStep, Walk!Next
<1> QED
  BY <1>1, <1>2, <1>3

LEMMA SimCloseFor == ASSUME IInv, WalkInv, CloseFor PROVE WalkStep
<1> DEFINE o == Top.open
           c == ExitFor(positionContext)
           b == [Top EXCEPT !.open = PopBack(o)]
<1>1. /\ BetweenStmts /\ o # << >> /\ Back(o).kind = "for"
      /\ AllowEmptyBody \/ ~Back(positionContext.schedule).valueIsVar
      /\ Move(c, b)
  BY DEF CloseFor, EndOfBody, Leave
<1>2. BuilderOK(Top)
  BY <1>1, Between
<1>3. /\ b.stmt = Top.stmt /\ b.haveFoundAReturn = Top.haveFoundAReturn
      /\ b.computation = Top.computation /\ b.started = Top.started /\ b.open = PopBack(o)
  BY <1>2 DEF BuilderOK
<1>4. /\ Walk!ExitFor(positionContext) = c /\ Walk!Back(o) = Back(o)
      /\ Walk!PopBack(o) = PopBack(o)
      /\ Walk!Back(positionContext.schedule) = Back(positionContext.schedule)
  BY SameOperators, SameConditions
<1> HIDE DEF b, c
<1>5. \/ WalkStep
      \/ /\ EntryContext = positionContext /\ EntryContext' = c
         /\ frames[1] = Top /\ frames'[1] = b
         /\ EntryStage = "none" /\ EntryStage' = "none"
         /\ status = "running"
         /\ UNCHANGED <<status, frames[1].haveFoundAReturn, Schedules(frames[1].computation)>>
  BY <1>1, <1>3, OwnMove
<1>6. WalkStep \/ Walk!CloseFor
  BY <1>1, <1>3, <1>4, <1>5 DEF Walk!CloseFor, Walk!EndOfBody
<1> QED
  BY <1>6 DEF WalkStep, Walk!Next

LEMMA SimOpenIf == ASSUME IInv, WalkInv, NEW cond \in Conds, OpenIf(cond) PROVE WalkStep
<1> DEFINE new == Append(Top.open, Scope("then", cond, positionContext))
           c == EnterIf(positionContext, cond)
           b == [Started EXCEPT !.open = new]
<1>1. /\ BetweenStmts /\ Running /\ Len(Top.open) < MaxDepth
      /\ IF IfError(cond) THEN Exit ELSE Move(c, b)
  BY DEF OpenIf, CanOpen, CanStart, BetweenStmts, Enter
<1>2. CASE Exit
  BY <1>1, <1>2, Rejects
<1>3. CASE ~IfError(cond) /\ Move(c, b)
  <2>1. BuilderOK(Top) /\ Top.started \in Nat
    BY <1>1, Between
  <2>2. /\ b.stmt = Top.stmt /\ b.haveFoundAReturn = Top.haveFoundAReturn
        /\ b.computation = Top.computation /\ b.started = Top.started + 1 /\ b.open = new
    BY <2>1 DEF BuilderOK, Started
  <2>3. /\ ~Walk!IfError(cond) /\ Walk!EnterIf(positionContext, cond) = c
        /\ Walk!Scope("then", cond, positionContext) = Scope("then", cond, positionContext)
    BY <1>3, SameOperators, SameConditions
  <2> HIDE DEF b, c
  <2>4. \/ WalkStep
        \/ /\ EntryContext = positionContext /\ EntryContext' = c
           /\ frames[1] = Top /\ frames'[1] = b
           /\ EntryStage = "none" /\ EntryStage' = "none"
           /\ status = "running"
           /\ UNCHANGED <<status, frames[1].haveFoundAReturn, Schedules(frames[1].computation)>>
    BY <1>1, <1>3, <2>2, OwnMove
  <2>5. WalkStep \/ Walk!OpenIf(cond)
    BY <1>1, <2>1, <2>2, <2>3, <2>4 DEF Walk!OpenIf, Walk!Start
  <2> QED
    BY <2>5 DEF WalkStep, Walk!Next
<1> QED
  BY <1>1, <1>2, <1>3

LEMMA SimCloseIf == ASSUME IInv, WalkInv, CloseIf PROVE WalkStep
<1> DEFINE o == Top.open
           c == ExitIf(positionContext)
           b == [Top EXCEPT !.open = PopBack(o)]
<1>1. BetweenStmts /\ o # << >> /\ Back(o).kind \in {"then", "else"} /\ Move(c, b)
  BY DEF CloseIf, EndOfBody, Leave
<1>2. BuilderOK(Top)
  BY <1>1, Between
<1>3. /\ b.stmt = Top.stmt /\ b.haveFoundAReturn = Top.haveFoundAReturn
      /\ b.computation = Top.computation /\ b.started = Top.started /\ b.open = PopBack(o)
  BY <1>2 DEF BuilderOK
<1>4. /\ Walk!ExitIf(positionContext) = c /\ Walk!Back(o) = Back(o)
      /\ Walk!PopBack(o) = PopBack(o)
  BY SameOperators, SameConditions
<1> HIDE DEF b, c
<1>5. \/ WalkStep
      \/ /\ EntryContext = positionContext /\ EntryContext' = c
         /\ frames[1] = Top /\ frames'[1] = b
         /\ EntryStage = "none" /\ EntryStage' = "none"
         /\ status = "running"
         /\ UNCHANGED <<status, frames[1].haveFoundAReturn, Schedules(frames[1].computation)>>
  BY <1>1, <1>3, OwnMove
<1>6. WalkStep \/ Walk!CloseIf
  BY <1>1, <1>3, <1>4, <1>5 DEF Walk!CloseIf, Walk!EndOfBody
<1> QED
  BY <1>6 DEF WalkStep, Walk!Next

LEMMA SimElseBranch == ASSUME IInv, WalkInv, ElseBranch PROVE WalkStep
<1> DEFINE o == Top.open
           at == ExitIf(positionContext)
           cond(op) == [Back(o).node EXCEPT !.op = op]
           new(op) == Append(PopBack(o), Scope("else", cond(op), at))
           c(op) == EnterIf(at, cond(op))
           b(op) == [Top EXCEPT !.open = new(op)]
<1>1. /\ BetweenStmts /\ Running /\ o # << >> /\ Back(o).kind = "then"
      /\ \E op \in Negations(Back(o).node.op) :
           IF IfError(cond(op)) THEN Exit ELSE Move(c(op), b(op))
  BY DEF ElseBranch, EndOfBody, BetweenStmts
<1>2. CASE Exit
  BY <1>1, <1>2, Rejects
<1>3. ASSUME NEW op \in Negations(Back(o).node.op), ~IfError(cond(op)), Move(c(op), b(op))
      PROVE  WalkStep
  <2>1. BuilderOK(Top)
    BY <1>1, Between
  <2>2. /\ b(op).stmt = Top.stmt /\ b(op).haveFoundAReturn = Top.haveFoundAReturn
        /\ b(op).computation = Top.computation /\ b(op).started = Top.started
        /\ b(op).open = new(op)
    BY <2>1 DEF BuilderOK
  <2>3. /\ Walk!Back(o) = Back(o) /\ Walk!PopBack(o) = PopBack(o)
        /\ Walk!ExitIf(positionContext) = at
        /\ Walk!Negations(Back(o).node.op) = Negations(Back(o).node.op)
        /\ ~Walk!IfError(cond(op))
        /\ Walk!EnterIf(at, cond(op)) = c(op)
        /\ Walk!Scope("else", cond(op), at) = Scope("else", cond(op), at)
    BY <1>3, SameOperators, SameConditions
  <2> HIDE DEF b, c, at
  <2>4. \/ WalkStep
        \/ /\ EntryContext = positionContext /\ EntryContext' = c(op)
           /\ frames[1] = Top /\ frames'[1] = b(op)
           /\ EntryStage = "none" /\ EntryStage' = "none"
           /\ status = "running"
           /\ UNCHANGED <<status, frames[1].haveFoundAReturn, Schedules(frames[1].computation)>>
    BY <1>1, <1>3, <2>2, OwnMove
  <2>5. WalkStep \/ Walk!ElseBranch
    BY <1>1, <1>3, <2>2, <2>3, <2>4 DEF Walk!ElseBranch, Walk!EndOfBody
  <2> QED
    BY <2>5 DEF WalkStep, Walk!Next
<1> QED
  BY <1>1, <1>2, <1>3

LEMMA SimFinish == ASSUME IInv, WalkInv, Finish PROVE WalkStep
<1>1. /\ Len(frames) = 1 /\ Top = frames[1] /\ Top.open = << >> /\ status = "running"
      /\ Top.stmt.kind = "none" /\ status' = "done" /\ UNCHANGED <<frames, positionContext>>
  BY AtWork DEF IInv, Finish, BetweenStmts, Running, Stop
<1>2. Walk!Finish
  BY <1>1 DEF Walk!Finish, EntryContext, EntryStage
<1> QED
  BY <1>2 DEF WalkStep, Walk!Next

-------------------------------------------------------------------------------
(* All the steps, and the beginning. *)
LEMMA SimNext ==
  ASSUME IInv, WalkInv, [Next]_vars,
         AllowEmptyBody = FALSE, \A p : IsBlock(p) => p \in Blocks
  PROVE  WalkStep
<1>1. ASSUME NEW s \in Source[Top.fn], BeginStmt(s) PROVE WalkStep
  BY <1>1, SimBeginStmt
<1>2. CASE Declare \/ CallReserved \/ BuildCallee \/ FinishCallee \/ InlineCall
             \/ AddStmt \/ AddReturn
  BY <1>2, SimDeclare, SimCallReserved, SimBuildCallee, SimFinishCallee,
     SimInlineCall, SimAddStmt, SimAddReturn
<1>3. CASE AccessComponent \/ AccessTarget
  <2>1. PICK accesses : Accessed(accesses)
    BY <1>3, Zenon DEF AccessComponent, AccessTarget
  <2> QED
    BY <2>1, SimAccessed
<1>4. CASE \/ \E h \in Headers : OpenFor(h)
           \/ CloseFor
           \/ \E c \in Conds : OpenIf(c)
           \/ ElseBranch
           \/ CloseIf
  BY <1>4, SimOpenFor, SimCloseFor, SimOpenIf, SimElseBranch, SimCloseIf
<1>5. CASE FailExpr \/ CallFails \/ AppendNull \/ Abandon
  BY <1>5, Rejects DEF FailExpr, CallFails, AppendNull, Exit, Abandon, Working, EndOfBody,
                       BetweenStmts
<1>6. CASE Finish
  BY <1>6, SimFinish
<1>7. CASE UNCHANGED vars
  BY <1>7 DEF vars, WalkStep, Walk!vars, EntryContext, EntryStage
<1> QED
  BY <1>1, <1>2, <1>3, <1>4, <1>5, <1>6, <1>7 DEF Next, Terminated

LEMMA SimInit == ASSUME Init PROVE Walk!Init
<1> DEFINE b == Builder(Entry)
<1>1. frames = <<b>> /\ positionContext = EmptyContext /\ status = "running"
  BY DEF Init
<1>2. /\ b.stmt = NoStmt /\ b.started = 0 /\ b.open = << >> /\ b.haveFoundAReturn = FALSE
      /\ b.computation = NewComputation(Entry)
  BY DEF Builder
<1>3. Schedules(NewComputation(Entry)) = << >>
  BY DEF Schedules, NewComputation
<1> HIDE DEF b
<1>4. Len(frames) = 1 /\ frames[1] = b
  BY <1>1
<1>5. EntryContext = EmptyContext /\ EntryStage = "none"
  BY <1>1, <1>2, <1>4 DEF EntryContext, EntryStage, NoStmt
<1> QED
  BY <1>1, <1>2, <1>3, <1>4, <1>5, SameOperators DEF Walk!Init

(* Whatever the source and however the calls nest, the build of a function *)
(* is a walk of it, to which the builds of its callees are nothing and     *)
(* their inlining a single step: the shared context and subComputations    *)
(* come back from the nested builders as inlineFunctionCall needs them.    *)
(* Blocks are all the blocks there are.                                    *)
THEOREM BuilderImplementsWalk ==
  ASSUME AllowEmptyBody = FALSE, \A p : IsBlock(p) => p \in Blocks
  PROVE  Spec => ImplementsWalk
<1>1. Init => IInv /\ WalkInv /\ Walk!Init
  BY InitIInv, InitWalk, SimInit
<1>2. (IInv /\ WalkInv) /\ [Next]_vars => (IInv /\ WalkInv)'
  BY StepKeepsIInv, WalkNext
<1>3. IInv /\ WalkInv /\ [Next]_vars => [Walk!Next]_(Walk!vars)
  BY SimNext DEF WalkStep
<1> QED
  BY <1>1, <1>2, <1>3, PTL DEF Spec, ImplementsWalk, Walk!Spec
===============================================================================
