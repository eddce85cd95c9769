-------------------------- MODULE BuilderWalkProofs ---------------------------
(***************************************************************************)
(* Nested builders at work, seen as walks.  WalkInv, inductive together    *)
(* with IInv of ComputationBuilderProofs, says of every builder on the     *)
(* stack, at the place where it stands (positionContext for the one at     *)
(* work, for a caller the context it set aside), that its structures are   *)
(* open there and that it is behind all the schedules it has emitted.  It  *)
(* gives that what is inlined is a block.  LoopInv says that what enterFor *)
(* collected from an open loop's condition is among what addStmt lets no   *)
(* one write, or an iterator, and that no write of a statement is lost on  *)
(* the way there.  FlowInv says that whatever a function reads or hands to *)
(* its caller, its parameters apart, it has written before, renamed or     *)
(* not.  CallsInv says that a builder that waits is at its call, and that  *)
(* callees are of smaller rank.                                            *)
(***************************************************************************)
EXTENDS ComputationBuilderProofs, FiniteSetTheorems

-------------------------------------------------------------------------------
(* The builders at work, each at its own place.  A Computation's schedules *)
(* are a block's, in order if no loop is left without a body.              *)
BlockOK(c) ==
  /\ IsFormed(Schedules(c))
  /\ AllowEmptyBody = FALSE => InScheduleOrder(Schedules(c))
  /\ IsSequence(c.returnValues) /\ Len(c.returnValues) <= 1

(* Builder b at context c: its structures are open there, it is at a       *)
(* statement when it has one, and behind all it has emitted.               *)
FrameOK(b, c) ==
  /\ b.haveFoundAReturn \in BOOLEAN
  /\ b.started \in Nat
  /\ b.open \in Seq(Scopes)
  /\ Good(c, b.open)
  /\ b.stmt.kind # "none" => AtStatement(c)
  /\ StmtWork(b)
  /\ b.haveFoundAReturn = FALSE => b.computation.returnValues = << >>
  /\ BlockOK(b.computation)
  /\ AllowEmptyBody = FALSE =>
       Ordered(Schedules(b.computation), c.schedule, b.stmt.kind # "none")
  /\ b.oldContext \in ContextSet(Iterators)

(* Calls go down in rank, so that there are never more builders at work    *)
(* than functions.                                                         *)
IsRank(rank) ==
  /\ rank \in [Fns -> 1 .. Cardinality(Fns)]
  /\ \A f \in Fns : \A g \in Callees(f) : rank[g] < rank[f]
Rank == CHOOSE rank : IsRank(rank)
RankOK(b, k) == Rank[b.fn] + k <= Cardinality(Fns) + 1

ContextOf(k) == IF k = Len(frames) THEN positionContext ELSE frames[k].oldContext

WalkInv ==
  /\ \A k \in 1 .. Len(frames) : FrameOK(frames[k], ContextOf(k)) /\ RankOK(frames[k], k)
  /\ \A f \in DOMAIN subComputations : BlockOK(subComputations[f])
  /\ renamings \in Nat
  /\ status \in {"running", "exit", "uncaught", "crash", "done"}

(* The functions can be numbered so that callers come after their callees. *)
LEMMA RankFacts ==
  /\ Cardinality(Fns) \in Nat
  /\ \A f \in Fns : Rank[f] \in 1 .. Cardinality(Fns)
  /\ \A f \in Fns : \A g \in Callees(f) : Rank[g] < Rank[f]
<1>1. Cardinality(Fns) \in Nat
  BY StatementsAssumption, FS_CardinalityType
<1>2. \E rank : IsRank(rank)
  BY AcyclicCalls DEF IsRank
<1>3. IsRank(Rank)
  BY <1>2 DEF Rank
<1> QED
  BY <1>1, <1>3 DEF IsRank

(* It implies the type invariant, and what an inlined function promises.   *)
LEMMA WalkInvImplies ==
  ASSUME IInv, WalkInv
  PROVE  /\ TypeOK
         /\ AllowEmptyBody = FALSE => CalleesAreBlocks
<1>1. Len(frames) \in Nat \ {0}
  BY AtWork DEF IInv
<1>2. ASSUME NEW k \in 1 .. Len(frames)
      PROVE  /\ frames[k].fn \in Fns
             /\ frames[k].haveFoundAReturn \in BOOLEAN
             /\ frames[k].building \in BOOLEAN
             /\ frames[k].started \in Nat
             /\ frames[k].oldContext \in ContextSet(Iterators)
             /\ frames[k].stmt.kind = "none" => frames[k].todo = << >>
             /\ k <= Cardinality(Fns)
  <2>1. frames[k].fn \in Fns /\ frames[k].building \in BOOLEAN
    BY DEF IInv, BuildersOK, BuilderOK
  <2>2. k <= Cardinality(Fns)
    <3>1. RankOK(frames[k], k)
      BY DEF WalkInv
    <3>2. Rank[frames[k].fn] \in 1 .. Cardinality(Fns)
      BY <2>1, RankFacts
    <3> QED
      BY <3>1, <3>2, RankFacts DEF RankOK
  <2>3. FrameOK(frames[k], ContextOf(k))
    BY DEF WalkInv
  <2> QED
    BY <2>1, <2>2, <2>3 DEF FrameOK, StmtWork
<1>3. Len(frames) \in 1 .. Len(frames)
  BY <1>1
<1>4. Len(frames) \in 1 .. Cardinality(Fns)
  BY <1>1, <1>2, <1>3, RankFacts
<1>5. positionContext \in ContextSet(Iterators)
  <2>1. FrameOK(frames[Len(frames)], positionContext)
    BY <1>3 DEF WalkInv, ContextOf
  <2> QED
    BY <2>1 DEF FrameOK, Good
<1>6. TypeOK
  BY <1>2, <1>4, <1>5 DEF TypeOK, WalkInv, IInv, KeptOK
<1>7. ASSUME AllowEmptyBody = FALSE, NEW f \in DOMAIN subComputations
      PROVE  LET ts == Schedules(subComputations[f]) IN
               /\ InScheduleOrder(ts)
               /\ \A i \in 1 .. Len(ts) : ts[i] # << >> /\ ~ts[i][1].valueIsVar
               /\ Len(subComputations[f].returnValues) <= 1
  <2>1. BlockOK(subComputations[f])
    BY DEF WalkInv
  <2> QED
    BY <1>7, <2>1, FormedFacts DEF BlockOK
<1> QED
  BY <1>6, <1>7 DEF CalleesAreBlocks

-------------------------------------------------------------------------------
(* The builder at work, and the others. *)
LEMMA WorkingFrame ==
  ASSUME IInv, WalkInv
  PROVE  /\ FrameOK(Top, positionContext)
         /\ RankOK(Top, Len(frames))
         /\ BuilderOK(Top)
         /\ Len(frames) \in Nat \ {0}
<1>1. Len(frames) \in Nat \ {0} /\ Top = frames[Len(frames)] /\ BuilderOK(Top)
  BY AtWork DEF IInv
<1>2. Len(frames) \in 1 .. Len(frames)
  BY <1>1
<1> QED
  BY <1>1, <1>2 DEF WalkInv, ContextOf

(* It takes a step: the others stay where they are. *)
LEMMA FrameStep ==
  ASSUME IInv, WalkInv, NEW b, NEW c, FrameOK(b, c), b.fn = Top.fn,
         frames' = [frames EXCEPT ![Len(frames)] = b], positionContext' = c,
         UNCHANGED subComputations, renamings' \in Nat,
         status' \in {"running", "exit", "uncaught", "crash", "done"}
  PROVE  WalkInv'
<1> DEFINE S == Elements(frames) \cup {b}
           n == Len(frames)
<1>1. n \in Nat \ {0} /\ frames \in Seq(S) /\ RankOK(Top, n) /\ Top = frames[n]
  BY AtWork, Wider, WorkingFrame DEF IInv
<1>2. n \in 1 .. n /\ b \in S
  BY <1>1
<1> HIDE DEF S
<1>3. /\ frames' \in Seq(S) /\ Len(frames') = n
      /\ \A i \in 1 .. n : frames'[i] = IF i = n THEN b ELSE frames[i]
  BY <1>1, <1>2, ExceptSeq
<1>4. ASSUME NEW k \in 1 .. n
      PROVE  FrameOK(frames'[k], ContextOf(k)') /\ RankOK(frames'[k], k)
  <2>1. CASE k = n
    <3>1. frames'[k] = b /\ ContextOf(k)' = c
      BY <1>3, <2>1 DEF ContextOf
    <3> QED
      BY <1>1, <2>1, <3>1 DEF RankOK
  <2>2. CASE k # n
    <3>1. frames'[k] = frames[k] /\ ContextOf(k)' = ContextOf(k)
      BY <1>3, <2>2 DEF ContextOf
    <3> QED
      BY <3>1 DEF WalkInv
  <2> QED
    BY <2>1, <2>2
<1> HIDE DEF n
<1>5. \A k \in 1 .. Len(frames') : FrameOK(frames'[k], ContextOf(k)') /\ RankOK(frames'[k], k)
  BY <1>3, <1>4
<1> QED
  BY <1>5 DEF WalkInv, FrameOK, RankOK, StmtWork, BlockOK

(* The build stops, or nothing happens. *)
LEMMA StopStep ==
  ASSUME WalkInv, UNCHANGED <<frames, positionContext, subComputations, renamings>>,
         status' \in {"running", "exit", "uncaught", "crash", "done"}
  PROVE  WalkInv'
BY DEF WalkInv, FrameOK, RankOK, StmtWork, BlockOK, ContextOf

(* A step on the statement the builder is at: it stays at its place in the *)
(* function, and so does its Computation.                                  *)
LEMMA SameWalk ==
  ASSUME IInv, WalkInv, NEW b, Stay(b), StmtWork(b),
         b.stmt.kind = "none" \/ b.stmt = Top.stmt,
         b.fn = Top.fn, b.haveFoundAReturn = Top.haveFoundAReturn,
         b.started = Top.started, b.open = Top.open, b.oldContext = Top.oldContext,
         b.computation = Top.computation
  PROVE  WalkInv'
<1>1. FrameOK(Top, positionContext)
  BY WorkingFrame
<1>2. FrameOK(b, positionContext)
  BY <1>1 DEF FrameOK, Ordered
<1> QED
  BY <1>2, FrameStep DEF Stay, Move, WalkInv

-------------------------------------------------------------------------------
(* A statement, from its start to its end. *)

(* advanceSchedule brings the builder behind what it has emitted. *)
LEMMA WalkBeginStmt ==
  ASSUME IInv, WalkInv, NEW s \in Source[Top.fn], BeginStmt(s) PROVE WalkInv'
<1>1. /\ FrameOK(Top, positionContext) /\ BuilderOK(Top) /\ Top.fn \in Fns
      /\ renamings \in Nat /\ status \in {"running", "exit", "uncaught", "crash", "done"}
  BY WorkingFrame DEF WalkInv, BuilderOK
<1>2. CASE s.kind = "unsupported"
  BY <1>2, StopStep DEF BeginStmt, Exit, Stop
<1>3. CASE s.kind # "unsupported"
  <2> DEFINE b == [Started EXCEPT !.stmt = s, !.todo = Work(s)]
             c == Advance(positionContext)
  <2>1. Move(c, b)
    BY <1>3 DEF BeginStmt
  <2>2. /\ b.fn = Top.fn /\ b.stmt = s /\ b.todo = Work(s) /\ b.started = Top.started + 1
        /\ b.open = Top.open /\ b.haveFoundAReturn = Top.haveFoundAReturn
        /\ b.computation = Top.computation /\ b.oldContext = Top.oldContext
    BY <1>1 DEF BuilderOK, Started
  <2> HIDE DEF b
  <2>3. StmtWork(b)
    BY <1>1, <1>3, <2>2, WorkOfStmt DEF StmtWork
  <2>4. Good(c, b.open) /\ AtStatement(c)
    BY <1>1, <2>2, GoodAdvance DEF FrameOK, AtStatement
  <2>5. ASSUME AllowEmptyBody = FALSE
        PROVE  Ordered(Schedules(b.computation), c.schedule, TRUE)
    <3>1. /\ Ordered(Schedules(Top.computation), positionContext.schedule,
                     Top.stmt.kind # "none")
          /\ Schedules(Top.computation) \in Seq(Seq(Vals))
          /\ positionContext \in ContextSet(Iterators)
      BY <1>1, <2>5 DEF FrameOK, BlockOK, IsFormed, Good
    <3>2. /\ positionContext.schedule \in Seq(Vals)
          /\ c.schedule = AdvanceSchedule(positionContext.schedule)
      BY <3>1, ContextTypes, AdvanceContext
    <3> QED
      BY <2>2, <3>1, <3>2, OrderedAdvance
  <2>6. FrameOK(b, c)
    <3> HIDE DEF c
    <3>1. AllowEmptyBody = FALSE =>
            Ordered(Schedules(b.computation), c.schedule, b.stmt.kind # "none")
      BY <2>5 DEF Ordered
    <3> QED
      BY <1>1, <2>2, <2>3, <2>4, <3>1 DEF FrameOK
  <2>7. /\ frames' = [frames EXCEPT ![Len(frames)] = b] /\ positionContext' = c
        /\ UNCHANGED <<subComputations, renamings, status>>
    BY <2>1 DEF Move
  <2> HIDE DEF c
  <2> QED
    BY <1>1, <2>2, <2>6, <2>7, FrameStep
<1> QED
  BY <1>2, <1>3

(* Declarations and accesses leave the context and the schedules alone. *)
LEMMA WalkDeclare == ASSUME IInv, WalkInv, Declare PROVE WalkInv'
<1> DEFINE d == Head(Top.todo).decl
           b == [Top EXCEPT !.varDecls = Append(@, d.name),
                            !.todo = Initialise(d) \o Tail(@)]
<1>1. /\ FrameOK(Top, positionContext) /\ BuilderOK(Top) /\ Top.fn \in Fns
  BY WorkingFrame DEF BuilderOK
<1>2. CASE Exit
  BY <1>2, StopStep DEF Exit, Stop
<1>3. CASE Stay(b)
  <2>1. /\ b.fn = Top.fn /\ b.stmt = Top.stmt /\ b.todo = Initialise(d) \o Tail(Top.todo)
        /\ b.started = Top.started
        /\ b.open = Top.open /\ b.haveFoundAReturn = Top.haveFoundAReturn
        /\ b.computation = Top.computation /\ b.oldContext = Top.oldContext
    BY <1>1 DEF BuilderOK
  <2>2. /\ Top.todo # << >> /\ Head(Top.todo).do = "declare" /\ StmtWork(Top)
    BY <1>1 DEF Declare, Working, FrameOK
  <2>3. /\ WorkOK(Tail(Top.todo), Top.stmt) /\ WorkItem(Head(Top.todo), Top.stmt)
    BY <2>2, WorkTail DEF StmtWork
  <2>4. Top.stmt.kind = "decl" /\ Top.stmt \in Source[Top.fn]
    BY <2>2, <2>3 DEF WorkItem, StmtWork, NoStmt
  <2>5. PICK i \in 1 .. Len(Top.stmt.decls) : d = Top.stmt.decls[i]
    BY <2>2, <2>3 DEF WorkItem
  <2>6. WorkOK(Initialise(d), Top.stmt)
    BY <1>1, <2>4, <2>5, InitialiseOK
  <2> HIDE DEF b, d
  <2>7. WorkOK(b.todo, b.stmt)
    BY <2>1, <2>3, <2>6, WorkConcat
  <2>8. StmtWork(b)
    BY <2>1, <2>2, <2>4, <2>7 DEF StmtWork
  <2> QED
    BY <1>3, <2>1, <2>8, SameWalk
<1> QED
  BY <1>2, <1>3 DEF Declare

LEMMA WalkAccessed ==
  ASSUME IInv, WalkInv, NEW accesses, Accessed(accesses),
         Top.todo # << >>, Head(Top.todo).do # "call"
  PROVE  WalkInv'
<1> DEFINE b == [Top EXCEPT !.dataAccesses = @ \cup accesses, !.todo = Tail(@)]
<1>1. /\ StmtWork(Top) /\ BuilderOK(Top)
  BY WorkingFrame DEF FrameOK
<1>2. /\ b.fn = Top.fn /\ b.stmt = Top.stmt /\ b.todo = Tail(Top.todo)
      /\ b.started = Top.started
      /\ b.open = Top.open /\ b.haveFoundAReturn = Top.haveFoundAReturn
      /\ b.computation = Top.computation /\ b.oldContext = Top.oldContext
  BY <1>1 DEF BuilderOK
<1>3. Stay(b)
  BY DEF Accessed
<1> HIDE DEF b
<1>4. StmtWork(b)
  <2>1. WorkOK(b.todo, b.stmt)
    BY <1>1, <1>2, WorkTail DEF StmtWork
  <2> QED
    BY <1>1, <1>2, <2>1 DEF StmtWork
<1> QED
  BY <1>2, <1>3, <1>4, SameWalk

(* The end of a call leaves the builder at the statement, or ends it. *)
LEMMA AfterCallWork ==
  ASSUME NEW b, DOMAIN b = DOMAIN Builder(b.fn), StmtWork(b), b.todo # << >>, NEW read
  PROVE  LET c == AfterCall(b, read) IN
           /\ StmtWork(c)
           /\ c.stmt = NoStmt \/ c.stmt = b.stmt
           /\ c.fn = b.fn /\ c.haveFoundAReturn = b.haveFoundAReturn
           /\ c.started = b.started /\ c.open = b.open /\ c.oldContext = b.oldContext
           /\ c.computation = b.computation
<1> DEFINE c == AfterCall(b, read)
<1>1. /\ c.todo = Tail(b.todo)
      /\ c.stmt = IF b.stmt.kind = "call" THEN NoStmt ELSE b.stmt
      /\ c.fn = b.fn /\ c.haveFoundAReturn = b.haveFoundAReturn
      /\ c.started = b.started /\ c.open = b.open /\ c.oldContext = b.oldContext
      /\ c.computation = b.computation
  BY DEF AfterCall, Builder
<1> HIDE DEF c
<1>2. /\ WorkOK(Tail(b.todo), b.stmt)
      /\ Len(b.todo) = 1 => Tail(b.todo) = << >>
  BY WorkTail DEF StmtWork
<1>3. CASE b.stmt.kind = "call"
  <2>1. c.stmt = NoStmt /\ c.todo = << >>
    BY <1>1, <1>2, <1>3 DEF StmtWork
  <2>2. StmtWork(c)
    BY <2>1, WorkEmpty DEF StmtWork, NoStmt
  <2> QED
    BY <1>1, <2>1, <2>2 DEF c
<1>4. CASE b.stmt.kind # "call"
  <2>1. c.stmt = b.stmt /\ b.stmt.kind \notin {"none", "return"}
    BY <1>1, <1>4 DEF StmtWork
  <2>2. StmtWork(c)
    BY <1>1, <1>2, <1>4, <2>1 DEF StmtWork
  <2> QED
    BY <1>1, <2>1, <2>2 DEF c
<1> QED
  BY <1>3, <1>4

(* A call that is not inlined is done, or ends the statement. *)
LEMMA WalkCallReserved == ASSUME IInv, WalkInv, CallReserved PROVE WalkInv'
<1>1. PICK read : Stay(AfterCall(Top, read))
  BY Zenon DEF CallReserved
<1> DEFINE b == AfterCall(Top, read)
<1>2. /\ StmtWork(Top) /\ DOMAIN Top = DOMAIN Builder(Top.fn) /\ Top.todo # << >>
  BY WorkingFrame DEF FrameOK, BuilderOK, Builder, CallReserved, Working
<1>3. /\ StmtWork(b)
      /\ b.stmt = NoStmt \/ b.stmt = Top.stmt
      /\ b.fn = Top.fn /\ b.haveFoundAReturn = Top.haveFoundAReturn
      /\ b.started = Top.started /\ b.open = Top.open /\ b.oldContext = Top.oldContext
      /\ b.computation = Top.computation
  BY <1>2, AfterCallWork
<1> HIDE DEF b
<1>4. NoStmt.kind = "none"
  BY DEF NoStmt
<1>5. Stay(b)
  BY <1>1 DEF b
<1> QED
  BY <1>3, <1>4, <1>5, SameWalk

(* processReturnStmt keeps one value at most and emits nothing. *)
LEMMA WalkAddReturn == ASSUME IInv, WalkInv, AddReturn PROVE WalkInv'
<1> DEFINE value == Top.stmt.value
           u == [i \in 1 .. Len(value) |-> DataSpace(value[i].name)]
           returned == Top.computation.returnValues \o u
           b == [Top EXCEPT !.haveFoundAReturn = TRUE, !.stmt = NoStmt,
                            !.computation.returnValues = returned]
<1>1. CASE Exit
  BY <1>1, StopStep DEF Exit, Stop
<1>2. CASE Top.haveFoundAReturn # TRUE /\ Stay(b)
  <2>1. /\ FrameOK(Top, positionContext) /\ BuilderOK(Top) /\ Top.fn \in Fns
        /\ DOMAIN Top.computation = {"dataSpaces", "stmts", "returnValues"}
        /\ Top.stmt.kind = "return"
        /\ renamings \in Nat /\ status \in {"running", "exit", "uncaught", "crash", "done"}
    BY WorkingFrame DEF BuilderOK, ComputationOK, AddReturn, WalkInv
  <2>2. Top.stmt \in Source[Top.fn] /\ Top.todo = << >>
    BY <2>1 DEF FrameOK, StmtWork, NoStmt
  <2>3. Top.computation.returnValues = << >>
    BY <1>2, <2>1 DEF FrameOK
  <2>4. IsSequence(returned) /\ Len(returned) <= 1
    <3>1. Len(value) \in Nat /\ Len(value) <= 1
      BY <2>1, <2>2, StatementTypes
    <3>2. IsSequence(u) /\ Len(u) = Len(value)
      BY <3>1 DEF IsSequence, Elements
    <3>3. IsSequence(<< >>) /\ Len(<< >>) = 0
      BY EmptySeq DEF IsSequence
    <3> HIDE DEF u, value
    <3> DEFINE e == << >>
    <3> HIDE DEF e
    <3>4. IsSequence(e \o u) /\ Len(e \o u) = Len(e) + Len(u)
      BY <3>2, <3>3, Concatenated DEF e
    <3> QED
      BY <2>3, <3>1, <3>2, <3>3, <3>4 DEF e
  <2> HIDE DEF returned
  <2>5. /\ b.fn = Top.fn /\ b.stmt = NoStmt /\ b.todo = << >> /\ b.started = Top.started
        /\ b.open = Top.open /\ b.haveFoundAReturn = TRUE /\ b.oldContext = Top.oldContext
        /\ b.computation = [Top.computation EXCEPT !.returnValues = returned]
    BY <2>1, <2>2 DEF BuilderOK
  <2> HIDE DEF b
  <2>6. /\ b.computation.returnValues = returned
        /\ b.computation.stmts = Top.computation.stmts
    BY <2>1, <2>5
  <2>7. Schedules(b.computation) = Schedules(Top.computation)
    BY <2>6 DEF Schedules
  <2>8. StmtWork(b) /\ b.stmt.kind = "none"
    BY <2>5, WorkEmpty DEF StmtWork, NoStmt
  <2>9. BlockOK(b.computation)
    BY <2>1, <2>4, <2>6, <2>7 DEF FrameOK, BlockOK
  <2>10. FrameOK(b, positionContext)
    BY <2>1, <2>5, <2>7, <2>8, <2>9 DEF FrameOK, Ordered
  <2> QED
    BY <1>2, <2>1, <2>5, <2>10, FrameStep DEF Stay, Move
<1> QED
  BY <1>1, <1>2 DEF AddReturn

(* addStmt emits the schedule the builder is at, and is then behind it. *)
LEMMA WalkAddStmt == ASSUME IInv, WalkInv, AddStmt PROVE WalkInv'
<1> DEFINE reads == NamesAccessed(TRUE)
           writes == NamesAccessed(FALSE)
           new == NewDataSpaces(reads, writes)
           stmt == [schedule |-> positionContext.schedule, reads |-> reads,
                    writes |-> writes]
           b == [Top EXCEPT !.computation.dataSpaces = @ \cup new,
                            !.computation.stmts = Append(@, stmt),
                            !.stmt = NoStmt]
           s == positionContext.schedule
           ts == Schedules(Top.computation)
<1>1. CASE Exit \/ Stop("uncaught")
  BY <1>1, StopStep DEF Exit, Stop
<1>2. CASE Stay(b)
  <2>1. /\ FrameOK(Top, positionContext) /\ BuilderOK(Top) /\ Top.fn \in Fns
        /\ DOMAIN Top.computation = {"dataSpaces", "stmts", "returnValues"}
        /\ IsSequence(Top.computation.stmts)
        /\ Top.stmt.kind # "none" /\ Top.todo = << >>
        /\ renamings \in Nat /\ status \in {"running", "exit", "uncaught", "crash", "done"}
    BY WorkingFrame DEF BuilderOK, ComputationOK, AddStmt, WalkInv
  <2>2. stmt.schedule = s
    OBVIOUS
  <2> HIDE DEF new, stmt
  <2>3. /\ b.fn = Top.fn /\ b.stmt = NoStmt /\ b.todo = << >> /\ b.started = Top.started
        /\ b.open = Top.open /\ b.haveFoundAReturn = Top.haveFoundAReturn
        /\ b.oldContext = Top.oldContext
        /\ b.computation = [Top.computation EXCEPT
                              !.dataSpaces = Top.computation.dataSpaces \cup new,
                              !.stmts = Append(Top.computation.stmts, stmt)]
    BY <2>1 DEF BuilderOK
  <2> HIDE DEF b
  <2>4. /\ b.computation.stmts = Append(Top.computation.stmts, stmt)
        /\ b.computation.returnValues = Top.computation.returnValues
    BY <2>1, <2>3
  <2>5. Good(positionContext, Top.open) /\ AtStatement(positionContext)
    BY <2>1 DEF FrameOK
  <2>6. s \in Seq(Vals) /\ s # << >> /\ ~Back(s).valueIsVar
    BY <2>5, StatementFacts
  <2>7. IsFormed(ts) /\ ts \in Seq(Seq(Vals))
    BY <2>1 DEF FrameOK, BlockOK, IsFormed
  <2>8. Schedules(b.computation) = Append(ts, s)
    <3>1. ts = Schedules(Top.computation)
      OBVIOUS
    <3> HIDE DEF ts, s
    <3>2. Schedules(Top.computation) \in Seq(Seq(Vals)) /\ stmt.schedule \in Seq(Vals)
      BY <2>2, <2>6, <2>7, <3>1
    <3>3. Schedules(b.computation) = Append(Schedules(Top.computation), stmt.schedule)
      BY <2>1, <2>4, <3>2, SchedulesAppend
    <3> QED
      BY <2>2, <3>1, <3>3
  <2>9. IsFormed(Append(ts, s))
    BY <2>5, <2>7, FormedAppend
  <2>10. ASSUME AllowEmptyBody = FALSE
         PROVE  Ordered(Append(ts, s), s, FALSE)
    <3>1. Ordered(ts, s, TRUE)
      BY <2>1, <2>10 DEF FrameOK, Ordered
    <3> HIDE DEF ts, s
    <3> QED
      BY <2>6, <2>7, <3>1, OrderedAppend
  <2> HIDE DEF ts, s
  <2>11. BlockOK(b.computation)
    BY <2>1, <2>4, <2>8, <2>9, <2>10 DEF FrameOK, BlockOK, Ordered
  <2>12. StmtWork(b) /\ b.stmt.kind = "none"
    BY <2>3, WorkEmpty DEF StmtWork, NoStmt
  <2>13. AllowEmptyBody = FALSE =>
           Ordered(Schedules(b.computation), positionContext.schedule, b.stmt.kind # "none")
    BY <2>8, <2>10, <2>12 DEF Ordered, s
  <2>14. b.haveFoundAReturn = FALSE => b.computation.returnValues = << >>
    BY <2>1, <2>3, <2>4 DEF FrameOK
  <2>15. FrameOK(b, positionContext)
    BY <2>1, <2>3, <2>5, <2>11, <2>12, <2>13, <2>14 DEF FrameOK
  <2> QED
    BY <1>2, <2>1, <2>3, <2>15, FrameStep DEF Stay, Move
<1> QED
  BY <1>1, <1>2, Zenon DEF AddStmt

-------------------------------------------------------------------------------
(* Calls: what is inlined, and the builders that build it. *)

(* What the builder at work finds in a callee's Computation. *)
LEMMA CalleeBlock ==
  ASSUME IInv, WalkInv, NEW f \in DOMAIN subComputations
  PROVE  /\ f \in Fns
         /\ ComputationOK(subComputations[f])
         /\ IsFormed(Schedules(subComputations[f]))
         /\ IsFormed(Block(f, subComputations[f]))
         /\ AllowEmptyBody = FALSE => IsBlock(Block(f, subComputations[f]))
<1>1. f \in Fns /\ ComputationOK(subComputations[f])
  BY DEF IInv, KeptOK
<1>2. BlockOK(subComputations[f])
  BY DEF WalkInv
<1> QED
  BY <1>1, <1>2, CalleeFormed DEF BlockOK

(* The callee is placed at the position reserved for it, and skipToPosition *)
(* brings the builder behind the last of its schedules.                     *)
LEMMA WalkInlineCall == ASSUME IInv, WalkInv, InlineCall PROVE WalkInv'
<1> DEFINE f == Call.callee
           callee == subComputations[f]
           ctx == positionContext
           t == ctx.schedule
           values == callee.returnValues
           value == ReturnedValue(callee, renamings)
           read == IF values # << >> /\ Head(Top.todo).reads /\ ~IsIterator(value)
                     THEN {[name |-> value, isRead |-> TRUE]} ELSE {}
           into == AppendComputation(Top.computation, f, callee, t, Call.args, renamings)
           a == [Top EXCEPT !.started = @ + 1, !.computation = into]
           b == AfterCall(a, read)
           ts == Schedules(Top.computation)
           block == Block(f, callee)
<1>1. CASE Exit
  BY <1>1, StopStep DEF Exit, Stop
<1>2. CASE ~Exit
  <2>1. /\ frames' = [frames EXCEPT ![Len(frames)] = b]
        /\ \E last \in TuplePositions(t, block) : ctx' = Advance(SkipTo(ctx, last))
        /\ renamings' = renamings + 1
        /\ UNCHANGED <<subComputations, status>>
        /\ f \in DOMAIN subComputations
        /\ Top.todo # << >>
    BY <1>2 DEF InlineCall, PastBlock, Working
  <2>2. PICK last \in TuplePositions(t, block) : ctx' = Advance(SkipTo(ctx, last))
    BY <2>1
  <2> DEFINE c == Advance(SkipTo(ctx, last))
  <2>3. /\ FrameOK(Top, ctx) /\ BuilderOK(Top) /\ Top.fn \in Fns
        /\ ComputationOK(Top.computation)
        /\ renamings \in Nat /\ status \in {"running", "exit", "uncaught", "crash", "done"}
    BY WorkingFrame DEF BuilderOK, WalkInv
  <2>4. /\ f \in Fns /\ ComputationOK(callee) /\ IsFormed(Schedules(callee))
        /\ IsFormed(block)
        /\ AllowEmptyBody = FALSE => IsBlock(block)
    BY <2>1, CalleeBlock
  <2> HIDE DEF callee, f, read
  <2>5. /\ DOMAIN a = DOMAIN Builder(a.fn)
        /\ a.fn = Top.fn /\ a.stmt = Top.stmt /\ a.todo = Top.todo
        /\ a.started = Top.started + 1
        /\ a.open = Top.open /\ a.haveFoundAReturn = Top.haveFoundAReturn
        /\ a.computation = into /\ a.oldContext = Top.oldContext
    BY <2>3 DEF BuilderOK, Builder
  <2> HIDE DEF a, into
  <2>6. StmtWork(a) /\ StmtWork(Top) /\ a.todo # << >>
    BY <2>1, <2>3, <2>5 DEF FrameOK, StmtWork
  <2>7. /\ StmtWork(b)
        /\ b.stmt = NoStmt \/ b.stmt = a.stmt
        /\ b.fn = a.fn /\ b.haveFoundAReturn = a.haveFoundAReturn
        /\ b.started = a.started /\ b.open = a.open /\ b.oldContext = a.oldContext
        /\ b.computation = a.computation
    BY <2>5, <2>6, AfterCallWork
  <2> HIDE DEF b
  <2>8. Good(ctx, Top.open) /\ AtStatement(ctx) /\ Top.stmt.kind # "none"
    BY <2>3, <2>6, <2>5 DEF FrameOK, StmtWork
  <2>9. t \in Seq(Vals) /\ t # << >> /\ ~Back(t).valueIsVar /\ Back(t).num \in Nat
    BY <2>8, StatementFacts
  <2>10. last \in Int /\ last + 1 \in Nat
    <3> HIDE DEF block, t
    <3> QED
      BY <2>2, <2>4, <2>9, TuplePositionType
  <2>11. Good(c, Top.open) /\ AtStatement(c) /\ c.schedule = Append(PopBack(t), Num(last + 1))
    BY <2>8, <2>10, GoodInline DEF AtStatement
  <2>12. IsFormed(ts) /\ ts \in Seq(Seq(Vals))
    BY <2>3 DEF FrameOK, BlockOK, IsFormed
  <2>13. /\ Schedules(into) = ts \o Place(t, block)
         /\ into.returnValues = Top.computation.returnValues
    <3> HIDE DEF t
    <3> QED
      BY <2>3, <2>4, <2>9, <2>12, SchedulesInlined DEF into
  <2>14. IsFormed(ts \o Place(t, block))
    <3>1. ~t[1].valueIsVar
      BY <2>8, <2>9 DEF Good, Shape, AtStatement
    <3> HIDE DEF t, block, ts
    <3> QED
      BY <2>4, <2>9, <2>12, <3>1, FormedPlace, FormedConcat
  <2>15. ASSUME AllowEmptyBody = FALSE
         PROVE  Ordered(ts \o Place(t, block), c.schedule, TRUE)
    <3>1. IsBlock(block) /\ Ordered(ts, t, TRUE)
      BY <2>3, <2>4, <2>8, <2>15 DEF FrameOK, Ordered
    <3> HIDE DEF t, block, ts, c
    <3> QED
      BY <2>2, <2>9, <2>11, <2>12, <3>1, OrderedInline
  <2> HIDE DEF t, block, ts, c
  <2>16. BlockOK(b.computation)
    BY <2>3, <2>5, <2>7, <2>13, <2>14, <2>15 DEF FrameOK, BlockOK, Ordered
  <2>17. AllowEmptyBody = FALSE =>
           Ordered(Schedules(b.computation), c.schedule, b.stmt.kind # "none")
    BY <2>5, <2>7, <2>13, <2>15 DEF Ordered
  <2>18. FrameOK(b, c)
    <3>1. /\ b.started \in Nat /\ b.haveFoundAReturn \in BOOLEAN /\ b.open \in Seq(Scopes)
          /\ b.oldContext \in ContextSet(Iterators)
          /\ b.haveFoundAReturn = FALSE => b.computation.returnValues = << >>
      BY <2>3, <2>5, <2>7, <2>13 DEF FrameOK
    <3>2. Good(c, b.open) /\ AtStatement(c)
      BY <2>5, <2>7, <2>11
    <3> QED
      BY <2>7, <2>16, <2>17, <3>1, <3>2 DEF FrameOK
  <2>19. positionContext' = c /\ b.fn = Top.fn
    BY <2>2, <2>5, <2>7 DEF c
  <2>20. renamings' \in Nat /\ status' \in {"running", "exit", "uncaught", "crash", "done"}
    BY <2>1, <2>3
  <2> QED
    BY <2>1, <2>18, <2>19, <2>20, FrameStep
<1> QED
  BY <1>1, <1>2

(* A new builder, at the beginning of its function. *)
LEMMA NewFrame == ASSUME NEW f \in Fns PROVE FrameOK(Builder(f), EmptyContext)
<1> DEFINE b == Builder(f)
<1>1. /\ b.fn = f /\ b.stmt = NoStmt /\ b.todo = << >> /\ b.started = 0
      /\ b.open = << >> /\ b.haveFoundAReturn = FALSE /\ b.oldContext = EmptyContext
      /\ b.computation = NewComputation(f)
  BY DEF Builder
<1> HIDE DEF b
<1>2. StmtWork(b) /\ b.stmt.kind = "none"
  BY <1>1, WorkEmpty DEF StmtWork, NoStmt
<1>3. /\ NewComputation(f).returnValues = << >> /\ NewComputation(f).stmts = << >>
  BY DEF NewComputation
<1>4. Schedules(NewComputation(f)) = << >>
  BY <1>3 DEF Schedules
<1>5. BlockOK(NewComputation(f))
  <2>1. IsFormed(<< >>) /\ InScheduleOrder(<< >>)
    BY DEF IsFormed, InScheduleOrder
  <2>2. IsSequence(<< >>) /\ Len(<< >>) = 0
    BY EmptySeq DEF IsSequence
  <2> QED
    BY <1>3, <1>4, <2>1, <2>2 DEF BlockOK
<1>6. \A s : Ordered(<< >>, s, FALSE)
  BY DEF Ordered, InScheduleOrder
<1>7. Good(EmptyContext, << >>) /\ EmptyContext \in ContextSet(Iterators)
  BY GoodEmpty DEF Good
<1>8. FrameOK(b, EmptyContext)
  <2>1. Ordered(Schedules(b.computation), EmptyContext.schedule, b.stmt.kind # "none")
    BY <1>1, <1>2, <1>4, <1>6 DEF Ordered
  <2>2. /\ b.haveFoundAReturn \in BOOLEAN /\ b.started \in Nat /\ b.open \in Seq(Scopes)
        /\ b.computation.returnValues = << >>
    <3>1. b.haveFoundAReturn \in BOOLEAN
      BY <1>1, Zenon
    <3>2. b.computation.returnValues = << >>
      BY <1>1, <1>3, Zenon
    <3>3. b.started \in Nat /\ b.open \in Seq(Scopes)
      BY <1>1
    <3> QED
      BY <3>1, <3>2, <3>3
  <2>3. /\ BlockOK(b.computation) /\ Good(EmptyContext, b.open)
        /\ b.oldContext \in ContextSet(Iterators)
    BY <1>1, <1>5, <1>7
  <2> QED
    BY <1>2, <2>1, <2>2, <2>3, Zenon DEF FrameOK
<1> QED
  BY <1>8 DEF b

(* The caller keeps its place in oldContext; the callee is of smaller rank. *)
LEMMA WalkBuildCallee == ASSUME IInv, WalkInv, BuildCallee PROVE WalkInv'
<1> DEFINE n == Len(frames)
           caller == [Top EXCEPT !.oldContext = positionContext, !.building = TRUE]
           fs == [frames EXCEPT ![n] = caller]
           new == Builder(Call.callee)
           S == Elements(frames) \cup {caller, new}
<1>1. /\ frames' = Append(fs, new) /\ positionContext' = EmptyContext
      /\ UNCHANGED <<subComputations, renamings, status>>
      /\ Call.callee \in Fns /\ Top.todo # << >> /\ Head(Top.todo).do = "call"
  BY AtWork DEF BuildCallee, IInv, Working
<1>2. /\ FrameOK(Top, positionContext) /\ RankOK(Top, n) /\ BuilderOK(Top) /\ Top.fn \in Fns
      /\ n \in Nat \ {0}
  BY WorkingFrame DEF BuilderOK
<1>3. /\ caller.fn = Top.fn /\ caller.stmt = Top.stmt /\ caller.todo = Top.todo
      /\ caller.started = Top.started
      /\ caller.open = Top.open /\ caller.haveFoundAReturn = Top.haveFoundAReturn
      /\ caller.computation = Top.computation /\ caller.oldContext = positionContext
  BY <1>2 DEF BuilderOK
<1>4. new.fn = Call.callee /\ FrameOK(new, EmptyContext)
  BY <1>1, NewFrame DEF Builder
<1>5. Call.callee \in Callees(Top.fn)
  <2>1. StmtWork(Top)
    BY <1>2 DEF FrameOK
  <2>2. Top.stmt \in Source[Top.fn]
    BY <1>1, <2>1 DEF StmtWork, NoStmt
  <2>3. WorkItem(Head(Top.todo), Top.stmt)
    BY <1>1, <2>1, WorkTail DEF StmtWork
  <2>4. Call.callee \in CallsIn(Top.stmt)
    BY <1>1, <2>3 DEF WorkItem, Call
  <2> QED
    BY <1>1, <2>2, <2>4 DEF Callees
<1>6. frames \in Seq(S) /\ caller \in S /\ new \in S /\ n \in 1 .. n
  BY <1>2, AtWork, Wider DEF IInv
<1> HIDE DEF caller, new, S, n
<1>7. FrameOK(caller, positionContext)
  BY <1>2, <1>3 DEF FrameOK, StmtWork, Good
<1>8. /\ fs \in Seq(S) /\ Len(fs) = n
      /\ \A i \in 1 .. n : fs[i] = IF i = n THEN caller ELSE frames[i]
  BY <1>6, ExceptSeq DEF n
<1> HIDE DEF fs
<1>9. /\ Append(fs, new) \in Seq(S) /\ Len(Append(fs, new)) = n + 1
      /\ \A i \in 1 .. n : Append(fs, new)[i] = fs[i]
      /\ Append(fs, new)[n + 1] = new
  BY <1>6, <1>8, AppendProperties
<1>10. Len(frames') = n + 1 /\ frames'[n + 1] = new /\ \A i \in 1 .. n : frames'[i] = fs[i]
  BY <1>1, <1>9
<1>11. ASSUME NEW k \in 1 .. n + 1
       PROVE  FrameOK(frames'[k], ContextOf(k)') /\ RankOK(frames'[k], k)
  <2>1. CASE k = n + 1
    <3>1. frames'[k] = new /\ ContextOf(k)' = EmptyContext
      BY <1>1, <1>10, <2>1 DEF ContextOf
    <3>2. RankOK(new, n + 1)
      <4>1. Rank[new.fn] < Rank[Top.fn] /\ Rank[new.fn] \in Int /\ Rank[Top.fn] \in Int
        BY <1>1, <1>2, <1>4, <1>5, RankFacts
      <4> QED
        BY <1>2, <4>1, RankFacts DEF RankOK
    <3> QED
      BY <1>4, <2>1, <3>1, <3>2
  <2>2. CASE k = n
    <3>1. frames'[k] = caller /\ ContextOf(k)' = caller.oldContext
      BY <1>2, <1>8, <1>10, <2>2 DEF ContextOf
    <3> QED
      BY <1>2, <1>3, <1>7, <2>2, <3>1 DEF RankOK
  <2>3. CASE k \in 1 .. n /\ k # n
    <3>1. frames'[k] = frames[k] /\ ContextOf(k)' = frames[k].oldContext
      BY <1>2, <1>8, <1>10, <2>3 DEF ContextOf
    <3>2. ContextOf(k) = frames[k].oldContext
      BY <2>3 DEF ContextOf, n
    <3> QED
      BY <2>3, <3>1, <3>2 DEF WalkInv, n
  <2> QED
    BY <1>2, <2>1, <2>2, <2>3
<1>12. \A k \in 1 .. Len(frames') : FrameOK(frames'[k], ContextOf(k)') /\ RankOK(frames'[k], k)
  BY <1>10, <1>11
<1> QED
  BY <1>1, <1>12 DEF WalkInv, FrameOK, RankOK, StmtWork, BlockOK

(* The caller is at the place it had; the Computation kept is a block. *)
LEMMA WalkFinishCallee == ASSUME IInv, WalkInv, FinishCallee PROVE WalkInv'
<1> DEFINE n == Len(frames)
           S == Elements(frames)
           fs == PopBack(frames)
           m == Len(fs)
           caller == [fs[m] EXCEPT !.oldContext = EmptyContext]
           T == S \cup {caller}
<1>1. /\ frames' = [fs EXCEPT ![m] = caller] /\ positionContext' = fs[m].oldContext
      /\ subComputations' = Keep(Top.fn, Top.computation)
      /\ UNCHANGED <<renamings, status>> /\ n > 1
  BY DEF FinishCallee, CallerContext, Back
<1>2. /\ FrameOK(Top, positionContext) /\ n \in Nat \ {0}
      /\ frames \in Seq(S) /\ frames # << >>
  BY WorkingFrame, AtWork DEF IInv, BuildersOK
<1> HIDE DEF S
<1>3. fs \in Seq(S) /\ m = n - 1 /\ \A i \in 1 .. n - 1 : fs[i] = frames[i]
  BY <1>2, PopBackProperties
<1> HIDE DEF fs
<1>4. /\ m \in Nat \ {0} /\ m \in 1 .. m /\ m \in 1 .. n /\ m # n /\ m < n
      /\ fs[m] = frames[m]
  BY <1>1, <1>2, <1>3
<1>5. /\ FrameOK(fs[m], fs[m].oldContext) /\ RankOK(fs[m], m) /\ BuilderOK(fs[m])
  BY <1>4 DEF WalkInv, ContextOf, IInv, BuildersOK
<1>6. /\ caller.fn = fs[m].fn /\ caller.stmt = fs[m].stmt /\ caller.todo = fs[m].todo
      /\ caller.started = fs[m].started
      /\ caller.open = fs[m].open /\ caller.haveFoundAReturn = fs[m].haveFoundAReturn
      /\ caller.computation = fs[m].computation /\ caller.oldContext = EmptyContext
  BY <1>5 DEF BuilderOK
<1>7. fs \in Seq(T) /\ caller \in T
  BY <1>3, Wider
<1> HIDE DEF caller, T, n, m
<1>8. FrameOK(caller, fs[m].oldContext)
  <2>1. EmptyContext \in ContextSet(Iterators)
    BY GoodEmpty DEF Good
  <2> QED
    BY <1>5, <1>6, <2>1 DEF FrameOK, StmtWork
<1>9. /\ Len(frames') = m
      /\ \A i \in 1 .. m : frames'[i] = IF i = m THEN caller ELSE fs[i]
  BY <1>1, <1>4, <1>7, ExceptSeq DEF m
<1>10. ASSUME NEW k \in 1 .. m
       PROVE  FrameOK(frames'[k], ContextOf(k)') /\ RankOK(frames'[k], k)
  <2>1. CASE k = m
    <3>1. frames'[k] = caller /\ ContextOf(k)' = fs[m].oldContext
      BY <1>1, <1>4, <1>9, <2>1 DEF ContextOf
    <3> QED
      BY <1>5, <1>6, <1>8, <2>1, <3>1 DEF RankOK
  <2>2. CASE k # m
    <3>1. k \in 1 .. n /\ k # n /\ fs[k] = frames[k]
      BY <1>2, <1>3, <1>4, <2>2
    <3>2. frames'[k] = frames[k] /\ ContextOf(k)' = frames[k].oldContext
      BY <1>9, <2>2, <3>1 DEF ContextOf
    <3>3. ContextOf(k) = frames[k].oldContext
      BY <3>1 DEF ContextOf, n
    <3> QED
      BY <3>1, <3>2, <3>3 DEF WalkInv, n
  <2> QED
    BY <2>1, <2>2
<1>11. \A k \in 1 .. Len(frames') : FrameOK(frames'[k], ContextOf(k)') /\ RankOK(frames'[k], k)
  BY <1>9, <1>10
<1>12. BlockOK(Top.computation)
  BY <1>2 DEF FrameOK
<1>13. \A f \in DOMAIN subComputations' : BlockOK(subComputations'[f])
  BY <1>1, <1>12 DEF Keep, WalkInv
<1> QED
  BY <1>1, <1>11, <1>13 DEF WalkInv, FrameOK, RankOK, StmtWork, BlockOK

-------------------------------------------------------------------------------
(* Structures, and the theorems about the walk. *)

(* Entering a structure, leaving one or passing to its else branch, all   *)
(* between statements: the builder is at another context, behind all that *)
(* it has emitted.                                                        *)
LEMMA MovesOn ==
  ASSUME IInv, WalkInv, Top.stmt.kind = "none", NEW b, NEW c, Move(c, b),
         b.fn = Top.fn, b.stmt = Top.stmt, b.todo = Top.todo, b.started \in Nat,
         b.haveFoundAReturn = Top.haveFoundAReturn, b.oldContext = Top.oldContext,
         b.computation = Top.computation,
         b.open \in Seq(Scopes), Good(c, b.open),
         AllowEmptyBody = FALSE => Ordered(Schedules(Top.computation), c.schedule, FALSE)
  PROVE  WalkInv'
<1>1. FrameOK(Top, positionContext)
  BY WorkingFrame
<1>2. AllowEmptyBody = FALSE =>
        Ordered(Schedules(b.computation), c.schedule, b.stmt.kind # "none")
  BY DEF Ordered
<1>3. FrameOK(b, c)
  BY <1>1, <1>2 DEF FrameOK, StmtWork
<1>4. /\ frames' = [frames EXCEPT ![Len(frames)] = b] /\ positionContext' = c
      /\ UNCHANGED <<subComputations, renamings, status>>
  BY DEF Move
<1>5. renamings' \in Nat /\ status' \in {"running", "exit", "uncaught", "crash", "done"}
  BY <1>4 DEF WalkInv
<1> QED
  BY <1>3, <1>4, <1>5, FrameStep

(* Where it is before. *)
LEMMA Between ==
  ASSUME IInv, WalkInv, BetweenStmts
  PROVE  /\ Top.stmt.kind = "none"
         /\ BuilderOK(Top)
         /\ Top.started \in Nat /\ Top.open \in Seq(Scopes)
         /\ Good(positionContext, Top.open)
         /\ positionContext \in ContextSet(Iterators)
         /\ positionContext.schedule \in Seq(Vals)
         /\ Schedules(Top.computation) \in Seq(Seq(Vals))
         /\ AllowEmptyBody = FALSE =>
              Ordered(Schedules(Top.computation), positionContext.schedule, FALSE)
<1>1. FrameOK(Top, positionContext) /\ BuilderOK(Top) /\ Top.stmt.kind = "none"
  BY WorkingFrame DEF BetweenStmts
<1>2. Good(positionContext, Top.open)
  BY <1>1 DEF FrameOK
<1>3. positionContext \in ContextSet(Iterators) /\ positionContext.schedule \in Seq(Vals)
  BY <1>2, ContextTypes DEF Good
<1>4. AllowEmptyBody = FALSE =>
        Ordered(Schedules(Top.computation), positionContext.schedule, FALSE)
  BY <1>1 DEF FrameOK, Ordered
<1> QED
  BY <1>1, <1>2, <1>3, <1>4 DEF FrameOK, BlockOK, IsFormed

(* Into a structure, and out of one. *)
LEMMA WalkEnter ==
  ASSUME IInv, WalkInv, BetweenStmts, NEW c, NEW open, Enter(c, open),
         open \in Seq(Scopes), Good(c, open),
         AllowEmptyBody = FALSE => Ordered(Schedules(Top.computation), c.schedule, FALSE)
  PROVE  WalkInv'
<1> DEFINE b == [Started EXCEPT !.open = open]
<1>1. BuilderOK(Top) /\ Top.stmt.kind = "none" /\ Top.started \in Nat
  BY Between
<1>2. /\ b.fn = Top.fn /\ b.stmt = Top.stmt /\ b.todo = Top.todo /\ b.started = Top.started + 1
      /\ b.haveFoundAReturn = Top.haveFoundAReturn /\ b.oldContext = Top.oldContext
      /\ b.computation = Top.computation /\ b.open = open
  BY <1>1 DEF BuilderOK, Started
<1>3. Move(c, b)
  BY DEF Enter
<1> HIDE DEF b
<1>4. b.started \in Nat
  BY <1>1, <1>2
<1>5. b.open \in Seq(Scopes) /\ Good(c, b.open)
  BY <1>2
<1> QED
  BY <1>1, <1>2, <1>3, <1>4, <1>5, MovesOn

LEMMA WalkLeave ==
  ASSUME IInv, WalkInv, BetweenStmts, NEW c, NEW open,
         Move(c, [Top EXCEPT !.open = open]),
         open \in Seq(Scopes), Good(c, open),
         AllowEmptyBody = FALSE => Ordered(Schedules(Top.computation), c.schedule, FALSE)
  PROVE  WalkInv'
<1> DEFINE b == [Top EXCEPT !.open = open]
<1>1. BuilderOK(Top) /\ Top.stmt.kind = "none" /\ Top.started \in Nat
  BY Between
<1>2. /\ b.fn = Top.fn /\ b.stmt = Top.stmt /\ b.todo = Top.todo /\ b.started = Top.started
      /\ b.haveFoundAReturn = Top.haveFoundAReturn /\ b.oldContext = Top.oldContext
      /\ b.computation = Top.computation /\ b.open = open
  BY <1>1 DEF BuilderOK
<1>3. Move(c, b)
  OBVIOUS
<1> HIDE DEF b
<1>4. b.open \in Seq(Scopes) /\ Good(c, b.open)
  BY <1>2
<1> QED
  BY <1>1, <1>2, <1>3, <1>4, MovesOn

(* What was passed before the loop is passed within it. *)
LEMMA WalkOpenFor == ASSUME IInv, WalkInv, NEW h \in Headers, OpenFor(h) PROVE WalkInv'
<1> DEFINE at == Advance(positionContext)
           open == Append(Top.open, Scope("for", h, at))
<1>1. CASE Exit
  BY <1>1, StopStep DEF Exit, Stop
<1>2. CASE Enter(EnterFor(at, h), open)
  <2>1. BetweenStmts
    BY DEF OpenFor, CanOpen, CanStart
  <2>2. /\ Good(positionContext, Top.open) /\ Top.open \in Seq(Scopes)
        /\ positionContext \in ContextSet(Iterators)
        /\ positionContext.schedule \in Seq(Vals)
        /\ Schedules(Top.computation) \in Seq(Seq(Vals))
    BY <2>1, Between
  <2>3. Good(at, Top.open) /\ Len(at.schedule) = 2 * Len(at.iterators) + 1
    BY <2>2, GoodAdvance
  <2>4. Scope("for", h, at) \in Scopes /\ Good(EnterFor(at, h), open)
    BY <2>2, <2>3, GoodEnterFor
  <2>5. open \in Seq(Scopes)
    BY <2>2, <2>4
  <2>6. AllowEmptyBody = FALSE =>
          Ordered(Schedules(Top.computation), EnterFor(at, h).schedule, FALSE)
    BY <2>1, <2>2, Between, OrderedEnterFor
  <2> QED
    BY <1>2, <2>1, <2>4, <2>5, <2>6, WalkEnter
<1> QED
  BY <1>1, <1>2 DEF OpenFor

(* exitFor returns to the position of the loop, which its body has used. *)
LEMMA WalkCloseFor == ASSUME IInv, WalkInv, CloseFor PROVE WalkInv'
<1> DEFINE o == Top.open
           c == ExitFor(positionContext)
<1>1. /\ BetweenStmts /\ o # << >> /\ Back(o).kind = "for"
      /\ AllowEmptyBody \/ ~Back(positionContext.schedule).valueIsVar
      /\ Move(c, [Top EXCEPT !.open = PopBack(o)])
  BY DEF CloseFor, EndOfBody, Leave
<1>2. /\ Good(positionContext, o) /\ o \in Seq(Scopes)
      /\ Schedules(Top.computation) \in Seq(Seq(Vals))
  BY <1>1, Between
<1>3. Good(c, PopBack(o)) /\ PopBack(o) \in Seq(Scopes)
  <2> HIDE DEF o
  <2> QED
    BY <1>1, <1>2, GoodExitFor, BackOpen
<1>4. ASSUME AllowEmptyBody = FALSE
      PROVE  Ordered(Schedules(Top.computation), c.schedule, FALSE)
  <2>1. Ordered(Schedules(Top.computation), positionContext.schedule, FALSE)
    BY <1>1, <1>4, Between
  <2>2. ~Back(positionContext.schedule).valueIsVar
    BY <1>1, <1>4
  <2> HIDE DEF o
  <2> QED
    BY <1>1, <1>2, <2>1, <2>2, OrderedExitFor
<1> HIDE DEF o, c
<1> QED
  BY <1>1, <1>3, <1>4, WalkLeave

(* Branches leave the schedule alone. *)
LEMMA WalkOpenIf == ASSUME IInv, WalkInv, NEW cond \in Conds, OpenIf(cond) PROVE WalkInv'
<1> DEFINE open == Append(Top.open, Scope("then", cond, positionContext))
           c == EnterIf(positionContext, cond)
<1>1. CASE Exit
  BY <1>1, StopStep DEF Exit, Stop
<1>2. CASE Enter(c, open)
  <2>1. BetweenStmts
    BY DEF OpenIf, CanOpen, CanStart
  <2>2. /\ Good(positionContext, Top.open) /\ Top.open \in Seq(Scopes)
        /\ AllowEmptyBody = FALSE =>
              Ordered(Schedules(Top.computation), positionContext.schedule, FALSE)
    BY <2>1, Between
  <2>3. /\ Scope("then", cond, positionContext) \in Scopes
        /\ Good(c, open)
        /\ c.schedule = positionContext.schedule
    BY <2>2, SourceAssumption, GoodEnterIf
  <2>4. open \in Seq(Scopes)
    BY <2>2, <2>3
  <2> QED
    BY <1>2, <2>1, <2>2, <2>3, <2>4, WalkEnter
<1> QED
  BY <1>1, <1>2 DEF OpenIf

LEMMA WalkCloseIf == ASSUME IInv, WalkInv, CloseIf PROVE WalkInv'
<1> DEFINE o == Top.open
           c == ExitIf(positionContext)
<1>1. /\ BetweenStmts /\ o # << >> /\ Back(o).kind # "for"
      /\ Move(c, [Top EXCEPT !.open = PopBack(o)])
  BY DEF CloseIf, EndOfBody, Leave
<1>2. /\ Good(positionContext, o) /\ o \in Seq(Scopes)
      /\ AllowEmptyBody = FALSE =>
           Ordered(Schedules(Top.computation), positionContext.schedule, FALSE)
  BY <1>1, Between
<1>3. Good(c, PopBack(o)) /\ PopBack(o) \in Seq(Scopes)
      /\ c.schedule = positionContext.schedule
  <2> HIDE DEF o
  <2> QED
    BY <1>1, <1>2, GoodExitIf, BackOpen
<1> HIDE DEF o, c
<1> QED
  BY <1>1, <1>2, <1>3, WalkLeave

LEMMA WalkElseBranch == ASSUME IInv, WalkInv, ElseBranch PROVE WalkInv'
<1> DEFINE o == Top.open
           at == ExitIf(positionContext)
           cond(op) == [Back(o).node EXCEPT !.op = op]
           new(op) == Append(PopBack(o), Scope("else", cond(op), at))
<1>1. /\ BetweenStmts /\ o # << >> /\ Back(o).kind = "then"
      /\ \E op \in Negations(Back(o).node.op) :
           Exit \/ Move(EnterIf(at, cond(op)), [Top EXCEPT !.open = new(op)])
  BY DEF ElseBranch, EndOfBody
<1>2. CASE Exit
  BY <1>2, StopStep DEF Exit, Stop
<1>3. ASSUME NEW op \in Negations(Back(o).node.op),
             Move(EnterIf(at, cond(op)), [Top EXCEPT !.open = new(op)])
      PROVE  WalkInv'
  <2>1. /\ Good(positionContext, o) /\ o \in Seq(Scopes)
        /\ AllowEmptyBody = FALSE =>
             Ordered(Schedules(Top.computation), positionContext.schedule, FALSE)
    BY <1>1, Between
  <2> HIDE DEF o
  <2>2. Back(o).node \in CondSet
    BY <1>1, <2>1, BackOpen
  <2>3. op \in Ops
    BY <1>3, <2>2 DEF Negations, Ops, Comparisons
  <2>4. cond(op) \in CondSet
    BY <2>2, <2>3 DEF CondSet
  <2>5. /\ Good(at, PopBack(o)) /\ PopBack(o) \in Seq(Scopes)
        /\ at.schedule = positionContext.schedule
    BY <1>1, <2>1, GoodExitIf, BackOpen
  <2> HIDE DEF cond, at
  <2>6. /\ Scope("else", cond(op), at) \in Scopes
        /\ Good(EnterIf(at, cond(op)), new(op))
        /\ EnterIf(at, cond(op)).schedule = positionContext.schedule
    BY <2>4, <2>5, GoodEnterIf
  <2>7. new(op) \in Seq(Scopes)
    BY <2>5, <2>6
  <2> HIDE DEF new
  <2> QED
    BY <1>1, <1>3, <2>1, <2>6, <2>7, WalkLeave
<1> QED
  BY <1>1, <1>2, <1>3

-------------------------------------------------------------------------------
(* All the steps, and the beginning. *)
LEMMA WalkNext == ASSUME IInv, WalkInv, [Next]_vars PROVE WalkInv'
<1>1. ASSUME NEW s \in Source[Top.fn], BeginStmt(s) PROVE WalkInv'
  BY <1>1, WalkBeginStmt
<1>2. CASE Declare \/ CallReserved \/ BuildCallee \/ FinishCallee \/ InlineCall
             \/ AddStmt \/ AddReturn
  BY <1>2, WalkDeclare, WalkCallReserved, WalkBuildCallee, WalkFinishCallee,
     WalkInlineCall, WalkAddStmt, WalkAddReturn
<1>3. CASE AccessComponent
  <2>1. PICK accesses : Accessed(accesses)
    BY <1>3, Zenon DEF AccessComponent
  <2>2. Top.todo # << >> /\ Head(Top.todo).do # "call"
    BY <1>3 DEF AccessComponent, Working
  <2> QED
    BY <2>1, <2>2, WalkAccessed
<1>4. CASE AccessTarget
  <2>1. PICK accesses : Accessed(accesses)
    BY <1>4, Zenon DEF AccessTarget
  <2>2. Top.todo # << >> /\ Head(Top.todo).do # "call"
    BY <1>4 DEF AccessTarget, Working
  <2> QED
    BY <2>1, <2>2, WalkAccessed
<1>5. CASE \/ \E h \in Headers : OpenFor(h)
           \/ CloseFor
           \/ \E c \in Conds : OpenIf(c)
           \/ ElseBranch
           \/ CloseIf
  BY <1>5, WalkOpenFor, WalkCloseFor, WalkOpenIf, WalkElseBranch, WalkCloseIf
<1>6. CASE FailExpr \/ CallFails \/ AppendNull \/ Abandon \/ Finish
  BY <1>6, StopStep DEF FailExpr, CallFails, AppendNull, Abandon, Finish, Exit, Stop
<1>7. CASE UNCHANGED vars
  <2>1. status' \in {"running", "exit", "uncaught", "crash", "done"}
    BY <1>7 DEF vars, WalkInv
  <2> QED
    BY <1>7, <2>1, StopStep DEF vars
<1> QED
  BY <1>1, <1>2, <1>3, <1>4, <1>5, <1>6, <1>7 DEF Next, Terminated

LEMMA InitWalk == ASSUME Init PROVE WalkInv
<1> DEFINE b == Builder(Entry)
<1>1. /\ frames = <<b>> /\ positionContext = EmptyContext /\ subComputations = << >>
      /\ renamings = 0 /\ status = "running"
  BY DEF Init
<1>2. FrameOK(b, EmptyContext) /\ b.fn = Entry /\ Entry \in Fns
  BY ParamsAssumption, NewFrame DEF Builder
<1> HIDE DEF b
<1>3. Len(frames) = 1 /\ frames[1] = b
  BY <1>1
<1>4. RankOK(b, 1)
  BY <1>2, RankFacts DEF RankOK
<1>5. ContextOf(1) = EmptyContext
  BY <1>1, <1>3 DEF ContextOf
<1>6. \A k \in 1 .. Len(frames) : FrameOK(frames[k], ContextOf(k)) /\ RankOK(frames[k], k)
  BY <1>2, <1>3, <1>4, <1>5
<1> QED
  BY <1>1, <1>6 DEF WalkInv

(* The type invariant of the build: the builders at work are at most as    *)
(* many as the functions, and the shared context, the contexts set aside   *)
(* for it and the places in the source are what they should be.            *)
THEOREM BuildTypes == Spec => []TypeOK
<1>1. Init => IInv /\ WalkInv
  BY InitIInv, InitWalk
<1>2. (IInv /\ WalkInv) /\ [Next]_vars => (IInv /\ WalkInv)'
  BY StepKeepsIInv, WalkNext
<1>3. IInv /\ WalkInv => TypeOK
  BY WalkInvImplies
<1> QED
  BY <1>1, <1>2, <1>3, PTL DEF Spec

(* If no loop is left without a body, what any function contributes to its *)
(* callers, with all it has inlined itself, is a block in the sense of     *)
(* FunctionWalk, and returns at most one value.                            *)
THEOREM InlinedFunctionsAreBlocks ==
  ASSUME AllowEmptyBody = FALSE
  PROVE  Spec => []CalleesAreBlocks
<1>1. Init => IInv /\ WalkInv
  BY InitIInv, InitWalk
<1>2. (IInv /\ WalkInv) /\ [Next]_vars => (IInv /\ WalkInv)'
  BY StepKeepsIInv, WalkNext
<1>3. IInv /\ WalkInv => CalleesAreBlocks
  BY WalkInvImplies
<1> QED
  BY <1>1, <1>2, <1>3, PTL DEF Spec

-------------------------------------------------------------------------------
(* What enterFor collects from a loop's condition stays as it is in the    *)
(* loop.  What a statement assigns, iterators apart, is among the accesses *)
(* recorded for it, or the work left to do for it will record it.          *)
ToWrite(a, x) ==
  \/ a.do = "write" /\ Plain(a.expr) /\ a.expr.name = x
  \/ a.do = "declare" /\ a.decl.init /\ a.decl.name = x

WriteOf(x) == [name |-> DataSpace(x), isRead |-> FALSE]

WritesRecorded(b) ==
  \A x \in Assigned(b.stmt) \ IteratorsOf(b.open) :
    \/ WriteOf(x) \in b.dataAccesses
    \/ \E i \in 1 .. Len(b.todo) : ToWrite(b.todo[i], x)

(* What is collected from a loop's condition is invariant in every         *)
(* structure within it, or an iterator.                                    *)
Enclosing(o, l) == {o[k].node.iter : k \in {i \in 1 .. l : o[i].kind = "for"}}

ConditionsHeld(o) ==
  \A l \in 1 .. Len(o) :
    /\ NamesIn(After(o[l]).iterators) \subseteq Enclosing(o, l)
    /\ \A k \in 1 .. l :
         o[k].kind = "for" =>
           Collected(o[k].node) \subseteq Invariants(After(o[l])) \cup Enclosing(o, l)

LoopInv ==
  \A k \in 1 .. Len(frames) : WritesRecorded(frames[k]) /\ ConditionsHeld(frames[k].open)

-------------------------------------------------------------------------------
(* The conditions. *)

(* The iterators and the invariants of the context after a structure. *)
LEMMA IteratorsAfter ==
  ASSUME NEW s \in Scopes
  PROVE  NamesIn(After(s).iterators) \subseteq
           NamesIn(s.at.iterators) \cup (IF s.kind = "for" THEN {s.node.iter} ELSE {})
<1> DEFINE is == s.at.iterators
<1>1. s.at \in ContextSet(Iterators) /\ is \in Seq(Iterators)
  BY DEF Scopes, ContextSet
<1>2. CASE s.kind = "for"
  <2>1. After(s).iterators = Append(is, s.node.iter)
    BY <1>2 DEF After, EnterFor
  <2>2. s.node.iter \in Iterators
    BY <1>2 DEF Scopes, Iterators
  <2> HIDE DEF is
  <2>3. /\ Len(is) \in Nat /\ Len(Append(is, s.node.iter)) = Len(is) + 1
        /\ \A i \in 1 .. Len(is) : Append(is, s.node.iter)[i] = is[i]
        /\ Append(is, s.node.iter)[Len(is) + 1] = s.node.iter
    BY <1>1, <2>2, AppendProperties, LenProperties
  <2>4. \A i \in 1 .. Len(is) + 1 : i \in 1 .. Len(is) \/ i = Len(is) + 1
    BY <2>3
  <2> QED
    BY <1>2, <2>1, <2>3, <2>4 DEF NamesIn, is
<1>3. CASE s.kind # "for"
  <2>1. After(s).iterators = is
    BY <1>1, <1>3 DEF After, EnterIf, ContextSet
  <2> QED
    BY <2>1
<1> QED
  BY <1>2, <1>3

LEMMA InvariantsAfter ==
  ASSUME NEW s \in Scopes
  PROVE  /\ Invariants(s.at) \subseteq Invariants(After(s))
         /\ s.kind = "for" =>
              Collected(s.node) \subseteq Invariants(After(s)) \cup NamesIn(s.at.iterators)
<1> DEFINE vs == s.at.invariants
<1>1. s.at \in ContextSet(Iterators)
  BY DEF Scopes
<1>2. vs \in Seq(SUBSET STRING)
  BY <1>1 DEF ContextSet
<1>3. CASE s.kind = "for"
  <2> DEFINE e == NewInvariants(s.at, s.node)
  <2>1. s.node \in HeaderSet(Iterators)
    BY <1>3, SourceAssumption DEF Scopes
  <2>2. e \in SUBSET STRING /\ Collected(s.node) \subseteq e \cup NamesIn(s.at.iterators)
    BY <1>2, <2>1 DEF NewInvariants, HeaderSet, Collected
  <2>3. After(s).invariants = Append(vs, e)
    BY <1>3 DEF After, EnterFor
  <2> HIDE DEF e, vs
  <2>4. /\ Len(vs) \in Nat /\ Len(Append(vs, e)) = Len(vs) + 1
        /\ \A i \in 1 .. Len(vs) : Append(vs, e)[i] = vs[i]
        /\ Append(vs, e)[Len(vs) + 1] = e
    BY <1>2, <2>2, AppendProperties, LenProperties
  <2>5. /\ \A i \in 1 .. Len(vs) : vs[i] \in NamesIn(Append(vs, e))
        /\ e \in NamesIn(Append(vs, e))
    BY <2>4 DEF NamesIn
  <2>6. Invariants(s.at) \subseteq Invariants(After(s)) /\ e \subseteq Invariants(After(s))
    BY <2>3, <2>5 DEF Invariants, NamesIn, vs
  <2> QED
    BY <2>2, <2>6
<1>4. CASE s.kind # "for"
  <2>1. After(s).invariants = s.at.invariants
    BY <1>1, <1>4 DEF After, EnterIf, ContextSet
  <2> QED
    BY <1>4, <2>1 DEF Invariants
<1> QED
  BY <1>3, <1>4

(* A structure more: what enterFor adds includes its condition. *)
LEMMA HeldPush ==
  ASSUME NEW o \in Seq(Scopes), NEW s \in Scopes, ConditionsHeld(o), Good(s.at, o)
  PROVE  ConditionsHeld(Append(o, s))
<1> DEFINE n == Len(o)
           p == Append(o, s)
           iter == IF s.kind = "for" THEN {s.node.iter} ELSE {}
<1>1. /\ n \in Nat /\ Len(p) = n + 1 /\ p[n + 1] = s
      /\ \A i \in 1 .. n : p[i] = o[i]
  BY AppendProperties, LenProperties
<1>2. /\ n # 0 => /\ Invariants(After(o[n])) \subseteq Invariants(After(s))
                  /\ s.at.iterators = After(o[n]).iterators
      /\ n = 0 => s.at.iterators = << >>
  <2>1. /\ n # 0 => /\ s.at.invariants = After(o[n]).invariants
                    /\ s.at.iterators = After(o[n]).iterators
        /\ n = 0 => s.at.iterators = << >>
    BY <1>1 DEF Good, Balanced, SameScopes, Outside, EmptyContext
  <2> QED
    BY <2>1, InvariantsAfter DEF Invariants
<1> HIDE DEF n, p
<1>3. \A l \in 1 .. n : Enclosing(p, l) = Enclosing(o, l)
  <2> TAKE l \in 1 .. n
  <2>1. \A i \in 1 .. l : p[i] = o[i]
    BY <1>1
  <2> QED
    BY <2>1 DEF Enclosing
<1>4. Enclosing(o, n) \cup iter \subseteq Enclosing(p, n + 1)
  <2>1. \A i \in 1 .. n : i \in 1 .. n + 1 /\ p[i] = o[i]
    BY <1>1
  <2>2. n + 1 \in 1 .. n + 1 /\ p[n + 1] = s
    BY <1>1
  <2> QED
    BY <2>1, <2>2 DEF Enclosing
<1>5. NamesIn(s.at.iterators) \subseteq Enclosing(o, n)
  <2>1. CASE n = 0
    <3>1. NamesIn(<< >>) = {}
      BY DEF NamesIn
    <3> QED
      BY <1>2, <2>1, <3>1
  <2>2. CASE n # 0
    <3>1. n \in 1 .. n
      BY <1>1, <2>2
    <3> QED
      BY <1>2, <2>2, <3>1 DEF ConditionsHeld, n
  <2> QED
    BY <2>1, <2>2
<1>6. NamesIn(After(s).iterators) \subseteq Enclosing(p, n + 1)
  <2>1. NamesIn(After(s).iterators) \subseteq NamesIn(s.at.iterators) \cup iter
    BY IteratorsAfter
  <2> HIDE DEF iter
  <2> QED
    BY <1>4, <1>5, <2>1
<1> HIDE DEF iter
<1>7. ASSUME NEW l \in 1 .. n + 1
      PROVE  NamesIn(After(p[l]).iterators) \subseteq Enclosing(p, l)
  <2>1. CASE l # n + 1
    <3>1. l \in 1 .. n /\ p[l] = o[l]
      BY <1>1, <2>1
    <3> QED
      BY <1>3, <3>1 DEF ConditionsHeld, n
  <2>2. CASE l = n + 1
    BY <1>1, <1>6, <2>2
  <2> QED
    BY <2>1, <2>2
<1>8. ASSUME NEW l \in 1 .. n + 1, NEW k \in 1 .. l, p[k].kind = "for"
      PROVE  Collected(p[k].node) \subseteq Invariants(After(p[l])) \cup Enclosing(p, l)
  <2>1. CASE l # n + 1
    <3>1. l \in 1 .. n /\ k \in 1 .. n /\ p[k] = o[k] /\ p[l] = o[l]
      BY <1>1, <2>1
    <3> QED
      BY <1>3, <1>8, <3>1 DEF ConditionsHeld, n
  <2>2. CASE l = n + 1 /\ k # n + 1
    <3>1. n # 0 /\ n \in 1 .. n /\ k \in 1 .. n /\ p[k] = o[k] /\ p[l] = s
      BY <1>1, <2>2
    <3>2. Collected(o[k].node) \subseteq Invariants(After(o[n])) \cup Enclosing(o, n)
      BY <1>8, <3>1 DEF ConditionsHeld, n
    <3> QED
      BY <1>2, <1>4, <2>2, <3>1, <3>2
  <2>3. CASE l = n + 1 /\ k = n + 1
    <3>1. p[k] = s /\ p[l] = s
      BY <1>1, <2>3
    <3>2. Collected(s.node) \subseteq Invariants(After(s)) \cup NamesIn(s.at.iterators)
      BY <1>8, <3>1, InvariantsAfter
    <3> QED
      BY <1>4, <1>5, <2>3, <3>1, <3>2
  <2> QED
    BY <2>1, <2>2, <2>3
<1> QED
  BY <1>1, <1>7, <1>8 DEF ConditionsHeld, p

(* A structure less. *)
LEMMA HeldPop ==
  ASSUME NEW o \in Seq(Scopes), o # << >>, ConditionsHeld(o)
  PROVE  ConditionsHeld(PopBack(o))
<1> DEFINE p == PopBack(o)
           n == Len(o)
<1>1. Len(p) = n - 1 /\ n \in Nat \ {0} /\ \A i \in 1 .. n - 1 : p[i] = o[i]
  BY PopBackProperties, EmptySeq
<1> HIDE DEF p, n
<1>2. ASSUME NEW l \in 1 .. n - 1
      PROVE  /\ l \in 1 .. n /\ p[l] = o[l]
             /\ \A i \in 1 .. l : p[i] = o[i]
             /\ Enclosing(p, l) = Enclosing(o, l)
  <2>1. l \in 1 .. n /\ p[l] = o[l] /\ \A i \in 1 .. l : p[i] = o[i]
    BY <1>1
  <2> QED
    BY <2>1 DEF Enclosing
<1>3. ASSUME NEW l \in 1 .. n - 1
      PROVE  /\ NamesIn(After(p[l]).iterators) \subseteq Enclosing(p, l)
             /\ \A k \in 1 .. l :
                  p[k].kind = "for" =>
                    Collected(p[k].node) \subseteq Invariants(After(p[l])) \cup Enclosing(p, l)
  BY <1>2 DEF ConditionsHeld, n
<1> QED
  BY <1>1, <1>3 DEF ConditionsHeld, p

(* The iterators of loops are iterators. *)
LEMMA OpenIterators == ASSUME NEW o \in Seq(Scopes) PROVE IteratorsOf(o) \subseteq Iterators
<1>1. \A k \in 1 .. Len(o) : o[k] \in Scopes
  BY ElementOfSeq
<1> QED
  BY <1>1 DEF IteratorsOf, ForsAmong, Scopes, Iterators

(* At a statement within a loop, or within none. *)
LEMMA HeldAt ==
  ASSUME NEW c, NEW o \in Seq(Scopes), Good(c, o), ConditionsHeld(o)
  PROVE  /\ NamesIn(c.iterators) \subseteq IteratorsOf(o)
         /\ \A k \in ForsAmong(o) :
              Collected(o[k].node) \subseteq Invariants(c) \cup IteratorsOf(o)
<1>1. Len(o) \in Nat
  BY LenProperties
<1>2. CASE Len(o) = 0
  <2>1. c.iterators = << >>
    BY <1>2 DEF Good, Balanced, SameScopes, Outside, EmptyContext
  <2> QED
    BY <1>2, <2>1 DEF NamesIn, ForsAmong
<1>3. CASE Len(o) # 0
  <2>1. c.invariants = After(o[Len(o)]).invariants /\ c.iterators = After(o[Len(o)]).iterators
    BY <1>1, <1>3 DEF Good, Balanced, SameScopes, Outside
  <2>2. Len(o) \in 1 .. Len(o) /\ Enclosing(o, Len(o)) = IteratorsOf(o)
    BY <1>1, <1>3 DEF Enclosing, IteratorsOf, ForsAmong
  <2> QED
    BY <2>1, <2>2 DEF ConditionsHeld, Invariants, ForsAmong
<1> QED
  BY <1>2, <1>3

-------------------------------------------------------------------------------
(* The writes. *)

(* The work behind the first. *)
LEMMA ToWriteTail ==
  ASSUME NEW w, IsSequence(w), w # << >>, NEW x, ~ToWrite(Head(w), x),
         \E i \in 1 .. Len(w) : ToWrite(w[i], x)
  PROVE  \E i \in 1 .. Len(Tail(w)) : ToWrite(Tail(w)[i], x)
<1> DEFINE n == Len(w)
           t == Tail(w)
<1>1. w \in Seq(Elements(w))
  BY DEF IsSequence
<1>2. n \in Nat \ {0} /\ Head(w) = w[1]
  BY <1>1, EmptySeq, LenProperties
<1>3. Len(t) = n - 1 /\ \A i \in 1 .. n - 1 : t[i] = w[i + 1]
  BY <1>1, <1>2, HeadTailProperties
<1>4. PICK i \in 1 .. n : ToWrite(w[i], x)
  OBVIOUS
<1> HIDE DEF n, t
<1>5. i # 1
  BY <1>2, <1>4
<1>6. i - 1 \in 1 .. n - 1 /\ t[i - 1] = w[i]
  BY <1>2, <1>3, <1>5
<1>7. \E j \in 1 .. Len(t) : ToWrite(t[j], x)
  BY <1>3, <1>4, <1>6
<1> QED
  BY <1>7 DEF t

(* The first has been done. *)
LEMMA RecordedTail ==
  ASSUME NEW b, NEW c, IsSequence(b.todo), b.todo # << >>, WritesRecorded(b),
         \A x \in Assigned(b.stmt) \ IteratorsOf(b.open) :
           ~ToWrite(Head(b.todo), x) \/ WriteOf(x) \in c.dataAccesses,
         c.stmt = b.stmt, c.open = b.open, c.todo = Tail(b.todo), b.dataAccesses \subseteq c.dataAccesses
  PROVE  WritesRecorded(c)
<1>1. ASSUME NEW x \in Assigned(c.stmt) \ IteratorsOf(c.open), WriteOf(x) \notin c.dataAccesses
      PROVE  \E i \in 1 .. Len(c.todo) : ToWrite(c.todo[i], x)
  <2>1. /\ \E i \in 1 .. Len(b.todo) : ToWrite(b.todo[i], x)
        /\ ~ToWrite(Head(b.todo), x)
    BY <1>1 DEF WritesRecorded
  <2> QED
    BY <2>1, ToWriteTail
<1> QED
  BY <1>1 DEF WritesRecorded

(* A write in either part of the work. *)
LEMMA ToWriteConcat ==
  ASSUME NEW u, IsSequence(u), NEW v, IsSequence(v), NEW x,
         \/ \E i \in 1 .. Len(u) : ToWrite(u[i], x)
         \/ \E i \in 1 .. Len(v) : ToWrite(v[i], x)
  PROVE  \E i \in 1 .. Len(u \o v) : ToWrite((u \o v)[i], x)
<1> DEFINE w == u \o v
<1>1. /\ Len(u) \in Nat /\ Len(v) \in Nat /\ Len(w) = Len(u) + Len(v)
      /\ \A i \in 1 .. Len(u) + Len(v) :
           w[i] = IF i <= Len(u) THEN u[i] ELSE v[i - Len(u)]
  BY Concatenated
<1> HIDE DEF w
<1>2. CASE \E i \in 1 .. Len(u) : ToWrite(u[i], x)
  <2>1. PICK i \in 1 .. Len(u) : ToWrite(u[i], x)
    BY <1>2
  <2>2. i \in 1 .. Len(w) /\ w[i] = u[i]
    BY <1>1
  <2> QED
    BY <2>1, <2>2 DEF w
<1>3. CASE \E i \in 1 .. Len(v) : ToWrite(v[i], x)
  <2>1. PICK i \in 1 .. Len(v) : ToWrite(v[i], x)
    BY <1>3
  <2> DEFINE j == Len(u) + i
  <2>2. j \in 1 .. Len(w) /\ w[j] = v[i]
    BY <1>1
  <2> QED
    BY <2>1, <2>2 DEF w
<1> QED
  BY <1>2, <1>3

(* Sequences of work. *)
LEMMA OneSequence == ASSUME NEW e PROVE IsSequence(<<e>>)
<1>1. <<e>> \in Seq({e})
  OBVIOUS
<1> QED
  BY <1>1, Sequences

LEMMA ExprWorkSequence ==
  ASSUME NEW value, Len(value) \in Nat, NEW r
  PROVE  IsSequence(ExprWork(value, r))
<1> DEFINE item(i) == [do |-> IF value[i].kind = "call" THEN "call" ELSE "component",
                       expr |-> value[i], reads |-> r]
           w == [i \in 1 .. Len(value) |-> item(i)]
           fail == [do |-> "fail"]
<1>1. ExprWork(value, r) = <<fail>> \/ ExprWork(value, r) = w
  BY DEF ExprWork
<1> HIDE DEF item, fail
<1>2. IsSequence(w)
  BY DEF IsSequence, Elements
<1>3. IsSequence(<<fail>>)
  BY OneSequence
<1> QED
  BY <1>1, <1>2, <1>3

(* The beginning of a statement. *)
LEMMA RecordedBegin ==
  ASSUME NEW f \in Fns, NEW s \in Source[f], NEW x \in Assigned(s)
  PROVE  \E i \in 1 .. Len(Work(s)) : ToWrite(Work(s)[i], x)
<1>1. /\ s.kind \in {"decl", "assign", "update", "expr", "call", "return", "other",
                     "unsupported"}
      /\ s.kind = "decl" => Len(s.decls) \in Nat
      /\ s.kind \in {"assign", "update"} => Len(s.value) \in Nat
  BY StatementTypes
<1>3. s.kind \in {"decl", "assign", "update"}
  BY <1>1 DEF Assigned, IsAssignment
<1>4. CASE s.kind = "decl"
  <2> DEFINE w == [i \in 1 .. Len(s.decls) |-> [do |-> "declare", decl |-> s.decls[i]]]
  <2>1. Work(s) = w /\ Len(w) = Len(s.decls)
    BY <1>1, <1>4 DEF Work, IsAssignment
  <2>2. PICK i \in 1 .. Len(s.decls) : s.decls[i].init /\ x = s.decls[i].name
    <3>1. x \in {s.decls[i].name : i \in {j \in 1 .. Len(s.decls) : s.decls[j].init}}
      BY <1>4 DEF Assigned, IsAssignment
    <3> QED
      BY <3>1
  <2>3. w[i].do = "declare" /\ w[i].decl = s.decls[i]
    OBVIOUS
  <2> HIDE DEF w
  <2>4. ToWrite(w[i], x)
    BY <2>2, <2>3, Zenon DEF ToWrite
  <2> QED
    BY <2>1, <2>4
<1>5. CASE s.kind \in {"assign", "update"}
  <2> DEFINE u == <<Write(s.target)>>
             v == IF s.kind = "update" THEN ExprWork(<<Unparen(s.target)>>, TRUE) ELSE << >>
             w == ExprWork(s.value, TRUE)
  <2>1. Work(s) = (u \o v) \o w /\ Plain(s.target) /\ x = s.target.name
    BY <1>5 DEF Work, Assigned, IsAssignment
  <2>2. IsSequence(u)
    BY OneSequence
  <2>3. IsSequence(v)
    <3>1. Len(<<Unparen(s.target)>>) \in Nat
      OBVIOUS
    <3>2. IsSequence(ExprWork(<<Unparen(s.target)>>, TRUE))
      BY <3>1, ExprWorkSequence
    <3>3. IsSequence(<< >>)
      BY EmptySeq DEF IsSequence
    <3> QED
      BY <3>2, <3>3
  <2>4. IsSequence(w)
    BY <1>1, <1>5, ExprWorkSequence
  <2>5. 1 \in 1 .. Len(u) /\ ToWrite(u[1], x)
    BY <2>1 DEF ToWrite, Write
  <2> HIDE DEF u, v, w
  <2>6. IsSequence(u \o v)
    BY <2>2, <2>3, Concatenated
  <2>7. \E i \in 1 .. Len(u \o v) : ToWrite((u \o v)[i], x)
    BY <2>2, <2>3, <2>5, ToWriteConcat
  <2> QED
    BY <2>1, <2>4, <2>6, <2>7, ToWriteConcat
<1> QED
  BY <1>3, <1>4, <1>5

(* A declaration writes the variable when its value has been looked at. *)
LEMMA InitialiseWrites ==
  ASSUME NEW d, d.init, Len(d.value) \in Nat
  PROVE  \E i \in 1 .. Len(Initialise(d)) : ToWrite(Initialise(d)[i], d.name)
<1> DEFINE e == ExprWork(d.value, TRUE)
           a == Write(Ref(d.name))
<1>1. IsSequence(e)
  BY ExprWorkSequence
<1>2. Initialise(d) = Append(e, a)
  BY Zenon DEF Initialise
<1>3. ToWrite(a, d.name)
  BY DEF ToWrite, Write, Ref, Plain
<1> HIDE DEF e, a
<1>4. /\ Len(e) \in Nat /\ Len(Append(e, a)) = Len(e) + 1
      /\ Append(e, a)[Len(e) + 1] = a
  BY <1>1, Appended
<1>5. Len(e) + 1 \in 1 .. Len(Append(e, a))
  BY <1>4
<1> QED
  BY <1>2, <1>3, <1>4, <1>5

LEMMA RecordedDeclare ==
  ASSUME NEW b, NEW c, IsSequence(b.todo), b.todo # << >>, WritesRecorded(b),
         Head(b.todo).do = "declare", IsSequence(Tail(b.todo)),
         NEW d, d = Head(b.todo).decl, IsSequence(Initialise(d)), Len(d.value) \in Nat,
         c.stmt = b.stmt, c.open = b.open, c.todo = Initialise(d) \o Tail(b.todo),
         c.dataAccesses = b.dataAccesses
  PROVE  WritesRecorded(c)
<1> DEFINE u == Initialise(d)
           v == Tail(b.todo)
<1>1. ASSUME NEW x, ToWrite(Head(b.todo), x)
      PROVE  \E j \in 1 .. Len(u) : ToWrite(u[j], x)
  <2>1. d.init /\ d.name = x
    BY <1>1, Zenon DEF ToWrite
  <2> QED
    BY <2>1, InitialiseWrites
<1> HIDE DEF u
<1>2. ASSUME NEW x \in Assigned(c.stmt) \ IteratorsOf(c.open), WriteOf(x) \notin c.dataAccesses
      PROVE  \E j \in 1 .. Len(c.todo) : ToWrite(c.todo[j], x)
  <2>1. \E j \in 1 .. Len(b.todo) : ToWrite(b.todo[j], x)
    BY <1>2 DEF WritesRecorded
  <2>2. \/ \E j \in 1 .. Len(u) : ToWrite(u[j], x)
        \/ \E j \in 1 .. Len(v) : ToWrite(v[j], x)
    BY <1>1, <2>1, ToWriteTail
  <2>3. IsSequence(u) /\ IsSequence(v) /\ c.todo = u \o v
    BY DEF u
  <2> HIDE DEF v
  <2>4. \E j \in 1 .. Len(u \o v) : ToWrite((u \o v)[j], x)
    BY <2>2, <2>3, ToWriteConcat
  <2> QED
    BY <2>3, <2>4
<1> QED
  BY <1>2 DEF WritesRecorded

(* The write of a name that is no iterator is recorded. *)
LEMMA RecordedWrite ==
  ASSUME NEW c, c.name \notin NamesIn(positionContext.iterators)
  PROVE  WriteOf(c.name) \in Accesses(c, FALSE)
<1>1. /\ WriteOf(c.name) = [name |-> DataSpace(c.name), isRead |-> FALSE]
      /\ WriteOf(c.name).name.name = c.name
  BY DEF WriteOf, DataSpace
<1>2. ~IsIterator(WriteOf(c.name).name)
  BY <1>1 DEF IsIterator, IsIteratorName
<1> QED
  BY <1>1, <1>2 DEF Accesses

-------------------------------------------------------------------------------
(* The steps. *)
LEMMA Replaced ==
  ASSUME IInv, NEW b, frames' = [frames EXCEPT ![Len(frames)] = b]
  PROVE  /\ Len(frames) \in Nat \ {0}
         /\ Len(frames') = Len(frames)
         /\ \A i \in 1 .. Len(frames) :
              frames'[i] = IF i = Len(frames) THEN b ELSE frames[i]
<1> DEFINE S == Elements(frames) \cup {b}
<1>1. Len(frames) \in Nat \ {0} /\ frames \in Seq(S)
  BY AtWork, Wider DEF IInv
<1>2. Len(frames) \in 1 .. Len(frames) /\ b \in S
  BY <1>1
<1> HIDE DEF S
<1> QED
  BY <1>1, <1>2, ExceptSeq

(* A step of the builder at work keeps LoopInv if its new state does. *)
LEMMA LoopStep ==
  ASSUME IInv, LoopInv, NEW b, frames' = [frames EXCEPT ![Len(frames)] = b],
         WritesRecorded(b), ConditionsHeld(b.open)
  PROVE  LoopInv'
<1>1. \A k \in 1 .. Len(frames') :
        WritesRecorded(frames'[k]) /\ ConditionsHeld(frames'[k].open)
  BY Replaced DEF LoopInv
<1> QED
  BY <1>1 DEF LoopInv, WritesRecorded, ConditionsHeld

LEMMA LoopSame == ASSUME LoopInv, UNCHANGED frames PROVE LoopInv'
BY DEF LoopInv, WritesRecorded, ConditionsHeld

(* What LoopInv says of the builder at work. *)
LEMMA LoopTop ==
  ASSUME IInv, WalkInv, LoopInv
  PROVE  /\ WritesRecorded(Top) /\ ConditionsHeld(Top.open)
         /\ IsSequence(Top.todo)
<1>1. Len(frames) \in Nat \ {0} /\ Top = frames[Len(frames)] /\ FrameOK(Top, positionContext)
  BY AtWork, WorkingFrame DEF IInv
<1>2. Len(frames) \in 1 .. Len(frames)
  BY <1>1
<1> QED
  BY <1>1, <1>2 DEF LoopInv, FrameOK, StmtWork, WorkOK

(* Only assignments and declarations change anything. *)
LEMMA NoWrites ==
  ASSUME NEW b, b.stmt.kind \in {"none", "expr", "call", "return"}
  PROVE  Assigned(b.stmt) = {} /\ WritesRecorded(b)
BY DEF Assigned, WritesRecorded, IsAssignment

(* A statement begins with all its changes still to be done. *)
LEMMA LoopBeginStmt ==
  ASSUME IInv, WalkInv, LoopInv, NEW s \in Source[Top.fn], BeginStmt(s)
  PROVE  LoopInv'
<1> DEFINE b == [Started EXCEPT !.stmt = s, !.todo = Work(s)]
<1>1. /\ BuilderOK(Top) /\ Top.fn \in Fns /\ ConditionsHeld(Top.open)
  BY LoopTop, WorkingFrame DEF BuilderOK
<1>2. CASE Exit
  BY <1>2, LoopSame DEF Exit, Stop
<1>3. CASE Move(Advance(positionContext), b)
  <2>1. b.stmt = s /\ b.todo = Work(s) /\ b.open = Top.open
    BY <1>1 DEF BuilderOK, Started
  <2> HIDE DEF b
  <2>2. WritesRecorded(b)
    BY <1>1, <2>1, RecordedBegin DEF WritesRecorded
  <2> QED
    BY <1>1, <1>3, <2>1, <2>2, LoopStep DEF Move
<1> QED
  BY <1>2, <1>3 DEF BeginStmt

(* A declared name is written once its initial value has been looked at. *)
LEMMA LoopDeclare ==
  ASSUME IInv, WalkInv, LoopInv, Declare
  PROVE  LoopInv'
<1> DEFINE d == Head(Top.todo).decl
           u == Initialise(d)
           v == Tail(Top.todo)
           b == [Top EXCEPT !.varDecls = Append(@, d.name), !.todo = u \o v]
<1>1. /\ BuilderOK(Top) /\ Top.fn \in Fns /\ ConditionsHeld(Top.open) /\ WritesRecorded(Top)
      /\ FrameOK(Top, positionContext)
  BY LoopTop, WorkingFrame DEF BuilderOK
<1>2. CASE Exit
  BY <1>2, LoopSame DEF Exit, Stop
<1>3. CASE Stay(b)
  <2>1. /\ b.stmt = Top.stmt /\ b.todo = u \o v /\ b.open = Top.open
        /\ b.dataAccesses = Top.dataAccesses
    BY <1>1 DEF BuilderOK
  <2>2. /\ Top.todo # << >> /\ Head(Top.todo).do = "declare" /\ StmtWork(Top)
    BY <1>1 DEF Declare, Working, FrameOK
  <2>3. /\ WorkOK(v, Top.stmt) /\ WorkItem(Head(Top.todo), Top.stmt)
        /\ IsSequence(Top.todo)
    BY <2>2, WorkTail DEF StmtWork, WorkOK
  <2>4. Top.stmt.kind = "decl" /\ Top.stmt \in Source[Top.fn]
    BY <2>2, <2>3 DEF WorkItem, StmtWork, NoStmt
  <2>5. PICK i \in 1 .. Len(Top.stmt.decls) : d = Top.stmt.decls[i]
    BY <2>2, <2>3 DEF WorkItem
  <2>6. WorkOK(u, Top.stmt) /\ Len(d.value) \in Nat
    <3>1. WorkOK(Initialise(Top.stmt.decls[i]), Top.stmt)
      BY <1>1, <2>4, InitialiseOK
    <3>2. Len(Top.stmt.decls[i].value) \in Nat
      BY <1>1, <2>4, StatementTypes
    <3> HIDE DEF d
    <3> QED
      BY <2>5, <3>1, <3>2
  <2>7. IsSequence(u) /\ IsSequence(v)
    BY <2>3, <2>6 DEF WorkOK
  <2> HIDE DEF b, d
  <2>8. WritesRecorded(b)
    BY <1>1, <2>1, <2>2, <2>3, <2>6, <2>7, RecordedDeclare DEF d
  <2> QED
    BY <1>1, <1>3, <2>1, <2>8, LoopStep DEF Stay, Move
<1> QED
  BY <1>2, <1>3 DEF Declare

(* An access of what is to be written next. *)
LEMMA LoopAccessed ==
  ASSUME IInv, WalkInv, LoopInv, NEW accesses, Accessed(accesses), Top.todo # << >>,
         \A x \in Assigned(Top.stmt) \ IteratorsOf(Top.open) :
           ~ToWrite(Head(Top.todo), x) \/ WriteOf(x) \in accesses
  PROVE  LoopInv'
<1> DEFINE b == [Top EXCEPT !.dataAccesses = @ \cup accesses, !.todo = Tail(@)]
<1>1. BuilderOK(Top) /\ Stay(b)
  BY WorkingFrame DEF Accessed
<1>2. /\ b.stmt = Top.stmt /\ b.todo = Tail(Top.todo) /\ b.open = Top.open
      /\ b.dataAccesses = Top.dataAccesses \cup accesses
  BY <1>1 DEF BuilderOK
<1> HIDE DEF b
<1>3. WritesRecorded(b)
  BY <1>2, LoopTop, RecordedTail
<1> QED
  BY <1>1, <1>2, <1>3, LoopTop, LoopStep DEF Stay, Move

(* The target of an assignment, if it is no iterator. *)
LEMMA LoopAccessTarget ==
  ASSUME IInv, WalkInv, LoopInv, AccessTarget
  PROVE  LoopInv'
<1> DEFINE c == Head(Top.todo).expr
           accesses == IF Plain(c) THEN Accesses(c, FALSE) ELSE {}
<1>1. Accessed(accesses) /\ Top.todo # << >> /\ Head(Top.todo).do = "write"
  BY DEF AccessTarget, Working
<1>2. ASSUME NEW x \in Assigned(Top.stmt) \ IteratorsOf(Top.open), ToWrite(Head(Top.todo), x)
      PROVE  WriteOf(x) \in accesses
  <2>1. Plain(c) /\ c.name = x
    BY <1>1, <1>2, Zenon DEF ToWrite
  <2>2. NamesIn(positionContext.iterators) \subseteq IteratorsOf(Top.open)
    <3>1. FrameOK(Top, positionContext) /\ ConditionsHeld(Top.open)
      BY WorkingFrame, LoopTop
    <3> QED
      BY <3>1, HeldAt DEF FrameOK
  <2> HIDE DEF c
  <2> QED
    BY <1>2, <2>1, <2>2, RecordedWrite
<1> HIDE DEF accesses
<1> QED
  BY <1>1, <1>2, LoopAccessed

(* The end of a call writes nothing in the caller. *)
LEMMA LoopAfterCall ==
  ASSUME NEW b, DOMAIN b = DOMAIN Builder(b.fn), NEW read,
         WritesRecorded(b), IsSequence(b.todo), b.todo # << >>, Head(b.todo).do = "call"
  PROVE  /\ WritesRecorded(AfterCall(b, read))
         /\ AfterCall(b, read).open = b.open
         /\ b.stmt.kind # "call" => AfterCall(b, read).stmt = b.stmt
<1> DEFINE c == AfterCall(b, read)
<1>1. /\ c.stmt = IF b.stmt.kind = "call" THEN NoStmt ELSE b.stmt
      /\ c.todo = Tail(b.todo) /\ c.open = b.open
      /\ c.dataAccesses = b.dataAccesses \cup read
  BY DEF AfterCall, Builder
<1> HIDE DEF c
<1>2. \A x : ~ToWrite(Head(b.todo), x)
  BY DEF ToWrite
<1>3. CASE b.stmt.kind = "call"
  <2>1. WritesRecorded(c)
    BY <1>1, <1>3, NoWrites DEF NoStmt
  <2> QED
    BY <1>1, <1>3, <2>1 DEF c
<1>4. CASE b.stmt.kind # "call"
  <2>1. WritesRecorded(c)
    BY <1>1, <1>2, <1>4, RecordedTail
  <2> QED
    BY <1>1, <1>4, <2>1 DEF c
<1> QED
  BY <1>3, <1>4

(* Calls. *)
LEMMA LoopCallReserved ==
  ASSUME IInv, WalkInv, LoopInv, CallReserved
  PROVE  LoopInv'
<1>1. PICK read : Stay(AfterCall(Top, read))
  BY Zenon DEF CallReserved
<1> DEFINE b == AfterCall(Top, read)
<1>2. /\ DOMAIN Top = DOMAIN Builder(Top.fn)
      /\ Top.todo # << >> /\ Head(Top.todo).do = "call"
  BY WorkingFrame DEF BuilderOK, Builder, CallReserved, Working
<1>3. WritesRecorded(b) /\ b.open = Top.open
  BY <1>2, LoopTop, LoopAfterCall
<1> HIDE DEF b
<1> QED
  BY <1>1, <1>3, LoopTop, LoopStep DEF Stay, Move, b

LEMMA LoopInlineCall ==
  ASSUME IInv, WalkInv, LoopInv, InlineCall
  PROVE  LoopInv'
<1>1. CASE Exit
  BY <1>1, LoopSame DEF Exit, Stop
<1>2. CASE ~Exit
  <2>1. PICK into, read :
          frames' = [frames EXCEPT ![Len(frames)] =
            AfterCall([Top EXCEPT !.started = @ + 1, !.computation = into], read)]
    BY <1>2, Zenon DEF InlineCall
  <2> DEFINE a == [Top EXCEPT !.started = @ + 1, !.computation = into]
             b == AfterCall(a, read)
  <2>2. /\ BuilderOK(Top) /\ Top.todo # << >> /\ Head(Top.todo).do = "call"
    BY WorkingFrame DEF InlineCall, Working
  <2>3. /\ DOMAIN a = DOMAIN Builder(a.fn)
        /\ a.stmt = Top.stmt /\ a.todo = Top.todo /\ a.open = Top.open
        /\ a.dataAccesses = Top.dataAccesses
    BY <2>2 DEF BuilderOK, Builder
  <2>4. frames' = [frames EXCEPT ![Len(frames)] = b]
    BY <2>1
  <2> HIDE DEF a
  <2>5. WritesRecorded(a) /\ IsSequence(a.todo)
    BY <2>3, LoopTop DEF WritesRecorded
  <2>6. WritesRecorded(b) /\ b.open = Top.open
    BY <2>2, <2>3, <2>5, LoopAfterCall
  <2> HIDE DEF b
  <2> QED
    BY <2>4, <2>6, LoopTop, LoopStep
<1> QED
  BY <1>1, <1>2

(* A new builder has no structures and no statement, and its caller waits. *)
LEMMA LoopBuildCallee ==
  ASSUME IInv, WalkInv, LoopInv, BuildCallee
  PROVE  /\ LoopInv'
         /\ frames'[Len(frames)].stmt = Top.stmt
<1> DEFINE n == Len(frames)
           caller == [Top EXCEPT !.oldContext = positionContext, !.building = TRUE]
           fs == [frames EXCEPT ![n] = caller]
           new == Builder(Call.callee)
           S == Elements(frames) \cup {caller, new}
<1>1. frames' = Append(fs, new)
  BY AtWork DEF BuildCallee, IInv
<1>2. n \in Nat \ {0} /\ BuilderOK(Top)
  BY WorkingFrame
<1>3. frames \in Seq(S) /\ caller \in S /\ new \in S /\ n \in 1 .. n
  BY <1>2, AtWork, Wider DEF IInv
<1>4. /\ caller.stmt = Top.stmt /\ caller.todo = Top.todo /\ caller.open = Top.open
      /\ caller.dataAccesses = Top.dataAccesses
  BY <1>2 DEF BuilderOK
<1>5. new.stmt.kind = "none" /\ new.open = << >>
  BY DEF Builder, NoStmt
<1> HIDE DEF S, caller, new, n
<1>6. /\ fs \in Seq(S) /\ Len(fs) = n
      /\ \A i \in 1 .. n : fs[i] = IF i = n THEN caller ELSE frames[i]
  BY <1>3, ExceptSeq DEF n
<1> HIDE DEF fs
<1>7. /\ Len(frames') = n + 1 /\ frames'[n + 1] = new
      /\ \A i \in 1 .. n : frames'[i] = IF i = n THEN caller ELSE frames[i]
  BY <1>1, <1>3, <1>6, AppendProperties
<1>8. WritesRecorded(caller) /\ ConditionsHeld(caller.open)
  BY <1>4, LoopTop DEF WritesRecorded
<1>9. WritesRecorded(new) /\ ConditionsHeld(new.open)
  BY <1>5, NoWrites DEF ConditionsHeld
<1>10. \A k \in 1 .. Len(frames') :
         WritesRecorded(frames'[k]) /\ ConditionsHeld(frames'[k].open)
  BY <1>2, <1>7, <1>8, <1>9 DEF LoopInv, n
<1> QED
  BY <1>3, <1>4, <1>7, <1>10 DEF LoopInv, WritesRecorded, ConditionsHeld, n

LEMMA LoopFinishCallee ==
  ASSUME IInv, WalkInv, LoopInv, FinishCallee
  PROVE  LoopInv'
<1> DEFINE n == Len(frames)
           S == Elements(frames)
           fs == PopBack(frames)
           m == Len(fs)
           caller == [fs[m] EXCEPT !.oldContext = EmptyContext]
           T == S \cup {caller}
<1>1. frames' = [fs EXCEPT ![m] = caller] /\ n > 1
  BY DEF FinishCallee
<1>2. n \in Nat \ {0} /\ frames \in Seq(S) /\ frames # << >>
  BY AtWork DEF IInv, BuildersOK
<1> HIDE DEF S
<1>3. fs \in Seq(S) /\ m = n - 1 /\ \A i \in 1 .. n - 1 : fs[i] = frames[i]
  BY <1>2, PopBackProperties
<1> HIDE DEF fs
<1>4. m \in Nat \ {0} /\ m \in 1 .. m /\ m \in 1 .. n /\ fs[m] = frames[m]
  BY <1>1, <1>2, <1>3
<1>5. BuilderOK(fs[m])
  BY <1>4 DEF IInv, BuildersOK
<1>6. /\ caller.stmt = fs[m].stmt /\ caller.todo = fs[m].todo /\ caller.open = fs[m].open
      /\ caller.dataAccesses = fs[m].dataAccesses
  BY <1>5 DEF BuilderOK
<1>7. fs \in Seq(T) /\ caller \in T
  BY <1>3, Wider
<1> HIDE DEF caller, T, n, m
<1>8. /\ Len(frames') = m
      /\ \A i \in 1 .. m : frames'[i] = IF i = m THEN caller ELSE fs[i]
  BY <1>1, <1>4, <1>7, ExceptSeq DEF m
<1>9. ASSUME NEW k \in 1 .. m
      PROVE  WritesRecorded(frames'[k]) /\ ConditionsHeld(frames'[k].open)
  <2>1. k \in 1 .. n /\ fs[k] = frames[k]
    BY <1>2, <1>3
  <2>2. WritesRecorded(fs[k]) /\ ConditionsHeld(fs[k].open)
    BY <2>1 DEF LoopInv, n
  <2>3. CASE k = m
    <3>1. frames'[k] = caller
      BY <1>8, <2>3
    <3> QED
      BY <1>6, <2>2, <2>3, <3>1 DEF WritesRecorded
  <2>4. CASE k # m
    BY <1>8, <2>2, <2>4
  <2> QED
    BY <2>3, <2>4
<1> QED
  BY <1>8, <1>9 DEF LoopInv, WritesRecorded, ConditionsHeld

(* The end of a statement. *)
LEMMA LoopAddReturn ==
  ASSUME IInv, WalkInv, LoopInv, AddReturn
  PROVE  LoopInv'
<1>1. CASE Exit
  BY <1>1, LoopSame DEF Exit, Stop
<1>2. CASE ~Exit
  <2>1. PICK values : Stay([Top EXCEPT !.haveFoundAReturn = TRUE, !.stmt = NoStmt,
                                       !.computation.returnValues = values])
    BY <1>2, Zenon DEF AddReturn
  <2> DEFINE b == [Top EXCEPT !.haveFoundAReturn = TRUE, !.stmt = NoStmt,
                              !.computation.returnValues = values]
  <2>2. Stay(b)
    BY <2>1
  <2>3. b.stmt.kind = "none" /\ b.open = Top.open
    BY WorkingFrame DEF BuilderOK, NoStmt
  <2> HIDE DEF b
  <2>4. WritesRecorded(b) /\ ConditionsHeld(b.open)
    BY <2>3, NoWrites, LoopTop
  <2> QED
    BY <2>2, <2>4, LoopStep DEF Stay, Move
<1> QED
  BY <1>1, <1>2

(* The accesses of a statement end with it. *)
LEMMA LoopAddStmt ==
  ASSUME IInv, WalkInv, LoopInv, AddStmt
  PROVE  LoopInv'
<1> DEFINE reads == NamesAccessed(TRUE)
           writes == NamesAccessed(FALSE)
           new == NewDataSpaces(reads, writes)
           stmt == [schedule |-> positionContext.schedule, reads |-> reads,
                    writes |-> writes]
           b == [Top EXCEPT !.computation.dataSpaces = @ \cup new,
                            !.computation.stmts = Append(@, stmt),
                            !.stmt = NoStmt]
<1>1. CASE Exit \/ Stop("uncaught")
  BY <1>1, LoopSame DEF Exit, Stop
<1>2. CASE Stay(b)
  <2> HIDE DEF new, stmt
  <2>1. b.stmt.kind = "none" /\ b.open = Top.open
    BY WorkingFrame DEF BuilderOK, NoStmt
  <2> HIDE DEF b
  <2>2. WritesRecorded(b) /\ ConditionsHeld(b.open)
    BY <2>1, NoWrites, LoopTop
  <2> QED
    BY <1>2, <2>2, LoopStep DEF Stay, Move
<1> QED
  BY <1>1, <1>2, Zenon DEF AddStmt

(* A step between statements. *)
LEMMA LoopMove ==
  ASSUME IInv, WalkInv, LoopInv, BetweenStmts, NEW c, NEW b, Move(c, b),
         b.stmt = Top.stmt, ConditionsHeld(b.open)
  PROVE  LoopInv'
<1>1. WritesRecorded(b)
  BY NoWrites DEF BetweenStmts
<1> QED
  BY <1>1, LoopStep DEF Move

(* Structures: enterFor adds its condition to the invariants. *)
LEMMA LoopOpenFor ==
  ASSUME IInv, WalkInv, LoopInv, NEW h \in Headers, OpenFor(h)
  PROVE  LoopInv'
<1> DEFINE at == Advance(positionContext)
           s == Scope("for", h, at)
           b == [Started EXCEPT !.open = Append(Top.open, s)]
<1>1. BetweenStmts
  BY DEF OpenFor, CanOpen, CanStart
<1>2. CASE Exit
  BY <1>2, LoopSame DEF Exit, Stop
<1>3. CASE Move(EnterFor(at, h), b)
  <2>1. /\ Good(positionContext, Top.open) /\ Top.open \in Seq(Scopes) /\ BuilderOK(Top)
    BY <1>1, Between
  <2>2. Good(at, Top.open) /\ Len(at.schedule) = 2 * Len(at.iterators) + 1
    BY <2>1, GoodAdvance
  <2>3. s \in Scopes /\ s.at = at
    BY <2>1, <2>2, GoodEnterFor DEF Scope
  <2>4. b.stmt = Top.stmt /\ b.open = Append(Top.open, s)
    BY <2>1 DEF BuilderOK, Started
  <2> HIDE DEF b, s, at
  <2>5. ConditionsHeld(b.open)
    BY <2>1, <2>2, <2>3, <2>4, LoopTop, HeldPush
  <2> QED
    BY <1>1, <1>3, <2>4, <2>5, LoopMove
<1> QED
  BY <1>2, <1>3 DEF OpenFor, Enter

LEMMA LoopOpenIf ==
  ASSUME IInv, WalkInv, LoopInv, NEW cond \in Conds, OpenIf(cond)
  PROVE  LoopInv'
<1> DEFINE s == Scope("then", cond, positionContext)
           b == [Started EXCEPT !.open = Append(Top.open, s)]
<1>1. BetweenStmts
  BY DEF OpenIf, CanOpen, CanStart
<1>2. CASE Exit
  BY <1>2, LoopSame DEF Exit, Stop
<1>3. CASE Move(EnterIf(positionContext, cond), b)
  <2>1. /\ Good(positionContext, Top.open) /\ Top.open \in Seq(Scopes) /\ BuilderOK(Top)
    BY <1>1, Between
  <2>2. s \in Scopes /\ s.at = positionContext
    BY <2>1, SourceAssumption, GoodEnterIf DEF Scope
  <2>3. b.stmt = Top.stmt /\ b.open = Append(Top.open, s)
    BY <2>1 DEF BuilderOK, Started
  <2> HIDE DEF b, s
  <2>4. ConditionsHeld(b.open)
    BY <2>1, <2>2, <2>3, LoopTop, HeldPush
  <2> QED
    BY <1>1, <1>3, <2>3, <2>4, LoopMove
<1> QED
  BY <1>2, <1>3 DEF OpenIf, Enter

(* Leaving one forgets its condition only. *)
LEMMA LoopLeave ==
  ASSUME IInv, WalkInv, LoopInv, BetweenStmts, Top.open # << >>, NEW c, Leave(c)
  PROVE  LoopInv'
<1> DEFINE b == [Top EXCEPT !.open = PopBack(@)]
<1>1. Top.open \in Seq(Scopes) /\ BuilderOK(Top)
  BY Between
<1>2. b.stmt = Top.stmt /\ b.open = PopBack(Top.open)
  BY <1>1 DEF BuilderOK
<1>3. Move(c, b)
  BY DEF Leave
<1> HIDE DEF b
<1>4. ConditionsHeld(b.open)
  BY <1>1, <1>2, LoopTop, HeldPop
<1> QED
  BY <1>2, <1>3, <1>4, LoopMove

LEMMA LoopElseBranch ==
  ASSUME IInv, WalkInv, LoopInv, ElseBranch
  PROVE  LoopInv'
<1> DEFINE o == Top.open
           at == ExitIf(positionContext)
           cond(op) == [Back(o).node EXCEPT !.op = op]
           s(op) == Scope("else", cond(op), at)
           b(op) == [Top EXCEPT !.open = Append(PopBack(o), s(op))]
<1>1. /\ BetweenStmts /\ o # << >> /\ Back(o).kind = "then"
      /\ \E op \in Negations(Back(o).node.op) :
           Exit \/ Move(EnterIf(at, cond(op)), b(op))
  BY DEF ElseBranch, EndOfBody
<1>2. CASE Exit
  BY <1>2, LoopSame DEF Exit, Stop
<1>3. ASSUME NEW op \in Negations(Back(o).node.op), Move(EnterIf(at, cond(op)), b(op))
      PROVE  LoopInv'
  <2>1. /\ Good(positionContext, o) /\ o \in Seq(Scopes) /\ BuilderOK(Top)
        /\ ConditionsHeld(o)
    BY <1>1, Between, LoopTop
  <2>2. b(op).stmt = Top.stmt /\ b(op).open = Append(PopBack(o), s(op))
    BY <2>1 DEF BuilderOK
  <2> HIDE DEF b, o
  <2>3. Back(o).node \in CondSet
    BY <1>1, <2>1, BackOpen
  <2>4. op \in Ops
    BY <1>3, <2>3 DEF Negations, Ops, Comparisons
  <2>5. cond(op) \in CondSet
    BY <2>3, <2>4 DEF CondSet
  <2>6. Good(at, PopBack(o)) /\ PopBack(o) \in Seq(Scopes)
    BY <1>1, <2>1, GoodExitIf, BackOpen
  <2> HIDE DEF cond, at
  <2>7. s(op) \in Scopes /\ s(op).at = at
    BY <2>5, <2>6, GoodEnterIf DEF Scope
  <2> HIDE DEF s
  <2>8. ConditionsHeld(PopBack(o))
    BY <1>1, <2>1, HeldPop
  <2>9. ConditionsHeld(b(op).open)
    BY <2>2, <2>6, <2>7, <2>8, HeldPush
  <2> QED
    BY <1>1, <1>3, <2>2, <2>9, LoopMove
<1> QED
  BY <1>1, <1>2, <1>3

(* All the steps, and the beginning. *)
LEMMA LoopNext ==
  ASSUME IInv, WalkInv, LoopInv, [Next]_vars
  PROVE  LoopInv'
<1>1. ASSUME NEW s \in Source[Top.fn], BeginStmt(s) PROVE LoopInv'
  BY <1>1, LoopBeginStmt
<1>2. CASE Declare \/ AccessTarget \/ CallReserved \/ BuildCallee \/ FinishCallee
             \/ InlineCall \/ AddStmt \/ AddReturn
  BY <1>2, LoopDeclare, LoopAccessTarget, LoopCallReserved, LoopBuildCallee,
     LoopFinishCallee, LoopInlineCall, LoopAddStmt, LoopAddReturn
<1>3. CASE AccessComponent
  <2>1. PICK accesses : Accessed(accesses)
    BY <1>3, Zenon DEF AccessComponent
  <2>2. Top.todo # << >> /\ Head(Top.todo).do = "component"
    BY <1>3 DEF AccessComponent, Working
  <2>3. \A x : ~ToWrite(Head(Top.todo), x)
    BY <2>2 DEF ToWrite
  <2> QED
    BY <2>1, <2>2, <2>3, LoopAccessed
<1>4. CASE \/ \E h \in Headers : OpenFor(h)
           \/ \E c \in Conds : OpenIf(c)
           \/ ElseBranch
  BY <1>4, LoopOpenFor, LoopOpenIf, LoopElseBranch
<1>5. CASE CloseFor \/ CloseIf
  BY <1>5, LoopLeave DEF CloseFor, CloseIf, EndOfBody
<1>6. CASE FailExpr \/ CallFails \/ AppendNull \/ Abandon \/ Finish \/ UNCHANGED vars
  BY <1>6, LoopSame DEF FailExpr, CallFails, AppendNull, Abandon, Finish, Exit, Stop, vars
<1> QED
  BY <1>1, <1>2, <1>3, <1>4, <1>5, <1>6 DEF Next, Terminated

LEMMA LoopInit == ASSUME Init PROVE LoopInv
<1> DEFINE b == Builder(Entry)
<1>1. b.stmt.kind = "none" /\ b.open = << >>
  BY DEF Builder, NoStmt
<1>2. frames = <<b>>
  BY DEF Init
<1> HIDE DEF b
<1>3. Len(frames) = 1 /\ frames[1] = b
  BY <1>2
<1> QED
  BY <1>1, <1>3, NoWrites DEF LoopInv, ConditionsHeld

-------------------------------------------------------------------------------
(* Which step ends a statement that assigns something. *)

(* A step that keeps the statement. *)
LEMMA StaysAt ==
  ASSUME IInv, NEW b, frames' = [frames EXCEPT ![Len(frames)] = b], b.stmt = Top.stmt
  PROVE  ~StmtEnds
<1>1. /\ Len(frames) \in Nat \ {0} /\ Top = frames[Len(frames)]
      /\ \A i \in 1 .. Len(frames) :
           frames'[i] = IF i = Len(frames) THEN b ELSE frames[i]
  BY Replaced, AtWork DEF IInv
<1>2. Len(frames) \in 1 .. Len(frames)
  BY <1>1
<1>3. frames'[Len(frames)] = b
  BY <1>1, <1>2
<1> QED
  BY <1>3 DEF StmtEnds

(* Only addStmt ends a statement that assigns something. *)
LEMMA EndIsAddStmt ==
  ASSUME IInv, WalkInv, LoopInv, [Next]_vars, StmtEnds, Assigned(Top.stmt) # {}
  PROVE  AddStmt /\ UNCHANGED status
<1>1. /\ BuilderOK(Top) /\ Top.stmt.kind \notin {"none", "expr", "call", "return"}
      /\ DOMAIN Top = DOMAIN Builder(Top.fn) /\ IsSequence(Top.todo) /\ WritesRecorded(Top)
  <2>1. Top.stmt.kind \notin {"none", "expr", "call", "return"}
    BY NoWrites
  <2>2. BuilderOK(Top) /\ IsSequence(Top.todo) /\ WritesRecorded(Top)
    BY WorkingFrame, LoopTop
  <2>3. DOMAIN Top = DOMAIN Builder(Top.fn)
    BY <2>2 DEF BuilderOK, Builder
  <2> QED
    BY <2>1, <2>2, <2>3
<1>2. ~(UNCHANGED frames)
  BY AtWork DEF StmtEnds, IInv
<1>3. ~BetweenStmts
  BY DEF StmtEnds, BetweenStmts
<1>4. ~Declare
  <2>1. SUFFICES ASSUME Declare PROVE FALSE
    OBVIOUS
  <2> DEFINE d == Head(Top.todo).decl
             b == [Top EXCEPT !.varDecls = Append(@, d.name),
                              !.todo = Initialise(d) \o Tail(@)]
  <2>2. Stay(b)
    BY <1>2, <2>1 DEF Declare, Exit, Stop
  <2>3. b.stmt = Top.stmt
    BY <1>1 DEF BuilderOK
  <2> HIDE DEF b
  <2> QED
    BY <2>2, <2>3, StaysAt DEF Stay, Move
<1>5. ~(AccessComponent \/ AccessTarget)
  <2>1. SUFFICES ASSUME AccessComponent \/ AccessTarget PROVE FALSE
    OBVIOUS
  <2>2. PICK accesses : Accessed(accesses)
    BY <2>1, Zenon DEF AccessComponent, AccessTarget
  <2> DEFINE b == [Top EXCEPT !.dataAccesses = @ \cup accesses, !.todo = Tail(@)]
  <2>3. Stay(b)
    BY <2>2 DEF Accessed
  <2>4. b.stmt = Top.stmt
    BY <1>1 DEF BuilderOK
  <2> HIDE DEF b
  <2> QED
    BY <2>3, <2>4, StaysAt DEF Stay, Move
<1>6. ~CallReserved
  <2>1. SUFFICES ASSUME CallReserved PROVE FALSE
    OBVIOUS
  <2>2. PICK read : Stay(AfterCall(Top, read))
    BY <2>1, Zenon DEF CallReserved
  <2> DEFINE b == AfterCall(Top, read)
  <2>3. Top.todo # << >> /\ Head(Top.todo).do = "call"
    BY <2>1 DEF CallReserved, Working
  <2>4. b.stmt = Top.stmt
    BY <1>1, <2>3, LoopAfterCall
  <2> HIDE DEF b
  <2> QED
    BY <2>2, <2>4, StaysAt DEF Stay, Move, b
<1>7. ~InlineCall
  <2>1. SUFFICES ASSUME InlineCall PROVE FALSE
    OBVIOUS
  <2>2. ~Exit
    BY <1>2 DEF Exit, Stop
  <2>3. PICK into, read :
          frames' = [frames EXCEPT ![Len(frames)] =
            AfterCall([Top EXCEPT !.started = @ + 1, !.computation = into], read)]
    BY <2>1, <2>2, Zenon DEF InlineCall
  <2> DEFINE a == [Top EXCEPT !.started = @ + 1, !.computation = into]
             b == AfterCall(a, read)
  <2>4. Top.todo # << >> /\ Head(Top.todo).do = "call"
    BY <2>1 DEF InlineCall, Working
  <2>5. /\ DOMAIN a = DOMAIN Builder(a.fn)
        /\ a.stmt = Top.stmt /\ a.todo = Top.todo /\ a.open = Top.open
        /\ a.dataAccesses = Top.dataAccesses
    BY <1>1 DEF BuilderOK, Builder
  <2>6. frames' = [frames EXCEPT ![Len(frames)] = b]
    BY <2>3
  <2> HIDE DEF a
  <2>7. WritesRecorded(a)
    BY <1>1, <2>5 DEF WritesRecorded
  <2>8. b.stmt = Top.stmt
    BY <1>1, <2>4, <2>5, <2>7, LoopAfterCall
  <2> HIDE DEF b
  <2> QED
    BY <2>6, <2>8, StaysAt
<1>8. ~BuildCallee
  BY LoopBuildCallee DEF StmtEnds
<1>9. ~AddReturn
  BY <1>1 DEF AddReturn
<1>10. ~(\E s \in Source[Top.fn] : BeginStmt(s))
  BY <1>3 DEF BeginStmt, CanStart
<1>11. ~(FinishCallee \/ (\E h \in Headers : OpenFor(h)) \/ CloseFor
           \/ (\E c \in Conds : OpenIf(c)) \/ ElseBranch \/ CloseIf \/ Abandon \/ Finish)
  BY <1>3 DEF FinishCallee, OpenFor, OpenIf, CloseFor, CloseIf, ElseBranch, Abandon, Finish,
              EndOfBody, CanOpen, CanStart
<1>12. ~(FailExpr \/ CallFails \/ AppendNull \/ Terminated \/ UNCHANGED vars)
  BY <1>2 DEF FailExpr, CallFails, AppendNull, Exit, Stop, Terminated, vars
<1>13. AddStmt
  BY <1>4, <1>5, <1>6, <1>7, <1>8, <1>9, <1>10, <1>11, <1>12 DEF Next
<1>14. UNCHANGED status
  <2>1. ~Exit /\ ~Stop("uncaught")
    BY <1>2 DEF Exit, Stop
  <2>2. \E b : Stay(b)
    BY <1>13, <2>1, Zenon DEF AddStmt
  <2> QED
    BY <2>2 DEF Stay, Move
<1> QED
  BY <1>13, <1>14

(* addStmt lets nothing pass that is collected from a loop's condition. *)
LEMMA AddedKeepsInvariants ==
  ASSUME IInv, WalkInv, LoopInv, AddStmt, UNCHANGED status, NEW k \in ForsAmong(Top.open)
  PROVE  (Assigned(Top.stmt) \ IteratorsOf(Top.open)) \cap Collected(Top.open[k].node) = {}
<1>1. /\ FrameOK(Top, positionContext) /\ ConditionsHeld(Top.open)
      /\ WritesRecorded(Top) /\ Running /\ Top.todo = << >>
  BY WorkingFrame, LoopTop DEF AddStmt
<1>2. ~Exit /\ ~Stop("uncaught")
  BY <1>1 DEF Exit, Stop, Running
<1>3. \A x \in Invariants(positionContext) : DataSpace(x) \notin NamesAccessed(FALSE)
  BY <1>2, Zenon DEF AddStmt
<1>4. ASSUME NEW x \in Assigned(Top.stmt) \ IteratorsOf(Top.open),
             x \in Collected(Top.open[k].node)
      PROVE  FALSE
  <2>1. x \in Invariants(positionContext)
    <3>1. Good(positionContext, Top.open) /\ Top.open \in Seq(Scopes)
      BY <1>1 DEF FrameOK
    <3> QED
      BY <1>1, <1>4, <3>1, HeldAt
  <2>2. WriteOf(x) \in Top.dataAccesses
    BY <1>1 DEF WritesRecorded
  <2>3. WriteOf(x).isRead = FALSE /\ WriteOf(x).name = DataSpace(x)
    BY DEF WriteOf
  <2>4. DataSpace(x) \in NamesAccessed(FALSE)
    BY <2>2, <2>3, Zenon DEF NamesAccessed
  <2> QED
    BY <1>3, <2>1, <2>4
<1> QED
  BY <1>4

(* "Code may not modify loop-invariant data space" (ComputationBuilder.cpp):*)
(* whatever is nested in what, the builder accepts no assignment and no     *)
(* declaration within a loop whose target is among what enterFor collected  *)
(* from the loop's condition, the iterators of the loops apart.             *)
THEOREM ConditionsAreInvariant == Spec => AssignmentsKeepLoops
<1> DEFINE Keeps ==
      StmtEnds => \A k \in ForsAmong(Top.open) :
        (Assigned(Top.stmt) \ IteratorsOf(Top.open)) \cap Collected(Top.open[k].node) = {}
<1>1. Init => IInv /\ WalkInv /\ LoopInv
  BY InitIInv, InitWalk, LoopInit
<1>2. (IInv /\ WalkInv /\ LoopInv) /\ [Next]_vars => (IInv /\ WalkInv /\ LoopInv)'
  BY StepKeepsIInv, WalkNext, LoopNext
<1>3. (IInv /\ WalkInv /\ LoopInv) /\ [Next]_vars => [Keeps]_vars
  <2>1. SUFFICES ASSUME IInv, WalkInv, LoopInv, [Next]_vars, StmtEnds,
                        NEW k \in ForsAmong(Top.open), Assigned(Top.stmt) # {}
                 PROVE  (Assigned(Top.stmt) \ IteratorsOf(Top.open))
                          \cap Collected(Top.open[k].node) = {}
    OBVIOUS
  <2> QED
    BY <2>1, EndIsAddStmt, AddedKeepsInvariants
<1> QED
  BY <1>1, <1>2, <1>3, PTL DEF Spec, AssignmentsKeepLoops

-------------------------------------------------------------------------------
(* A data space of an inlined function is written before it is read.  The  *)
(* functions that are called:                                              *)
Called == UNION {Callees(f) : f \in Fns}

DeclaredBy(s) == IF s.kind = "decl" THEN {s.decls[i].name : i \in 1 .. Len(s.decls)} ELSE {}

(* A number returned looks like a data space until addStmt refuses it.     *)
ReturnedLiteral(d) ==
  \E f \in Called : \E s \in Source[f] :
    /\ s.kind = "return"
    /\ \E i \in 1 .. Len(s.value) : s.value[i].kind = "lit" /\ d = DataSpace(s.value[i].name)

(* They initialise the variables they declare, not with one another (int   *)
(* a = x, b = a is one statement, and its accesses are not ordered), and   *)
(* the variables are named neither like an iterator nor like a number.     *)
VariablesAreInitialised ==
  \A f \in Called : \A s \in Source[f] :
    s.kind = "decl" =>
      /\ \A i \in 1 .. Len(s.decls) : s.decls[i].init
      /\ \A x \in DeclaredBy(s) : x \notin Iterators /\ ~ReturnedLiteral(DataSpace(x))
      /\ \A v \in ValuesIn(s) : \A i \in 1 .. Len(v) : Mentions(v[i]) \cap DeclaredBy(s) = {}

(* What a function need not write itself: its parameters, which the call   *)
(* assigns, and if nobody calls it whatever has no prefix.                 *)
Free(f, d) ==
  /\ d.prefixes = << >>
  /\ f \in Called => \E i \in 1 .. Len(Params[f]) : d = DataSpace(Params[f][i])

(* One of the first n statements writes d. *)
Written(c, d, n) == \E j \in 1 .. n : d \in c.stmts[j].writes

(* What is read has been written, and so has what the caller may read.     *)
ComputationFlow(f, c) ==
  /\ \A d \in c.dataSpaces : Free(f, d) \/ Written(c, d, Len(c.stmts))
  /\ \A i \in 1 .. Len(c.stmts) : \A d \in c.stmts[i].reads :
       Free(f, d) \/ Written(c, d, i - 1)
  /\ f \in Called =>
       \A i \in 1 .. Len(c.returnValues) :
         c.returnValues[i] \in c.dataSpaces \/ ReturnedLiteral(c.returnValues[i])

(* The builder of a called function: its parameters are data spaces, all   *)
(* that is declared is one as soon as its statement has been added, no     *)
(* statement reads what it declares, and a value is returned where it is   *)
(* known.                                                                  *)
Initialising(b) ==
  LET spaces == b.computation.dataSpaces
  IN /\ \A i \in 1 .. Len(Params[b.fn]) : DataSpace(Params[b.fn][i]) \in spaces
     /\ \A i \in 1 .. Len(b.varDecls) :
          DataSpace(b.varDecls[i]) \in spaces \/ b.varDecls[i] \in DeclaredBy(b.stmt)
     /\ \A a \in b.dataAccesses :
          a.isRead = TRUE => \/ a.name \in spaces
                             \/ \A x \in DeclaredBy(b.stmt) : a.name # DataSpace(x)
     /\ b.stmt.kind = "decl" => WritesRecorded(b)
     /\ b.stmt.kind = "return" /\ b.open = << >> =>
          \A i \in 1 .. Len(b.stmt.value) :
            b.stmt.value[i].kind = "ref" => DataSpace(b.stmt.value[i].name) \in spaces

FlowOK(b) ==
  /\ IsSequence(b.varDecls)
  /\ ComputationFlow(b.fn, b.computation)
  /\ b.fn \in Called => Initialising(b)

FlowInv ==
  /\ \A k \in 1 .. Len(frames) : FlowOK(frames[k])
  /\ \A f \in DOMAIN subComputations : ComputationFlow(f, subComputations[f])

-------------------------------------------------------------------------------
(* appendComputation, statement by statement: out is into with the block   *)
(* of f, whose Computation is callee.                                      *)
IsAppended(out, into, f, callee, n) ==
  LET L == Len(into.stmts)
      P == Len(Params[f])
      M == Len(callee.stmts)
      renamed(names) == {Rename(n, d) : d \in names}
  IN /\ L \in Nat /\ P \in Nat /\ M \in Nat /\ Len(out.stmts) = L + P + M
     /\ out.dataSpaces = into.dataSpaces \cup renamed(callee.dataSpaces)
     /\ out.returnValues = into.returnValues
     /\ \A i \in 1 .. L : out.stmts[i] = into.stmts[i]
     /\ \A i \in 1 .. P :
          /\ out.stmts[L + i].reads \subseteq into.dataSpaces
          /\ out.stmts[L + i].writes = {Rename(n, DataSpace(Params[f][i]))}
     /\ \A i \in 1 .. M :
          /\ out.stmts[L + P + i].reads = renamed(callee.stmts[i].reads)
          /\ out.stmts[L + P + i].writes = renamed(callee.stmts[i].writes)

LEMMA AppendedStmts ==
  ASSUME NEW g, NEW into, ComputationOK(into),
         NEW f \in Fns, NEW callee, ComputationOK(callee), NEW t, NEW args, NEW n
  PROVE  IsAppended(AppendComputation(into, f, callee, t, args, n), into, f, callee, n)
<1>a. PICK L : L = Len(into.stmts)
  OBVIOUS
<1>b. PICK P : P = Len(Params[f])
  OBVIOUS
<1>c. PICK M : M = Len(callee.stmts)
  OBVIOUS
<1>d. PICK out : out = AppendComputation(into, f, callee, t, args, n)
  OBVIOUS
<1> DEFINE schedules == Place(t, Block(f, callee))
           params == Params[f]
           renamed(names) == {Rename(n, d) : d \in names}
           assign(i) ==
             [schedule |-> schedules[i],
              reads |-> IF args[i].kind = "ref"
                          THEN {DataSpace(args[i].name)} \cap into.dataSpaces ELSE {},
              writes |-> {Rename(n, DataSpace(params[i]))}]
           body(i) ==
             [schedule |-> schedules[Len(params) + i],
              reads |-> renamed(callee.stmts[i].reads),
              writes |-> renamed(callee.stmts[i].writes)]
           assigned == [i \in 1 .. Len(params) |-> assign(i)]
           copied == [i \in 1 .. Len(callee.stmts) |-> body(i)]
           spaces == into.dataSpaces \cup renamed(callee.dataSpaces)
<1>1. out = [into EXCEPT !.dataSpaces = spaces, !.stmts = (into.stmts \o assigned) \o copied]
  BY <1>d DEF AppendComputation
<1>2. L \in Nat /\ P \in Nat /\ M \in Nat
  BY <1>a, <1>b, <1>c, ParamsAssumption, LenProperties DEF ComputationOK, IsSequence
<1>3. /\ IsSequence(assigned) /\ Len(assigned) = P
      /\ \A i \in 1 .. P : assigned[i] = assign(i)
  <2> HIDE DEF assign
  <2> QED
    BY <1>2, <1>b DEF IsSequence, Elements
<1>4. /\ IsSequence(copied) /\ Len(copied) = M
      /\ \A i \in 1 .. M : copied[i] = body(i)
  <2> HIDE DEF body
  <2> QED
    BY <1>2, <1>c DEF IsSequence, Elements
<1>5. \A i \in 1 .. P : /\ assign(i).reads \subseteq into.dataSpaces
                        /\ assign(i).writes = {Rename(n, DataSpace(Params[f][i]))}
  OBVIOUS
<1>6. \A i \in 1 .. M :
        /\ body(i).reads = {Rename(n, d) : d \in callee.stmts[i].reads}
        /\ body(i).writes = {Rename(n, d) : d \in callee.stmts[i].writes}
  OBVIOUS
<1>7. spaces = into.dataSpaces \cup {Rename(n, d) : d \in callee.dataSpaces}
  OBVIOUS
<1> HIDE DEF spaces, assigned, copied, assign, body, renamed
<1>8. /\ out.dataSpaces = spaces /\ out.returnValues = into.returnValues
      /\ out.stmts = (into.stmts \o assigned) \o copied
  BY <1>1 DEF ComputationOK
<1> DEFINE s == into.stmts \o assigned
<1>9. /\ IsSequence(s) /\ Len(s) = L + P
      /\ \A i \in 1 .. L + P : s[i] = IF i <= L THEN into.stmts[i] ELSE assigned[i - L]
  <2>1. IsSequence(into.stmts)
    BY DEF ComputationOK
  <2>2. /\ IsSequence(s) /\ Len(s) = Len(into.stmts) + Len(assigned)
        /\ \A i \in 1 .. Len(into.stmts) + Len(assigned) :
             s[i] = IF i <= Len(into.stmts) THEN into.stmts[i]
                                            ELSE assigned[i - Len(into.stmts)]
    BY ONLY <1>3, <2>1, Concatenated
  <2> HIDE DEF s
  <2> QED
    BY <1>3, <1>a, <2>2
<1> HIDE DEF s
<1>10. /\ Len(s \o copied) = L + P + M
       /\ \A i \in 1 .. L + P + M :
            (s \o copied)[i] = IF i <= L + P THEN s[i] ELSE copied[i - (L + P)]
  <2> DEFINE w == s \o copied
  <2>1. /\ IsSequence(w) /\ Len(w) = Len(s) + Len(copied)
        /\ \A i \in 1 .. Len(s) + Len(copied) :
             w[i] = IF i <= Len(s) THEN s[i] ELSE copied[i - Len(s)]
    BY ONLY <1>4, <1>9, Concatenated
  <2> HIDE DEF w
  <2>2. Len(s) + Len(copied) = L + P + M
    BY <1>2, <1>4, <1>9
  <2>3. /\ Len(w) = L + P + M
        /\ \A i \in 1 .. L + P + M : w[i] = IF i <= L + P THEN s[i] ELSE copied[i - (L + P)]
    BY <1>9, <2>1, <2>2
  <2> QED
    BY <2>3 DEF w
<1> DEFINE all == s \o copied
<1>11. out.stmts = all
  BY <1>8 DEF s
<1> HIDE DEF all
<1>12. /\ Len(all) = L + P + M
       /\ \A i \in 1 .. L + P + M : all[i] = IF i <= L + P THEN s[i] ELSE copied[i - (L + P)]
  BY <1>10 DEF all
<1>13. \A i \in 1 .. L : all[i] = into.stmts[i]
  BY ONLY <1>2, <1>9, <1>12
<1>14. \A i \in 1 .. P : all[L + i] = assigned[i]
  <2> TAKE i \in 1 .. P
  <2>1. PICK k : k = L + i
    OBVIOUS
  <2>2. /\ k \in 1 .. L + P /\ k \in 1 .. L + P + M /\ ~(k <= L) /\ k - L = i
        /\ k <= L + P
    BY ONLY <1>2, <2>1, i \in 1 .. P
  <2>3. all[k] = s[k] /\ s[k] = assigned[k - L]
    BY ONLY <1>9, <1>12, <2>2
  <2> QED
    BY ONLY <2>1, <2>2, <2>3
<1>15. \A i \in 1 .. M : all[L + P + i] = copied[i]
  <2> TAKE i \in 1 .. M
  <2>1. PICK k : k = L + P + i
    OBVIOUS
  <2>2. k \in 1 .. L + P + M /\ ~(k <= L + P) /\ k - (L + P) = i
    BY ONLY <1>2, <2>1, i \in 1 .. M
  <2>3. all[k] = copied[k - (L + P)]
    BY ONLY <1>12, <2>2
  <2> QED
    BY ONLY <2>1, <2>2, <2>3
<1>16. \A i \in 1 .. P :
         /\ out.stmts[L + i].reads \subseteq into.dataSpaces
         /\ out.stmts[L + i].writes = {Rename(n, DataSpace(Params[f][i]))}
  BY ONLY <1>3, <1>5, <1>11, <1>14
<1>17. \A i \in 1 .. M :
         /\ out.stmts[L + P + i].reads = {Rename(n, d) : d \in callee.stmts[i].reads}
         /\ out.stmts[L + P + i].writes = {Rename(n, d) : d \in callee.stmts[i].writes}
  BY ONLY <1>4, <1>6, <1>11, <1>15
<1>18. Len(out.stmts) = L + P + M
  BY <1>11, <1>12
<1>19. \A i \in 1 .. L : out.stmts[i] = into.stmts[i]
  BY <1>11, <1>13
<1>20. IsAppended(out, into, f, callee, n)
  BY ONLY <1>2, <1>7, <1>8, <1>16, <1>17, <1>18, <1>19, <1>a, <1>b, <1>c DEF IsAppended
<1> QED
  BY <1>20, <1>d

(* What an inlined function reads has been written in its caller too: its  *)
(* parameters by their assignments, the rest by its own statements.        *)
LEMMA FlowAppended ==
  ASSUME NEW g, NEW into, ComputationOK(into), ComputationFlow(g, into),
         NEW f \in Fns, f \in Called, NEW callee, ComputationOK(callee),
         ComputationFlow(f, callee), NEW t, NEW args, NEW n,
         NEW out, out = AppendComputation(into, f, callee, t, args, n)
  PROVE  /\ ComputationFlow(g, out)
         /\ into.dataSpaces \subseteq out.dataSpaces
         /\ \A d \in callee.dataSpaces : Rename(n, d) \in out.dataSpaces
<1>1. PICK L : L = Len(into.stmts)
  OBVIOUS
<1>2. PICK P : P = Len(Params[f])
  OBVIOUS
<1>3. PICK M : M = Len(callee.stmts)
  OBVIOUS
<1>4. /\ L \in Nat /\ P \in Nat /\ M \in Nat /\ Len(out.stmts) = L + P + M
      /\ out.dataSpaces = into.dataSpaces \cup {Rename(n, d) : d \in callee.dataSpaces}
      /\ out.returnValues = into.returnValues
      /\ \A i \in 1 .. L : out.stmts[i] = into.stmts[i]
      /\ \A i \in 1 .. P :
           /\ out.stmts[L + i].reads \subseteq into.dataSpaces
           /\ out.stmts[L + i].writes = {Rename(n, DataSpace(Params[f][i]))}
      /\ \A i \in 1 .. M :
           /\ out.stmts[L + P + i].reads = {Rename(n, d) : d \in callee.stmts[i].reads}
           /\ out.stmts[L + P + i].writes = {Rename(n, d) : d \in callee.stmts[i].writes}
  <2>1. IsAppended(out, into, f, callee, n)
    BY AppendedStmts
  <2> QED
    BY ONLY <1>1, <1>2, <1>3, <2>1 DEF IsAppended
<1>5. ASSUME NEW d, NEW k \in 0 .. L, NEW m \in Nat, k <= m, Written(into, d, k)
      PROVE  Written(out, d, m)
  <2>1. PICK j \in 1 .. k : d \in into.stmts[j].writes
    BY <1>5 DEF Written
  <2>2. j \in 1 .. L /\ j \in 1 .. m
    BY <1>4, <1>5
  <2> QED
    BY <1>4, <2>1, <2>2 DEF Written
<1>6. ASSUME NEW d, NEW k \in 0 .. M, Free(f, d) \/ Written(callee, d, k)
      PROVE  Written(out, Rename(n, d), L + P + k)
  <2>1. CASE Free(f, d)
    <3>1. PICK i \in 1 .. P : d = DataSpace(Params[f][i])
      BY <1>2, <2>1 DEF Free
    <3>2. L + i \in 1 .. L + P + k
      BY <1>4
    <3>3. Rename(n, d) \in out.stmts[L + i].writes
      BY <1>4, <3>1
    <3> QED
      BY <3>2, <3>3 DEF Written
  <2>2. CASE Written(callee, d, k)
    <3>1. PICK j \in 1 .. k : d \in callee.stmts[j].writes
      BY <2>2 DEF Written
    <3>2. j \in 1 .. M /\ L + P + j \in 1 .. L + P + k
      BY <1>4
    <3>3. Rename(n, d) \in out.stmts[L + P + j].writes
      BY <1>4, <3>1, <3>2
    <3> QED
      BY <3>2, <3>3 DEF Written
  <2> QED
    BY <1>6, <2>1, <2>2
<1>7. ASSUME NEW d \in into.dataSpaces, NEW m \in Nat, L <= m
      PROVE  Free(g, d) \/ Written(out, d, m)
  <2>1. Free(g, d) \/ Written(into, d, L)
    BY <1>1 DEF ComputationFlow
  <2>2. L \in 0 .. L
    BY <1>4
  <2> QED
    BY <1>5, <1>7, <2>1, <2>2
<1>8. ASSUME NEW d \in out.dataSpaces
      PROVE  Free(g, d) \/ Written(out, d, L + P + M)
  <2>1. CASE d \in into.dataSpaces
    <3>1. L + P + M \in Nat /\ L <= L + P + M
      BY <1>4
    <3> QED
      BY <1>7, <2>1, <3>1
  <2>2. ASSUME NEW e \in callee.dataSpaces, d = Rename(n, e)
        PROVE  Written(out, d, L + P + M)
    <3>1. Free(f, e) \/ Written(callee, e, M)
      BY <1>3 DEF ComputationFlow
    <3>2. M \in 0 .. M
      BY <1>4
    <3> QED
      BY <1>6, <2>2, <3>1, <3>2
  <2> QED
    BY <1>4, <2>1, <2>2
<1>9. ASSUME NEW i \in 1 .. L + P + M, NEW d \in out.stmts[i].reads
      PROVE  Free(g, d) \/ Written(out, d, i - 1)
  <2>1. CASE i \in 1 .. L
    <3>1. Free(g, d) \/ Written(into, d, i - 1)
      BY <1>1, <1>4, <1>9, <2>1 DEF ComputationFlow
    <3>2. i - 1 \in 0 .. L /\ i - 1 \in Nat /\ i - 1 <= i - 1
      BY <1>4, <2>1
    <3> QED
      BY <1>5, <3>1, <3>2
  <2>2. CASE i - L \in 1 .. P
    <3>1. PICK j \in 1 .. P : j = i - L
      BY <2>2
    <3>2. i = L + j /\ i - 1 \in Nat /\ L <= i - 1
      BY <1>4, <3>1
    <3>3. d \in into.dataSpaces
      BY <1>4, <1>9, <3>2
    <3> QED
      BY <1>7, <3>2, <3>3
  <2>3. CASE i - (L + P) \in 1 .. M
    <3>1. PICK j \in 1 .. M : j = i - (L + P)
      BY <2>3
    <3>2. i = L + P + j /\ j - 1 \in 0 .. M /\ i - 1 = L + P + (j - 1)
      BY <1>4, <3>1
    <3>3. PICK e \in callee.stmts[j].reads : d = Rename(n, e)
      BY <1>4, <1>9, <3>2
    <3>4. Free(f, e) \/ Written(callee, e, j - 1)
      BY <1>3 DEF ComputationFlow
    <3> QED
      BY <1>6, <3>2, <3>3, <3>4
  <2> QED
    BY <1>4, <2>1, <2>2, <2>3
<1>10. ComputationFlow(g, out)
  BY <1>4, <1>8, <1>9 DEF ComputationFlow
<1> QED
  BY <1>4, <1>10
-------------------------------------------------------------------------------
(* A step of the builder at work. *)
LEMMA FlowStep ==
  ASSUME IInv, FlowInv, NEW b, frames' = [frames EXCEPT ![Len(frames)] = b], FlowOK(b),
         UNCHANGED subComputations
  PROVE  FlowInv'
<1>1. \A k \in 1 .. Len(frames') : FlowOK(frames'[k])
  BY Replaced DEF FlowInv
<1> QED
  BY <1>1 DEF FlowInv

LEMMA FlowSame == ASSUME FlowInv, UNCHANGED <<frames, subComputations>> PROVE FlowInv'
BY DEF FlowInv

(* What is known of the builder at work. *)
LEMMA FlowTop ==
  ASSUME IInv, WalkInv, FlowInv
  PROVE  /\ BuilderOK(Top) /\ DOMAIN Top = DOMAIN Builder(Top.fn)
         /\ FrameOK(Top, positionContext) /\ StmtWork(Top)
         /\ FlowOK(Top) /\ Top.fn \in Fns /\ ComputationOK(Top.computation)
         /\ IsSequence(Top.todo)
<1>1. Len(frames) \in Nat \ {0} /\ Top = frames[Len(frames)] /\ FrameOK(Top, positionContext)
      /\ BuilderOK(Top)
  BY AtWork, WorkingFrame DEF IInv
<1>2. Len(frames) \in 1 .. Len(frames)
  BY <1>1
<1>3. FlowOK(Top)
  BY <1>1, <1>2 DEF FlowInv
<1>4. DOMAIN Top = DOMAIN Builder(Top.fn)
  BY <1>1 DEF BuilderOK, Builder
<1> QED
  BY <1>1, <1>3, <1>4 DEF BuilderOK, FrameOK, StmtWork, WorkOK

(* The statement it is at, when it has something to do. *)
LEMMA FlowAtStmt ==
  ASSUME IInv, WalkInv, Top.todo # << >>
  PROVE  /\ Top.stmt \in Source[Top.fn] /\ Top.stmt.kind \notin {"none", "return"}
         /\ WorkItem(Head(Top.todo), Top.stmt)
<1>1. StmtWork(Top)
  BY WorkingFrame DEF FrameOK
<1>2. Top.stmt.kind \notin {"none", "return"}
  BY <1>1 DEF StmtWork
<1>3. Top.stmt \in Source[Top.fn]
  BY <1>1, <1>2 DEF StmtWork, NoStmt
<1> QED
  BY <1>1, <1>2, <1>3, WorkTail DEF StmtWork

(* A builder waits for that of a callee. *)
LEMMA FlowWaits ==
  ASSUME NEW a, FlowOK(a), NEW b, b.fn = a.fn, b.stmt = a.stmt, b.todo = a.todo,
         b.open = a.open, b.dataAccesses = a.dataAccesses, b.varDecls = a.varDecls,
         b.computation = a.computation
  PROVE  FlowOK(b)
<1>1. WritesRecorded(a) => WritesRecorded(b)
  BY DEF WritesRecorded
<1>2. Initialising(a) => Initialising(b)
  BY <1>1 DEF Initialising
<1> QED
  BY <1>2 DEF FlowOK

(* Between statements nothing is declared or accessed. *)
LEMMA FlowBetween ==
  ASSUME NEW a, FlowOK(a), a.stmt.kind = "none", NEW b, b.fn = a.fn, b.stmt = a.stmt,
         b.computation = a.computation, b.varDecls = a.varDecls
  PROVE  FlowOK(b)
<1>1. DeclaredBy(b.stmt) = {}
  BY DEF DeclaredBy
<1>2. a.fn \in Called => Initialising(b)
  BY <1>1 DEF FlowOK, Initialising
<1> QED
  BY <1>2 DEF FlowOK

LEMMA FlowMove ==
  ASSUME IInv, WalkInv, FlowInv, BetweenStmts, NEW c, NEW b, Move(c, b), b.fn = Top.fn,
         b.stmt = Top.stmt, b.computation = Top.computation, b.varDecls = Top.varDecls
  PROVE  FlowInv'
<1>1. FlowOK(b)
  BY FlowTop, FlowBetween DEF BetweenStmts
<1> QED
  BY <1>1, FlowStep DEF Move

LEMMA FlowEnter ==
  ASSUME IInv, WalkInv, FlowInv, BetweenStmts, NEW c, NEW open,
         \/ Enter(c, open)
         \/ Move(c, [Top EXCEPT !.open = open])
  PROVE  FlowInv'
<1>1. BuilderOK(Top)
  BY FlowTop
<1>2. CASE Enter(c, open)
  <2> DEFINE b == [Started EXCEPT !.open = open]
  <2>1. /\ b.fn = Top.fn /\ b.stmt = Top.stmt
        /\ b.computation = Top.computation /\ b.varDecls = Top.varDecls
    BY <1>1 DEF BuilderOK, Started
  <2>2. Move(c, b)
    BY <1>2 DEF Enter
  <2> HIDE DEF b
  <2> QED
    BY <2>1, <2>2, FlowMove
<1>3. CASE Move(c, [Top EXCEPT !.open = open])
  <2> DEFINE b == [Top EXCEPT !.open = open]
  <2>1. /\ b.fn = Top.fn /\ b.stmt = Top.stmt
        /\ b.computation = Top.computation /\ b.varDecls = Top.varDecls
    BY <1>1 DEF BuilderOK
  <2>2. Move(c, b)
    BY <1>3
  <2> HIDE DEF b
  <2> QED
    BY <2>1, <2>2, FlowMove
<1> QED
  BY <1>2, <1>3

(* Structures. *)
LEMMA FlowStructures ==
  ASSUME IInv, WalkInv, FlowInv,
         \/ \E h \in Headers : OpenFor(h)
         \/ CloseFor
         \/ \E c \in Conds : OpenIf(c)
         \/ ElseBranch
         \/ CloseIf
  PROVE  FlowInv'
<1>1. BetweenStmts
  BY DEF OpenFor, CloseFor, OpenIf, ElseBranch, CloseIf, CanOpen, CanStart, EndOfBody
<1>2. CASE Exit
  BY <1>2, FlowSame DEF Exit, Stop
<1>3. CASE ~Exit /\ ~ElseBranch
  <2>1. PICK c, open : Enter(c, open) \/ Move(c, [Top EXCEPT !.open = open])
    <3>1. CASE \E h \in Headers : OpenFor(h)
      BY <1>3, <3>1, Zenon DEF OpenFor
    <3>2. CASE \E h \in Conds : OpenIf(h)
      BY <1>3, <3>2, Zenon DEF OpenIf
    <3>3. CASE CloseFor \/ CloseIf
      BY <3>3, Zenon DEF CloseFor, CloseIf, Leave
    <3> QED
      BY <1>3, <3>1, <3>2, <3>3
  <2> QED
    BY <1>1, <2>1, FlowEnter
<1>4. CASE ~Exit /\ ElseBranch
  <2>1. PICK c, open : Move(c, [Top EXCEPT !.open = open])
    BY <1>4, Zenon DEF ElseBranch
  <2> QED
    BY <1>1, <2>1, FlowEnter
<1> QED
  BY <1>2, <1>3, <1>4

-------------------------------------------------------------------------------
(* A statement begins: a value that is returned where nothing is open is   *)
(* that of a parameter or of a variable declared before.                   *)
LEMMA FlowBeginStmt ==
  ASSUME VariablesAreInitialised, IInv, WalkInv, FlowInv,
         NEW s \in Source[Top.fn], BeginStmt(s)
  PROVE  FlowInv'
<1> DEFINE b == [Started EXCEPT !.stmt = s, !.todo = Work(s)]
<1>1. CASE Exit
  BY <1>1, FlowSame DEF Exit, Stop
<1>2. CASE Move(Advance(positionContext), b)
  <2>1. /\ BuilderOK(Top) /\ FlowOK(Top) /\ FrameOK(Top, positionContext) /\ Top.fn \in Fns
        /\ ComputationOK(Top.computation)
        /\ Top.stmt.kind = "none" /\ IsLegal(s)
    BY FlowTop DEF BeginStmt, CanStart, BetweenStmts
  <2>2. /\ b.fn = Top.fn /\ b.stmt = s /\ b.todo = Work(s) /\ b.dataAccesses = {}
        /\ b.varDecls = Top.varDecls /\ b.open = Top.open
        /\ b.computation = Top.computation
    BY <2>1 DEF BuilderOK, Started
  <2> HIDE DEF b
  <2> DEFINE spaces == Top.computation.dataSpaces
  <2>3. ASSUME Top.fn \in Called
        PROVE  Initialising(b)
    <3>1. /\ \A i \in 1 .. Len(Params[Top.fn]) : DataSpace(Params[Top.fn][i]) \in spaces
          /\ \A i \in 1 .. Len(Top.varDecls) : DataSpace(Top.varDecls[i]) \in spaces
      BY <2>1, <2>3 DEF FlowOK, Initialising, DeclaredBy
    <3>2. s.kind = "decl" => WritesRecorded(b)
      BY <2>1, <2>2, RecordedBegin DEF WritesRecorded
    <3>3. ASSUME s.kind = "return", Top.open = << >>,
                 NEW i \in 1 .. Len(s.value), s.value[i].kind = "ref"
          PROVE  DataSpace(s.value[i].name) \in spaces
      <4>1. NamesIn(positionContext.iterators) = {}
        <5>1. Len(<< >>) = 0
          BY EmptySeq
        <5>2. Balanced(positionContext, << >>)
          BY <2>1, <3>3, Zenon DEF FrameOK, Good
        <5>3. positionContext.iterators = EmptyContext.iterators
          BY <5>1, <5>2 DEF Balanced, SameScopes, Outside
        <5>4. positionContext.iterators = << >>
          BY <5>3 DEF EmptyContext
        <5> QED
          BY <5>1, <5>4 DEF NamesIn
      <4>2. ValuesIn(s) = {s.value}
        BY <3>3 DEF ValuesIn
      <4>3. s.value[i].name \in Mentions(s.value[i])
        BY <3>3 DEF Mentions
      <4>4. s.value[i].name \in Declared
        <5>1. UNION {UNION {Mentions(v[j]) : j \in 1 .. Len(v)} : v \in ValuesIn(s)}
                \subseteq Declared
          BY <2>1, <3>3 DEF IsLegal
        <5> QED
          BY <3>3, <4>2, <4>3, <5>1
      <4>5. s.value[i].name \in NamesIn(Params[Top.fn]) \cup NamesIn(Top.varDecls)
        BY <4>1, <4>4 DEF Declared
      <4> QED
        BY <3>1, <4>5 DEF NamesIn
    <3> QED
      BY <2>2, <3>1, <3>2, <3>3 DEF Initialising
  <2>4. FlowOK(b)
    BY <2>1, <2>2, <2>3 DEF FlowOK
  <2> QED
    BY <1>2, <2>4, FlowStep DEF Move
<1> QED
  BY <1>1, <1>2 DEF BeginStmt

(* A declaration: the name is one of the statement's. *)
LEMMA FlowDeclare ==
  ASSUME IInv, WalkInv, FlowInv, Declare
  PROVE  FlowInv'
<1> DEFINE d == Head(Top.todo).decl
           b == [Top EXCEPT !.varDecls = Append(@, d.name),
                            !.todo = Initialise(d) \o Tail(@)]
<1>1. CASE Exit
  BY <1>1, FlowSame DEF Exit, Stop
<1>2. CASE Stay(b)
  <2>1. /\ BuilderOK(Top) /\ FlowOK(Top) /\ StmtWork(Top) /\ Top.fn \in Fns
        /\ IsSequence(Top.todo) /\ IsSequence(Top.varDecls)
    BY FlowTop DEF FlowOK
  <2>2. /\ b.fn = Top.fn /\ b.stmt = Top.stmt /\ b.todo = Initialise(d) \o Tail(Top.todo)
        /\ b.dataAccesses = Top.dataAccesses /\ b.open = Top.open
        /\ b.varDecls = Append(Top.varDecls, d.name)
        /\ b.computation = Top.computation
    BY <2>1 DEF BuilderOK
  <2>3. Top.todo # << >> /\ Head(Top.todo).do = "declare"
    BY DEF Declare, Working
  <2>4. /\ WorkOK(Tail(Top.todo), Top.stmt) /\ WorkItem(Head(Top.todo), Top.stmt)
        /\ Top.stmt \in Source[Top.fn]
    BY <2>1, <2>3, WorkTail, FlowAtStmt DEF StmtWork
  <2>5. Top.stmt.kind = "decl" /\ \E i \in 1 .. Len(Top.stmt.decls) : d = Top.stmt.decls[i]
    BY <2>3, <2>4 DEF WorkItem
  <2>6. PICK i \in 1 .. Len(Top.stmt.decls) : d = Top.stmt.decls[i]
    BY <2>5
  <2>7. WorkOK(Initialise(d), Top.stmt) /\ Len(d.value) \in Nat
    <3>1. WorkOK(Initialise(Top.stmt.decls[i]), Top.stmt)
      BY <2>1, <2>4, <2>5, InitialiseOK
    <3>2. Len(Top.stmt.decls[i].value) \in Nat
      BY <2>1, <2>4, <2>5, StatementTypes
    <3> HIDE DEF d
    <3> QED
      BY <2>6, <3>1, <3>2
  <2> HIDE DEF b, d
  <2>8. /\ IsSequence(b.varDecls) /\ Len(Top.varDecls) \in Nat
        /\ Len(b.varDecls) = Len(Top.varDecls) + 1
        /\ \A k \in 1 .. Len(Top.varDecls) : b.varDecls[k] = Top.varDecls[k]
        /\ b.varDecls[Len(Top.varDecls) + 1] = d.name
    BY <2>1, <2>2, Appended
  <2>9. d.name \in DeclaredBy(Top.stmt)
    BY <2>5, <2>6 DEF DeclaredBy
  <2>10. ASSUME Top.fn \in Called
         PROVE  Initialising(b)
    <3>1. Initialising(Top)
      BY <2>1, <2>10 DEF FlowOK
    <3>2. WritesRecorded(Top)
      BY <2>5, <3>1 DEF Initialising
    <3>3. WritesRecorded(b)
      BY <2>1, <2>2, <2>3, <2>4, <2>7, <3>2, RecordedDeclare DEF WorkOK, d
    <3>4. ASSUME NEW k \in 1 .. Len(b.varDecls)
          PROVE  \/ DataSpace(b.varDecls[k]) \in Top.computation.dataSpaces
                 \/ b.varDecls[k] \in DeclaredBy(Top.stmt)
      <4>1. CASE k = Len(Top.varDecls) + 1
        BY <2>8, <2>9, <4>1
      <4>2. CASE k # Len(Top.varDecls) + 1
        <5>1. k \in 1 .. Len(Top.varDecls)
          BY <2>8, <4>2
        <5> QED
          BY <2>8, <3>1, <5>1 DEF Initialising
      <4> QED
        BY <4>1, <4>2
    <3> QED
      BY <2>2, <2>5, <3>1, <3>3, <3>4 DEF Initialising
  <2>11. FlowOK(b)
    BY <2>1, <2>2, <2>8, <2>10 DEF FlowOK
  <2> QED
    BY <1>2, <2>11, FlowStep DEF Stay, Move, b, d
<1> QED
  BY <1>1, <1>2 DEF Declare
-------------------------------------------------------------------------------
(* An access is no read of what its statement declares. *)
NoOwnRead(b, accesses) ==
  \A a \in accesses :
    a.isRead = TRUE => \/ a.name \in b.computation.dataSpaces
                       \/ \A x \in DeclaredBy(b.stmt) : a.name # DataSpace(x)

LEMMA FlowAccessed ==
  ASSUME IInv, WalkInv, FlowInv, NEW accesses, Accessed(accesses), Top.todo # << >>,
         Top.fn \in Called => NoOwnRead(Top, accesses),
         Top.fn \in Called /\ Top.stmt.kind = "decl" =>
           \A x \in Assigned(Top.stmt) \ IteratorsOf(Top.open) :
             ~ToWrite(Head(Top.todo), x) \/ WriteOf(x) \in accesses
  PROVE  FlowInv'
<1> DEFINE b == [Top EXCEPT !.dataAccesses = @ \cup accesses, !.todo = Tail(@)]
<1>1. /\ BuilderOK(Top) /\ FlowOK(Top) /\ IsSequence(Top.todo) /\ Stay(b)
      /\ Top.stmt.kind \notin {"none", "return"}
  BY FlowTop, FlowAtStmt DEF Accessed
<1>2. /\ b.fn = Top.fn /\ b.stmt = Top.stmt /\ b.todo = Tail(Top.todo)
      /\ b.dataAccesses = Top.dataAccesses \cup accesses /\ b.open = Top.open
      /\ b.varDecls = Top.varDecls /\ b.computation = Top.computation
  BY <1>1 DEF BuilderOK
<1> HIDE DEF b
<1>3. ASSUME Top.fn \in Called
      PROVE  Initialising(b)
  <2>1. Initialising(Top) /\ NoOwnRead(Top, accesses)
    BY <1>1, <1>3 DEF FlowOK
  <2>2. NoOwnRead(Top, b.dataAccesses)
    BY <1>2, <2>1 DEF NoOwnRead, Initialising
  <2>3. Top.stmt.kind = "decl" => WritesRecorded(b)
    <3>1. SUFFICES ASSUME Top.stmt.kind = "decl" PROVE WritesRecorded(b)
      OBVIOUS
    <3>2. WritesRecorded(Top)
      BY <2>1, <3>1 DEF Initialising
    <3>3. \A x \in Assigned(Top.stmt) \ IteratorsOf(Top.open) :
            ~ToWrite(Head(Top.todo), x) \/ WriteOf(x) \in b.dataAccesses
      BY <1>2, <1>3, <3>1
    <3> QED
      BY <1>1, <1>2, <3>2, <3>3, RecordedTail
  <2> QED
    BY <1>1, <1>2, <2>1, <2>2, <2>3 DEF Initialising, NoOwnRead
<1>4. FlowOK(b)
  BY <1>1, <1>2, <1>3 DEF FlowOK
<1> QED
  BY <1>1, <1>4, FlowStep DEF Stay, Move

(* What a declaration assigns is what it declares, if it initialises it.   *)
LEMMA AssignedDeclared ==
  ASSUME NEW s, s.kind = "decl"
  PROVE  /\ Assigned(s) \subseteq DeclaredBy(s)
         /\ (\A i \in 1 .. Len(s.decls) : s.decls[i].init) => DeclaredBy(s) \subseteq Assigned(s)
<1>1. Assigned(s) = {s.decls[i].name : i \in {j \in 1 .. Len(s.decls) : s.decls[j].init}}
  BY DEF Assigned, IsAssignment
<1>2. DeclaredBy(s) = {s.decls[i].name : i \in 1 .. Len(s.decls)}
  BY DEF DeclaredBy
<1> QED
  BY <1>1, <1>2

(* The names an access is about are those its expression mentions. *)
LEMMA AccessedNames ==
  ASSUME NEW c, NEW r, NEW a,
         c.kind = "ref" \/ c.kind = "array", a \in Accesses(c, r)
  PROVE  /\ \E x \in Mentions(c) : a.name = DataSpace(x)
         /\ c.kind = "ref" => a.name = DataSpace(c.name) /\ a.isRead = r
<1> DEFINE own == [name |-> DataSpace(c.name), isRead |-> r]
           sub(x) == [name |-> DataSpace(x), isRead |-> TRUE]
<1>1. a = own \/ (c.kind = "array" /\ \E x \in NamesIn(c.subs) : a = sub(x))
  BY DEF Accesses
<1>2. own.name = DataSpace(c.name) /\ own.isRead = r /\ \A x : sub(x).name = DataSpace(x)
  OBVIOUS
<1> HIDE DEF own, sub
<1>3. c.name \in Mentions(c) /\ (c.kind = "array" => NamesIn(c.subs) \subseteq Mentions(c))
  BY DEF Mentions
<1> QED
  BY <1>1, <1>2, <1>3

LEMMA SameSpace == ASSUME NEW x, NEW y, DataSpace(x) = DataSpace(y) PROVE x = y
<1>1. DataSpace(x).name = x /\ DataSpace(y).name = y
  BY DEF DataSpace
<1> QED
  BY <1>1

(* The initial value of a variable does not refer to it. *)
LEMMA FlowAccessComponent ==
  ASSUME VariablesAreInitialised, IInv, WalkInv, FlowInv, AccessComponent
  PROVE  FlowInv'
<1> DEFINE c == Head(Top.todo).expr
           accesses == IF Head(Top.todo).reads /\ Plain(c)
                         THEN Accesses(c, TRUE) ELSE {}
<1>1. Accessed(accesses) /\ Top.todo # << >> /\ Head(Top.todo).do = "component"
  BY DEF AccessComponent, Working
<1>2. /\ Top.fn \in Fns /\ Top.stmt \in Source[Top.fn] /\ WorkItem(Head(Top.todo), Top.stmt)
  BY <1>1, FlowTop, FlowAtStmt
<1>3. \A x : ~ToWrite(Head(Top.todo), x)
  BY <1>1 DEF ToWrite
<1>4. ASSUME Top.fn \in Called, NEW a \in accesses, NEW x \in DeclaredBy(Top.stmt),
             a.name = DataSpace(x)
      PROVE  FALSE
  <2>1. (c.kind = "ref" \/ c.kind = "array") /\ a \in Accesses(c, TRUE)
    BY <1>4 DEF Plain
  <2>2. Top.stmt.kind = "decl"
    BY <1>4 DEF DeclaredBy
  <2>3. PICK v \in ValuesIn(Top.stmt) : \E i \in 1 .. Len(v) : c = v[i]
    BY <1>1, <1>2, <2>2 DEF WorkItem
  <2>a. PICK i \in 1 .. Len(v) : c = v[i]
    BY <2>3
  <2> HIDE DEF c
  <2>4. PICK y \in Mentions(c) : a.name = DataSpace(y)
    BY <2>1, AccessedNames
  <2>5. y = x
    BY <1>4, <2>4, SameSpace
  <2>6. Mentions(c) \cap DeclaredBy(Top.stmt) = {}
    <3>1. \A w \in ValuesIn(Top.stmt) : \A j \in 1 .. Len(w) :
            Mentions(w[j]) \cap DeclaredBy(Top.stmt) = {}
      BY <1>2, <1>4, <2>2, Zenon DEF VariablesAreInitialised
    <3>2. Mentions(v[i]) \cap DeclaredBy(Top.stmt) = {}
      BY <3>1
    <3> QED
      BY <3>2, <2>a, Zenon
  <2> QED
    BY <1>4, <2>4, <2>5, <2>6
<1>5. Top.fn \in Called => NoOwnRead(Top, accesses)
  <2> HIDE DEF accesses
  <2> QED
    BY <1>4 DEF NoOwnRead
<1> HIDE DEF accesses
<1> QED
  BY <1>1, <1>3, <1>5, FlowAccessed

(* The variable itself is written, for it is no iterator. *)
LEMMA FlowAccessTarget ==
  ASSUME VariablesAreInitialised, IInv, WalkInv, FlowInv, AccessTarget
  PROVE  FlowInv'
<1> DEFINE c == Head(Top.todo).expr
           accesses == IF Plain(c) THEN Accesses(c, FALSE) ELSE {}
<1>1. Accessed(accesses) /\ Top.todo # << >> /\ Head(Top.todo).do = "write"
  BY DEF AccessTarget, Working
<1>2. /\ Top.fn \in Fns /\ Top.stmt \in Source[Top.fn] /\ WorkItem(Head(Top.todo), Top.stmt)
      /\ positionContext \in ContextSet(Iterators)
  BY <1>1, FlowTop, FlowAtStmt DEF FrameOK, Good
<1>3. ASSUME Top.fn \in Called, NEW a \in accesses, a.isRead = TRUE,
             NEW x \in DeclaredBy(Top.stmt)
      PROVE  FALSE
  <2>1. Top.stmt.kind = "decl"
    BY <1>3 DEF DeclaredBy
  <2>2. c.kind = "ref"
    BY <1>1, <1>2, <2>1 DEF WorkItem
  <2> HIDE DEF c
  <2>3. a.isRead = FALSE
    <3>1. a \in Accesses(c, FALSE)
      BY <1>3, <2>2 DEF Plain
    <3> QED
      BY <2>2, <3>1, AccessedNames
  <2> QED
    BY <1>3, <2>3
<1>4. ASSUME Top.fn \in Called, Top.stmt.kind = "decl",
             NEW x \in Assigned(Top.stmt), ToWrite(Head(Top.todo), x)
      PROVE  WriteOf(x) \in accesses
  <2>1. Plain(c) /\ c.name = x
    BY <1>1, <1>4, Zenon DEF ToWrite
  <2>2. x \in DeclaredBy(Top.stmt)
    BY <1>4, AssignedDeclared
  <2>3. x \notin Iterators
    BY <1>2, <1>4, <2>2 DEF VariablesAreInitialised
  <2>4. NamesIn(positionContext.iterators) \subseteq Iterators
    BY <1>2 DEF ContextSet, NamesIn
  <2> HIDE DEF c
  <2> QED
    BY <2>1, <2>3, <2>4, RecordedWrite
<1> HIDE DEF accesses
<1>5. Top.fn \in Called => NoOwnRead(Top, accesses)
  BY <1>3 DEF NoOwnRead
<1> QED
  BY <1>1, <1>4, <1>5, FlowAccessed

-------------------------------------------------------------------------------
(* Calls. *)

(* The function called is one that is called. *)
LEMMA CalledNow ==
  ASSUME IInv, WalkInv, Top.todo # << >>, Head(Top.todo).do = "call", Call.callee \in Fns
  PROVE  Call.callee \in Called
<1>1. /\ Top.fn \in Fns /\ Top.stmt \in Source[Top.fn] /\ WorkItem(Head(Top.todo), Top.stmt)
  BY WorkingFrame, FlowAtStmt DEF BuilderOK
<1>2. Call.callee \in CallsIn(Top.stmt)
  BY <1>1 DEF WorkItem, Call
<1> QED
  BY <1>1, <1>2 DEF Called, Callees

(* The end of one. *)
LEMMA FlowAfterCall ==
  ASSUME NEW b, DOMAIN b = DOMAIN Builder(b.fn), NEW read, FlowOK(b),
         IsSequence(b.todo), b.todo # << >>, Head(b.todo).do = "call",
         b.stmt.kind # "return", b.fn \in Called => NoOwnRead(b, read)
  PROVE  FlowOK(AfterCall(b, read))
<1> DEFINE c == AfterCall(b, read)
<1>1. /\ c.fn = b.fn /\ c.computation = b.computation
      /\ c.stmt = (IF b.stmt.kind = "call" THEN NoStmt ELSE b.stmt)
      /\ c.dataAccesses = b.dataAccesses \cup read /\ c.varDecls = b.varDecls
  BY DEF AfterCall, Builder
<1>2. WritesRecorded(b) /\ b.stmt.kind = "decl" => WritesRecorded(c)
  BY LoopAfterCall
<1> HIDE DEF c
<1>3. /\ DeclaredBy(c.stmt) = DeclaredBy(b.stmt)
      /\ c.stmt.kind # "return"
      /\ c.stmt.kind = "decl" => b.stmt.kind = "decl"
  <2>1. NoStmt.kind = "none"
    BY DEF NoStmt
  <2>2. CASE b.stmt.kind = "call"
    BY <1>1, <2>1, <2>2 DEF DeclaredBy
  <2>3. CASE b.stmt.kind # "call"
    <3>1. c.stmt = b.stmt
      BY <1>1, <2>3
    <3> QED
      BY <3>1
  <2> QED
    BY <2>2, <2>3
<1>4. ASSUME b.fn \in Called
      PROVE  Initialising(c)
  <2>1. Initialising(b) /\ NoOwnRead(b, read)
    BY <1>4 DEF FlowOK
  <2>2. NoOwnRead(b, c.dataAccesses)
    BY <1>1, <2>1 DEF NoOwnRead, Initialising
  <2>3. c.stmt.kind = "decl" => WritesRecorded(c)
    BY <1>2, <1>3, <2>1 DEF Initialising
  <2> QED
    BY <1>1, <1>3, <2>1, <2>2, <2>3 DEF Initialising, NoOwnRead
<1> QED
  BY <1>1, <1>4 DEF FlowOK, c

LEMMA FlowCallReserved ==
  ASSUME IInv, WalkInv, FlowInv, CallReserved
  PROVE  FlowInv'
<1> DEFINE spaces == {i \in 1 .. Len(Call.args) :
                        /\ Call.args[i].kind = "ref"
                        /\ DataSpace(Call.args[i].name) \in Top.computation.dataSpaces}
           read == UNION {Accesses(Call.args[i], TRUE) : i \in spaces}
           b == AfterCall(Top, read)
<1>1. Stay(b) /\ Top.todo # << >> /\ Head(Top.todo).do = "call"
  BY DEF CallReserved, Working
<1>2. /\ FlowOK(Top) /\ DOMAIN Top = DOMAIN Builder(Top.fn) /\ IsSequence(Top.todo)
      /\ Top.stmt.kind # "return"
  BY <1>1, FlowTop, FlowAtStmt
<1>3. NoOwnRead(Top, read)
  <2>1. ASSUME NEW i \in spaces, NEW a \in Accesses(Call.args[i], TRUE)
        PROVE  a.name \in Top.computation.dataSpaces
    <3>1. /\ Call.args[i].kind = "ref"
          /\ DataSpace(Call.args[i].name) \in Top.computation.dataSpaces
      OBVIOUS
    <3>2. a.name = DataSpace(Call.args[i].name)
      BY <2>1, <3>1, AccessedNames
    <3> QED
      BY <3>1, <3>2
  <2> HIDE DEF spaces
  <2> QED
    BY <2>1 DEF NoOwnRead
<1> HIDE DEF read
<1>4. FlowOK(b)
  BY <1>1, <1>2, <1>3, FlowAfterCall
<1> HIDE DEF b
<1> QED
  BY <1>1, <1>4, FlowStep DEF Stay, Move

(* Inlining: the value that comes back is a data space of the caller, or a *)
(* number.                                                                 *)
LEMMA FlowInlineCall ==
  ASSUME VariablesAreInitialised, IInv, WalkInv, FlowInv, InlineCall
  PROVE  FlowInv'
<1> DEFINE f == Call.callee
           callee == subComputations[f]
           t == positionContext.schedule
           values == callee.returnValues
           value == ReturnedValue(callee, renamings)
           read == IF values # << >> /\ Head(Top.todo).reads /\ ~IsIterator(value)
                     THEN {[name |-> value, isRead |-> TRUE]} ELSE {}
           into == AppendComputation(Top.computation, f, callee, t, Call.args, renamings)
           a == [Top EXCEPT !.started = @ + 1, !.computation = into]
           b == AfterCall(a, read)
<1>1. CASE Exit
  BY <1>1, FlowSame DEF Exit, Stop
<1>2. CASE ~Exit
  <2>1. /\ frames' = [frames EXCEPT ![Len(frames)] = b]
        /\ UNCHANGED subComputations
        /\ f \in DOMAIN subComputations
        /\ Top.todo # << >> /\ Head(Top.todo).do = "call"
    BY <1>2 DEF InlineCall, Working
  <2>2. /\ BuilderOK(Top) /\ FlowOK(Top) /\ Top.fn \in Fns /\ IsSequence(Top.todo)
        /\ ComputationOK(Top.computation)
        /\ Top.stmt.kind # "return" /\ Top.stmt \in Source[Top.fn]
    BY <2>1, FlowTop, FlowAtStmt
  <2>3. /\ f \in Fns /\ f \in Called /\ ComputationOK(callee) /\ ComputationFlow(f, callee)
        /\ IsSequence(callee.returnValues)
    BY <2>1, CalleeBlock, CalledNow DEF FlowInv, WalkInv, BlockOK
  <2>4. /\ ComputationFlow(Top.fn, into)
        /\ Top.computation.dataSpaces \subseteq into.dataSpaces
        /\ \A d \in callee.dataSpaces : Rename(renamings, d) \in into.dataSpaces
    <3> HIDE DEF into, callee, f, t
    <3> QED
      BY <2>2, <2>3, FlowAppended DEF FlowOK, into
  <2>5. /\ DOMAIN a = DOMAIN Builder(a.fn) /\ a.fn = Top.fn /\ a.stmt = Top.stmt
        /\ a.todo = Top.todo /\ a.open = Top.open /\ a.dataAccesses = Top.dataAccesses
        /\ a.varDecls = Top.varDecls /\ a.computation = into
    <3> HIDE DEF into
    <3> QED
      BY <2>2 DEF BuilderOK, Builder
  <2>6. ASSUME Top.fn \in Called, values # << >>, NEW x \in DeclaredBy(Top.stmt),
               value = DataSpace(x)
        PROVE  value \in into.dataSpaces
    <3> DEFINE n == Len(values)
               v == values[n]
    <3>1. n \in Nat \ {0}
      BY <2>3, <2>6, EmptySeq, LenProperties DEF IsSequence
    <3>2. value = IF v \in callee.dataSpaces THEN Rename(renamings, v) ELSE v
      <4> HIDE DEF callee
      <4> QED
        BY <3>1 DEF ReturnedValue, Returned, Back
    <3>3. v \in callee.dataSpaces \/ ReturnedLiteral(v)
      BY <2>3, <3>1 DEF ComputationFlow
    <3>4. ~ReturnedLiteral(DataSpace(x))
      <4>1. Top.stmt.kind = "decl"
        BY <2>6 DEF DeclaredBy
      <4> QED
        BY <2>2, <2>6, <4>1 DEF VariablesAreInitialised
    <3> HIDE DEF value, values, callee, into
    <3> QED
      BY <2>4, <2>6, <3>2, <3>3, <3>4
  <2>7. Top.fn \in Called => NoOwnRead(a, read)
    <3> HIDE DEF value, values, into, a
    <3>1. \A r \in read : r.name = value /\ values # << >>
      OBVIOUS
    <3> HIDE DEF read
    <3> QED
      BY <2>5, <2>6, <3>1 DEF NoOwnRead
  <2> HIDE DEF a, into, read
  <2>8. FlowOK(a)
    <3>1. ASSUME Top.fn \in Called
          PROVE  Initialising(a)
      <4>1. Initialising(Top)
        BY <2>2, <3>1 DEF FlowOK
      <4>2. a.stmt.kind = "decl" => WritesRecorded(a)
        BY <2>5, <4>1 DEF Initialising, WritesRecorded
      <4> QED
        BY <2>2, <2>4, <2>5, <4>1, <4>2 DEF Initialising
    <3> QED
      BY <2>2, <2>4, <2>5, <3>1 DEF FlowOK
  <2>9. FlowOK(b)
    BY <2>1, <2>2, <2>5, <2>7, <2>8, FlowAfterCall
  <2> HIDE DEF b
  <2> QED
    BY <2>1, <2>9, FlowStep
<1> QED
  BY <1>1, <1>2
-------------------------------------------------------------------------------
(* The builder of a callee: what is a data space is a parameter. *)
LEMMA FlowNew == ASSUME NEW f \in Fns PROVE FlowOK(Builder(f))
<1> DEFINE b == Builder(f)
<1>1. /\ b.fn = f /\ b.computation = NewComputation(f) /\ b.varDecls = << >>
      /\ b.dataAccesses = {} /\ b.stmt = NoStmt
  BY DEF Builder
<1>2. /\ b.computation.dataSpaces = {DataSpace(Params[f][i]) : i \in 1 .. Len(Params[f])}
      /\ b.computation.stmts = << >> /\ b.computation.returnValues = << >>
  BY <1>1 DEF NewComputation
<1>3. b.stmt.kind = "none"
  BY <1>1 DEF NoStmt
<1> HIDE DEF b
<1>4. Len(<< >>) = 0
  BY EmptySeq
<1>5. IsSequence(<< >>)
  BY EmptySeq DEF IsSequence
<1>6. \A i \in 1 .. Len(Params[f]) : Free(f, DataSpace(Params[f][i]))
  <2>1. \A x : DataSpace(x).prefixes = << >>
    BY DEF DataSpace
  <2> QED
    BY <2>1 DEF Free
<1>7. ComputationFlow(f, b.computation)
  <2>1. \A d \in b.computation.dataSpaces : Free(f, d)
    BY <1>2, <1>6
  <2> QED
    BY <1>2, <1>4, <2>1 DEF ComputationFlow
<1>8. Initialising(b)
  BY <1>1, <1>2, <1>3, <1>4 DEF Initialising
<1> QED
  BY <1>1, <1>5, <1>7, <1>8 DEF FlowOK, b

(* It starts, and its caller waits. *)
LEMMA FlowBuildCallee ==
  ASSUME IInv, WalkInv, FlowInv, BuildCallee
  PROVE  FlowInv'
<1> DEFINE n == Len(frames)
           caller == [Top EXCEPT !.oldContext = positionContext, !.building = TRUE]
           fs == [frames EXCEPT ![n] = caller]
           new == Builder(Call.callee)
           S == Elements(frames) \cup {caller, new}
<1>1. frames' = Append(fs, new) /\ subComputations' = subComputations /\ Call.callee \in Fns
  BY AtWork DEF BuildCallee, IInv
<1>2. n \in Nat \ {0} /\ BuilderOK(Top) /\ FlowOK(Top)
  BY WorkingFrame, FlowTop
<1>3. frames \in Seq(S) /\ caller \in S /\ new \in S /\ n \in 1 .. n
  BY <1>2, AtWork, Wider DEF IInv
<1>4. /\ caller.fn = Top.fn /\ caller.stmt = Top.stmt /\ caller.todo = Top.todo
      /\ caller.open = Top.open /\ caller.dataAccesses = Top.dataAccesses
      /\ caller.varDecls = Top.varDecls /\ caller.computation = Top.computation
  BY <1>2 DEF BuilderOK
<1>5. FlowOK(new)
  BY <1>1, FlowNew
<1> HIDE DEF S, caller, new, n
<1>6. /\ fs \in Seq(S) /\ Len(fs) = n
      /\ \A i \in 1 .. n : fs[i] = IF i = n THEN caller ELSE frames[i]
  BY <1>3, ExceptSeq DEF n
<1> HIDE DEF fs
<1>7. /\ Len(frames') = n + 1 /\ frames'[n + 1] = new
      /\ \A i \in 1 .. n : frames'[i] = IF i = n THEN caller ELSE frames[i]
  BY <1>1, <1>3, <1>6, AppendProperties
<1>8. FlowOK(caller)
  BY <1>2, <1>4, FlowWaits
<1>9. \A k \in 1 .. Len(frames') : FlowOK(frames'[k])
  <2>1. \A k \in 1 .. n : FlowOK(frames[k])
    BY DEF FlowInv, n
  <2> QED
    BY <1>2, <1>5, <1>7, <1>8, <2>1
<1> QED
  BY <1>1, <1>9 DEF FlowInv

(* Its Computation is kept, and the caller goes on. *)
LEMMA FlowFinishCallee ==
  ASSUME IInv, WalkInv, FlowInv, FinishCallee
  PROVE  FlowInv'
<1> DEFINE n == Len(frames)
           S == Elements(frames)
           fs == PopBack(frames)
           m == Len(fs)
           caller == [fs[m] EXCEPT !.oldContext = EmptyContext]
           T == S \cup {caller}
<1>1. /\ frames' = [fs EXCEPT ![m] = caller] /\ n > 1
      /\ subComputations' = Keep(Top.fn, Top.computation)
  BY DEF FinishCallee
<1>2. n \in Nat \ {0} /\ frames \in Seq(S) /\ frames # << >>
  BY AtWork DEF IInv, BuildersOK
<1> HIDE DEF S
<1>3. fs \in Seq(S) /\ m = n - 1 /\ \A i \in 1 .. n - 1 : fs[i] = frames[i]
  BY <1>2, PopBackProperties
<1> HIDE DEF fs
<1>4. m \in Nat \ {0} /\ m \in 1 .. m /\ m \in 1 .. n /\ fs[m] = frames[m]
  BY <1>1, <1>2, <1>3
<1>5. BuilderOK(fs[m]) /\ FlowOK(fs[m])
  BY <1>4 DEF IInv, BuildersOK, FlowInv
<1>6. /\ caller.fn = fs[m].fn /\ caller.stmt = fs[m].stmt /\ caller.todo = fs[m].todo
      /\ caller.open = fs[m].open /\ caller.dataAccesses = fs[m].dataAccesses
      /\ caller.varDecls = fs[m].varDecls /\ caller.computation = fs[m].computation
  BY <1>5 DEF BuilderOK
<1>7. fs \in Seq(T) /\ caller \in T
  BY <1>3, Wider
<1> HIDE DEF caller, T, n, m
<1>8. /\ Len(frames') = m
      /\ \A i \in 1 .. m : frames'[i] = IF i = m THEN caller ELSE fs[i]
  BY <1>1, <1>4, <1>7, ExceptSeq DEF m
<1>9. FlowOK(caller)
  BY <1>5, <1>6, FlowWaits
<1>10. ASSUME NEW k \in 1 .. m
       PROVE  FlowOK(frames'[k])
  <2>1. k \in 1 .. n /\ fs[k] = frames[k]
    BY <1>2, <1>3
  <2>2. FlowOK(fs[k])
    BY <2>1 DEF FlowInv, n
  <2> QED
    BY <1>8, <1>9, <2>2
<1>11. ComputationFlow(Top.fn, Top.computation)
  BY FlowTop DEF FlowOK
<1>12. ASSUME NEW g \in DOMAIN subComputations'
       PROVE  ComputationFlow(g, subComputations'[g])
  BY <1>1, <1>11 DEF Keep, FlowInv
<1> QED
  BY <1>8, <1>10, <1>12 DEF FlowInv

-------------------------------------------------------------------------------
(* The end of a statement. *)

(* A statement is added that reads nothing new and writes what is. *)
LEMMA FlowAdded ==
  ASSUME NEW f, NEW c, IsSequence(c.stmts), ComputationFlow(f, c), NEW new, NEW stmt, NEW e,
         e.dataSpaces = c.dataSpaces \cup new, e.stmts = Append(c.stmts, stmt),
         e.returnValues = c.returnValues,
         \A d \in new : Free(f, d) \/ d \in stmt.writes,
         \A d \in stmt.reads : d \in c.dataSpaces \/ Free(f, d)
  PROVE  ComputationFlow(f, e)
<1>1. PICK L : L = Len(c.stmts)
  OBVIOUS
<1>2. /\ L \in Nat /\ Len(e.stmts) = L + 1 /\ e.stmts[L + 1] = stmt
      /\ \A i \in 1 .. L : e.stmts[i] = c.stmts[i]
  BY <1>1, Appended
<1>3. ASSUME NEW d, NEW n \in 0 .. L, Written(c, d, n)
      PROVE  Written(e, d, n)
  BY <1>2, <1>3 DEF Written
<1>4. ASSUME NEW d \in c.dataSpaces
      PROVE  Free(f, d) \/ Written(e, d, L)
  BY <1>1, <1>2, <1>3 DEF ComputationFlow
<1>5. ASSUME NEW d \in e.dataSpaces
      PROVE  Free(f, d) \/ Written(e, d, L + 1)
  <2>1. CASE d \in c.dataSpaces
    BY <1>2, <1>4, <2>1 DEF Written
  <2>2. CASE d \in new
    BY <1>2, <2>2 DEF Written
  <2> QED
    BY <2>1, <2>2
<1>6. ASSUME NEW i \in 1 .. L + 1, NEW d \in e.stmts[i].reads
      PROVE  Free(f, d) \/ Written(e, d, i - 1)
  <2>1. CASE i = L + 1
    <3>1. d \in stmt.reads
      BY <1>2, <2>1
    <3>2. i - 1 = L
      BY <1>2, <2>1
    <3> QED
      BY <1>4, <3>1, <3>2
  <2>2. CASE i # L + 1
    <3>1. i \in 1 .. L /\ i - 1 \in 0 .. L
      BY <1>2, <2>2
    <3>2. Free(f, d) \/ Written(c, d, i - 1)
      BY <1>1, <1>2, <3>1 DEF ComputationFlow
    <3> QED
      BY <1>3, <3>1, <3>2
  <2> QED
    BY <2>1, <2>2
<1> QED
  BY <1>2, <1>5, <1>6 DEF ComputationFlow

LEMMA FlowAddStmt ==
  ASSUME VariablesAreInitialised, IInv, WalkInv, FlowInv, AddStmt
  PROVE  FlowInv'
<1> DEFINE reads == NamesAccessed(TRUE)
           writes == NamesAccessed(FALSE)
           new == NewDataSpaces(reads, writes)
           stmt == [schedule |-> positionContext.schedule, reads |-> reads,
                    writes |-> writes]
           b == [Top EXCEPT !.computation.dataSpaces = @ \cup new,
                            !.computation.stmts = Append(@, stmt),
                            !.stmt = NoStmt]
           spaces == Top.computation.dataSpaces
<1>1. CASE Exit \/ Stop("uncaught")
  BY <1>1, FlowSame DEF Exit, Stop
<1>2. CASE Stay(b) /\ new \subseteq {DataSpace(x) : x \in NamesIn(Top.varDecls)}
  <2>1. /\ BuilderOK(Top) /\ FlowOK(Top) /\ StmtWork(Top) /\ Top.fn \in Fns
        /\ ComputationOK(Top.computation) /\ FrameOK(Top, positionContext)
        /\ Top.stmt.kind # "none" /\ Top.todo = << >>
    BY FlowTop DEF AddStmt
  <2>2. Top.stmt \in Source[Top.fn]
    BY <2>1 DEF StmtWork, NoStmt
  <2>3. /\ \A d \in reads : \E a \in Top.dataAccesses : a.isRead = TRUE /\ a.name = d
        /\ \A x : WriteOf(x) \in Top.dataAccesses => DataSpace(x) \in writes
    <3>1. \A x : WriteOf(x).isRead = FALSE /\ WriteOf(x).name = DataSpace(x)
      BY DEF WriteOf
    <3> QED
      BY <3>1 DEF NamesAccessed
  <2>4. new = (reads \cup writes) \ spaces
    BY DEF NewDataSpaces
  <2>5. stmt.reads = reads /\ stmt.writes = writes
    OBVIOUS
  <2> HIDE DEF stmt, new, reads, writes
  <2>6. /\ b.fn = Top.fn /\ b.stmt = NoStmt /\ b.varDecls = Top.varDecls
        /\ b.computation.dataSpaces = spaces \cup new
        /\ b.computation.stmts = Append(Top.computation.stmts, stmt)
        /\ b.computation.returnValues = Top.computation.returnValues
    BY <2>1 DEF BuilderOK, ComputationOK
  <2>7. b.stmt.kind = "none"
    BY <2>6 DEF NoStmt
  <2> HIDE DEF b
  <2>8. ASSUME Top.fn \in Called, NEW x \in DeclaredBy(Top.stmt)
        PROVE  DataSpace(x) \in writes
    <3>1. Top.stmt.kind = "decl"
      BY <2>8 DEF DeclaredBy
    <3>2. \A i \in 1 .. Len(Top.stmt.decls) : Top.stmt.decls[i].init
      BY <2>2, <2>8, <3>1 DEF VariablesAreInitialised
    <3>3. x \in Assigned(Top.stmt) \ IteratorsOf(Top.open)
      <4>1. x \in Assigned(Top.stmt)
        <5>1. DeclaredBy(Top.stmt) \subseteq Assigned(Top.stmt)
          BY <3>1, <3>2, AssignedDeclared
        <5> QED
          BY <2>8, <5>1
      <4>2. x \notin Iterators
        BY <2>2, <2>8, <3>1 DEF VariablesAreInitialised
      <4>3. IteratorsOf(Top.open) \subseteq Iterators
        BY <2>1, OpenIterators DEF FrameOK, Good
      <4> QED
        BY <4>1, <4>2, <4>3
    <3>4. WritesRecorded(Top)
      BY <2>1, <2>8, <3>1 DEF FlowOK, Initialising
    <3>5. WriteOf(x) \in Top.dataAccesses
      BY <2>1, <3>3, <3>4, EmptySeq DEF WritesRecorded
    <3> QED
      BY <2>3, <3>5
  <2>9. ASSUME Top.fn \in Called, NEW x \in NamesIn(Top.varDecls), DataSpace(x) \notin spaces
        PROVE  x \in DeclaredBy(Top.stmt)
    <3>1. PICK i \in 1 .. Len(Top.varDecls) : x = Top.varDecls[i]
      BY DEF NamesIn
    <3> QED
      BY <2>1, <2>9, <3>1 DEF FlowOK, Initialising
  <2>10. \A d \in new : \E x \in NamesIn(Top.varDecls) : d = DataSpace(x)
    BY <1>2
  <2>11. ASSUME Top.fn \notin Called, NEW d \in new
         PROVE  Free(Top.fn, d)
    BY <2>10, <2>11 DEF Free, DataSpace
  <2>12. ASSUME Top.fn \in Called, NEW d \in new
         PROVE  d \in writes /\ d \notin reads
    <3>1. PICK x \in NamesIn(Top.varDecls) : d = DataSpace(x)
      BY <2>10
    <3>2. d \notin spaces
      BY <2>4
    <3>3. x \in DeclaredBy(Top.stmt)
      BY <2>9, <2>12, <3>1, <3>2
    <3>4. d \in writes
      BY <2>8, <2>12, <3>1, <3>3
    <3>5. \A a \in Top.dataAccesses : a.isRead = TRUE => a.name # d
      BY <2>1, <2>12, <3>1, <3>2, <3>3 DEF FlowOK, Initialising
    <3> QED
      BY <2>3, <3>4, <3>5
  <2>13. ComputationFlow(b.fn, b.computation)
    <3>1. \A d \in new : Free(Top.fn, d) \/ d \in stmt.writes
      BY <2>5, <2>11, <2>12
    <3>2. \A d \in stmt.reads : d \in spaces \/ Free(Top.fn, d)
      BY <2>4, <2>5, <2>11, <2>12
    <3>3. IsSequence(Top.computation.stmts) /\ ComputationFlow(Top.fn, Top.computation)
      BY <2>1 DEF FlowOK, ComputationOK
    <3> QED
      BY <2>6, <3>1, <3>2, <3>3, FlowAdded
  <2>14. ASSUME Top.fn \in Called
         PROVE  Initialising(b)
    <3>1. ASSUME NEW i \in 1 .. Len(Top.varDecls)
          PROVE  DataSpace(Top.varDecls[i]) \in spaces \cup new
      <4>1. Top.varDecls[i] \in NamesIn(Top.varDecls)
        BY DEF NamesIn
      <4>2. DataSpace(Top.varDecls[i]) \in spaces \/ DataSpace(Top.varDecls[i]) \in writes
        BY <2>8, <2>9, <2>14, <4>1
      <4> QED
        BY <2>4, <4>2
    <3>2. DeclaredBy(b.stmt) = {}
      BY <2>7 DEF DeclaredBy
    <3>3. \A i \in 1 .. Len(Params[Top.fn]) : DataSpace(Params[Top.fn][i]) \in spaces
      BY <2>1, <2>14 DEF FlowOK, Initialising
    <3> QED
      BY <2>6, <2>7, <3>1, <3>2, <3>3 DEF Initialising
  <2>15. FlowOK(b)
    BY <2>1, <2>6, <2>13, <2>14 DEF FlowOK
  <2> QED
    BY <1>2, <2>15, FlowStep DEF Stay, Move
<1>3. \/ Exit \/ Stop("uncaught")
      \/ Stay(b) /\ new \subseteq {DataSpace(x) : x \in NamesIn(Top.varDecls)}
  <2> HIDE DEF new, stmt, b
  <2> QED
    BY Zenon DEF AddStmt, new, stmt, b
<1> QED
  BY <1>1, <1>2, <1>3
-------------------------------------------------------------------------------
(* What a called function returns is a data space by then, or a number:    *)
(* nothing is open where processReturnStmt accepts it.                     *)
LEMMA FlowAddReturn ==
  ASSUME IInv, WalkInv, FlowInv, AddReturn
  PROVE  FlowInv'
<1> DEFINE value == Top.stmt.value
           old == Top.computation.returnValues
           values == [i \in 1 .. Len(value) |-> DataSpace(value[i].name)]
           b == [Top EXCEPT !.haveFoundAReturn = TRUE, !.stmt = NoStmt,
                            !.computation.returnValues = @ \o values]
           spaces == Top.computation.dataSpaces
<1>1. CASE Exit
  BY <1>1, FlowSame DEF Exit, Stop
<1>2. CASE /\ Stay(b) /\ positionContext.nestLevel = 0
           /\ value # << >> => value[1].kind \in {"ref", "lit"}
  <2>1. /\ BuilderOK(Top) /\ FlowOK(Top) /\ FrameOK(Top, positionContext) /\ StmtWork(Top)
        /\ Top.fn \in Fns /\ Top.stmt.kind = "return"
        /\ ComputationOK(Top.computation)
    BY FlowTop DEF AddReturn
  <2>2. Top.stmt \in Source[Top.fn]
    BY <2>1 DEF StmtWork, NoStmt
  <2>3. Len(value) \in Nat /\ Len(value) <= 1
    BY <2>1, <2>2, StatementTypes
  <2>4. /\ IsSequence(values) /\ Len(values) = Len(value)
        /\ \A i \in 1 .. Len(value) : values[i] = DataSpace(value[i].name)
    BY <2>3 DEF IsSequence, Elements
  <2> HIDE DEF values
  <2>5. /\ b.fn = Top.fn /\ b.stmt = NoStmt /\ b.varDecls = Top.varDecls
        /\ b.computation.dataSpaces = spaces
        /\ b.computation.stmts = Top.computation.stmts
        /\ b.computation.returnValues = old \o values
    BY <2>1 DEF BuilderOK, ComputationOK
  <2>6. b.stmt.kind = "none"
    BY <2>5 DEF NoStmt
  <2> HIDE DEF b
  <2>7. Top.open = << >>
    <3>1. Balanced(positionContext, Top.open) /\ Top.open \in Seq(Scopes)
      BY <2>1 DEF FrameOK, Good
    <3>2. Len(Top.open) = 0
      BY <1>2, <3>1 DEF Balanced
    <3> QED
      BY <3>1, <3>2, EmptySeq
  <2>8. /\ Len(old) \in Nat /\ Len(old \o values) = Len(old) + Len(value)
        /\ \A i \in 1 .. Len(old) + Len(value) :
             (old \o values)[i] = IF i <= Len(old) THEN old[i] ELSE values[i - Len(old)]
    <3>1. IsSequence(old)
      BY <2>1 DEF FrameOK, BlockOK
    <3> HIDE DEF old, value
    <3> QED
      BY <2>4, <3>1, Concatenated
  <2>9. ASSUME Top.fn \in Called, NEW i \in 1 .. Len(value)
        PROVE  DataSpace(value[i].name) \in spaces
                 \/ ReturnedLiteral(DataSpace(value[i].name))
    <3>1. i = 1 /\ value # << >>
      BY <2>3, EmptySeq
    <3>2. value[i].kind \in {"ref", "lit"}
      BY <1>2, <3>1
    <3>3. CASE value[i].kind = "ref"
      BY <2>1, <2>7, <2>9, <3>3 DEF FlowOK, Initialising
    <3>4. CASE value[i].kind = "lit"
      BY <2>1, <2>2, <2>9, <3>4 DEF ReturnedLiteral
    <3> QED
      BY <3>2, <3>3, <3>4
  <2>10. ASSUME Top.fn \in Called, NEW i \in 1 .. Len(old \o values)
         PROVE  (old \o values)[i] \in spaces \/ ReturnedLiteral((old \o values)[i])
    <3>1. i \in 1 .. Len(old) + Len(value)
      BY <2>8
    <3>2. CASE i <= Len(old)
      <4>1. i \in 1 .. Len(old) /\ (old \o values)[i] = old[i]
        BY <2>8, <3>1, <3>2
      <4> QED
        BY <2>1, <2>10, <4>1 DEF FlowOK, ComputationFlow
    <3>3. CASE ~(i <= Len(old))
      <4>1. (old \o values)[i] = values[i - Len(old)]
        BY <2>8, <3>1, <3>3
      <4>2. i - Len(old) \in 1 .. Len(value)
        <5> HIDE DEF old, value
        <5> QED
          BY <2>3, <2>8, <3>1, <3>3
      <4> QED
        BY <2>4, <2>9, <2>10, <4>1, <4>2
    <3> QED
      BY <3>2, <3>3
  <2>11. ComputationFlow(b.fn, b.computation)
    <3>1. ComputationFlow(Top.fn, Top.computation)
      BY <2>1 DEF FlowOK
    <3>2. \A d, n : Written(b.computation, d, n) <=> Written(Top.computation, d, n)
      BY <2>5 DEF Written
    <3> QED
      BY <2>5, <2>10, <3>1, <3>2 DEF ComputationFlow
  <2>12. ASSUME Top.fn \in Called
         PROVE  Initialising(b)
    <3>1. DeclaredBy(b.stmt) = {} /\ DeclaredBy(Top.stmt) = {}
      BY <2>1, <2>6 DEF DeclaredBy
    <3>2. Initialising(Top)
      BY <2>1, <2>12 DEF FlowOK
    <3> QED
      BY <2>5, <2>6, <3>1, <3>2 DEF Initialising
  <2>13. FlowOK(b)
    BY <2>1, <2>5, <2>11, <2>12 DEF FlowOK
  <2> QED
    BY <1>2, <2>13, FlowStep DEF Stay, Move
<1>3. \/ Exit
      \/ /\ Stay(b) /\ positionContext.nestLevel = 0
         /\ value # << >> => value[1].kind \in {"ref", "lit"}
  <2> HIDE DEF b, value
  <2> QED
    BY Zenon DEF AddReturn, b, value
<1> QED
  BY <1>1, <1>2, <1>3

LEMMA FlowNext ==
  ASSUME VariablesAreInitialised, IInv, WalkInv, FlowInv, [Next]_vars
  PROVE  FlowInv'
<1>1. ASSUME NEW s \in Source[Top.fn], BeginStmt(s) PROVE FlowInv'
  BY <1>1, FlowBeginStmt
<1>2. CASE Declare \/ AccessComponent \/ AccessTarget \/ CallReserved
  BY <1>2, FlowDeclare, FlowAccessComponent, FlowAccessTarget, FlowCallReserved
<1>3. CASE BuildCallee \/ FinishCallee \/ InlineCall
  BY <1>3, FlowBuildCallee, FlowFinishCallee, FlowInlineCall
<1>4. CASE AddStmt \/ AddReturn
  BY <1>4, FlowAddStmt, FlowAddReturn
<1>5. CASE \/ \E h \in Headers : OpenFor(h)
           \/ CloseFor
           \/ \E c \in Conds : OpenIf(c)
           \/ ElseBranch
           \/ CloseIf
  BY <1>5, FlowStructures
<1>6. CASE FailExpr \/ CallFails \/ AppendNull \/ Abandon \/ Finish \/ UNCHANGED vars
  BY <1>6, FlowSame DEF FailExpr, CallFails, AppendNull, Abandon, Finish, Exit, Stop, vars
<1> QED
  BY <1>1, <1>2, <1>3, <1>4, <1>5, <1>6 DEF Next, Terminated

LEMMA FlowInit == ASSUME Init PROVE FlowInv
<1>1. FlowOK(Builder(Entry))
  BY ParamsAssumption, FlowNew
<1>2. frames = <<Builder(Entry)>> /\ subComputations = << >>
  BY DEF Init
<1>3. Len(frames) = 1 /\ frames[1] = Builder(Entry)
  BY <1>2
<1>4. DOMAIN subComputations = {}
  BY <1>2
<1> QED
  BY <1>1, <1>3, <1>4 DEF FlowInv

(* What is known of a Computation puts its writes before its reads. *)
LEMMA ReadsBehindWrites ==
  ASSUME AllowEmptyBody = FALSE, NEW f, NEW c, ComputationOK(c), ComputationFlow(f, c),
         BlockOK(c), NEW i \in 1 .. Len(c.stmts), NEW d \in c.stmts[i].reads,
         d.prefixes # << >>
  PROVE  \E j \in 1 .. Len(c.stmts) :
           /\ d \in c.stmts[j].writes
           /\ Before(c.stmts[j].schedule, c.stmts[i].schedule)
<1>1. /\ Len(c.stmts) \in Nat
      /\ Len(Schedules(c)) = Len(c.stmts)
      /\ \A j \in 1 .. Len(c.stmts) : Schedules(c)[j] = c.stmts[j].schedule
  BY SchedulesFacts DEF ComputationOK
<1>2. Written(c, d, i - 1)
  BY DEF ComputationFlow, Free
<1>3. PICK j \in 1 .. i - 1 : d \in c.stmts[j].writes
  BY <1>2 DEF Written
<1>4. j \in 1 .. Len(c.stmts) /\ j < i
  BY <1>1
<1>5. Before(Schedules(c)[j], Schedules(c)[i])
  BY <1>1, <1>4 DEF BlockOK, InScheduleOrder
<1> QED
  BY <1>1, <1>3, <1>4, <1>5

LEMMA FlowInvImplies ==
  ASSUME AllowEmptyBody = FALSE, IInv, WalkInv, FlowInv
  PROVE  InlinedReadsFollowWrites
<1>1. ASSUME NEW c \in Computations
      PROVE  \E f : ComputationOK(c) /\ ComputationFlow(f, c) /\ BlockOK(c)
  <2>1. ASSUME NEW k \in 1 .. Len(frames), c = frames[k].computation
        PROVE  \E f : ComputationOK(c) /\ ComputationFlow(f, c) /\ BlockOK(c)
    <3>1. BuilderOK(frames[k]) /\ FlowOK(frames[k]) /\ FrameOK(frames[k], ContextOf(k))
      BY DEF IInv, BuildersOK, FlowInv, WalkInv
    <3> QED
      BY <2>1, <3>1 DEF BuilderOK, FlowOK, FrameOK
  <2>2. ASSUME NEW f \in DOMAIN subComputations, c = subComputations[f]
        PROVE  \E g : ComputationOK(c) /\ ComputationFlow(g, c) /\ BlockOK(c)
    BY <2>2 DEF IInv, KeptOK, FlowInv, WalkInv
  <2> QED
    BY <2>1, <2>2 DEF Computations
<1> QED
  BY <1>1, ReadsBehindWrites DEF InlinedReadsFollowWrites

(* Where a call is inlined its data is ready: if no loop is left without a *)
(* body and the functions called initialise the variables they declare,    *)
(* every data space an inlined function reads, however deep the call, is   *)
(* written by a statement that is scheduled before.                        *)
THEOREM ReadsFollowWrites ==
  ASSUME AllowEmptyBody = FALSE, VariablesAreInitialised
  PROVE  Spec => []InlinedReadsFollowWrites
<1>1. Init => IInv /\ WalkInv /\ FlowInv
  BY InitIInv, InitWalk, FlowInit
<1>2. (IInv /\ WalkInv /\ FlowInv) /\ [Next]_vars => (IInv /\ WalkInv /\ FlowInv)'
  BY StepKeepsIInv, WalkNext, FlowNext
<1>3. IInv /\ WalkInv /\ FlowInv => InlinedReadsFollowWrites
  BY FlowInvImplies
<1> QED
  BY <1>1, <1>2, <1>3, PTL DEF Spec

-------------------------------------------------------------------------------
(* The callees at work.  A builder that waits for a callee is at its call, *)
(* and so is one whose callee has been built; the callees at work are of   *)
(* ever smaller rank, so that none is called again before it is built.     *)
CallIsBuilt(b, f) ==
  /\ b.building
  /\ b.todo # << >> /\ Head(b.todo).do = "call" /\ Head(b.todo).expr.callee = f

CallsInv ==
  /\ Top.building => \E f \in DOMAIN subComputations : CallIsBuilt(Top, f)
  /\ \A k \in 1 .. Len(frames) - 1 : CallIsBuilt(frames[k], frames[k + 1].fn)
  /\ \A j, k \in 1 .. Len(frames) : j < k => Rank[frames[k].fn] < Rank[frames[j].fn]
  /\ status # "crash"

(* The callee of the call at hand is of smaller rank than the caller.      *)
LEMMA CalleeRank ==
  ASSUME IInv, WalkInv, Working("call"), Call.callee \in Fns
  PROVE  Rank[Call.callee] < Rank[Top.fn]
<1>1. StmtWork(Top) /\ Top.fn \in Fns /\ Top.todo # << >> /\ Head(Top.todo).do = "call"
  BY WorkingFrame DEF FrameOK, BuilderOK, Working
<1>2. Top.stmt \in Source[Top.fn]
  BY <1>1 DEF StmtWork, NoStmt
<1>3. WorkItem(Head(Top.todo), Top.stmt)
  BY <1>1, WorkTail DEF StmtWork
<1>4. Call.callee \in CallsIn(Top.stmt)
  BY <1>1, <1>3 DEF WorkItem, Call
<1>5. Call.callee \in Callees(Top.fn)
  BY <1>2, <1>4 DEF Callees
<1> QED
  BY <1>1, <1>5, RankFacts

(* A null pointer is not appended. *)
LEMMA NeverNull == ASSUME IInv, WalkInv, CallsInv, AppendNull PROVE FALSE
<1> DEFINE n == Len(frames)
<1>1. /\ Working("call") /\ Call.callee \in Fns /\ Call.callee \notin DOMAIN subComputations
      /\ Top.building \/ HasKey(Call.callee)
  BY DEF AppendNull
<1>2. ~Top.building
  BY <1>1 DEF CallsInv, CallIsBuilt, Call
<1>3. PICK k \in 2 .. n : frames[k].fn = Call.callee
  BY <1>1, <1>2 DEF HasKey
<1>4. n \in Nat \ {0} /\ Top = frames[n]
  BY AtWork DEF IInv
<1>5. k \in 1 .. n /\ n \in 1 .. n
  BY <1>4
<1>6. frames[k].fn \in Fns /\ frames[n].fn \in Fns
  BY <1>5 DEF IInv, BuildersOK, BuilderOK
<1>7. Rank[frames[k].fn] \in Int /\ Rank[frames[n].fn] \in Int
  BY <1>6, RankFacts
<1>8. Rank[frames[k].fn] < Rank[frames[n].fn]
  BY <1>1, <1>3, <1>4, CalleeRank
<1>9. k = n \/ Rank[frames[n].fn] < Rank[frames[k].fn]
  BY <1>4, <1>5 DEF CallsInv
<1> QED
  BY <1>7, <1>8, <1>9

(* The builder at work takes a step, at its call still or not waiting.     *)
LEMMA CallsStep ==
  ASSUME IInv, CallsInv, NEW b, frames' = [frames EXCEPT ![Len(frames)] = b],
         b.fn = Top.fn,
         b.building => b.building = Top.building /\ b.todo = Top.todo,
         UNCHANGED <<subComputations, status>>
  PROVE  CallsInv'
<1> DEFINE S == Elements(frames) \cup {b}
           n == Len(frames)
<1>1. n \in Nat \ {0} /\ frames \in Seq(S) /\ Top = frames[n]
  BY AtWork, Wider DEF IInv
<1>2. n \in 1 .. n /\ b \in S
  BY <1>1
<1> HIDE DEF S
<1>3. /\ Len(frames') = n
      /\ \A i \in 1 .. n : frames'[i] = IF i = n THEN b ELSE frames[i]
  BY <1>1, <1>2, ExceptSeq
<1>4. Top' = b
  BY <1>2, <1>3 DEF Top, Back
<1>5. \A i \in 1 .. n : frames'[i].fn = frames[i].fn
  BY <1>1, <1>3
<1> HIDE DEF n
<1>6. Top'.building => \E f \in DOMAIN subComputations : CallIsBuilt(Top', f)
  BY <1>4 DEF CallsInv, CallIsBuilt
<1>7. ASSUME NEW k \in 1 .. n - 1
      PROVE  CallIsBuilt(frames'[k], frames'[k + 1].fn)
  <2>1. k \in 1 .. n /\ k # n /\ k + 1 \in 1 .. n
    BY <1>1
  <2>2. frames'[k] = frames[k] /\ frames'[k + 1].fn = frames[k + 1].fn
    BY <1>3, <1>5, <2>1
  <2> QED
    BY <2>2 DEF CallsInv, n
<1>8. \A j, k \in 1 .. n : j < k => Rank[frames'[k].fn] < Rank[frames'[j].fn]
  BY <1>5 DEF CallsInv, n
<1> QED
  BY <1>3, <1>6, <1>7, <1>8 DEF CallsInv, CallIsBuilt

LEMMA CallsSame ==
  ASSUME CallsInv, UNCHANGED <<frames, subComputations>>, status' # "crash"
  PROVE  CallsInv'
BY DEF CallsInv, CallIsBuilt, Top, Back

(* Between statements and behind the last call of one it waits for nothing.*)
LEMMA NotBuilding ==
  ASSUME IInv, WalkInv, CallsInv,
         \/ Top.stmt.kind = "none"
         \/ Top.todo = << >>
         \/ Head(Top.todo).do # "call"
  PROVE  Top.building = FALSE
<1>1. StmtWork(Top) /\ Top.building \in BOOLEAN
  BY WorkingFrame DEF FrameOK, BuilderOK
<1>2. Top.building => Top.todo # << >> /\ Head(Top.todo).do = "call"
  BY DEF CallsInv, CallIsBuilt
<1> QED
  BY <1>1, <1>2 DEF StmtWork

(* All the steps that leave callees alone. *)
LEMMA CallsStatement ==
  ASSUME IInv, WalkInv, CallsInv,
         \/ \E s \in Source[Top.fn] : BeginStmt(s)
         \/ Declare \/ AccessComponent \/ AccessTarget \/ AddStmt \/ AddReturn
  PROVE  CallsInv'
<1>1. CASE Exit \/ Stop("uncaught")
  BY <1>1, CallsSame DEF Exit, Stop, CallsInv
<1> DEFINE Moved == \E b : /\ b.fn = Top.fn /\ b.building = Top.building
                           /\ b.building => b.todo = Top.todo
                           /\ frames' = [frames EXCEPT ![Len(frames)] = b]
                           /\ UNCHANGED <<subComputations, status>>
<1>2. ASSUME Moved PROVE CallsInv'
  BY <1>2, CallsStep
<1>3. BuilderOK(Top)
  BY WorkingFrame
<1>4. ASSUME NEW s \in Source[Top.fn], BeginStmt(s) PROVE Exit \/ Moved
  <2> DEFINE b == [Started EXCEPT !.stmt = s, !.todo = Work(s)]
  <2>1. Top.building = FALSE
    BY <1>4, NotBuilding DEF BeginStmt, CanStart, BetweenStmts
  <2>2. b.fn = Top.fn /\ b.building = Top.building
    BY <1>3 DEF BuilderOK, Started
  <2> HIDE DEF b
  <2>3. Exit \/ Move(Advance(positionContext), b)
    BY <1>4 DEF BeginStmt, b
  <2> QED
    BY <2>1, <2>2, <2>3 DEF Move
<1>5. ASSUME Declare PROVE Exit \/ Moved
  <2> DEFINE d == Head(Top.todo).decl
             b == [Top EXCEPT !.varDecls = Append(@, d.name),
                              !.todo = Initialise(d) \o Tail(@)]
  <2>1. Top.building = FALSE
    BY <1>5, NotBuilding DEF Declare, Working
  <2>2. b.fn = Top.fn /\ b.building = Top.building
    BY <1>3 DEF BuilderOK
  <2> HIDE DEF b
  <2>3. Exit \/ Stay(b)
    BY <1>5 DEF Declare, b
  <2> QED
    BY <2>1, <2>2, <2>3 DEF Stay, Move
<1>6. ASSUME AccessComponent \/ AccessTarget PROVE Moved
  <2>1. Top.building = FALSE
    BY <1>6, NotBuilding DEF AccessComponent, AccessTarget, Working
  <2>2. PICK accesses : Accessed(accesses)
    BY <1>6, Zenon DEF AccessComponent, AccessTarget
  <2> DEFINE b == [Top EXCEPT !.dataAccesses = @ \cup accesses, !.todo = Tail(@)]
  <2>3. b.fn = Top.fn /\ b.building = Top.building
    BY <1>3 DEF BuilderOK
  <2> HIDE DEF b
  <2>4. Stay(b)
    BY <2>2 DEF Accessed, b
  <2> QED
    BY <2>1, <2>3, <2>4 DEF Stay, Move
<1>7. ASSUME AddStmt PROVE Exit \/ Stop("uncaught") \/ Moved
  <2> DEFINE new == NewDataSpaces(NamesAccessed(TRUE), NamesAccessed(FALSE))
             stmt == [schedule |-> positionContext.schedule, reads |-> NamesAccessed(TRUE),
                      writes |-> NamesAccessed(FALSE)]
             b == [Top EXCEPT !.computation.dataSpaces = @ \cup new,
                              !.computation.stmts = Append(@, stmt), !.stmt = NoStmt]
  <2>1. Exit \/ Stop("uncaught") \/ Stay(b)
    BY <1>7, Zenon DEF AddStmt
  <2> HIDE DEF new, stmt
  <2>2. b.fn = Top.fn /\ b.building = Top.building /\ b.todo = Top.todo
    BY <1>3 DEF BuilderOK
  <2> HIDE DEF b
  <2> QED
    BY <2>1, <2>2 DEF Stay, Move
<1>8. ASSUME AddReturn PROVE Exit \/ Moved
  <2> DEFINE value == Top.stmt.value
             b == [Top EXCEPT !.haveFoundAReturn = TRUE, !.stmt = NoStmt,
                    !.computation.returnValues =
                      @ \o [i \in 1 .. Len(value) |-> DataSpace(value[i].name)]]
  <2>1. Exit \/ Stay(b)
    BY <1>8 DEF AddReturn
  <2>2. b.fn = Top.fn /\ b.building = Top.building /\ b.todo = Top.todo
    BY <1>3 DEF BuilderOK
  <2> HIDE DEF b
  <2> QED
    BY <2>1, <2>2 DEF Stay, Move
<1> HIDE DEF Moved
<1> QED
  BY <1>1, <1>2, <1>4, <1>5, <1>6, <1>7, <1>8

LEMMA CallsStructure ==
  ASSUME IInv, WalkInv, CallsInv,
         \/ \E h \in Headers : OpenFor(h)
         \/ CloseFor
         \/ \E c \in Conds : OpenIf(c)
         \/ ElseBranch
         \/ CloseIf
  PROVE  CallsInv'
<1>1. CASE Exit
  BY <1>1, CallsSame DEF Exit, Stop, CallsInv
<1>2. CASE ~Exit
  <2>1. PICK c, open : Enter(c, open) \/ Move(c, [Top EXCEPT !.open = open])
    <3>1. CASE \E h \in Headers : OpenFor(h)
      BY <1>2, <3>1, Zenon DEF OpenFor
    <3>2. CASE \E h \in Conds : OpenIf(h)
      BY <1>2, <3>2, Zenon DEF OpenIf
    <3>3. CASE CloseFor \/ CloseIf
      BY <3>3, Zenon DEF CloseFor, CloseIf, Leave
    <3>4. CASE ElseBranch
      BY <1>2, <3>4, Zenon DEF ElseBranch
    <3> QED
      BY <3>1, <3>2, <3>3, <3>4
  <2> DEFINE entered == [Started EXCEPT !.open = open]
             moved == [Top EXCEPT !.open = open]
  <2>2. /\ entered.fn = Top.fn /\ entered.building = Top.building
        /\ entered.todo = Top.todo
        /\ moved.fn = Top.fn /\ moved.building = Top.building /\ moved.todo = Top.todo
    BY WorkingFrame DEF BuilderOK, Started
  <2>3. Move(c, entered) \/ Move(c, moved)
    BY <2>1 DEF Enter
  <2> HIDE DEF entered, moved
  <2> QED
    BY <2>2, <2>3, CallsStep DEF Move
<1> QED
  BY <1>1, <1>2

(* The end of a call.                                                      *)
LEMMA CallsAfterCall ==
  ASSUME IInv, WalkInv, CallsInv, CallReserved \/ InlineCall
  PROVE  CallsInv'
<1>1. CASE Exit
  BY <1>1, CallsSame DEF Exit, Stop, CallsInv
<1>2. CASE ~Exit
  <2>1. BuilderOK(Top)
    BY WorkingFrame
  <2>2. ASSUME NEW b, NEW read, b.fn = Top.fn, DOMAIN b = DOMAIN Top
        PROVE  AfterCall(b, read).fn = Top.fn /\ AfterCall(b, read).building = FALSE
    BY <2>1, <2>2 DEF AfterCall, BuilderOK
  <2>3. CASE CallReserved
    <3>1. PICK read : Move(positionContext, AfterCall(Top, read))
      BY <2>3, Zenon DEF CallReserved, Stay
    <3> QED
      BY <2>2, <3>1, CallsStep DEF Move
  <2>4. CASE InlineCall
    <3>1. PICK c, read :
            /\ frames' = [frames EXCEPT ![Len(frames)] =
                 AfterCall([Top EXCEPT !.started = @ + 1, !.computation = c], read)]
            /\ UNCHANGED <<subComputations, status>>
      BY <1>2, <2>4, Zenon DEF InlineCall
    <3> DEFINE b == [Top EXCEPT !.started = @ + 1, !.computation = c]
    <3>2. b.fn = Top.fn /\ DOMAIN b = DOMAIN Top
      BY <2>1 DEF BuilderOK
    <3> HIDE DEF b
    <3>3. AfterCall(b, read).fn = Top.fn /\ AfterCall(b, read).building = FALSE
      BY <2>2, <3>2
    <3> QED
      BY <3>1, <3>3, CallsStep DEF b
  <2> QED
    BY <2>3, <2>4
<1> QED
  BY <1>1, <1>2

(* The caller waits at its call. *)
LEMMA CallsBuildCallee ==
  ASSUME IInv, WalkInv, CallsInv, BuildCallee
  PROVE  CallsInv'
<1> DEFINE n == Len(frames)
           caller == [Top EXCEPT !.oldContext = positionContext, !.building = TRUE]
           new == Builder(Call.callee)
           fs == [frames EXCEPT ![n] = caller]
           S == Elements(frames) \cup {caller, new}
<1>1. /\ frames' = Append(fs, new)
      /\ UNCHANGED <<subComputations, status>>
      /\ Working("call") /\ Call.callee \in Fns
  BY AtWork DEF BuildCallee, IInv
<1>2. /\ BuilderOK(Top) /\ n \in Nat \ {0} /\ Top = frames[n]
      /\ frames \in Seq(S) /\ caller \in S /\ new \in S
  BY AtWork, Wider DEF IInv
<1>3. /\ caller.fn = Top.fn /\ CallIsBuilt(caller, Call.callee)
      /\ new.fn = Call.callee /\ new.building = FALSE
  BY <1>1, <1>2 DEF BuilderOK, CallIsBuilt, Builder, Call, Working
<1> HIDE DEF caller, new, S
<1>4. /\ fs \in Seq(S) /\ Len(fs) = n
      /\ \A i \in 1 .. n : fs[i] = IF i = n THEN caller ELSE frames[i]
  BY <1>2, ExceptSeq DEF n
<1> HIDE DEF fs
<1>5. /\ Len(frames') = n + 1 /\ frames'[n + 1] = new
      /\ \A i \in 1 .. n : frames'[i] = IF i = n THEN caller ELSE frames[i]
  BY <1>1, <1>2, <1>4, AppendProperties
<1>6. Top' = new
  BY <1>5 DEF Top, Back
<1>7. \A i \in 1 .. n : frames'[i].fn = frames[i].fn
  BY <1>2, <1>3, <1>5
<1>8. ASSUME NEW k \in 1 .. (n + 1) - 1
      PROVE  CallIsBuilt(frames'[k], frames'[k + 1].fn)
  <2>1. CASE k = n
    BY <1>2, <1>3, <1>5, <2>1
  <2>2. CASE k # n
    <3>1. k \in 1 .. n - 1 /\ k \in 1 .. n /\ k + 1 \in 1 .. n
      BY <1>2, <2>2
    <3>2. frames'[k] = frames[k] /\ frames'[k + 1].fn = frames[k + 1].fn
      BY <1>5, <1>7, <2>2, <3>1
    <3> QED
      BY <3>1, <3>2 DEF CallsInv
  <2> QED
    BY <2>1, <2>2
<1>9. ASSUME NEW j \in 1 .. n + 1, NEW k \in 1 .. n + 1, j < k
      PROVE  Rank[frames'[k].fn] < Rank[frames'[j].fn]
  <2>1. j \in 1 .. n
    BY <1>2, <1>9
  <2>2. CASE k \in 1 .. n
    BY <1>7, <1>9, <2>1, <2>2 DEF CallsInv
  <2>3. CASE k = n + 1
    <3>1. Rank[Call.callee] < Rank[Top.fn]
      BY <1>1, CalleeRank
    <3>2. Rank[Top.fn] <= Rank[frames[j].fn]
      <4>1. frames[j].fn \in Fns
        BY <2>1 DEF IInv, BuildersOK, BuilderOK
      <4>2. Rank[frames[j].fn] \in Int
        BY <4>1, RankFacts
      <4>3. j = n \/ Rank[frames[n].fn] < Rank[frames[j].fn]
        BY <1>2, <2>1 DEF CallsInv
      <4>4. frames[n].fn \in Fns /\ Rank[frames[n].fn] \in Int
        BY <1>2, RankFacts DEF BuilderOK
      <4> QED
        BY <1>2, <4>2, <4>3, <4>4
    <3>3. /\ Rank[Call.callee] \in Int /\ Rank[Top.fn] \in Int
          /\ Rank[frames[j].fn] \in Int
      BY <1>1, <1>2, <2>1, RankFacts DEF IInv, BuildersOK, BuilderOK
    <3>4. frames'[k].fn = Call.callee /\ frames'[j].fn = frames[j].fn
      BY <1>3, <1>5, <1>7, <2>1, <2>3
    <3> QED
      BY <3>1, <3>2, <3>3, <3>4
  <2> QED
    BY <1>2, <2>2, <2>3
<1> HIDE DEF n
<1> QED
  BY <1>1, <1>3, <1>5, <1>6, <1>8, <1>9 DEF CallsInv, CallIsBuilt

(* The caller's callee has been built. *)
LEMMA CallsFinishCallee ==
  ASSUME IInv, WalkInv, CallsInv, FinishCallee
  PROVE  CallsInv'
<1> DEFINE n == Len(frames)
           S == Elements(frames)
           fs == PopBack(frames)
           m == Len(fs)
           caller == [fs[m] EXCEPT !.oldContext = EmptyContext]
           T == S \cup {caller}
<1>1. /\ frames' = [fs EXCEPT ![m] = caller] /\ n > 1
      /\ subComputations' = Keep(Top.fn, Top.computation) /\ UNCHANGED status
  BY DEF FinishCallee
<1>2. n \in Nat \ {0} /\ frames \in Seq(S) /\ frames # << >> /\ Top = frames[n]
  BY AtWork DEF IInv, BuildersOK
<1> HIDE DEF S
<1>3. fs \in Seq(S) /\ m = n - 1 /\ \A i \in 1 .. n - 1 : fs[i] = frames[i]
  BY <1>2, PopBackProperties
<1> HIDE DEF fs
<1>4. /\ m \in Nat \ {0} /\ m \in 1 .. m /\ m \in 1 .. n - 1 /\ m \in 1 .. n
      /\ m + 1 = n /\ fs[m] = frames[m]
  BY <1>1, <1>2, <1>3
<1>5. BuilderOK(frames[m]) /\ CallIsBuilt(frames[m], Top.fn)
  BY <1>2, <1>4 DEF IInv, BuildersOK, CallsInv
<1>6. caller.fn = frames[m].fn /\ CallIsBuilt(caller, Top.fn)
  BY <1>4, <1>5 DEF BuilderOK, CallIsBuilt
<1>7. fs \in Seq(T) /\ caller \in T
  BY <1>3, Wider
<1> HIDE DEF caller, T, n, m
<1>8. /\ Len(frames') = m
      /\ \A i \in 1 .. m : frames'[i] = IF i = m THEN caller ELSE fs[i]
  BY <1>1, <1>4, <1>7, ExceptSeq DEF m
<1>9. Top' = caller
  BY <1>4, <1>8 DEF Top, Back
<1>10. \E f \in DOMAIN subComputations' : CallIsBuilt(caller, f)
  <2>1. Top.fn \in DOMAIN subComputations'
    BY <1>1 DEF Keep
  <2> QED
    BY <1>6, <2>1
<1>11. \A i \in 1 .. m : i \in 1 .. n /\ frames'[i].fn = frames[i].fn
  BY <1>2, <1>3, <1>4, <1>6, <1>8
<1>12. ASSUME NEW k \in 1 .. m - 1
       PROVE  CallIsBuilt(frames'[k], frames'[k + 1].fn)
  <2>1. k \in 1 .. m /\ k # m /\ k + 1 \in 1 .. m /\ k \in 1 .. n - 1
    BY <1>2, <1>4
  <2>2. frames'[k] = frames[k] /\ frames'[k + 1].fn = frames[k + 1].fn
    BY <1>3, <1>8, <1>11, <2>1
  <2> QED
    BY <2>1, <2>2 DEF CallsInv, n
<1>13. \A j, k \in 1 .. m : j < k => Rank[frames'[k].fn] < Rank[frames'[j].fn]
  BY <1>11 DEF CallsInv, n
<1> QED
  BY <1>1, <1>8, <1>9, <1>10, <1>12, <1>13 DEF CallsInv, CallIsBuilt

(* All the steps, and the beginning. *)
LEMMA CallsNext ==
  ASSUME IInv, WalkInv, CallsInv, [Next]_vars
  PROVE  CallsInv'
<1>1. CASE \/ \E s \in Source[Top.fn] : BeginStmt(s)
           \/ Declare \/ AccessComponent \/ AccessTarget \/ AddStmt \/ AddReturn
  BY <1>1, CallsStatement
<1>2. CASE \/ \E h \in Headers : OpenFor(h)
           \/ CloseFor
           \/ \E c \in Conds : OpenIf(c)
           \/ ElseBranch
           \/ CloseIf
  BY <1>2, CallsStructure
<1>3. CASE CallReserved \/ InlineCall \/ BuildCallee \/ FinishCallee
  BY <1>3, CallsAfterCall, CallsBuildCallee, CallsFinishCallee
<1>4. CASE FailExpr \/ CallFails \/ Abandon \/ Finish \/ UNCHANGED vars
  <2>1. status # "crash"
    BY DEF CallsInv
  <2> QED
    BY <1>4, <2>1, CallsSame DEF FailExpr, CallFails, Abandon, Finish, Exit, Stop, vars
<1>5. CASE AppendNull
  BY <1>5, NeverNull
<1> QED
  BY <1>1, <1>2, <1>3, <1>4, <1>5 DEF Next, Terminated

LEMMA CallsInit == ASSUME Init PROVE CallsInv
<1> DEFINE b == Builder(Entry)
<1>1. frames = <<b>> /\ b.building = FALSE /\ status = "running"
  BY DEF Init, Builder
<1> HIDE DEF b
<1>2. Len(frames) = 1 /\ frames[1] = b
  BY <1>1
<1>3. Top = b
  BY <1>2 DEF Top, Back
<1> QED
  BY <1>1, <1>2, <1>3 DEF CallsInv

(* If no function calls itself, a Computation that is appended has been    *)
(* built, whatever order the compiler evaluates the assignment to          *)
(* subComputations in: callers are still being built, and have a key there *)
(* perhaps, but no callee is one of them.                                  *)
THEOREM AppendedComputations == Spec => []AppendedAreBuilt
<1>1. Init => IInv /\ WalkInv /\ CallsInv
  BY InitIInv, InitWalk, CallsInit
<1>2. (IInv /\ WalkInv /\ CallsInv) /\ [Next]_vars => (IInv /\ WalkInv /\ CallsInv)'
  BY StepKeepsIInv, WalkNext, CallsNext
<1>3. CallsInv => AppendedAreBuilt
  BY DEF CallsInv, AppendedAreBuilt
<1> QED
  BY <1>1, <1>2, <1>3, PTL DEF Spec
===============================================================================
