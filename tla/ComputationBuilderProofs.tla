----------------------- MODULE ComputationBuilderProofs -----------------------
(***************************************************************************)
(* What the proofs about builds rest on: the shape of the builders and of  *)
(* their Computations (IInv, inductive for functions that inline each      *)
(* other in any way), the work a statement asks for, and the schedules of  *)
(* a Computation another one is appended to.                               *)
(***************************************************************************)
EXTENDS NonRecursive, OpenStructuresProofs

-------------------------------------------------------------------------------
(* The inductive invariant: the fields of builders and Computations, the   *)
(* functions they are of, and that lists are lists.                        *)
Elements(s) == {s[i] : i \in 1 .. Len(s)}
IsSequence(s) == s \in Seq(Elements(s))

ComputationOK(c) ==
  /\ DOMAIN c = {"dataSpaces", "stmts", "returnValues"}
  /\ IsSequence(c.stmts)

BuilderOK(b) ==
  /\ DOMAIN b = {"fn", "computation", "haveFoundAReturn", "varDecls", "dataAccesses",
                 "open", "stmt", "todo", "started", "building", "oldContext"}
  /\ b.fn \in Fns
  /\ b.building \in BOOLEAN
  /\ ComputationOK(b.computation)

BuildersOK(fs) == IsSequence(fs) /\ fs # << >> /\ \A k \in 1 .. Len(fs) : BuilderOK(fs[k])
KeptOK(kept) == DOMAIN kept \subseteq Fns /\ \A f \in DOMAIN kept : ComputationOK(kept[f])

IInv == BuildersOK(frames) /\ KeptOK(subComputations)

-------------------------------------------------------------------------------
(* A sequence of any values stays one. *)
LEMMA Sequences ==
  ASSUME NEW S, NEW s \in Seq(S)
  PROVE  IsSequence(s)
<1>1. Len(s) \in Nat /\ \A i \in 1 .. Len(s) : s[i] \in Elements(s)
  BY LenProperties DEF Elements
<1>2. s = [i \in 1 .. Len(s) |-> s[i]]
  BY LenProperties
<1> QED
  BY <1>1, <1>2 DEF IsSequence

(* Sequences over a larger set. *)
LEMMA Wider == ASSUME NEW S, NEW T, S \subseteq T, NEW s \in Seq(S) PROVE s \in Seq(T)
OBVIOUS

(* A sequence and one element more. *)
LEMMA Appended ==
  ASSUME NEW s, IsSequence(s), NEW e
  PROVE  /\ IsSequence(Append(s, e))
         /\ Append(s, e) # << >>
         /\ Len(s) \in Nat /\ Len(Append(s, e)) = Len(s) + 1
         /\ \A i \in 1 .. Len(s) : Append(s, e)[i] = s[i]
         /\ Append(s, e)[Len(s) + 1] = e
<1> DEFINE S == Elements(s) \cup {e}
<1>1. s \in Seq(S)
  BY Wider DEF IsSequence
<1>2. e \in S
  OBVIOUS
<1> HIDE DEF S
<1>3. /\ Append(s, e) \in Seq(S) /\ Append(s, e) # << >>
      /\ Len(s) \in Nat /\ Len(Append(s, e)) = Len(s) + 1
      /\ \A i \in 1 .. Len(s) : Append(s, e)[i] = s[i]
      /\ Append(s, e)[Len(s) + 1] = e
  BY <1>1, <1>2, AppendProperties, LenProperties
<1>4. IsSequence(Append(s, e))
  BY <1>3, Sequences
<1> QED
  BY <1>3, <1>4

(* A sequence behind another. *)
LEMMA Concatenated ==
  ASSUME NEW s, IsSequence(s), NEW t, IsSequence(t)
  PROVE  /\ IsSequence(s \o t)
         /\ Len(s) \in Nat /\ Len(t) \in Nat /\ Len(s \o t) = Len(s) + Len(t)
         /\ \A i \in 1 .. Len(s) + Len(t) :
              (s \o t)[i] = IF i <= Len(s) THEN s[i] ELSE t[i - Len(s)]
<1> DEFINE S == Elements(s) \cup Elements(t)
<1>1. s \in Seq(S) /\ t \in Seq(S)
  BY Wider DEF IsSequence
<1> HIDE DEF S
<1> QED
  BY <1>1, ConcatProperties, LenProperties, Sequences

-------------------------------------------------------------------------------
(* The builder at work. *)
LEMMA AtWork ==
  ASSUME BuildersOK(frames)
  PROVE  /\ Len(frames) \in Nat \ {0}
         /\ Top = frames[Len(frames)]
         /\ BuilderOK(Top)
         /\ frames \in Seq(Elements(frames))
<1>1. frames \in Seq(Elements(frames)) /\ frames # << >>
  BY DEF BuildersOK, IsSequence
<1>2. Len(frames) \in Nat \ {0}
  BY <1>1, EmptySeq
<1>3. Len(frames) \in 1 .. Len(frames)
  BY <1>2
<1> QED
  BY <1>1, <1>2, <1>3 DEF BuildersOK, Top, Back

(* It becomes another. *)
LEMMA Becomes ==
  ASSUME BuildersOK(frames), NEW b, BuilderOK(b)
  PROVE  BuildersOK([frames EXCEPT ![Len(frames)] = b])
<1> DEFINE S == Elements(frames) \cup {b}
           g == [frames EXCEPT ![Len(frames)] = b]
<1>1. Len(frames) \in Nat \ {0} /\ frames \in Seq(S)
  BY AtWork, Wider
<1>2. Len(frames) \in 1 .. Len(frames) /\ b \in S
  BY <1>1
<1> HIDE DEF S
<1>3. g \in Seq(S) /\ Len(g) = Len(frames)
      /\ \A i \in 1 .. Len(frames) : g[i] = IF i = Len(frames) THEN b ELSE frames[i]
  BY <1>1, <1>2, ExceptSeq
<1>4. IsSequence(g)
  BY <1>3, Sequences
<1>5. g # << >>
  BY <1>1, <1>3, EmptySeq
<1> QED
  BY <1>3, <1>4, <1>5 DEF BuildersOK

(* A step of the builder at work that leaves its Computation as it is. *)
LEMMA KeepsComputation ==
  ASSUME IInv, NEW b, NEW c, Move(c, b),
         DOMAIN b = DOMAIN Top, b.fn = Top.fn, b.building \in BOOLEAN,
         b.computation = Top.computation
  PROVE  IInv'
<1>1. BuilderOK(b)
  BY AtWork DEF IInv, BuilderOK
<1> QED
  BY <1>1, Becomes DEF IInv, Move

(* Steps that touch neither the builders nor the Computations kept. *)
LEMMA Unchanged == ASSUME IInv, UNCHANGED <<frames, subComputations>> PROVE IInv'
BY DEF IInv

-------------------------------------------------------------------------------
(* What becomes of a Computation. *)

(* A new one has the parameters' data spaces and no statement. *)
LEMMA NewOK ==
  ASSUME NEW f \in Fns
  PROVE  BuilderOK(Builder(f))
<1>1. IsSequence(<< >>) /\ Len(<< >>) = 0
  BY EmptySeq DEF IsSequence
<1>2. ComputationOK(NewComputation(f))
  BY <1>1 DEF ComputationOK, NewComputation
<1> QED
  BY <1>2 DEF BuilderOK, Builder

(* addStmt: a statement more. *)
LEMMA StmtAdded ==
  ASSUME NEW c, ComputationOK(c), NEW stmt, NEW d,
         DOMAIN d = DOMAIN c, d.stmts = Append(c.stmts, stmt)
  PROVE  ComputationOK(d)
BY Appended DEF ComputationOK

(* appendComputation: an assignment for every parameter and the callee's   *)
(* statements, under their names in the caller.                            *)
LEMMA BlockAppended ==
  ASSUME NEW into, ComputationOK(into), NEW f \in Fns, NEW callee, ComputationOK(callee),
         NEW t, NEW args, NEW n
  PROVE  ComputationOK(AppendComputation(into, f, callee, t, args, n))
<1> DEFINE schedules == Place(t, Block(f, callee))
           params == Params[f]
           renamed(names) == {Rename(n, d) : d \in names}
           assign(i) ==
             [schedule |-> schedules[i],
              reads |-> IF args[i].kind = "ref"
                          THEN {DataSpace(args[i].name)} \cap into.dataSpaces ELSE {},
              writes |-> {Rename(n, DataSpace(params[i]))}]
           body(i) ==
             [schedule |-> schedules[Len(params) + i],
              reads |-> renamed(callee.stmts[i].reads),
              writes |-> renamed(callee.stmts[i].writes)]
           assigned == [i \in 1 .. Len(params) |-> assign(i)]
           copied == [i \in 1 .. Len(callee.stmts) |-> body(i)]
           spaces == into.dataSpaces \cup renamed(callee.dataSpaces)
           out == AppendComputation(into, f, callee, t, args, n)
<1>1. out = [into EXCEPT !.dataSpaces = spaces, !.stmts = (into.stmts \o assigned) \o copied]
  BY DEF AppendComputation
<1>2. Len(params) \in Nat /\ Len(callee.stmts) \in Nat
  BY ParamsAssumption, LenProperties DEF ComputationOK, IsSequence
<1>3. IsSequence(assigned)
  <2> HIDE DEF assign
  <2> QED
    BY <1>2 DEF IsSequence, Elements
<1>4. IsSequence(copied)
  <2> HIDE DEF body
  <2> QED
    BY <1>2 DEF IsSequence, Elements
<1>5. /\ DOMAIN out = DOMAIN into
      /\ out.stmts = (into.stmts \o assigned) \o copied
  <2> HIDE DEF spaces, assigned, copied, out
  <2> QED
    BY <1>1 DEF ComputationOK
<1> HIDE DEF assign, body, spaces, assigned, copied, out, params
<1> DEFINE s == into.stmts \o assigned
<1>6. IsSequence(s)
  BY <1>3, Concatenated DEF ComputationOK
<1> HIDE DEF s
<1>7. IsSequence(s \o copied)
  BY <1>4, <1>6, Concatenated
<1> QED
  BY <1>5, <1>7 DEF ComputationOK, s, out

-------------------------------------------------------------------------------
(* The actions. *)

(* A call inlined, a statement added: only the Computation of the builder  *)
(* at work changes, and what is not its business.                          *)
LEMMA ChangesComputation ==
  ASSUME IInv, NEW b, frames' = [frames EXCEPT ![Len(frames)] = b],
         UNCHANGED subComputations,
         DOMAIN b = DOMAIN Top, b.fn = Top.fn, b.building \in BOOLEAN,
         ComputationOK(b.computation)
  PROVE  IInv'
<1>1. BuilderOK(b)
  BY AtWork DEF IInv, BuilderOK
<1> QED
  BY <1>1, Becomes DEF IInv

(* One lemma for each action of the builder. *)
LEMMA BeginStmtStep == ASSUME IInv, NEW s, BeginStmt(s) PROVE IInv'
<1>1. CASE s.kind = "unsupported"
  BY <1>1, Unchanged DEF BeginStmt, Exit, Stop
<1>2. CASE s.kind # "unsupported"
  <2> DEFINE b == [Started EXCEPT !.stmt = s, !.todo = Work(s)]
  <2>1. Move(Advance(positionContext), b)
    BY <1>2 DEF BeginStmt
  <2>2. /\ DOMAIN b = DOMAIN Top /\ b.fn = Top.fn /\ b.computation = Top.computation
        /\ b.building \in BOOLEAN
    BY AtWork DEF IInv, BuilderOK, Started
  <2> HIDE DEF b
  <2> QED
    BY <2>1, <2>2, KeepsComputation
<1> QED
  BY <1>1, <1>2

LEMMA DeclareStep == ASSUME IInv, Declare PROVE IInv'
<1> DEFINE d == Head(Top.todo).decl
           b == [Top EXCEPT !.varDecls = Append(@, d.name),
                            !.todo = Initialise(d) \o Tail(@)]
<1>1. CASE Exit
  BY <1>1, Unchanged DEF Exit, Stop
<1>2. CASE Stay(b)
  <2>1. /\ DOMAIN b = DOMAIN Top /\ b.fn = Top.fn /\ b.computation = Top.computation
        /\ b.building \in BOOLEAN
    BY AtWork DEF IInv, BuilderOK
  <2> HIDE DEF b
  <2> QED
    BY <1>2, <2>1, KeepsComputation DEF Stay
<1> QED
  BY <1>1, <1>2 DEF Declare

LEMMA AccessStep == ASSUME IInv, NEW accesses, Accessed(accesses) PROVE IInv'
<1> DEFINE b == [Top EXCEPT !.dataAccesses = @ \cup accesses, !.todo = Tail(@)]
<1>1. Move(positionContext, b)
  BY DEF Accessed, Stay
<1>2. /\ DOMAIN b = DOMAIN Top /\ b.fn = Top.fn /\ b.computation = Top.computation
      /\ b.building \in BOOLEAN
  BY AtWork DEF IInv, BuilderOK
<1> HIDE DEF b
<1> QED
  BY <1>1, <1>2, KeepsComputation

(* The end of a call adds no statement. *)
LEMMA AfterCallKeeps ==
  ASSUME NEW b, DOMAIN b = DOMAIN Builder(b.fn), NEW read
  PROVE  /\ DOMAIN AfterCall(b, read) = DOMAIN b
         /\ AfterCall(b, read).fn = b.fn
         /\ AfterCall(b, read).building \in BOOLEAN
         /\ AfterCall(b, read).computation = b.computation
BY DEF AfterCall, Builder

LEMMA CallReservedStep == ASSUME IInv, CallReserved PROVE IInv'
<1>1. PICK read : Move(positionContext, AfterCall(Top, read))
  BY Zenon DEF CallReserved, Stay
<1> DEFINE b == AfterCall(Top, read)
<1>2. DOMAIN Top = DOMAIN Builder(Top.fn)
  BY AtWork DEF IInv, BuilderOK, Builder
<1>3. /\ DOMAIN b = DOMAIN Top /\ b.fn = Top.fn /\ b.computation = Top.computation
      /\ b.building \in BOOLEAN
  BY <1>2, AfterCallKeeps
<1> HIDE DEF b
<1> QED
  BY <1>1, <1>3, KeepsComputation DEF b

LEMMA AddReturnStep == ASSUME IInv, AddReturn PROVE IInv'
<1> DEFINE value == Top.stmt.value
           returned == Top.computation.returnValues \o
                         [i \in 1 .. Len(value) |-> DataSpace(value[i].name)]
           b == [Top EXCEPT !.haveFoundAReturn = TRUE, !.stmt = NoStmt,
                            !.computation.returnValues = returned]
<1>1. CASE Exit
  BY <1>1, Unchanged DEF Exit, Stop
<1>2. CASE Stay(b)
  <2> HIDE DEF returned
  <2>1. /\ BuilderOK(Top)
        /\ DOMAIN Top.computation = {"dataSpaces", "stmts", "returnValues"}
    BY AtWork DEF IInv, BuilderOK, ComputationOK
  <2>2. /\ DOMAIN b = DOMAIN Top /\ b.fn = Top.fn /\ b.building \in BOOLEAN
        /\ b.computation = [Top.computation EXCEPT !.returnValues = returned]
    BY <2>1 DEF BuilderOK
  <2>3. b.computation.stmts = Top.computation.stmts
        /\ b.computation.dataSpaces = Top.computation.dataSpaces
        /\ DOMAIN b.computation = DOMAIN Top.computation
    BY <2>1, <2>2
  <2> HIDE DEF b
  <2>4. ComputationOK(b.computation)
    BY <2>1, <2>3 DEF BuilderOK, ComputationOK
  <2> QED
    BY <1>2, <2>2, <2>4, ChangesComputation DEF Stay, Move
<1> QED
  BY <1>1, <1>2 DEF AddReturn

LEMMA AddStmtStep == ASSUME IInv, AddStmt PROVE IInv'
<1> DEFINE reads == NamesAccessed(TRUE)
           writes == NamesAccessed(FALSE)
           new == NewDataSpaces(reads, writes)
           stmt == [schedule |-> positionContext.schedule, reads |-> reads,
                    writes |-> writes]
           b == [Top EXCEPT !.computation.dataSpaces = @ \cup new,
                            !.computation.stmts = Append(@, stmt),
                            !.stmt = NoStmt]
<1>1. CASE UNCHANGED <<frames, subComputations>>
  BY <1>1, Unchanged
<1>2. CASE Stay(b)
  <2>1. /\ BuilderOK(Top) /\ ComputationOK(Top.computation)
        /\ DOMAIN Top.computation = {"dataSpaces", "stmts", "returnValues"}
    BY AtWork DEF IInv, BuilderOK, ComputationOK
  <2> HIDE DEF new, stmt
  <2>3. /\ DOMAIN b = DOMAIN Top /\ b.fn = Top.fn /\ b.building \in BOOLEAN
        /\ b.computation = [Top.computation EXCEPT
                              !.dataSpaces = Top.computation.dataSpaces \cup new,
                              !.stmts = Append(Top.computation.stmts, stmt)]
    BY <2>1 DEF BuilderOK
  <2>4. /\ DOMAIN b.computation = DOMAIN Top.computation
        /\ b.computation.stmts = Append(Top.computation.stmts, stmt)
    BY <2>1, <2>3
  <2> HIDE DEF b
  <2>6. ComputationOK(b.computation)
    BY <2>1, <2>4, StmtAdded
  <2> QED
    BY <1>2, <2>3, <2>6, ChangesComputation DEF Stay, Move
<1> QED
  BY <1>1, <1>2 DEF AddStmt, Exit, Stop

LEMMA InlineCallStep == ASSUME IInv, InlineCall PROVE IInv'
<1> DEFINE f == Call.callee
           callee == subComputations[f]
           t == positionContext.schedule
           values == callee.returnValues
           value == ReturnedValue(callee, renamings)
           read == IF values # << >> /\ Head(Top.todo).reads /\ ~IsIterator(value)
                     THEN {[name |-> value, isRead |-> TRUE]} ELSE {}
           into == AppendComputation(Top.computation, f, callee, t, Call.args, renamings)
           c == [Top EXCEPT !.started = @ + 1, !.computation = into]
           b == AfterCall(c, read)
<1>1. CASE Exit
  BY <1>1, Unchanged DEF Exit, Stop
<1>2. CASE frames' = [frames EXCEPT ![Len(frames)] = b] /\ UNCHANGED subComputations
  <2>1. BuilderOK(Top) /\ Top.fn \in Fns /\ ComputationOK(Top.computation)
    BY AtWork DEF IInv, BuilderOK
  <2>2. f \in Fns /\ ComputationOK(callee)
    BY DEF InlineCall, IInv, KeptOK
  <2> HIDE DEF read, callee, f, t
  <2>3. ComputationOK(into)
    BY <2>1, <2>2, BlockAppended
  <2> HIDE DEF into
  <2>4. DOMAIN c = DOMAIN Top /\ c.fn = Top.fn /\ c.computation = into
        /\ DOMAIN c = DOMAIN Builder(c.fn)
    BY <2>1 DEF BuilderOK, Builder
  <2> HIDE DEF c
  <2>5. /\ DOMAIN b = DOMAIN Top /\ b.fn = Top.fn /\ b.computation = into
        /\ b.building \in BOOLEAN
    BY <2>4, AfterCallKeeps
  <2> HIDE DEF b
  <2> QED
    BY <1>2, <2>3, <2>5, ChangesComputation
<1> QED
  BY <1>1, <1>2 DEF InlineCall

(* A nested builder joins the ones at work. *)
LEMMA BuildCalleeStep == ASSUME IInv, BuildCallee PROVE IInv'
<1> DEFINE caller == [Top EXCEPT !.oldContext = positionContext, !.building = TRUE]
           fs == [frames EXCEPT ![Len(frames)] = caller]
           new == Builder(Call.callee)
<1>1. frames' = Append(fs, new) /\ subComputations' = subComputations /\ Call.callee \in Fns
  BY AtWork DEF BuildCallee, IInv
<1>2. BuilderOK(new)
  BY <1>1, NewOK
<1>3. BuilderOK(caller)
  BY AtWork DEF IInv, BuilderOK
<1> HIDE DEF new, caller
<1>4. BuildersOK(fs)
  BY <1>3, Becomes DEF IInv
<1> HIDE DEF fs
<1>5. /\ IsSequence(Append(fs, new)) /\ Append(fs, new) # << >>
      /\ Len(fs) \in Nat /\ Len(Append(fs, new)) = Len(fs) + 1
      /\ \A i \in 1 .. Len(fs) : Append(fs, new)[i] = fs[i]
      /\ Append(fs, new)[Len(fs) + 1] = new
  BY <1>4, Appended DEF BuildersOK
<1>6. ASSUME NEW k \in 1 .. Len(Append(fs, new))
      PROVE  BuilderOK(Append(fs, new)[k])
  <2>1. CASE k = Len(fs) + 1
    BY <1>2, <1>5, <2>1
  <2>2. CASE k # Len(fs) + 1
    <3>1. k \in 1 .. Len(fs)
      BY <1>5, <2>2
    <3> QED
      BY <1>4, <1>5, <3>1 DEF BuildersOK
  <2> QED
    BY <2>1, <2>2
<1> QED
  BY <1>1, <1>5, <1>6 DEF IInv, BuildersOK

(* It is done: the Computation it built is kept. *)
LEMMA FinishCalleeStep == ASSUME IInv, FinishCallee PROVE IInv'
<1> DEFINE S == Elements(frames)
           fs == PopBack(frames)
           caller == [fs[Len(fs)] EXCEPT !.oldContext = EmptyContext]
           g == [fs EXCEPT ![Len(fs)] = caller]
<1>1. /\ frames \in Seq(S) /\ frames # << >> /\ Len(frames) \in Nat /\ Len(frames) > 1
      /\ BuilderOK(Top)
      /\ \A k \in 1 .. Len(frames) : BuilderOK(frames[k])
  BY AtWork DEF FinishCallee, IInv, BuildersOK
<1>2. frames' = g /\ subComputations' = Keep(Top.fn, Top.computation)
  BY DEF FinishCallee
<1> HIDE DEF S
<1>3. /\ fs \in Seq(S) /\ Len(fs) = Len(frames) - 1
      /\ \A k \in 1 .. Len(frames) - 1 : fs[k] = frames[k]
  BY <1>1, PopBackProperties
<1> HIDE DEF fs
<1>4. Len(fs) \in Nat /\ Len(fs) \in 1 .. Len(fs) /\ \A k \in 1 .. Len(fs) : BuilderOK(fs[k])
  BY <1>1, <1>3
<1>5. BuilderOK(caller)
  BY <1>4 DEF BuilderOK
<1> HIDE DEF caller
<1>6. fs \in Seq(S \cup {caller})
  BY <1>3, Wider
<1>7. /\ g \in Seq(S \cup {caller}) /\ Len(g) = Len(fs)
      /\ \A k \in 1 .. Len(fs) : g[k] = IF k = Len(fs) THEN caller ELSE fs[k]
  BY <1>4, <1>6, ExceptSeq
<1>8. IsSequence(g)
  BY <1>7, Sequences
<1>9. g # << >>
  BY <1>4, <1>7, EmptySeq
<1>10. BuildersOK(g)
  BY <1>4, <1>5, <1>7, <1>8, <1>9 DEF BuildersOK
<1>11. KeptOK(Keep(Top.fn, Top.computation))
  BY <1>1 DEF IInv, KeptOK, Keep, BuilderOK
<1> QED
  BY <1>2, <1>10, <1>11 DEF IInv

LEMMA EnterStep == ASSUME IInv, NEW c, NEW open, Enter(c, open) PROVE IInv'
<1> DEFINE b == [Started EXCEPT !.open = open]
<1>1. Move(c, b)
  BY DEF Enter
<1>2. /\ DOMAIN b = DOMAIN Top /\ b.fn = Top.fn /\ b.computation = Top.computation
      /\ b.building \in BOOLEAN
  BY AtWork DEF IInv, BuilderOK, Started
<1> HIDE DEF b
<1> QED
  BY <1>1, <1>2, KeepsComputation

LEMMA LeaveStep == ASSUME IInv, NEW c, Leave(c) PROVE IInv'
<1> DEFINE b == [Top EXCEPT !.open = PopBack(@)]
<1>1. Move(c, b)
  BY DEF Leave
<1>2. /\ DOMAIN b = DOMAIN Top /\ b.fn = Top.fn /\ b.computation = Top.computation
      /\ b.building \in BOOLEAN
  BY AtWork DEF IInv, BuilderOK
<1> HIDE DEF b
<1> QED
  BY <1>1, <1>2, KeepsComputation

LEMMA ElseBranchStep == ASSUME IInv, ElseBranch PROVE IInv'
<1> DEFINE at == ExitIf(positionContext)
           b(c) == [Top EXCEPT !.open = Append(PopBack(@), Scope("else", c, at))]
<1>1. CASE Exit
  BY <1>1, Unchanged DEF Exit, Stop
<1>2. ASSUME NEW c, Move(EnterIf(at, c), b(c))
      PROVE  IInv'
  <2>1. /\ DOMAIN b(c) = DOMAIN Top /\ b(c).fn = Top.fn
        /\ b(c).computation = Top.computation /\ b(c).building \in BOOLEAN
    BY AtWork DEF IInv, BuilderOK
  <2> HIDE DEF b
  <2> QED
    BY <1>2, <2>1, KeepsComputation
<1> HIDE DEF b
<1> QED
  BY <1>1, <1>2 DEF ElseBranch, b

(* Entering and leaving structures leaves the Computation alone. *)
LEMMA StructureStep ==
  ASSUME IInv,
         (\E h \in Headers : OpenFor(h)) \/ CloseFor \/ (\E c \in Conds : OpenIf(c))
           \/ ElseBranch \/ CloseIf
  PROVE  IInv'
<1>1. ASSUME Exit PROVE IInv'
  BY <1>1, Unchanged DEF Exit, Stop
<1>2. ASSUME NEW h \in Headers, OpenFor(h) PROVE IInv'
  BY <1>1, <1>2, EnterStep DEF OpenFor
<1>3. ASSUME CloseFor PROVE IInv'
  BY <1>3, LeaveStep DEF CloseFor
<1>4. ASSUME NEW c \in Conds, OpenIf(c) PROVE IInv'
  BY <1>1, <1>4, EnterStep DEF OpenIf
<1>5. ASSUME CloseIf PROVE IInv'
  BY <1>5, LeaveStep DEF CloseIf
<1> QED
  BY <1>2, <1>3, <1>4, <1>5, ElseBranchStep

LEMMA StepKeepsIInv == ASSUME IInv, [Next]_vars PROVE IInv'
<1>1. CASE \E s \in Source[Top.fn] : BeginStmt(s)
  BY <1>1, BeginStmtStep
<1>2. CASE \/ Declare \/ AccessComponent \/ AccessTarget
           \/ CallReserved \/ BuildCallee \/ FinishCallee \/ InlineCall
             \/ AddStmt \/ AddReturn
  <2>1. CASE AccessComponent \/ AccessTarget
    BY <2>1, AccessStep DEF AccessComponent, AccessTarget
  <2> QED
    BY <1>2, <2>1, DeclareStep, CallReservedStep, BuildCalleeStep, FinishCalleeStep,
       InlineCallStep, AddStmtStep, AddReturnStep
<1>3. CASE \/ \E h \in Headers : OpenFor(h)
           \/ CloseFor
           \/ \E c \in Conds : OpenIf(c)
           \/ ElseBranch
           \/ CloseIf
  BY <1>3, StructureStep
<1>4. CASE FailExpr \/ CallFails \/ AppendNull \/ Abandon \/ Finish \/ Terminated
  <2>1. UNCHANGED <<frames, subComputations>>
    BY <1>4 DEF FailExpr, CallFails, AppendNull, Abandon, Finish, Terminated, Exit, Stop, vars
  <2> QED
    BY <2>1, Unchanged
<1>5. CASE UNCHANGED vars
  BY <1>5, Unchanged DEF vars
<1> QED
  BY <1>1, <1>2, <1>3, <1>4, <1>5 DEF Next

LEMMA InitIInv == Init => IInv
<1> SUFFICES ASSUME Init PROVE IInv
  OBVIOUS
<1> DEFINE b == Builder(Entry)
<1>1. BuilderOK(b) /\ frames = <<b>> /\ subComputations = << >>
  BY ParamsAssumption, NewOK DEF Init
<1> HIDE DEF b
<1>2. <<b>> \in Seq({b}) /\ Len(<<b>>) = 1 /\ <<b>>[1] = b /\ <<b>> # << >>
  OBVIOUS
<1>3. BuildersOK(frames)
  <2>1. IsSequence(<<b>>)
    BY <1>2, Sequences
  <2>2. \A k \in 1 .. Len(<<b>>) : BuilderOK(<<b>>[k])
    BY <1>1, <1>2
  <2> QED
    BY <1>1, <1>2, <2>1, <2>2 DEF BuildersOK
<1>4. KeptOK(subComputations)
  BY <1>1 DEF KeptOK
<1> QED
  BY <1>3, <1>4 DEF IInv

-------------------------------------------------------------------------------

(* What is left to do for a statement: the calls and declarations in it,   *)
(* and what else the values of a declaration have.                         *)
WorkItem(a, s) ==
  /\ a.do = "call" => a.expr.callee \in CallsIn(s)
  /\ a.do = "declare" => s.kind = "decl" /\ \E i \in 1 .. Len(s.decls) : a.decl = s.decls[i]
  /\ a.do = "component" /\ s.kind = "decl" =>
       \E v \in ValuesIn(s) : \E i \in 1 .. Len(v) : a.expr = v[i]
  /\ a.do = "write" /\ s.kind = "decl" => a.expr.kind = "ref"

WorkOK(w, s) == IsSequence(w) /\ \A i \in 1 .. Len(w) : WorkItem(w[i], s)

(* The statement a builder is at, one of its function's, and its work.     *)
StmtWork(b) ==
  /\ b.stmt \in Source[b.fn] \cup {NoStmt}
  /\ b.stmt.kind \in {"none", "return"} => b.todo = << >>
  /\ b.stmt.kind = "call" => Len(b.todo) = 1 /\ Head(b.todo).do = "call"
  /\ WorkOK(b.todo, b.stmt)

(* Work lists: the empty one, two joined, the rest of one, a single item. *)
LEMMA WorkEmpty == ASSUME NEW s PROVE WorkOK(<< >>, s)
BY EmptySeq DEF WorkOK, IsSequence

LEMMA WorkConcat ==
  ASSUME NEW s, NEW v, WorkOK(v, s), NEW w, WorkOK(w, s)
  PROVE  WorkOK(v \o w, s)
<1>1. /\ IsSequence(v \o w)
      /\ Len(v) \in Nat /\ Len(w) \in Nat /\ Len(v \o w) = Len(v) + Len(w)
      /\ \A i \in 1 .. Len(v) + Len(w) :
           (v \o w)[i] = IF i <= Len(v) THEN v[i] ELSE w[i - Len(v)]
  BY Concatenated DEF WorkOK
<1>2. ASSUME NEW i \in 1 .. Len(v \o w)
      PROVE  WorkItem((v \o w)[i], s)
  <2>1. CASE i <= Len(v)
    <3>1. i \in 1 .. Len(v) /\ (v \o w)[i] = v[i]
      BY <1>1, <2>1
    <3> QED
      BY <3>1 DEF WorkOK
  <2>2. CASE ~(i <= Len(v))
    <3>1. i - Len(v) \in 1 .. Len(w) /\ (v \o w)[i] = w[i - Len(v)]
      BY <1>1, <2>2
    <3> QED
      BY <3>1 DEF WorkOK
  <2> QED
    BY <2>1, <2>2
<1> QED
  BY <1>1, <1>2 DEF WorkOK

LEMMA WorkTail ==
  ASSUME NEW s, NEW w, WorkOK(w, s), w # << >>
  PROVE  /\ WorkOK(Tail(w), s)
         /\ WorkItem(Head(w), s)
         /\ Len(w) \in Nat \ {0}
         /\ Len(w) = 1 => Tail(w) = << >>
<1> DEFINE S == Elements(w)
<1>1. w \in Seq(S)
  BY DEF WorkOK, IsSequence
<1> HIDE DEF S
<1>2. /\ Head(w) = w[1] /\ Tail(w) \in Seq(S) /\ Len(w) \in Nat \ {0}
      /\ Len(Tail(w)) = Len(w) - 1
      /\ \A i \in 1 .. Len(Tail(w)) : Tail(w)[i] = w[i + 1]
  BY <1>1, EmptySeq, HeadTailProperties
<1>3. IsSequence(Tail(w))
  BY <1>2, Sequences
<1>4. \A i \in 1 .. Len(Tail(w)) : WorkItem(Tail(w)[i], s)
  <2> TAKE i \in 1 .. Len(Tail(w))
  <2>1. i + 1 \in 1 .. Len(w) /\ Tail(w)[i] = w[i + 1]
    BY <1>2
  <2> QED
    BY <2>1 DEF WorkOK
<1>5. WorkItem(Head(w), s)
  BY <1>2 DEF WorkOK
<1>6. Len(w) = 1 => Tail(w) = << >>
  <2> DEFINE t == Tail(w)
  <2>1. t \in Seq(S) /\ Len(t) = Len(w) - 1
    BY <1>2
  <2> HIDE DEF t
  <2>2. Len(w) = 1 => t = << >>
    BY <2>1, EmptySeq
  <2> QED
    BY <2>2 DEF t
<1> QED
  BY <1>2, <1>3, <1>4, <1>5, <1>6 DEF WorkOK

LEMMA WorkOne ==
  ASSUME NEW s, NEW a, WorkItem(a, s)
  PROVE  WorkOK(<<a>>, s)
<1>1. <<a>> \in Seq({a}) /\ Len(<<a>>) = 1 /\ <<a>>[1] = a
  OBVIOUS
<1>2. IsSequence(<<a>>)
  BY <1>1, Sequences
<1> QED
  BY <1>1, <1>2 DEF WorkOK

(* The work for an expression whose calls are the statement's. *)
LEMMA ExprWorkOK ==
  ASSUME NEW s, NEW value, Len(value) \in Nat, NEW r,
         \A i \in 1 .. Len(value) : value[i].kind = "call" => value[i].callee \in CallsIn(s),
         s.kind = "decl" => value \in ValuesIn(s)
  PROVE  WorkOK(ExprWork(value, r), s)
<1>1. CASE \E i \in 1 .. Len(value) : value[i].kind = "opaque"
  <2>1. ExprWork(value, r) = <<[do |-> "fail"]>>
    BY <1>1 DEF ExprWork
  <2>2. WorkItem([do |-> "fail"], s)
    BY DEF WorkItem
  <2> QED
    BY <2>1, <2>2, WorkOne
<1>2. CASE ~ \E i \in 1 .. Len(value) : value[i].kind = "opaque"
  <2> DEFINE item(i) == [do |-> IF value[i].kind = "call" THEN "call" ELSE "component",
                         expr |-> value[i], reads |-> r]
             w == [i \in 1 .. Len(value) |-> item(i)]
  <2>1. ExprWork(value, r) = w
    BY <1>2 DEF ExprWork
  <2>2. \A i \in 1 .. Len(value) : WorkItem(item(i), s)
    BY DEF WorkItem
  <2> HIDE DEF item
  <2>3. Len(w) = Len(value) /\ \A i \in 1 .. Len(value) : w[i] = item(i)
    OBVIOUS
  <2>4. IsSequence(w)
    BY <2>3 DEF IsSequence, Elements
  <2> HIDE DEF w
  <2> QED
    BY <2>1, <2>2, <2>3, <2>4 DEF WorkOK
<1> QED
  BY <1>1, <1>2

(* The calls of the expressions in a statement. *)
LEMMA CallsOf ==
  ASSUME NEW s, NEW v \in ValuesIn(s), NEW i \in 1 .. Len(v), v[i].kind = "call"
  PROVE  v[i].callee \in CallsIn(s)
BY DEF CallsIn

(* What an assignment may have on its left. *)
LEMMA TargetTypes ==
  ASSUME NEW c \in Targets
  PROVE  /\ c.kind \in {"ref", "array", "opaque", "paren"}
         /\ Unparen(c).kind \in {"ref", "array", "opaque"}
         /\ Plain(c) => c.name \in STRING
<1>1. CASE c \in Components /\ (Plain(c) \/ c.kind = "opaque")
  <2>1. c.kind \in {"ref", "array"} => c.name \in STRING
    BY <1>1 DEF Components
  <2> QED
    BY <1>1, <2>1 DEF Plain, Unparen
<1>2. CASE c \in [kind : {"paren"}, of : {d \in Components : Plain(d)}]
  BY <1>2 DEF Plain, Unparen
<1> QED
  BY <1>1, <1>2 DEF Targets

(* The statements a function is made of. *)
LEMMA StatementTypes ==
  ASSUME NEW f \in Fns, NEW s \in Source[f]
  PROVE  /\ s.kind \in {"decl", "assign", "update", "expr", "call", "return", "other",
                        "unsupported"}
         /\ s.kind = "decl" =>
              /\ Len(s.decls) \in Nat
              /\ \A i \in 1 .. Len(s.decls) : Len(s.decls[i].value) \in Nat
         /\ s.kind \in {"assign", "update"} =>
              /\ s.target.kind \in {"ref", "array", "opaque", "paren"}
              /\ Unparen(s.target).kind \in {"ref", "array", "opaque"}
              /\ Plain(s.target) => s.target.name \in STRING
         /\ s.kind \in {"assign", "update", "expr", "call", "return"} => Len(s.value) \in Nat
         /\ s.kind = "call" => Len(s.value) = 1 /\ s.value[1].kind = "call"
         /\ s.kind = "return" => Len(s.value) <= 1
<1> DEFINE Decls == [name : STRING, init : BOOLEAN, value : Seq(Components)]
<1>1. /\ s \in Statements
      /\ s.kind = "call" => Len(s.value) = 1 /\ s.value[1].kind = "call"
      /\ s.kind = "return" => Len(s.value) <= 1
  BY StatementsAssumption
<1>2. \/ s \in [kind : {"decl"}, decls : Seq(Decls), unseen : SUBSET STRING]
      \/ s \in [kind : {"assign", "update"}, target : Targets, value : Seq(Components),
                  unseen : SUBSET STRING]
      \/ s \in [kind : {"expr", "call", "return"}, value : Seq(Components),
                  unseen : SUBSET STRING]
      \/ s \in [kind : {"other", "unsupported"}, unseen : SUBSET STRING]
  BY <1>1, Zenon DEF Statements
<1>3. CASE s \in [kind : {"decl"}, decls : Seq(Decls), unseen : SUBSET STRING]
  <2>1. s.kind = "decl" /\ s.decls \in Seq(Decls)
    BY <1>3
  <2>2. Len(s.decls) \in Nat /\ \A i \in 1 .. Len(s.decls) : s.decls[i] \in Decls
    <3> HIDE DEF Decls
    <3> QED
      BY <2>1, LenProperties, ElementOfSeq
  <2>3. \A i \in 1 .. Len(s.decls) : s.decls[i].value \in Seq(Components)
    BY <2>2
  <2>4. \A i \in 1 .. Len(s.decls) : Len(s.decls[i].value) \in Nat
    BY <2>3, LenProperties
  <2> QED
    BY <2>1, <2>2, <2>4
<1>4. CASE s \in [kind : {"assign", "update"}, target : Targets, value : Seq(Components),
                   unseen : SUBSET STRING]
  <2>1. s.kind \in {"assign", "update"} /\ s.target \in Targets /\ s.value \in Seq(Components)
    BY <1>4
  <2>2. /\ s.target.kind \in {"ref", "array", "opaque", "paren"}
        /\ Unparen(s.target).kind \in {"ref", "array", "opaque"}
        /\ Plain(s.target) => s.target.name \in STRING
    BY <2>1, TargetTypes
  <2> QED
    BY <2>1, <2>2, LenProperties
<1>5. CASE s \in [kind : {"expr", "call", "return"}, value : Seq(Components),
                   unseen : SUBSET STRING]
  <2>1. s.kind \in {"expr", "call", "return"} /\ s.value \in Seq(Components)
    BY <1>5
  <2> QED
    BY <1>1, <2>1, LenProperties
<1> QED
  BY <1>2, <1>3, <1>4, <1>5

(* The work for a statement. *)
LEMMA WorkOfStmt ==
  ASSUME NEW f \in Fns, NEW s \in Source[f], s.kind # "unsupported"
  PROVE  /\ WorkOK(Work(s), s)
         /\ s.kind # "none"
         /\ s.kind = "return" => Work(s) = << >>
         /\ s.kind = "call" => Len(Work(s)) = 1 /\ Head(Work(s)).do = "call"
<1> USE StatementTypes
<1>1. CASE s.kind = "decl"
  <2> DEFINE item(i) == [do |-> "declare", decl |-> s.decls[i]]
             w == [i \in 1 .. Len(s.decls) |-> item(i)]
  <2>1. Work(s) = w
    BY <1>1 DEF Work, IsAssignment
  <2>2. \A i \in 1 .. Len(s.decls) : WorkItem(item(i), s)
    BY <1>1 DEF WorkItem
  <2>3. Len(s.decls) \in Nat
    BY <1>1
  <2> HIDE DEF item
  <2>4. Len(w) = Len(s.decls) /\ \A i \in 1 .. Len(s.decls) : w[i] = item(i)
    BY <2>3
  <2>5. IsSequence(w)
    BY <2>3, <2>4 DEF IsSequence, Elements
  <2> HIDE DEF w
  <2> QED
    BY <1>1, <2>1, <2>2, <2>4, <2>5 DEF WorkOK
<1>2. CASE s.kind \in {"assign", "update"}
  <2> DEFINE v == <<Write(s.target)>>
             u == IF s.kind = "update" THEN ExprWork(<<Unparen(s.target)>>, TRUE)
                                          ELSE << >>
             w == ExprWork(s.value, TRUE)
  <2>1. Work(s) = v \o u \o w
    BY <1>2 DEF Work, IsAssignment
  <2>2. Unparen(s.target).kind \in {"ref", "array", "opaque"} /\ Len(s.value) \in Nat /\ s.value \in ValuesIn(s)
    BY <1>2 DEF ValuesIn
  <2>3. WorkItem(Write(s.target), s)
    BY <1>2 DEF WorkItem, Write
  <2>4. WorkOK(v, s)
    BY <2>3, WorkOne
  <2>5. WorkOK(ExprWork(<<Unparen(s.target)>>, TRUE), s)
    <3> DEFINE one == <<Unparen(s.target)>>
    <3>1. Len(one) = 1 /\ Len(one) \in Nat /\ one[1].kind # "call" /\ s.kind # "decl"
      BY <1>2, <2>2
    <3> HIDE DEF one
    <3>2. \A i \in 1 .. Len(one) : one[i].kind = "call" => one[i].callee \in CallsIn(s)
      BY <3>1
    <3>3. WorkOK(ExprWork(one, TRUE), s)
      BY ONLY <3>1, <3>2, ExprWorkOK, Zenon
    <3> QED
      BY <3>3 DEF one
  <2>6. WorkOK(u, s)
    BY <2>5, WorkEmpty
  <2>7. WorkOK(w, s)
    BY <2>2, CallsOf, ExprWorkOK
  <2> HIDE DEF u, v, w
  <2>8. WorkOK(v \o u, s)
    BY <2>4, <2>6, WorkConcat
  <2>9. WorkOK(v \o u \o w, s)
    BY <2>7, <2>8, WorkConcat
  <2> QED
    BY <1>2, <2>1, <2>9
<1>3. CASE s.kind \in {"expr", "call"}
  <2>1. Work(s) = ExprWork(s.value, FALSE) /\ Len(s.value) \in Nat /\ s.value \in ValuesIn(s)
    BY <1>3 DEF Work, ValuesIn, IsAssignment
  <2>2. WorkOK(ExprWork(s.value, FALSE), s)
    BY <2>1, CallsOf, ExprWorkOK
  <2>3. ASSUME s.kind = "call"
        PROVE  Len(Work(s)) = 1 /\ Head(Work(s)).do = "call"
    <3> DEFINE item(i) == [do |-> IF s.value[i].kind = "call" THEN "call" ELSE "component",
                           expr |-> s.value[i], reads |-> FALSE]
               w == [i \in 1 .. Len(s.value) |-> item(i)]
    <3>1. Len(s.value) = 1 /\ s.value[1].kind = "call"
      BY <2>3
    <3>2. Work(s) = w
      BY <2>1, <3>1 DEF ExprWork
    <3>3. item(1).do = "call"
      BY <3>1
    <3> HIDE DEF item
    <3>4. Len(w) = 1 /\ w[1] = item(1)
      BY <3>1
    <3>5. Head(w) = w[1]
      OBVIOUS
    <3> QED
      BY <3>2, <3>3, <3>4, <3>5
  <2> QED
    BY <1>3, <2>1, <2>2, <2>3
<1>4. CASE s.kind \in {"return", "other"}
  BY <1>4, WorkEmpty DEF Work, IsAssignment
<1> QED
  BY <1>1, <1>2, <1>3, <1>4

(* A declared variable's initializer. *)
LEMMA InitialiseOK ==
  ASSUME NEW f \in Fns, NEW s \in Source[f], s.kind = "decl", NEW i \in 1 .. Len(s.decls)
  PROVE  WorkOK(Initialise(s.decls[i]), s)
<1> DEFINE d == s.decls[i]
           v == ExprWork(d.value, TRUE)
           a == Write(Ref(d.name))
<1>1. Len(d.value) \in Nat /\ d.value \in ValuesIn(s)
  BY StatementTypes DEF ValuesIn
<1>2. WorkOK(v, s)
  BY <1>1, CallsOf, ExprWorkOK
<1>3. WorkItem(a, s)
  BY DEF WorkItem, Write, Ref
<1>4. Initialise(d) = IF d.init THEN Append(v, a) ELSE << >>
  BY DEF Initialise
<1> HIDE DEF a, v, d
<1>5. WorkOK(Append(v, a), s)
  <2>1. /\ IsSequence(Append(v, a)) /\ Len(v) \in Nat /\ Len(Append(v, a)) = Len(v) + 1
        /\ \A j \in 1 .. Len(v) : Append(v, a)[j] = v[j]
        /\ Append(v, a)[Len(v) + 1] = a
    BY <1>2, Appended DEF WorkOK
  <2>2. ASSUME NEW j \in 1 .. Len(Append(v, a))
        PROVE  WorkItem(Append(v, a)[j], s)
    <3>1. CASE j \in 1 .. Len(v)
      BY <1>2, <2>1, <3>1 DEF WorkOK
    <3>2. CASE j = Len(v) + 1
      BY <1>3, <2>1, <3>2
    <3> QED
      BY <2>1, <3>1, <3>2
  <2> QED
    BY <2>1, <2>2 DEF WorkOK
<1> QED
  BY <1>4, <1>5, WorkEmpty DEF d

-------------------------------------------------------------------------------
(* The schedules of a Computation and of a block. *)

(* The schedules of a Computation's statements, one by one. *)
LEMMA SchedulesFacts ==
  ASSUME NEW c, IsSequence(c.stmts)
  PROVE  /\ Len(c.stmts) \in Nat
         /\ Len(Schedules(c)) = Len(c.stmts)
         /\ DOMAIN Schedules(c) = 1 .. Len(c.stmts)
         /\ \A i \in 1 .. Len(c.stmts) : Schedules(c)[i] = c.stmts[i].schedule
<1>1. Len(c.stmts) \in Nat
  BY LenProperties DEF IsSequence
<1> QED
  BY <1>1 DEF Schedules

(* addStmt emits the schedule of its statement. *)
LEMMA SchedulesAppend ==
  ASSUME NEW c, IsSequence(c.stmts), NEW stmt, NEW d, d.stmts = Append(c.stmts, stmt),
         Schedules(c) \in Seq(Seq(Vals)), stmt.schedule \in Seq(Vals)
  PROVE  Schedules(d) = Append(Schedules(c), stmt.schedule)
<1> DEFINE s == Schedules(c)
           t == Append(s, stmt.schedule)
<1>1. /\ IsSequence(d.stmts) /\ Len(c.stmts) \in Nat /\ Len(d.stmts) = Len(c.stmts) + 1
      /\ \A i \in 1 .. Len(c.stmts) : d.stmts[i] = c.stmts[i]
      /\ d.stmts[Len(c.stmts) + 1] = stmt
  BY Appended
<1>2. /\ s \in Seq(Seq(Vals)) /\ Len(s) = Len(c.stmts)
      /\ \A i \in 1 .. Len(c.stmts) : s[i] = c.stmts[i].schedule
  BY SchedulesFacts
<1>3. /\ Len(Schedules(d)) = Len(d.stmts)
      /\ DOMAIN Schedules(d) = 1 .. Len(d.stmts)
      /\ \A i \in 1 .. Len(d.stmts) : Schedules(d)[i] = d.stmts[i].schedule
  BY <1>1, SchedulesFacts
<1> HIDE DEF s
<1>4. /\ t \in Seq(Seq(Vals)) /\ Len(t) = Len(s) + 1
      /\ \A i \in 1 .. Len(s) : t[i] = s[i]
      /\ t[Len(s) + 1] = stmt.schedule
  BY <1>2, AppendProperties
<1> HIDE DEF t
<1>5. \A i \in 1 .. Len(c.stmts) + 1 : Schedules(d)[i] = t[i]
  BY <1>1, <1>2, <1>3, <1>4
<1>6. DOMAIN t = 1 .. Len(c.stmts) + 1
  BY <1>2, <1>4, LenProperties
<1>7. t = [i \in 1 .. Len(c.stmts) + 1 |-> t[i]]
  BY <1>4, <1>6
<1>8. Schedules(d) = [i \in 1 .. Len(c.stmts) + 1 |-> Schedules(d)[i]]
  BY <1>1, <1>3 DEF Schedules
<1> QED
  BY <1>5, <1>7, <1>8 DEF t, s

(* The accesses before a call or declaration, and it itself. *)
LEMMA BeforeOne ==
  ASSUME NEW m \in Nat, NEW n \in Nat, m < n
  PROVE  Before(<<Num(m)>>, <<Num(n)>>)
<1> DEFINE s == <<Num(m)>>
           t == <<Num(n)>>
<1>1. /\ Len(s) = 1 /\ Len(t) = 1 /\ s[1] = Num(m) /\ t[1] = Num(n)
      /\ ~s[1].valueIsVar /\ ~t[1].valueIsVar /\ s[1].num = m /\ t[1].num = n
  BY DEF Num
<1> HIDE DEF s, t
<1>2. Before(s, t)
  BY <1>1 DEF Before
<1> QED
  BY <1>2 DEF s, t

(* What a callee contributes, parameters included, is a block if its own   *)
(* statements are one.                                                     *)
LEMMA CalleeFormed ==
  ASSUME NEW f \in Fns, NEW callee, IsFormed(Schedules(callee))
  PROVE  /\ IsFormed(Block(f, callee))
         /\ InScheduleOrder(Schedules(callee)) => IsBlock(Block(f, callee))
<1> DEFINE n == Len(Params[f])
           a == [i \in 1 .. n |-> <<Num(i - 1)>>]
           s == <<Num(n)>>
           b == Schedules(callee)
<1>1. n \in Nat
  BY ParamsAssumption, LenProperties
<1>2. /\ s \in Seq(Vals) /\ s # << >> /\ Back(s) = Num(n) /\ s[1] = Num(n) /\ Len(s) = 1
      /\ ~Back(s).valueIsVar /\ ~s[1].valueIsVar /\ Back(s).num = n
  BY <1>1 DEF Back, Num, Vals, ScheduleVals, NumVals
<1>3. Block(f, callee) = a \o Place(s, b)
  BY DEF Block
<1>4. \A i \in 1 .. n : Num(i - 1) \in NumVals /\ <<Num(i - 1)>> \in Seq(Vals)
  BY <1>1 DEF Num, Vals, ScheduleVals, NumVals
<1> HIDE DEF n, s, b
<1>5. /\ a \in Seq(Seq(Vals)) /\ Len(a) = n
      /\ \A i \in 1 .. n : a[i] = <<Num(i - 1)>>
  <2> DEFINE e(i) == <<Num(i - 1)>>
             c == [i \in 1 .. n |-> e(i)]
  <2>1. \A i \in 1 .. n : e(i) \in Seq(Vals)
    BY <1>4
  <2> HIDE DEF e
  <2>2. c \in Seq(Seq(Vals)) /\ Len(c) = n /\ \A i \in 1 .. n : c[i] = e(i)
    BY <1>1, <2>1
  <2> QED
    BY <2>2 DEF e
<1>6. IsFormed(a)
  <2>1. ASSUME NEW i \in 1 .. n
        PROVE  a[i] # << >> /\ a[i][1] \in NumVals
    <3>1. a[i] = <<Num(i - 1)>> /\ Num(i - 1) \in NumVals
      BY <1>4, <1>5
    <3> QED
      BY <3>1
  <2> QED
    BY <1>5, <2>1 DEF IsFormed
<1> HIDE DEF a
<1>7. IsFormed(Place(s, b))
  BY <1>2, FormedPlace DEF b
<1>8. IsFormed(Block(f, callee))
  BY <1>3, <1>6, <1>7, FormedConcat
<1>9. ASSUME InScheduleOrder(b)
      PROVE  IsBlock(Block(f, callee))
  <2>1. IsBlock(b)
    BY <1>9 DEF IsBlock, b
  <2>2. PICK last : last \in TuplePositions(s, b)
    BY DEF TuplePositions
  <2>3. InScheduleOrder(a)
    <3>1. ASSUME NEW i \in 1 .. Len(a), NEW j \in 1 .. Len(a), i < j
          PROVE  Before(a[i], a[j])
      <4>1. a[i] = <<Num(i - 1)>> /\ a[j] = <<Num(j - 1)>>
        BY <1>5
      <4>2. i - 1 \in Nat /\ j - 1 \in Nat /\ i - 1 < j - 1
        BY <1>1, <1>5, <3>1
      <4> QED
        BY <4>1, <4>2, BeforeOne
    <3> QED
      BY <3>1 DEF InScheduleOrder
  <2>4. \A i \in 1 .. Len(a) : Before(a[i], s)
    <3> TAKE i \in 1 .. Len(a)
    <3>1. a[i] = <<Num(i - 1)>> /\ s = <<Num(n)>> /\ i - 1 \in Nat /\ i - 1 < n
      BY <1>1, <1>5 DEF s
    <3> QED
      BY <1>1, <3>1, BeforeOne
  <2>5. InScheduleOrder(a \o Place(s, b))
    BY <1>2, <1>5, <2>1, <2>2, <2>3, <2>4, InlineOrder
  <2> QED
    BY <1>3, <1>8, <2>5 DEF IsBlock
<1> QED
  BY <1>8, <1>9 DEF b

(* Inlining a callee emits its block, placed at the call. *)
LEMMA SchedulesInlined ==
  ASSUME NEW into, ComputationOK(into), Schedules(into) \in Seq(Seq(Vals)),
         NEW f \in Fns, NEW callee, ComputationOK(callee), IsFormed(Schedules(callee)),
         NEW t \in Seq(Vals), t # << >>, ~Back(t).valueIsVar, NEW args, NEW n
  PROVE  LET out == AppendComputation(into, f, callee, t, args, n) IN
           /\ Schedules(out) = Schedules(into) \o Place(t, Block(f, callee))
           /\ out.returnValues = into.returnValues
<1> DEFINE schedules == Place(t, Block(f, callee))
           params == Params[f]
           renamed(names) == {Rename(n, d) : d \in names}
           assign(i) ==
             [schedule |-> schedules[i],
              reads |-> IF args[i].kind = "ref"
                          THEN {DataSpace(args[i].name)} \cap into.dataSpaces ELSE {},
              writes |-> {Rename(n, DataSpace(params[i]))}]
           body(i) ==
             [schedule |-> schedules[Len(params) + i],
              reads |-> renamed(callee.stmts[i].reads),
              writes |-> renamed(callee.stmts[i].writes)]
           assigned == [i \in 1 .. Len(params) |-> assign(i)]
           copied == [i \in 1 .. Len(callee.stmts) |-> body(i)]
           spaces == into.dataSpaces \cup renamed(callee.dataSpaces)
           out == AppendComputation(into, f, callee, t, args, n)
           emitted == Schedules(into)
           L == Len(into.stmts)
           M == Len(callee.stmts)
           P == Len(params)
<1>1. out = [into EXCEPT !.dataSpaces = spaces, !.stmts = (into.stmts \o assigned) \o copied]
  BY DEF AppendComputation
<1>2. P \in Nat /\ M \in Nat /\ L \in Nat
  BY ParamsAssumption, LenProperties DEF ComputationOK, IsSequence
<1>3. /\ IsSequence(assigned) /\ Len(assigned) = P
      /\ \A i \in 1 .. P : assigned[i].schedule = schedules[i]
  <2>1. \A i \in 1 .. P : assign(i).schedule = schedules[i]
    OBVIOUS
  <2> HIDE DEF assign
  <2>2. /\ IsSequence(assigned) /\ Len(assigned) = P
        /\ \A i \in 1 .. P : assigned[i] = assign(i)
    BY <1>2 DEF IsSequence, Elements
  <2> HIDE DEF assigned, schedules, params
  <2> QED
    BY <2>1, <2>2
<1>4. /\ IsSequence(copied) /\ Len(copied) = M
      /\ \A i \in 1 .. M :
           copied[i].schedule = schedules[P + i]
  <2>1. \A i \in 1 .. M : body(i).schedule = schedules[P + i]
    OBVIOUS
  <2> HIDE DEF body
  <2>2. /\ IsSequence(copied) /\ Len(copied) = M
        /\ \A i \in 1 .. M : copied[i] = body(i)
    BY <1>2 DEF IsSequence, Elements
  <2> HIDE DEF copied, schedules, params
  <2> QED
    BY <2>1, <2>2
<1> HIDE DEF L, M, P, spaces, assigned, copied, out, assign, body
<1>5. /\ out.returnValues = into.returnValues
      /\ out.stmts = (into.stmts \o assigned) \o copied
  BY <1>1 DEF ComputationOK
<1>6. /\ schedules \in Seq(Seq(Vals))
      /\ Len(schedules) = P + M
  <2>1. IsFormed(Block(f, callee))
    BY CalleeFormed
  <2>2. schedules \in Seq(Seq(Vals)) /\ Len(schedules) = Len(Block(f, callee))
    BY <2>1, PlaceFacts
  <2> DEFINE a == [i \in 1 .. P |-> <<Num(i - 1)>>]
             p == Place(<<Num(P)>>, Schedules(callee))
  <2>3. Block(f, callee) = a \o p
    BY DEF Block, P
  <2>4. Len(a) = P /\ a \in Seq(Seq(Vals))
    BY <1>2 DEF Num, Vals, ScheduleVals, NumVals
  <2>5. Len(p) = M /\ p \in Seq(Seq(Vals))
    <3> DEFINE s == <<Num(P)>>
    <3>1. s \in Seq(Vals) /\ s # << >> /\ ~Back(s).valueIsVar
      BY <1>2 DEF Back, Num, Vals, ScheduleVals, NumVals
    <3> HIDE DEF s
    <3>2. /\ Place(s, Schedules(callee)) \in Seq(Seq(Vals))
          /\ Len(Place(s, Schedules(callee))) = Len(Schedules(callee))
      BY <3>1, PlaceFacts
    <3>3. Len(Schedules(callee)) = M
      BY SchedulesFacts DEF ComputationOK, M
    <3> QED
      BY <3>2, <3>3 DEF s
  <2> HIDE DEF a, p
  <2>6. Len(a \o p) = Len(a) + Len(p)
    BY <2>4, <2>5, ConcatProperties
  <2> QED
    BY <2>2, <2>3, <2>4, <2>5, <2>6
<1> HIDE DEF schedules, params
<1> DEFINE s == into.stmts \o assigned
<1>7. IsSequence(into.stmts)
  BY DEF ComputationOK
<1>8. /\ IsSequence(s) /\ Len(s) = L + P
      /\ \A i \in 1 .. L + P :
           s[i] = IF i <= L THEN into.stmts[i] ELSE assigned[i - L]
  <2>1. /\ IsSequence(s) /\ Len(s) = L + Len(assigned)
        /\ \A i \in 1 .. L + Len(assigned) :
             s[i] = IF i <= L THEN into.stmts[i]
                                            ELSE assigned[i - L]
    BY ONLY <1>3, <1>7, Concatenated DEF L
  <2> HIDE DEF s
  <2> QED
    BY <1>3, <2>1
<1> HIDE DEF s
<1>9. /\ IsSequence(s \o copied) /\ Len(s \o copied) = Len(s) + M
      /\ \A i \in 1 .. Len(s) + M :
           (s \o copied)[i] = IF i <= Len(s) THEN s[i] ELSE copied[i - Len(s)]
  <2> DEFINE w == s \o copied
  <2>1. /\ IsSequence(w) /\ Len(w) = Len(s) + Len(copied)
        /\ \A i \in 1 .. Len(s) + Len(copied) :
             w[i] = IF i <= Len(s) THEN s[i] ELSE copied[i - Len(s)]
    BY ONLY <1>4, <1>8, Concatenated
  <2> HIDE DEF w
  <2>2. /\ IsSequence(w) /\ Len(w) = Len(s) + M
        /\ \A i \in 1 .. Len(s) + M :
             w[i] = IF i <= Len(s) THEN s[i] ELSE copied[i - Len(s)]
    BY <1>4, <2>1
  <2> QED
    BY <2>2 DEF w
<1> DEFINE N == L + P + M
           u == emitted \o schedules
           all == s \o copied
<1>10. /\ IsSequence(out.stmts) /\ Len(out.stmts) = N
       /\ DOMAIN Schedules(out) = 1 .. N
       /\ \A i \in 1 .. N : Schedules(out)[i] = out.stmts[i].schedule
  <2>1. IsSequence(out.stmts) /\ Len(out.stmts) = N
    BY <1>2, <1>5, <1>8, <1>9 DEF s
  <2> QED
    BY <2>1, SchedulesFacts
<1>11. /\ Len(emitted) = L
       /\ \A i \in 1 .. L : emitted[i] = into.stmts[i].schedule
  BY <1>7, SchedulesFacts DEF L
<1> HIDE DEF emitted
<1>12. /\ u \in Seq(Seq(Vals)) /\ Len(u) = N
       /\ \A i \in 1 .. N : u[i] = IF i <= L THEN emitted[i]
                                                         ELSE schedules[i - L]
  <2>1. emitted \in Seq(Seq(Vals))
    BY DEF emitted
  <2>2. /\ u \in Seq(Seq(Vals)) /\ Len(u) = Len(emitted) + Len(schedules)
        /\ \A i \in 1 .. Len(emitted) + Len(schedules) :
             u[i] = IF i <= Len(emitted) THEN emitted[i] ELSE schedules[i - Len(emitted)]
    BY ONLY <1>6, <2>1, ConcatProperties
  <2>3. Len(emitted) + Len(schedules) = N
    BY <1>2, <1>6, <1>11
  <2> HIDE DEF u, N
  <2> QED
    BY <1>11, <2>2, <2>3
<1> HIDE DEF u
<1>13. /\ Len(all) = N /\ Len(s) = L + P
       /\ \A i \in 1 .. N : all[i] = IF i <= Len(s) THEN s[i] ELSE copied[i - Len(s)]
  BY <1>2, <1>8, <1>9
<1>14. N \in Nat /\ N = L + P + M
  BY <1>2
<1>15. out.stmts = all
  BY <1>5 DEF s
<1> HIDE DEF all, N
<1>16. ASSUME NEW i \in 1 .. N
       PROVE  Schedules(out)[i] = u[i]
  <2>1. Schedules(out)[i] = all[i].schedule
    BY <1>10, <1>15
  <2> USE <1>14
  <2>2. CASE i <= L
    <3>1. i \in 1 .. L /\ i <= Len(s) /\ i \in 1 .. L + P
      BY <1>2, <1>13, <2>1, <2>2
    <3>2. all[i] = s[i] /\ u[i] = emitted[i]
      BY <1>12, <1>13, <2>2, <3>1
    <3>3. s[i] = into.stmts[i]
      BY <1>8, <2>2, <3>1
    <3> QED
      BY <1>11, <2>1, <3>1, <3>2, <3>3
  <2>3. CASE i > L /\ i <= Len(s)
    <3> DEFINE j == i - L
    <3>1. j \in 1 .. P /\ i \in 1 .. L + P
          /\ ~(i <= L)
      BY <1>2, <1>13, <2>1, <2>3
    <3>2. all[i] = s[i] /\ u[i] = schedules[j]
      BY <1>12, <1>13, <2>3, <3>1
    <3>3. s[i] = assigned[j]
      BY <1>8, <3>1
    <3> QED
      BY <1>3, <2>1, <3>1, <3>2, <3>3
  <2>4. CASE i > Len(s)
    <3> DEFINE j == i - Len(s)
    <3>1. j \in 1 .. M /\ i - L = P + j
          /\ ~(i <= L) /\ ~(i <= Len(s))
      <4>1. Len(s) \in Nat /\ i \in Nat /\ i <= Len(s) + M
        BY <1>2, <1>13
      <4> QED
        BY <1>2, <1>13, <2>4, <4>1
    <3>2. all[i] = copied[j] /\ u[i] = schedules[i - L]
      BY <1>12, <1>13, <3>1
    <3> QED
      BY <1>4, <2>1, <3>1, <3>2
  <2> QED
    BY <1>2, <1>13, <2>1, <2>2, <2>3, <2>4
<1>17. u = [i \in 1 .. N |-> u[i]]
  BY <1>12, LenProperties
<1>18. Schedules(out) = [i \in 1 .. N |-> Schedules(out)[i]]
  BY <1>10 DEF Schedules, N
<1>19. Schedules(out) = u
  BY <1>16, <1>17, <1>18
<1> QED
  BY <1>5, <1>19 DEF u, out, emitted, schedules
===============================================================================
