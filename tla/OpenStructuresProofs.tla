------------------------- MODULE OpenStructuresProofs -------------------------
(***************************************************************************)
(* What the operations of ExecSchedule do to the order of schedules, and   *)
(* what those of PositionContext preserve and undo; then what advancing,   *)
(* entering and leaving structures, emitting a statement and inlining a    *)
(* block do to a context that is in step with the open structures, and to  *)
(* the order of the statements emitted.  The proofs about a walk and about *)
(* nested builders apply these lemmas to their states.                     *)
(***************************************************************************)
EXTENDS OpenStructures, SequenceTheorems, TLAPS

(* An entry of a schedule is an iterator or a position with a number. *)
LEMMA ValCases ==
  ASSUME NEW N, NEW e \in ScheduleVals(N)
  PROVE  \/ e.valueIsVar /\ e \in VarVals(N)
         \/ ~e.valueIsVar /\ e \in NumVals /\ e.num \in Nat
BY DEF ScheduleVals, NumVals, VarVals

(* What popValue leaves: one entry less, the others in their places. *)
LEMMA PopBackProperties ==
  ASSUME NEW S, NEW t \in Seq(S), t # << >>
  PROVE  /\ PopBack(t) \in Seq(S)
         /\ Len(PopBack(t)) = Len(t) - 1
         /\ \A i \in 1 .. Len(t) - 1 : PopBack(t)[i] = t[i]
         /\ Len(t) \in Nat \ {0}
         /\ Back(t) \in S
<1>1. Len(t) \in Nat \ {0} /\ \A i \in 1 .. Len(t) : t[i] \in S
  BY EmptySeq
<1>2. Len(t) - 1 \in Int /\ \A i \in 1 .. Len(t) - 1 : t[i] \in S
  BY <1>1
<1>3. PopBack(t) \in Seq(S)
  BY <1>2, SubSeqProperties DEF PopBack
<1>4. Len(PopBack(t)) = Len(t) - 1
  <2>1. Len(SubSeq(t, 1, Len(t) - 1))
          = IF 1 <= Len(t) - 1 THEN (Len(t) - 1) - 1 + 1 ELSE 0
    BY <1>2, SubSeqProperties
  <2>2. CASE Len(t) = 1
    BY <2>1, <2>2 DEF PopBack
  <2>3. CASE Len(t) > 1
    BY <1>1, <2>1, <2>3 DEF PopBack
  <2>4. \A n \in Nat \ {0} : n = 1 \/ n > 1
    OBVIOUS
  <2> QED BY <1>1, <2>2, <2>3, <2>4, Zenon
<1>5. \A i \in 1 .. Len(t) - 1 : PopBack(t)[i] = t[i]
  BY <1>1, <1>2, SubSeqProperties DEF PopBack
<1> QED BY <1>1, <1>3, <1>4, <1>5 DEF Back

(* popValue undoes pushValue. *)
LEMMA PopBackAppend ==
  ASSUME NEW S, NEW t \in Seq(S), NEW e \in S
  PROVE  PopBack(Append(t, e)) = t
BY DEF PopBack

(* advanceSchedule yields a schedule. *)
LEMMA AdvanceType ==
  ASSUME NEW N, NEW t \in Seq(ScheduleVals(N))
  PROVE  AdvanceSchedule(t) \in Seq(ScheduleVals(N))
<1>1. \A n \in Nat : Num(n) \in ScheduleVals(N)
  BY DEF Num, ScheduleVals, NumVals
<1>2. CASE t = << >> \/ Back(t).valueIsVar
  BY <1>1, <1>2, AppendProperties DEF AdvanceSchedule
<1>3. CASE ~(t = << >> \/ Back(t).valueIsVar)
  <2>1. Back(t) \in ScheduleVals(N)
    BY <1>3, PopBackProperties
  <2>2. Back(t).num + 1 \in Nat
    BY <1>3, <2>1, ValCases
  <2> QED
    BY <1>1, <1>3, <2>2, PopBackProperties, AppendProperties DEF AdvanceSchedule
<1> QED BY <1>2, <1>3

(* A statement emitted at schedule s is behind a builder at schedule t.    *)
Passed(s, t) ==
  \E d \in 1 .. Len(t) :
    /\ d <= Len(s)
    /\ \A k \in 1 .. d - 1 : s[k] = t[k]
    /\ ~s[d].valueIsVar
    /\ ~t[d].valueIsVar
    /\ \/ s[d].num < t[d].num
       \/ d = Len(t) /\ s[d].num = t[d].num

(* Advancing takes the builder strictly past whatever is behind it. *)
LEMMA AdvancePasses ==
  ASSUME NEW N, NEW s \in Seq(ScheduleVals(N)), NEW t \in Seq(ScheduleVals(N)),
         Passed(s, t)
  PROVE  Before(s, AdvanceSchedule(t))
<1> DEFINE u == AdvanceSchedule(t)
<1>1. PICK d \in 1 .. Len(t) :
        /\ d <= Len(s)
        /\ \A k \in 1 .. d - 1 : s[k] = t[k]
        /\ ~s[d].valueIsVar
        /\ ~t[d].valueIsVar
        /\ \/ s[d].num < t[d].num
           \/ d = Len(t) /\ s[d].num = t[d].num
  BY DEF Passed
<1>2. t # << >> /\ Len(t) \in Nat /\ Len(s) \in Nat /\ d \in 1 .. Len(s)
  BY <1>1
<1>3. s[d].num \in Nat /\ t[d].num \in Nat
  BY <1>1, <1>2, ValCases
<1>4. CASE Back(t).valueIsVar
  <2>1. d # Len(t)
    BY <1>1, <1>4 DEF Back
  <2>2. u = Append(t, Num(0))
    BY <1>4 DEF AdvanceSchedule
  <2>3. Len(u) = Len(t) + 1 /\ \A k \in 1 .. Len(t) : u[k] = t[k]
    BY <2>2
  <2> QED
    BY <1>1, <1>2, <1>3, <2>1, <2>3 DEF Before
<1>5. CASE ~Back(t).valueIsVar
  <2>1. u = Append(PopBack(t), Num(Back(t).num + 1))
    BY <1>2, <1>5 DEF AdvanceSchedule
  <2>2. /\ Len(u) = Len(t)
        /\ \A k \in 1 .. Len(t) - 1 : u[k] = t[k]
        /\ u[Len(t)] = Num(Back(t).num + 1)
    <3>1. /\ PopBack(t) \in Seq(ScheduleVals(N))
          /\ Len(PopBack(t)) = Len(t) - 1
          /\ \A k \in 1 .. Len(t) - 1 : PopBack(t)[k] = t[k]
          /\ Len(t) \in Nat \ {0}
          /\ Back(t) \in ScheduleVals(N)
      BY <1>2, PopBackProperties
    <3>2. Num(Back(t).num + 1) \in ScheduleVals(N)
      <4>1. Back(t).num \in Nat
        BY <1>5, <3>1, ValCases
      <4>2. Back(t).num + 1 \in Nat
        BY <4>1
      <4> QED BY <4>2 DEF Num, ScheduleVals, NumVals
    <3> QED BY <2>1, <3>1, <3>2, AppendProperties
  <2>3. ~u[d].valueIsVar /\ s[d].num < u[d].num
    <3>1. CASE d = Len(t)
      BY <1>1, <1>3, <2>2, <3>1 DEF Num, Back
    <3>2. CASE d # Len(t)
      BY <1>1, <2>2, <3>2
    <3> QED BY <3>1, <3>2
  <2>4. \A k \in 1 .. d - 1 : s[k] = u[k]
    BY <1>1, <1>2, <2>2
  <2> QED
    BY <1>1, <1>2, <2>2, <2>3, <2>4 DEF Before
<1> QED BY <1>4, <1>5

(* A statement before the builder's schedule is behind the builder. *)
LEMMA BeforeIsPassed ==
  ASSUME NEW N, NEW s \in Seq(ScheduleVals(N)), NEW t \in Seq(ScheduleVals(N)),
         Before(s, t)
  PROVE  Passed(s, t)
BY DEF Before, Passed

(* What was before a schedule is before every extension of it. *)
LEMMA BeforeExtends ==
  ASSUME NEW N, NEW s \in Seq(ScheduleVals(N)), NEW t \in Seq(ScheduleVals(N)),
         NEW u \in Seq(ScheduleVals(N)), Before(s, t),
         Len(t) <= Len(u), \A k \in 1 .. Len(t) : u[k] = t[k]
  PROVE  Before(s, u)
BY DEF Before

-------------------------------------------------------------------------------
Constraints == [lower : STRING, oper : Ops, upper : STRING]

(* Advancing, skipping and leaving an if change what they say and leave a  *)
(* context.                                                                *)
LEMMA AdvanceContext ==
  ASSUME NEW N, NEW c \in ContextSet(N)
  PROVE  /\ Advance(c) \in ContextSet(N)
         /\ Advance(c).schedule = AdvanceSchedule(c.schedule)
         /\ Advance(c).iterators = c.iterators
         /\ Advance(c).constraints = c.constraints
         /\ Advance(c).invariants = c.invariants
         /\ Advance(c).nestLevel = c.nestLevel
<1>1. AdvanceSchedule(c.schedule) \in Seq(ScheduleVals(N))
  BY AdvanceType DEF ContextSet
<1> QED BY <1>1 DEF Advance, ContextSet

(* enterFor yields a context. *)
LEMMA EnterForContext ==
  ASSUME NEW N, NEW c \in ContextSet(N), NEW h \in HeaderSet(N), N \subseteq STRING
  PROVE  EnterFor(c, h) \in ContextSet(N)
<1>1. /\ c.iterators \in Seq(N)
      /\ c.constraints \in Seq(Constraints)
      /\ c.schedule \in Seq(ScheduleVals(N))
      /\ c.nestLevel \in Nat
      /\ c.invariants \in Seq(SUBSET STRING)
  BY DEF ContextSet, Constraints
<1>2. h.iter \in N /\ h.from \in STRING /\ h.lhs \in STRING /\ h.op \in Ops
      /\ h.rhs \in STRING /\ h.scalars \in SUBSET STRING /\ h.arrays \in SUBSET STRING
  BY DEF HeaderSet
<1>3. Append(c.iterators, h.iter) \in Seq(N)
  BY <1>1, <1>2
<1>4. << Constraint(h.iter, ">=", h.from), Constraint(h.lhs, h.op, h.rhs) >>
        \in Seq(Constraints)
  <2>1. Constraint(h.iter, ">=", h.from) \in Constraints
    BY <1>2 DEF Constraint, Constraints, Ops, Comparisons
  <2>2. Constraint(h.lhs, h.op, h.rhs) \in Constraints
    BY <1>2 DEF Constraint, Constraints
  <2> QED BY <2>1, <2>2
<1>5. c.constraints \o << Constraint(h.iter, ">=", h.from),
                          Constraint(h.lhs, h.op, h.rhs) >> \in Seq(Constraints)
  BY <1>1, <1>4, ConcatProperties
<1>6. PushValue(c.schedule, Var(h.iter)) \in Seq(ScheduleVals(N))
  BY <1>1, <1>2 DEF PushValue, Var, ScheduleVals, VarVals
<1>7. Append(c.invariants, NewInvariants(c, h)) \in Seq(SUBSET STRING)
  <2>1. NewInvariants(c, h) \in SUBSET STRING
    BY <1>2 DEF NewInvariants
  <2> QED BY <1>1, <2>1
<1> QED BY <1>1, <1>3, <1>5, <1>6, <1>7 DEF EnterFor, ContextSet, Constraints

(* enterIf yields a context. *)
LEMMA EnterIfContext ==
  ASSUME NEW N, NEW c \in ContextSet(N), NEW cond \in CondSet
  PROVE  EnterIf(c, cond) \in ContextSet(N)
<1>1. c.constraints \in Seq(Constraints) /\ c.nestLevel \in Nat
  BY DEF ContextSet, Constraints
<1>2. Constraint(cond.lhs, cond.op, cond.rhs) \in Constraints
  BY DEF CondSet, Constraint, Constraints
<1> DEFINE cs == Append(c.constraints, Constraint(cond.lhs, cond.op, cond.rhs))
           n == c.nestLevel + 1
<1>3. cs \in Seq(Constraints) /\ n \in Nat
  BY <1>1, <1>2
<1>4. EnterIf(c, cond) = [c EXCEPT !.constraints = cs, !.nestLevel = n]
  BY DEF EnterIf
<1> HIDE DEF cs, n
<1>5. [c EXCEPT !.constraints = cs, !.nestLevel = n] \in ContextSet(N)
  BY <1>3 DEF ContextSet, Constraints
<1> QED BY <1>4, <1>5

(* A context whose scopes are those enterFor left gets from exitFor the    *)
(* scopes enterFor found, and loses two schedule entries.                  *)
LEMMA ExitForUndoes ==
  ASSUME NEW N, N \subseteq STRING, NEW d \in ContextSet(N), NEW h \in HeaderSet(N),
         NEW c \in ContextSet(N),
         c.iterators = EnterFor(d, h).iterators,
         c.constraints = EnterFor(d, h).constraints,
         c.invariants = EnterFor(d, h).invariants,
         c.nestLevel = EnterFor(d, h).nestLevel,
         Len(c.schedule) >= 2
  PROVE  /\ ExitFor(c) \in ContextSet(N)
         /\ ExitFor(c).iterators = d.iterators
         /\ ExitFor(c).constraints = d.constraints
         /\ ExitFor(c).invariants = d.invariants
         /\ ExitFor(c).nestLevel = d.nestLevel
         /\ ExitFor(c).schedule = PopBack(PopBack(c.schedule))
<1>1. /\ d.iterators \in Seq(N)
      /\ d.constraints \in Seq(Constraints)
      /\ d.nestLevel \in Nat
      /\ d.invariants \in Seq(SUBSET STRING)
      /\ c.schedule \in Seq(ScheduleVals(N))
  BY DEF ContextSet, Constraints
<1>2. h.iter \in N /\ h.from \in STRING /\ h.lhs \in STRING /\ h.op \in Ops
      /\ h.rhs \in STRING /\ h.scalars \in SUBSET STRING /\ h.arrays \in SUBSET STRING
  BY DEF HeaderSet
<1>3. PopBack(c.iterators) = d.iterators
  BY <1>1, <1>2, PopBackAppend DEF EnterFor
<1>4. PopBack(c.invariants) = d.invariants
  <2>1. NewInvariants(d, h) \in SUBSET STRING
    BY <1>2 DEF NewInvariants
  <2> QED BY <1>1, <2>1, PopBackAppend DEF EnterFor
<1>5. PopBack(PopBack(c.constraints)) = d.constraints
  <2> DEFINE x == Constraint(h.iter, ">=", h.from)
             y == Constraint(h.lhs, h.op, h.rhs)
  <2>1. x \in Constraints /\ y \in Constraints
    BY <1>2 DEF Constraint, Constraints, Ops, Comparisons
  <2>2. c.constraints = d.constraints \o <<x, y>>
    BY DEF EnterFor
  <2> HIDE DEF x, y
  <2>3. d.constraints \o <<x, y>> = Append(Append(d.constraints, x), y)
    BY <1>1, <2>1
  <2>4. Append(d.constraints, x) \in Seq(Constraints)
    BY <1>1, <2>1
  <2>5. PopBack(Append(Append(d.constraints, x), y)) = Append(d.constraints, x)
    BY <2>1, <2>4, PopBackAppend
  <2>6. PopBack(Append(d.constraints, x)) = d.constraints
    BY <1>1, <2>1, PopBackAppend
  <2> QED BY <2>2, <2>3, <2>5, <2>6
<1>6. c.nestLevel - 1 = d.nestLevel
  BY <1>1 DEF EnterFor
<1>7. PopBack(PopBack(c.schedule)) \in Seq(ScheduleVals(N))
  <2>1. c.schedule # << >>
    OBVIOUS
  <2>2. PopBack(c.schedule) \in Seq(ScheduleVals(N))
        /\ Len(PopBack(c.schedule)) = Len(c.schedule) - 1
    BY <1>1, <2>1, PopBackProperties
  <2>3. PopBack(c.schedule) # << >>
    BY <1>1, <2>2
  <2> QED BY <2>2, <2>3, PopBackProperties
<1> QED
  BY <1>1, <1>3, <1>4, <1>5, <1>6, <1>7
  DEF ExitFor, PopValue, ContextSet, Constraints

(* exitIf finds again the scopes enterIf found, and keeps the schedule. *)
LEMMA ExitIfUndoes ==
  ASSUME NEW N, NEW d \in ContextSet(N), NEW cond \in CondSet,
         NEW c \in ContextSet(N),
         c.iterators = EnterIf(d, cond).iterators,
         c.constraints = EnterIf(d, cond).constraints,
         c.invariants = EnterIf(d, cond).invariants,
         c.nestLevel = EnterIf(d, cond).nestLevel
  PROVE  /\ ExitIf(c) \in ContextSet(N)
         /\ ExitIf(c).iterators = d.iterators
         /\ ExitIf(c).constraints = d.constraints
         /\ ExitIf(c).invariants = d.invariants
         /\ ExitIf(c).nestLevel = d.nestLevel
         /\ ExitIf(c).schedule = c.schedule
<1>1. d.constraints \in Seq(Constraints) /\ d.nestLevel \in Nat
  BY DEF ContextSet, Constraints
<1>2. Constraint(cond.lhs, cond.op, cond.rhs) \in Constraints
  BY DEF CondSet, Constraint, Constraints
<1>3. PopBack(c.constraints) = d.constraints
  <2>1. c.constraints = Append(d.constraints, Constraint(cond.lhs, cond.op, cond.rhs))
    BY DEF EnterIf, ContextSet
  <2> QED BY <1>1, <1>2, <2>1, PopBackAppend
<1>4. c.nestLevel - 1 = d.nestLevel
  BY <1>1 DEF EnterIf, ContextSet
<1>5. c.iterators = d.iterators /\ c.invariants = d.invariants
  BY DEF EnterIf, ContextSet
<1> QED BY <1>1, <1>3, <1>4, <1>5 DEF ExitIf, ContextSet, Constraints

(***************************************************************************)
(* The shape of a schedule under the operations on it.                     *)
(***************************************************************************)
LEMMA ShapeKept ==
  ASSUME NEW s, NEW u, NEW T, NEW iters \in Seq(T), Shape(s, iters),
         Len(u) \in {2 * Len(iters), 2 * Len(iters) + 1},
         \A i \in 1 .. 2 * Len(iters) : u[i] = s[i],
         Len(u) = 2 * Len(iters) + 1 => ~u[2 * Len(iters) + 1].valueIsVar
  PROVE  Shape(u, iters)
<1> DEFINE n == Len(iters)
<1>1. n \in Nat /\ Len(s) \in {2 * n, 2 * n + 1}
  BY DEF Shape
<1>2. ASSUME NEW k \in 1 .. n PROVE u[2 * k] = Var(iters[k])
  <2>1. 2 * k \in 1 .. 2 * n
    BY <1>1
  <2> QED BY <2>1 DEF Shape
<1>3. ASSUME NEW k \in 0 .. n, 2 * k < Len(u) PROVE ~u[2 * k + 1].valueIsVar
  <2>1. CASE k = n
    <3>1. Len(u) = 2 * n + 1
      BY <1>1, <1>3, <2>1
    <3> QED BY <2>1, <3>1
  <2>2. CASE k # n
    <3>1. 2 * k + 1 \in 1 .. 2 * n /\ 2 * k < Len(s)
      BY <1>1, <2>2
    <3>2. ~s[2 * k + 1].valueIsVar
      BY <3>1 DEF Shape
    <3>3. u[2 * k + 1] = s[2 * k + 1]
      BY <3>1
    <3> QED BY <3>2, <3>3
  <2> QED BY <2>1, <2>2
<1> QED BY <1>2, <1>3 DEF Shape

(* Another number in the last position keeps the shape (skipToPosition). *)
LEMMA ShapeReplace ==
  ASSUME NEW S, NEW s \in Seq(S), NEW T, NEW iters \in Seq(T),
         NEW m, Shape(s, iters), Len(s) = 2 * Len(iters) + 1
  PROVE  /\ Shape(Append(PopBack(s), Num(m)), iters)
         /\ Len(Append(PopBack(s), Num(m))) = 2 * Len(iters) + 1
<1> DEFINE u == Append(PopBack(s), Num(m))
           n == Len(iters)
<1>1. n \in Nat /\ s # << >>
  OBVIOUS
<1>2. /\ PopBack(s) \in Seq(S)
      /\ Len(PopBack(s)) = Len(s) - 1
      /\ \A i \in 1 .. Len(s) - 1 : PopBack(s)[i] = s[i]
  BY <1>1, PopBackProperties
<1>3. /\ Len(u) = 2 * n + 1
      /\ \A i \in 1 .. 2 * n : u[i] = s[i]
      /\ u[2 * n + 1] = Num(m)
  BY <1>1, <1>2
<1>4. ~u[2 * n + 1].valueIsVar
  BY <1>3 DEF Num
<1> HIDE DEF u
<1>5. Shape(u, iters)
  BY <1>3, <1>4, ShapeKept
<1> QED BY <1>3, <1>5 DEF u

(* advanceSchedule keeps the shape, and ends the schedule in a position. *)
LEMMA ShapeAdvance ==
  ASSUME NEW S, NEW s \in Seq(S), NEW T, NEW iters \in Seq(T), Shape(s, iters)
  PROVE  /\ Shape(AdvanceSchedule(s), iters)
         /\ Len(AdvanceSchedule(s)) = 2 * Len(iters) + 1
<1> DEFINE n == Len(iters)
<1>1. n \in Nat /\ Len(s) \in Nat
  OBVIOUS
<1>2. CASE Len(s) = 2 * n
  <2> DEFINE u == Append(s, Num(0))
  <2>1. s = << >> \/ Back(s).valueIsVar
    <3>1. CASE n = 0
      BY <1>2, <3>1
    <3>2. CASE n # 0
      <4>1. s[2 * n] = Var(iters[n])
        BY <1>1, <3>2 DEF Shape
      <4> QED BY <1>2, <4>1 DEF Back, Var
    <3> QED BY <3>1, <3>2
  <2>2. AdvanceSchedule(s) = u
    BY <2>1 DEF AdvanceSchedule
  <2>3. /\ Len(u) = 2 * n + 1
        /\ \A i \in 1 .. 2 * n : u[i] = s[i]
        /\ u[2 * n + 1] = Num(0)
    BY <1>1, <1>2
  <2>4. ~u[2 * n + 1].valueIsVar
    BY <2>3 DEF Num
  <2> HIDE DEF u
  <2>5. Shape(u, iters)
    BY <2>3, <2>4, ShapeKept
  <2> QED BY <2>2, <2>3, <2>5
<1>3. CASE Len(s) = 2 * n + 1
  <2>1. ~s[2 * n + 1].valueIsVar
    BY <1>1, <1>3 DEF Shape
  <2>2. s # << >> /\ ~Back(s).valueIsVar
    BY <1>1, <1>3, <2>1 DEF Back
  <2>3. AdvanceSchedule(s) = Append(PopBack(s), Num(Back(s).num + 1))
    BY <2>2 DEF AdvanceSchedule
  <2> QED BY <1>3, <2>3, ShapeReplace
<1> QED BY <1>2, <1>3 DEF Shape

(* enterFor's pushValue keeps the shape, with the iterator it adds. *)
LEMMA ShapePush ==
  ASSUME NEW S, NEW s \in Seq(S), NEW T, NEW iters \in Seq(T), NEW v \in T,
         Var(v) \in S, Shape(s, iters), Len(s) = 2 * Len(iters) + 1
  PROVE  Shape(PushValue(s, Var(v)), Append(iters, v))
<1> DEFINE u == Append(s, Var(v))
           new == Append(iters, v)
           n == Len(iters)
<1>1. n \in Nat
  OBVIOUS
<1>2. /\ Len(u) = 2 * n + 2
      /\ \A i \in 1 .. 2 * n + 1 : u[i] = s[i]
      /\ u[2 * n + 2] = Var(v)
  BY <1>1
<1>3. /\ Len(new) = n + 1
      /\ \A i \in 1 .. n : new[i] = iters[i]
      /\ new[n + 1] = v
  OBVIOUS
<1> HIDE DEF u, new
<1>4. ASSUME NEW k \in 1 .. n + 1 PROVE u[2 * k] = Var(new[k])
  <2>1. CASE k = n + 1
    <3>1. 2 * k = 2 * n + 2
      BY <1>1, <2>1
    <3> QED BY <1>2, <1>3, <2>1, <3>1
  <2>2. CASE k # n + 1
    <3>1. k \in 1 .. n /\ 2 * k \in 1 .. 2 * n + 1
      BY <1>1, <2>2
    <3>2. s[2 * k] = Var(iters[k])
      BY <3>1 DEF Shape
    <3> QED BY <1>2, <1>3, <3>1, <3>2
  <2> QED BY <2>1, <2>2
<1>5. ASSUME NEW k \in 0 .. n + 1, 2 * k < Len(u) PROVE ~u[2 * k + 1].valueIsVar
  <2>1. k \in 0 .. n /\ 2 * k < Len(s) /\ 2 * k + 1 \in 1 .. 2 * n + 1
    BY <1>1, <1>2, <1>5
  <2>2. ~s[2 * k + 1].valueIsVar
    BY <2>1 DEF Shape
  <2>3. u[2 * k + 1] = s[2 * k + 1]
    BY <1>2, <2>1
  <2> QED BY <2>2, <2>3
<1>6. Len(u) \in {2 * Len(new), 2 * Len(new) + 1}
  BY <1>1, <1>2, <1>3
<1>7. Shape(u, new)
  BY <1>3, <1>4, <1>5, <1>6 DEF Shape
<1> QED BY <1>7 DEF PushValue, u, new

(* exitFor's two pops, one iterator gone, keep the shape. *)
LEMMA ShapePop ==
  ASSUME NEW S, NEW s \in Seq(S), NEW T, NEW iters \in Seq(T),
         Shape(s, iters), iters # << >>
  PROVE  /\ Len(s) >= 2
         /\ Shape(PopBack(PopBack(s)), PopBack(iters))
         /\ Len(PopBack(PopBack(s))) = Len(s) - 2
         /\ \A i \in 1 .. Len(s) - 2 : PopBack(PopBack(s))[i] = s[i]
<1> DEFINE n == Len(iters)
           p == PopBack(s)
           u == PopBack(p)
           old == PopBack(iters)
<1>1. n \in Nat /\ n >= 1 /\ Len(s) \in {2 * n, 2 * n + 1}
  BY PopBackProperties DEF Shape
<1>2. Len(s) >= 2 /\ Len(s) \in Nat
  BY <1>1
<1>3. s # << >>
  BY <1>2
<1>4. p \in Seq(S) /\ Len(p) = Len(s) - 1 /\ \A i \in 1 .. Len(s) - 1 : p[i] = s[i]
  BY <1>3, PopBackProperties
<1> HIDE DEF p
<1>5. Len(u) = Len(s) - 2 /\ \A i \in 1 .. Len(s) - 2 : u[i] = s[i]
  <2>1. Len(p) >= 1
    BY <1>2, <1>4
  <2>2. p # << >>
    BY <2>1
  <2>3. Len(u) = Len(p) - 1 /\ \A i \in 1 .. Len(p) - 1 : u[i] = p[i]
    BY <1>4, <2>2, PopBackProperties
  <2> QED BY <1>2, <1>4, <2>3
<1>6. Len(old) = n - 1 /\ \A i \in 1 .. n - 1 : old[i] = iters[i]
  BY PopBackProperties
<1> HIDE DEF u, old
<1>7. ASSUME NEW k \in 1 .. n - 1 PROVE u[2 * k] = Var(old[k])
  <2>1. k \in 1 .. n /\ 2 * k \in 1 .. Len(s) - 2
    BY <1>1
  <2>2. s[2 * k] = Var(iters[k])
    BY <2>1 DEF Shape
  <2> QED BY <1>5, <1>6, <2>1, <2>2
<1>8. ASSUME NEW k \in 0 .. n - 1, 2 * k < Len(u) PROVE ~u[2 * k + 1].valueIsVar
  <2>1. k \in 0 .. n /\ 2 * k < Len(s) /\ 2 * k + 1 \in 1 .. Len(s) - 2
    BY <1>1, <1>5, <1>8
  <2>2. ~s[2 * k + 1].valueIsVar
    BY <2>1 DEF Shape
  <2> QED BY <1>5, <2>1, <2>2
<1>9. Len(u) \in {2 * (n - 1), 2 * (n - 1) + 1}
  BY <1>1, <1>5
<1>10. Shape(u, old)
  BY <1>6, <1>7, <1>8, <1>9 DEF Shape
<1> QED BY <1>2, <1>5, <1>10 DEF u, p, old

-------------------------------------------------------------------------------
(***************************************************************************)
(* Contexts in step with the open structures.                              *)
(***************************************************************************)

(* Balance depends on the scopes of a context alone. *)
LEMMA BalancedSame ==
  ASSUME NEW c, NEW d, NEW o, Balanced(c, o), SameScopes(d, c)
  PROVE  Balanced(d, o)
BY DEF Balanced, SameScopes

(* Entering a structure from a balanced context leaves it balanced. *)
LEMMA BalancedPush ==
  ASSUME NEW c, NEW d, NEW S, NEW o \in Seq(S), NEW sc \in S,
         Balanced(c, o), SameScopes(sc.at, c),
         SameScopes(d, After(sc)), d.nestLevel = Len(o) + 1
  PROVE  Balanced(d, Append(o, sc))
<1> DEFINE p == Append(o, sc)
<1>1. /\ Len(o) \in Nat
      /\ Len(p) = Len(o) + 1
      /\ \A k \in 1 .. Len(o) : p[k] = o[k]
      /\ p[Len(o) + 1] = sc
  OBVIOUS
<1> HIDE DEF p
<1>2. \A k \in 0 .. Len(o) : Outside(p, k) = Outside(o, k)
  BY <1>1 DEF Outside
<1>3. SameScopes(d, Outside(p, Len(p)))
  BY <1>1 DEF Outside
<1>4. ASSUME NEW k \in 1 .. Len(p) PROVE SameScopes(p[k].at, Outside(p, k - 1))
  <2>1. k - 1 \in 0 .. Len(o) /\ Outside(p, k - 1) = Outside(o, k - 1)
    BY <1>1, <1>2
  <2>2. CASE k = Len(o) + 1
    <3>1. p[k].at = sc.at /\ k - 1 = Len(o)
      BY <1>1, <2>2
    <3> QED BY <2>1, <3>1 DEF Balanced, SameScopes
  <2>3. CASE k # Len(o) + 1
    <3>1. k \in 1 .. Len(o) /\ p[k] = o[k]
      BY <1>1, <2>3
    <3> QED BY <2>1, <3>1 DEF Balanced
  <2> QED BY <2>2, <2>3
<1>5. d.nestLevel = Len(p)
  BY <1>1
<1> QED BY <1>3, <1>4, <1>5 DEF Balanced, p

(* So does leaving the innermost one, if the context it was entered in is *)
(* found again.                                                           *)
LEMMA BalancedPop ==
  ASSUME NEW c, NEW d, NEW S, NEW o \in Seq(S), o # << >>,
         Balanced(c, o), SameScopes(d, Back(o).at), d.nestLevel + 1 = c.nestLevel,
         d.nestLevel \in Nat
  PROVE  Balanced(d, PopBack(o))
<1> DEFINE p == PopBack(o)
<1>1. /\ Len(o) \in Nat /\ Len(o) >= 1
      /\ Len(p) = Len(o) - 1
      /\ \A k \in 1 .. Len(o) - 1 : p[k] = o[k]
  <2>1. /\ Len(o) \in Nat \ {0}
        /\ Len(p) = Len(o) - 1
        /\ \A k \in 1 .. Len(o) - 1 : p[k] = o[k]
    BY PopBackProperties
  <2>2. \A n \in Nat \ {0} : n \in Nat /\ n >= 1
    OBVIOUS
  <2> QED BY <2>1, <2>2, Zenon
<1> HIDE DEF p
<1>2. ASSUME NEW k \in 0 .. Len(p) PROVE Outside(p, k) = Outside(o, k)
  <2>1. k = 0 \/ k \in 1 .. Len(o) - 1
    BY <1>1
  <2> QED BY <1>1, <2>1 DEF Outside
<1>3. SameScopes(d, Outside(p, Len(p)))
  <2>1. SameScopes(o[Len(o)].at, Outside(o, Len(o) - 1))
    BY <1>1 DEF Balanced
  <2>2. Outside(p, Len(p)) = Outside(o, Len(o) - 1)
    BY <1>1, <1>2
  <2> QED BY <2>1, <2>2 DEF SameScopes, Back
<1>4. ASSUME NEW k \in 1 .. Len(p) PROVE SameScopes(p[k].at, Outside(p, k - 1))
  <2>1. k \in 1 .. Len(o) /\ p[k] = o[k] /\ k - 1 \in 0 .. Len(p)
    BY <1>1
  <2>2. Outside(p, k - 1) = Outside(o, k - 1)
    BY <1>2, <2>1
  <2> QED BY <2>1, <2>2 DEF Balanced
<1>5. d.nestLevel = Len(p)
  BY <1>1 DEF Balanced
<1> QED BY <1>3, <1>4, <1>5 DEF Balanced, p

-------------------------------------------------------------------------------
(* The facts about the context that every step preserves. *)
Good(c, o) ==
  /\ c \in ContextSet(Iterators)
  /\ Shape(c.schedule, c.iterators)
  /\ Balanced(c, o)

(* A new context is good, with nothing open. *)
LEMMA GoodEmpty == Good(EmptyContext, << >>)
<1>1. EmptyContext \in ContextSet(Iterators)
  BY DEF EmptyContext, ContextSet
<1>2. Shape(<< >>, << >>)
  BY DEF Shape
<1>3. Balanced(EmptyContext, << >>)
  BY DEF Balanced, Outside, SameScopes, EmptyContext
<1> QED
  BY <1>1, <1>2, <1>3 DEF Good, EmptyContext

(* The types of a context's fields. *)
LEMMA ContextTypes ==
  ASSUME NEW c \in ContextSet(Iterators)
  PROVE  /\ c.iterators \in Seq(Iterators)
         /\ c.schedule \in Seq(Vals)
         /\ c.nestLevel \in Nat
BY DEF ContextSet, Vals

(* Advancing keeps a good context good. *)
LEMMA GoodAdvance ==
  ASSUME NEW c, NEW o, Good(c, o)
  PROVE  /\ Good(Advance(c), o)
         /\ Len(Advance(c).schedule) = 2 * Len(Advance(c).iterators) + 1
<1>1. c \in ContextSet(Iterators) /\ c.iterators \in Seq(Iterators) /\ c.schedule \in Seq(Vals)
  BY ContextTypes DEF Good
<1>2. /\ Shape(AdvanceSchedule(c.schedule), c.iterators)
      /\ Len(AdvanceSchedule(c.schedule)) = 2 * Len(c.iterators) + 1
  BY <1>1, ShapeAdvance DEF Good
<1>3. SameScopes(Advance(c), c)
  BY <1>1, AdvanceContext DEF SameScopes
<1>4. Balanced(Advance(c), o)
  BY <1>3, BalancedSame DEF Good
<1> QED BY <1>1, <1>2, <1>4, AdvanceContext DEF Good

(* Entering a for keeps a good context good. *)
LEMMA GoodEnterFor ==
  ASSUME NEW c, NEW o \in Seq(Scopes), NEW h \in Headers, Good(c, o),
         Len(c.schedule) = 2 * Len(c.iterators) + 1
  PROVE  /\ Scope("for", h, c) \in Scopes
         /\ Good(EnterFor(c, h), Append(o, Scope("for", h, c)))
<1> DEFINE sc == Scope("for", h, c)
           d == EnterFor(c, h)
<1>1. /\ c \in ContextSet(Iterators) /\ c.iterators \in Seq(Iterators)
      /\ c.schedule \in Seq(Vals) /\ c.nestLevel \in Nat
  BY ContextTypes DEF Good
<1>2. h \in HeaderSet(Iterators) /\ h.iter \in Iterators
  BY SourceAssumption DEF HeaderSet
<1>3. sc \in Scopes
  BY <1>1 DEF Scope, Scopes
<1>4. d \in ContextSet(Iterators)
  BY <1>1, <1>2, SourceAssumption, EnterForContext
<1>5. Shape(d.schedule, d.iterators)
  <2>1. Var(h.iter) \in Vals
    BY <1>2 DEF Vals, Var, ScheduleVals, VarVals
  <2>2. Shape(PushValue(c.schedule, Var(h.iter)), Append(c.iterators, h.iter))
    BY <1>1, <1>2, <2>1, ShapePush DEF Good
  <2> QED BY <2>2 DEF EnterFor
<1>6. Balanced(d, Append(o, sc))
  <2>1. SameScopes(sc.at, c)
    BY DEF Scope, SameScopes
  <2>2. SameScopes(d, After(sc))
    BY DEF Scope, After, SameScopes
  <2>3. d.nestLevel = Len(o) + 1
    BY DEF Good, Balanced, EnterFor
  <2>4. Balanced(c, o)
    BY DEF Good
  <2> HIDE DEF d, sc
  <2> QED BY <1>3, <2>1, <2>2, <2>3, <2>4, BalancedPush
<1> QED BY <1>3, <1>4, <1>5, <1>6 DEF Good

(* Entering an if or an else branch keeps a good context good. *)
LEMMA GoodEnterIf ==
  ASSUME NEW c, NEW o \in Seq(Scopes), NEW cond \in CondSet, Good(c, o),
         NEW kind \in {"then", "else"}
  PROVE  /\ Scope(kind, cond, c) \in Scopes
         /\ Good(EnterIf(c, cond), Append(o, Scope(kind, cond, c)))
         /\ EnterIf(c, cond).schedule = c.schedule
<1> DEFINE sc == Scope(kind, cond, c)
           d == EnterIf(c, cond)
<1>1. /\ c \in ContextSet(Iterators) /\ c.iterators \in Seq(Iterators)
      /\ c.schedule \in Seq(Vals) /\ c.nestLevel \in Nat
  BY ContextTypes DEF Good
<1>2. sc \in Scopes
  BY <1>1 DEF Scope, Scopes
<1>3. d \in ContextSet(Iterators)
  BY <1>1, EnterIfContext
<1>4. d.schedule = c.schedule /\ d.iterators = c.iterators
      /\ d.nestLevel = c.nestLevel + 1
  BY <1>1 DEF EnterIf, ContextSet
<1>5. Balanced(d, Append(o, sc))
  <2>1. SameScopes(sc.at, c)
    BY DEF Scope, SameScopes
  <2>2. SameScopes(d, After(sc))
    BY DEF Scope, After, SameScopes
  <2>3. d.nestLevel = Len(o) + 1
    BY <1>4 DEF Good, Balanced
  <2>4. Balanced(c, o)
    BY DEF Good
  <2> HIDE DEF d, sc
  <2> QED BY <1>2, <2>1, <2>2, <2>3, <2>4, BalancedPush
<1>6. Shape(d.schedule, d.iterators)
  BY <1>4 DEF Good
<1> QED BY <1>2, <1>3, <1>4, <1>5, <1>6 DEF Good

(* The innermost structure is a for with its header, or a branch with its *)
(* condition.                                                             *)
LEMMA BackOpen ==
  ASSUME NEW o \in Seq(Scopes), o # << >>
  PROVE  /\ Back(o) \in Scopes
         /\ PopBack(o) \in Seq(Scopes)
         /\ Len(PopBack(o)) = Len(o) - 1
         /\ Back(o).at \in ContextSet(Iterators)
         /\ Back(o).kind = "for" => Back(o).node \in Headers
         /\ Back(o).kind # "for" => Back(o).node \in CondSet
<1>1. /\ Back(o) \in Scopes
      /\ PopBack(o) \in Seq(Scopes)
      /\ Len(PopBack(o)) = Len(o) - 1
  BY PopBackProperties
<1> QED BY <1>1 DEF Scopes

(* A balanced context has the scopes of its innermost structure. *)
LEMMA BackBalanced ==
  ASSUME NEW c, NEW o \in Seq(Scopes), o # << >>, Balanced(c, o)
  PROVE  SameScopes(c, After(Back(o)))
<1>1. Len(o) # 0
  OBVIOUS
<1> QED BY <1>1 DEF Balanced, Outside, Back

(* exitFor finds the scopes the innermost for was entered in, and removes *)
(* two entries of the schedule.                                           *)
LEMMA GoodExitFor ==
  ASSUME NEW c, NEW o \in Seq(Scopes), o # << >>, Back(o).kind = "for", Good(c, o)
  PROVE  /\ Good(ExitFor(c), PopBack(o))
         /\ SameScopes(ExitFor(c), Back(o).at)
         /\ ExitFor(c).schedule = PopBack(PopBack(c.schedule))
         /\ Len(c.schedule) >= 2
         /\ c.iterators # << >>
<1> DEFINE d == Back(o).at
           h == Back(o).node
           e == ExitFor(c)
<1>1. /\ c \in ContextSet(Iterators) /\ c.iterators \in Seq(Iterators)
      /\ c.schedule \in Seq(Vals)
  BY ContextTypes DEF Good
<1>2. d \in ContextSet(Iterators) /\ h \in Headers
  BY BackOpen
<1>3. h \in HeaderSet(Iterators) /\ h.iter \in Iterators
  BY <1>2, SourceAssumption DEF HeaderSet
<1>4. d.iterators \in Seq(Iterators) /\ d.nestLevel \in Nat
  BY <1>2, ContextTypes
<1>5. SameScopes(c, EnterFor(d, h))
  BY BackBalanced DEF Good, After
<1>6. c.iterators = Append(d.iterators, h.iter) /\ c.nestLevel = d.nestLevel + 1
  BY <1>5 DEF SameScopes, EnterFor
<1>7. PopBack(c.iterators) = d.iterators /\ c.iterators # << >>
  BY <1>3, <1>4, <1>6, PopBackAppend
<1>8. /\ Len(c.schedule) >= 2
      /\ Shape(PopBack(PopBack(c.schedule)), d.iterators)
  BY <1>1, <1>7, ShapePop DEF Good
<1> HIDE DEF d, h, e
<1>9. /\ e \in ContextSet(Iterators)
      /\ SameScopes(e, d)
      /\ e.schedule = PopBack(PopBack(c.schedule))
  <2>1. /\ c.iterators = EnterFor(d, h).iterators
        /\ c.constraints = EnterFor(d, h).constraints
        /\ c.invariants = EnterFor(d, h).invariants
        /\ c.nestLevel = EnterFor(d, h).nestLevel
    BY <1>5 DEF SameScopes
  <2>2. /\ ExitFor(c) \in ContextSet(Iterators)
        /\ ExitFor(c).iterators = d.iterators
        /\ ExitFor(c).constraints = d.constraints
        /\ ExitFor(c).invariants = d.invariants
        /\ ExitFor(c).nestLevel = d.nestLevel
        /\ ExitFor(c).schedule = PopBack(PopBack(c.schedule))
    BY <1>1, <1>2, <1>3, <1>8, <2>1, SourceAssumption, ExitForUndoes
  <2> QED BY <2>2 DEF SameScopes, e
<1>10. Balanced(e, PopBack(o))
  <2>1. e.nestLevel + 1 = c.nestLevel /\ e.nestLevel \in Nat
    BY <1>4, <1>6, <1>9 DEF SameScopes
  <2>2. SameScopes(e, Back(o).at)
    BY <1>9 DEF d
  <2> QED BY <2>1, <2>2, BalancedPop DEF Good
<1>11. Shape(e.schedule, e.iterators)
  BY <1>8, <1>9 DEF SameScopes
<1>12. Good(e, PopBack(o))
  BY <1>9, <1>10, <1>11 DEF Good
<1> QED BY <1>7, <1>8, <1>9, <1>12 DEF d, e

(* exitIf finds the scopes the branch was entered in, and keeps the       *)
(* schedule.                                                              *)
LEMMA GoodExitIf ==
  ASSUME NEW c, NEW o \in Seq(Scopes), o # << >>, Back(o).kind # "for", Good(c, o)
  PROVE  /\ Good(ExitIf(c), PopBack(o))
         /\ ExitIf(c).schedule = c.schedule
<1> DEFINE d == Back(o).at
           h == Back(o).node
           e == ExitIf(c)
<1>1. c \in ContextSet(Iterators)
  BY DEF Good
<1>2. d \in ContextSet(Iterators) /\ h \in CondSet
  BY BackOpen
<1>3. d.nestLevel \in Nat
  BY <1>2, ContextTypes
<1>4. SameScopes(c, EnterIf(d, h))
  BY BackBalanced DEF Good, After
<1>5. EnterIf(d, h).nestLevel = d.nestLevel + 1 /\ EnterIf(d, h).iterators = d.iterators
  BY <1>2 DEF EnterIf, ContextSet
<1> HIDE DEF d, h, e
<1>6. /\ e \in ContextSet(Iterators)
      /\ SameScopes(e, d)
      /\ e.schedule = c.schedule
  <2>1. /\ c.iterators = EnterIf(d, h).iterators
        /\ c.constraints = EnterIf(d, h).constraints
        /\ c.invariants = EnterIf(d, h).invariants
        /\ c.nestLevel = EnterIf(d, h).nestLevel
    BY <1>4 DEF SameScopes
  <2>2. /\ ExitIf(c) \in ContextSet(Iterators)
        /\ ExitIf(c).iterators = d.iterators
        /\ ExitIf(c).constraints = d.constraints
        /\ ExitIf(c).invariants = d.invariants
        /\ ExitIf(c).nestLevel = d.nestLevel
        /\ ExitIf(c).schedule = c.schedule
    BY <1>1, <1>2, <2>1, ExitIfUndoes
  <2> QED BY <2>2 DEF SameScopes, e
<1>7. Balanced(e, PopBack(o))
  <2>1. e.nestLevel + 1 = c.nestLevel /\ e.nestLevel \in Nat
    BY <1>3, <1>4, <1>5, <1>6 DEF SameScopes
  <2>2. SameScopes(e, Back(o).at)
    BY <1>6 DEF d
  <2> QED BY <2>1, <2>2, BalancedPop DEF Good
<1>8. Shape(e.schedule, e.iterators)
  BY <1>4, <1>5, <1>6 DEF SameScopes, Good
<1>9. Good(e, PopBack(o))
  BY <1>6, <1>7, <1>8 DEF Good
<1> QED BY <1>6, <1>9 DEF e

-------------------------------------------------------------------------------
(* Where an inlined block goes. *)

(* The statements of a block, in order or not. *)
LEMMA FormedFacts ==
  ASSUME NEW b, IsFormed(b)
  PROVE  /\ b \in Seq(Seq(Vals))
         /\ Len(b) \in Nat
         /\ \A i \in 1 .. Len(b) : /\ b[i] \in Seq(Vals)
                                   /\ b[i] # << >>
                                   /\ Len(b[i]) \in Nat \ {0}
                                   /\ b[i][1].num \in Nat
                                   /\ ~b[i][1].valueIsVar
<1>1. b \in Seq(Seq(Vals)) /\ Len(b) \in Nat
  BY DEF IsFormed
<1>2. ASSUME NEW i \in 1 .. Len(b)
      PROVE  /\ b[i] \in Seq(Vals)
             /\ b[i] # << >>
             /\ Len(b[i]) \in Nat \ {0}
             /\ b[i][1].num \in Nat
             /\ ~b[i][1].valueIsVar
  <2>1. b[i] \in Seq(Vals) /\ b[i] # << >> /\ b[i][1] \in NumVals
    BY <1>1 DEF IsFormed
  <2>2. Len(b[i]) \in Nat \ {0}
    BY <2>1, EmptySeq
  <2> QED BY <2>1, <2>2 DEF NumVals
<1> QED BY <1>1, <1>2

(* The same of a block. *)
LEMMA BlockFacts ==
  ASSUME NEW b, IsBlock(b)
  PROVE  /\ b \in Seq(Seq(Vals))
         /\ Len(b) \in Nat
         /\ \A i \in 1 .. Len(b) : /\ b[i] \in Seq(Vals)
                                   /\ b[i] # << >>
                                   /\ Len(b[i]) \in Nat \ {0}
                                   /\ b[i][1].num \in Nat
                                   /\ ~b[i][1].valueIsVar
         /\ InScheduleOrder(b)
BY FormedFacts DEF IsBlock

(* The last statement of a block begins at its last position. *)
LEMMA BlockEnd ==
  ASSUME NEW b, IsBlock(b), NEW i \in 1 .. Len(b)
  PROVE  b[i][1].num <= b[Len(b)][1].num
<1>1. /\ Len(b) \in Nat
      /\ b[i][1].num \in Nat
      /\ Len(b) \in 1 .. Len(b) /\ b[Len(b)][1].num \in Nat
  BY BlockFacts
<1>2. CASE i = Len(b)
  BY <1>1, <1>2
<1>3. CASE i # Len(b)
  <2>1. Before(b[i], b[Len(b)])
    BY <1>1, <1>3, BlockFacts DEF InScheduleOrder
  <2>2. PICK d \in 1 .. Len(b[i]) :
          /\ \A k \in 1 .. d - 1 : b[i][k] = b[Len(b)][k]
          /\ b[i][d].num < b[Len(b)][d].num
    BY <2>1 DEF Before
  <2>3. CASE d = 1
    BY <1>1, <2>2, <2>3
  <2>4. CASE d # 1
    <3>1. 1 \in 1 .. d - 1
      BY <2>4
    <3>2. b[i][1] = b[Len(b)][1]
      BY <2>2, <3>1
    <3> QED BY <1>1, <3>2
  <2> QED BY <2>3, <2>4
<1> QED BY <1>2, <1>3

(* appendComputation returns a position, or none if there is none yet. *)
LEMMA TuplePositionType ==
  ASSUME NEW b, IsFormed(b), NEW s, Back(s).num \in Nat,
         NEW last \in TuplePositions(s, b)
  PROVE  last \in Int /\ last + 1 \in Nat
<1>1. CASE b = << >>
  <2>1. last \in {Back(s).num - 1, Back(s).num}
    BY <1>1 DEF TuplePositions
  <2> QED BY <2>1
<1>2. CASE b # << >>
  <2>1. last = Back(s).num + b[Len(b)][1].num
    BY <1>2 DEF TuplePositions
  <2>2. Len(b) \in 1 .. Len(b)
    BY <1>2, FormedFacts
  <2>3. b[Len(b)][1].num \in Nat
    BY <2>2, FormedFacts
  <2> QED BY <2>1, <2>3
<1> QED BY <1>1, <1>2

(* The position after it is behind no position of the block. *)
LEMMA TuplePositionFacts ==
  ASSUME NEW b, IsBlock(b), NEW s, Back(s).num \in Nat,
         NEW last \in TuplePositions(s, b)
  PROVE  /\ last \in Int
         /\ last + 1 \in Nat
         /\ last + 1 >= Back(s).num
         /\ \A i \in 1 .. Len(b) : Back(s).num + b[i][1].num < last + 1
<1>1. CASE b = << >>
  <2>1. last \in {Back(s).num - 1, Back(s).num}
    BY <1>1 DEF TuplePositions
  <2>2. Len(b) = 0
    BY <1>1
  <2> QED BY <2>1, <2>2
<1>2. CASE b # << >>
  <2>1. last = Back(s).num + b[Len(b)][1].num
    BY <1>2 DEF TuplePositions
  <2>2. Len(b) \in 1 .. Len(b)
    BY <1>2, BlockFacts
  <2>3. b[Len(b)][1].num \in Nat
    BY <2>2, BlockFacts
  <2>4. ASSUME NEW i \in 1 .. Len(b)
        PROVE  Back(s).num + b[i][1].num < last + 1
    <3>1. b[i][1].num \in Nat /\ b[i][1].num <= b[Len(b)][1].num
      BY BlockFacts, BlockEnd
    <3> QED BY <2>1, <2>3, <3>1
  <2> QED BY <2>1, <2>3, <2>4
<1> QED BY <1>1, <1>2

(* One statement of a block placed at schedule s. *)
Placed(s, e) == PopBack(s) \o << Num(Back(s).num + e[1].num) >> \o Tail(e)

(* The schedule of one placed statement, entry by entry. *)
LEMMA PlacedFacts ==
  ASSUME NEW s \in Seq(Vals), s # << >>, ~Back(s).valueIsVar,
         NEW e \in Seq(Vals), e # << >>, e[1].num \in Nat
  PROVE  /\ Placed(s, e) \in Seq(Vals)
         /\ Len(Placed(s, e)) = Len(s) + Len(e) - 1
         /\ \A k \in 1 .. Len(s) - 1 : Placed(s, e)[k] = s[k]
         /\ Placed(s, e)[Len(s)] = Num(Back(s).num + e[1].num)
         /\ \A k \in 2 .. Len(e) : Placed(s, e)[Len(s) + k - 1] = e[k]
<1> DEFINE n == Num(Back(s).num + e[1].num)
           x == PopBack(s)
           y == Append(x, n)
           z == Tail(e)
<1>1. /\ x \in Seq(Vals)
      /\ Len(x) = Len(s) - 1
      /\ \A k \in 1 .. Len(s) - 1 : x[k] = s[k]
      /\ Len(s) \in Nat \ {0}
      /\ Back(s) \in Vals
  BY PopBackProperties
<1>2. Back(s).num \in Nat
  BY <1>1, ValCases DEF Vals
<1>3. n \in Vals
  <2>1. Back(s).num + e[1].num \in Nat
    BY <1>2
  <2> QED BY <2>1 DEF Num, Vals, ScheduleVals, NumVals
<1>4. /\ z \in Seq(Vals)
      /\ Len(z) = Len(e) - 1
      /\ \A k \in 1 .. Len(z) : z[k] = e[k + 1]
      /\ Len(e) \in Nat
  BY HeadTailProperties
<1>5. Placed(s, e) = x \o <<n>> \o z
  BY DEF Placed
<1> HIDE DEF n, x, z
<1>6. /\ y \in Seq(Vals) /\ x \o <<n>> = y
      /\ Len(y) = Len(s)
      /\ \A k \in 1 .. Len(s) - 1 : y[k] = s[k]
      /\ y[Len(s)] = n
  BY <1>1, <1>3
<1> HIDE DEF y
<1>7. /\ y \o z \in Seq(Vals)
      /\ Len(y \o z) = Len(y) + Len(z)
      /\ \A i \in 1 .. Len(y) + Len(z) :
           (y \o z)[i] = IF i <= Len(y) THEN y[i] ELSE z[i - Len(y)]
  <2>1. y \in Seq(Vals) /\ z \in Seq(Vals)
    BY <1>4, <1>6
  <2> QED BY <2>1, ConcatProperties, Zenon
<1>8. Placed(s, e) = y \o z
  BY <1>5, <1>6
<1>9. \A k \in 1 .. Len(s) : Placed(s, e)[k] = y[k]
  BY <1>1, <1>4, <1>6, <1>7, <1>8
<1>10. ASSUME NEW k \in 2 .. Len(e) PROVE Placed(s, e)[Len(s) + k - 1] = e[k]
  <2>1. /\ Len(s) + k - 1 \in 1 .. Len(y) + Len(z)
        /\ ~(Len(s) + k - 1 <= Len(y))
        /\ Len(s) + k - 1 - Len(y) = k - 1
        /\ k - 1 \in 1 .. Len(z)
    BY <1>1, <1>4, <1>6
  <2>2. z[k - 1] = e[k]
    BY <1>4, <2>1
  <2> QED BY <1>7, <1>8, <2>1, <2>2
<1>11. Len(Placed(s, e)) = Len(s) + Len(e) - 1
  BY <1>1, <1>4, <1>6, <1>7, <1>8
<1>12. Placed(s, e)[Len(s)] = n
  BY <1>1, <1>6, <1>9
<1> QED BY <1>1, <1>6, <1>7, <1>8, <1>9, <1>10, <1>11, <1>12 DEF n

(* A placed block is the sequence of its placed statements. *)
LEMMA PlaceFacts ==
  ASSUME NEW b, IsFormed(b), NEW s \in Seq(Vals), s # << >>, ~Back(s).valueIsVar
  PROVE  /\ Place(s, b) \in Seq(Seq(Vals))
         /\ Len(Place(s, b)) = Len(b)
         /\ \A i \in 1 .. Len(b) : Place(s, b)[i] = Placed(s, b[i])
<1>1. Len(b) \in Nat
  BY FormedFacts
<1>2. Place(s, b) = [i \in 1 .. Len(b) |-> Placed(s, b[i])]
  BY DEF Place, Placed
<1>3. \A i \in 1 .. Len(b) : Placed(s, b[i]) \in Seq(Vals)
  BY FormedFacts, PlacedFacts
<1>4. Place(s, b) \in [1 .. Len(b) -> Seq(Vals)]
  BY <1>2, <1>3
<1>5. Place(s, b) \in Seq(Seq(Vals))
  BY <1>1, <1>4, SeqDef
<1>6. DOMAIN Place(s, b) = 1 .. Len(b)
  BY <1>4
<1>7. Len(Place(s, b)) = Len(b)
  <2>1. Len(Place(s, b)) \in Nat /\ DOMAIN Place(s, b) = 1 .. Len(Place(s, b))
    BY <1>5, LenProperties
  <2>2. \A m, n \in Nat : 1 .. m = 1 .. n => m = n
    OBVIOUS
  <2> QED BY <1>1, <1>6, <2>1, <2>2
<1> QED BY <1>2, <1>5, <1>7

(* The context at the end of inlineFunctionCall. *)
LEMMA GoodInline ==
  ASSUME NEW c, NEW o, Good(c, o), Len(c.schedule) = 2 * Len(c.iterators) + 1,
         NEW last \in Int, last + 1 \in Nat
  PROVE  LET d == Advance(SkipTo(c, last)) IN
           /\ Good(d, o)
           /\ Len(d.schedule) = 2 * Len(d.iterators) + 1
           /\ d.schedule = Append(PopBack(c.schedule), Num(last + 1))
<1> DEFINE s == c.schedule
           X == Append(PopBack(s), Num(last))
           Y == Append(PopBack(s), Num(last + 1))
           W == Vals \cup {Num(last)}
           d == Advance(SkipTo(c, last))
<1>1. /\ c \in ContextSet(Iterators) /\ c.iterators \in Seq(Iterators)
      /\ s \in Seq(Vals)
  BY ContextTypes DEF Good
<1>2. s # << >>
  BY <1>1
<1>3. PopBack(s) \in Seq(Vals)
  BY <1>1, <1>2, PopBackProperties
<1>4. PopBack(s) \in Seq(W)
  BY <1>3, SeqMonotonic
<1>5. PopBack(X) = PopBack(s)
  BY <1>4, PopBackAppend
<1>6. X # << >> /\ Back(X) = Num(last)
  BY <1>4 DEF Back
<1>7. AdvanceSchedule(X) = Y
  <2>1. ~Back(X).valueIsVar /\ Back(X).num = last
    BY <1>6 DEF Num
  <2> HIDE DEF X
  <2>2. AdvanceSchedule(X) = Append(PopBack(X), Num(Back(X).num + 1))
    BY <1>6, <2>1 DEF AdvanceSchedule
  <2> QED BY <1>5, <2>1, <2>2
<1>8. Shape(Y, c.iterators) /\ Len(Y) = 2 * Len(c.iterators) + 1
  BY <1>1, ShapeReplace DEF Good
<1>9. Y \in Seq(Vals)
  <2>1. Num(last + 1) \in Vals
    BY DEF Num, Vals, ScheduleVals, NumVals
  <2> QED BY <1>3, <2>1
<1> HIDE DEF X, Y
<1>10. SkipTo(c, last) = [c EXCEPT !.schedule = X]
  BY DEF SkipTo, SkipToPosition, X
<1>11. d = [c EXCEPT !.schedule = Y]
  <2>1. [c EXCEPT !.schedule = X].schedule = X
    BY <1>1 DEF ContextSet
  <2>2. d = [[c EXCEPT !.schedule = X] EXCEPT !.schedule = Y]
    BY <1>7, <1>10, <2>1 DEF Advance
  <2> QED BY <1>1, <2>2 DEF ContextSet
<1> HIDE DEF d
<1>12. /\ d \in ContextSet(Iterators)
       /\ d.schedule = Y
       /\ SameScopes(d, c)
  BY <1>1, <1>9, <1>11 DEF ContextSet, Vals, SameScopes
<1>13. Balanced(d, o)
  BY <1>12, BalancedSame DEF Good
<1>14. Good(d, o) /\ Len(d.schedule) = 2 * Len(d.iterators) + 1
  BY <1>8, <1>12, <1>13 DEF Good, SameScopes
<1> QED BY <1>12, <1>14 DEF d, Y

-------------------------------------------------------------------------------
(* A witness for Before. *)
LEMMA SomeBefore ==
  ASSUME NEW s \in Seq(Vals), NEW t \in Seq(Vals), NEW d \in 1 .. Len(s),
         d <= Len(t), \A k \in 1 .. d - 1 : s[k] = t[k],
         ~s[d].valueIsVar, ~t[d].valueIsVar, s[d].num < t[d].num
  PROVE  Before(s, t)
BY DEF Before

(* A witness for Passed. *)
LEMMA SomePassed ==
  ASSUME NEW s, NEW t, NEW d \in 1 .. Len(t), d <= Len(s),
         \A k \in 1 .. d - 1 : s[k] = t[k],
         ~s[d].valueIsVar, ~t[d].valueIsVar, s[d].num < t[d].num
  PROVE  Passed(s, t)
BY DEF Passed

(* The builder has passed the statement at its own schedule. *)
LEMMA PassedSelf ==
  ASSUME NEW t \in Seq(Vals), t # << >>, ~Back(t).valueIsVar
  PROVE  Passed(t, t)
<1>1. Len(t) \in 1 .. Len(t)
  OBVIOUS
<1> QED BY <1>1 DEF Passed, Back

(* Leaving a loop, from behind its last position. *)
LEMMA PassedPop ==
  ASSUME NEW s \in Seq(Vals), NEW t \in Seq(Vals), NEW iters \in Seq(Iterators),
         Shape(t, iters), iters # << >>, Len(t) = 2 * Len(iters) + 1,
         Passed(s, t)
  PROVE  Passed(s, PopBack(PopBack(t)))
<1> DEFINE n == Len(iters)
           u == PopBack(PopBack(t))
<1>1. n \in Nat /\ n >= 1
  OBVIOUS
<1>2. Len(u) = 2 * n - 1 /\ \A i \in 1 .. 2 * n - 1 : u[i] = t[i]
  <2>1. Len(u) = Len(t) - 2 /\ \A i \in 1 .. Len(t) - 2 : u[i] = t[i]
    BY ShapePop
  <2>2. Len(t) - 2 = 2 * n - 1
    BY <1>1
  <2> QED BY <2>1, <2>2
<1> HIDE DEF u
<1>3. PICK d \in 1 .. Len(t) :
        /\ d <= Len(s)
        /\ \A k \in 1 .. d - 1 : s[k] = t[k]
        /\ ~s[d].valueIsVar
        /\ ~t[d].valueIsVar
        /\ \/ s[d].num < t[d].num
           \/ d = Len(t) /\ s[d].num = t[d].num
  BY DEF Passed
<1>4. d # 2 * n
  <2>1. t[2 * n] = Var(iters[n])
    BY <1>1 DEF Shape
  <2> QED BY <1>3, <2>1 DEF Var
<1>5. ASSUME d <= 2 * n - 1 PROVE Passed(s, u)
  <2>1. d \in 1 .. Len(u) /\ d # Len(t) /\ u[d] = t[d]
    BY <1>1, <1>2, <1>5
  <2>2. \A k \in 1 .. d - 1 : s[k] = u[k]
    BY <1>1, <1>2, <1>3, <1>5
  <2>3. s[d].num < u[d].num /\ ~u[d].valueIsVar
    BY <1>3, <2>1
  <2> QED BY <1>3, <2>1, <2>2, <2>3, SomePassed
<1>6. ASSUME d = 2 * n + 1 PROVE Passed(s, u)
  <2> DEFINE e == 2 * n - 1
  <2>1. e \in 1 .. Len(u) /\ e <= Len(s) /\ e \in 1 .. d - 1 /\ e = Len(u)
    BY <1>1, <1>2, <1>3, <1>6
  <2>2. s[e] = t[e] /\ u[e] = t[e]
    BY <1>2, <1>3, <2>1
  <2>3. ~t[e].valueIsVar
    <3>1. n - 1 \in 0 .. n /\ 2 * (n - 1) < Len(t) /\ 2 * (n - 1) + 1 = e
      BY <1>1
    <3>2. ~t[2 * (n - 1) + 1].valueIsVar
      BY <3>1 DEF Shape
    <3> QED BY <3>1, <3>2
  <2>4. \A k \in 1 .. e - 1 : s[k] = u[k]
    BY <1>1, <1>2, <1>3, <1>6
  <2> HIDE DEF e
  <2> QED BY <2>1, <2>2, <2>3, <2>4 DEF Passed
<1>7. d <= 2 * n - 1 \/ d = 2 * n \/ d = 2 * n + 1
  BY <1>1
<1> QED BY <1>4, <1>5, <1>6, <1>7 DEF u

(* What was before a position is before a later one in its place, and      *)
(* before any schedule that continues a later one.                         *)
LEMMA BeforeLater ==
  ASSUME NEW s \in Seq(Vals), NEW t \in Seq(Vals), Before(s, t),
         t # << >>, ~Back(t).valueIsVar,
         NEW u \in Seq(Vals), NEW m \in Nat, Back(t).num <= m,
         Len(t) <= Len(u), u[Len(t)] = Num(m),
         \A k \in 1 .. Len(t) - 1 : u[k] = t[k]
  PROVE  Before(s, u)
<1>1. Len(t) \in Nat /\ Len(t) >= 1 /\ Len(s) \in Nat /\ Len(u) \in Nat
  OBVIOUS
<1>2. PICK d \in 1 .. Len(s) :
        /\ d <= Len(t)
        /\ \A k \in 1 .. d - 1 : s[k] = t[k]
        /\ ~s[d].valueIsVar
        /\ ~t[d].valueIsVar
        /\ s[d].num < t[d].num
  BY DEF Before
<1>3. s[d].num \in Nat /\ t[d].num \in Nat
  BY <1>1, <1>2, ValCases DEF Vals
<1>4. \A k \in 1 .. d - 1 : s[k] = u[k]
  BY <1>1, <1>2
<1>5. ~u[d].valueIsVar /\ s[d].num < u[d].num
  <2>1. CASE d = Len(t)
    <3>1. u[d].num = m /\ ~u[d].valueIsVar
      BY <2>1 DEF Num
    <3>2. t[d].num <= m
      BY <2>1 DEF Back
    <3> QED BY <1>2, <1>3, <3>1, <3>2
  <2>2. CASE d # Len(t)
    <3>1. u[d] = t[d]
      BY <1>1, <1>2, <2>2
    <3> QED BY <1>2, <3>1
  <2> QED BY <2>1, <2>2
<1>6. d <= Len(u)
  BY <1>1, <1>2
<1> QED BY <1>2, <1>4, <1>5, <1>6, SomeBefore

(* Statements placed at one schedule keep the order they had in the block. *)
LEMMA PlacedOrder ==
  ASSUME NEW t \in Seq(Vals), t # << >>, ~Back(t).valueIsVar,
         NEW e \in Seq(Vals), e # << >>, e[1].num \in Nat,
         NEW f \in Seq(Vals), f # << >>, f[1].num \in Nat,
         Before(e, f)
  PROVE  Before(Placed(t, e), Placed(t, f))
<1> DEFINE x == Placed(t, e)
           y == Placed(t, f)
           n == Len(t)
<1>1. n \in Nat /\ n >= 1 /\ Len(e) \in Nat /\ Len(f) \in Nat
  OBVIOUS
<1>2. Back(t).num \in Nat
  BY PopBackProperties, ValCases DEF Vals
<1>3. /\ x \in Seq(Vals)
      /\ Len(x) = n + Len(e) - 1
      /\ \A k \in 1 .. n - 1 : x[k] = t[k]
      /\ x[n] = Num(Back(t).num + e[1].num)
      /\ \A k \in 2 .. Len(e) : x[n + k - 1] = e[k]
  BY PlacedFacts
<1>4. /\ y \in Seq(Vals)
      /\ Len(y) = n + Len(f) - 1
      /\ \A k \in 1 .. n - 1 : y[k] = t[k]
      /\ y[n] = Num(Back(t).num + f[1].num)
      /\ \A k \in 2 .. Len(f) : y[n + k - 1] = f[k]
  BY PlacedFacts
<1> HIDE DEF x, y
<1>5. PICK d \in 1 .. Len(e) :
        /\ d <= Len(f)
        /\ \A k \in 1 .. d - 1 : e[k] = f[k]
        /\ ~e[d].valueIsVar
        /\ ~f[d].valueIsVar
        /\ e[d].num < f[d].num
  BY DEF Before
<1>6. CASE d = 1
  <2>1. /\ n \in 1 .. Len(x) /\ n <= Len(y)
        /\ \A k \in 1 .. n - 1 : x[k] = y[k]
    BY <1>1, <1>3, <1>4, <1>5
  <2>2. /\ x[n].num = Back(t).num + e[1].num /\ ~x[n].valueIsVar
        /\ y[n].num = Back(t).num + f[1].num /\ ~y[n].valueIsVar
    BY <1>3, <1>4 DEF Num
  <2>3. x[n].num < y[n].num
    BY <1>2, <1>5, <1>6, <2>2
  <2> QED BY <1>3, <1>4, <2>1, <2>2, <2>3, SomeBefore DEF x, y
<1>7. CASE d # 1
  <2> DEFINE c == n + d - 1
  <2>1. d \in 2 .. Len(e) /\ d \in 2 .. Len(f) /\ 1 \in 1 .. d - 1
    BY <1>1, <1>5, <1>7
  <2>2. c \in 1 .. Len(x) /\ c <= Len(y)
    BY <1>1, <1>3, <1>4, <2>1
  <2>3. x[c] = e[d] /\ y[c] = f[d]
    BY <1>3, <1>4, <2>1
  <2>4. ASSUME NEW k \in 1 .. c - 1 PROVE x[k] = y[k]
    <3>1. CASE k < n
      BY <1>1, <1>3, <1>4, <3>1
    <3>2. CASE k = n
      <4>1. e[1] = f[1]
        BY <1>5, <2>1
      <4> QED BY <1>3, <1>4, <3>2, <4>1
    <3>3. CASE k > n
      <4> DEFINE j == k - n + 1
      <4>1. j \in 2 .. Len(e) /\ j \in 2 .. Len(f) /\ j \in 1 .. d - 1
            /\ n + j - 1 = k
        BY <1>1, <2>1, <3>3
      <4> HIDE DEF j
      <4>2. x[k] = e[j] /\ y[k] = f[j] /\ e[j] = f[j]
        BY <1>3, <1>4, <1>5, <4>1
      <4> QED BY <4>2
    <3> QED BY <1>1, <3>1, <3>2, <3>3
  <2> HIDE DEF c
  <2> QED BY <1>3, <1>4, <1>5, <2>2, <2>3, <2>4, SomeBefore DEF x, y
<1> QED BY <1>6, <1>7

(* One more statement at the builder's own schedule. *)
LEMMA AppendOrder ==
  ASSUME NEW ts \in Seq(Seq(Vals)), NEW t \in Seq(Vals), InScheduleOrder(ts),
         \A i \in 1 .. Len(ts) : Before(ts[i], t)
  PROVE  InScheduleOrder(Append(ts, t))
<1> DEFINE us == Append(ts, t)
<1>1. /\ Len(ts) \in Nat /\ Len(us) = Len(ts) + 1
      /\ \A i \in 1 .. Len(ts) : us[i] = ts[i]
      /\ us[Len(ts) + 1] = t
  OBVIOUS
<1> HIDE DEF us
<1>2. ASSUME NEW i \in 1 .. Len(us), NEW j \in 1 .. Len(us), i < j
      PROVE  Before(us[i], us[j])
  <2>1. i \in 1 .. Len(ts) /\ us[i] = ts[i]
    BY <1>1, <1>2
  <2>2. CASE j = Len(ts) + 1
    BY <1>1, <2>1, <2>2
  <2>3. CASE j # Len(ts) + 1
    <3>1. j \in 1 .. Len(ts) /\ us[j] = ts[j]
      BY <1>1, <2>3
    <3> QED BY <1>2, <2>1, <3>1 DEF InScheduleOrder
  <2> QED BY <2>2, <2>3
<1> QED BY <1>2 DEF InScheduleOrder, us

(* Statements in order, then others behind them all, are in order. *)
LEMMA ConcatOrder ==
  ASSUME NEW ts \in Seq(Seq(Vals)), NEW us \in Seq(Seq(Vals)),
         InScheduleOrder(ts), InScheduleOrder(us),
         \A i \in 1 .. Len(ts) : \A j \in 1 .. Len(us) : Before(ts[i], us[j])
  PROVE  InScheduleOrder(ts \o us)
<1> DEFINE vs == ts \o us
           n == Len(ts)
<1>1. /\ n \in Nat /\ Len(us) \in Nat /\ Len(vs) = n + Len(us)
      /\ \A i \in 1 .. n + Len(us) : vs[i] = IF i <= n THEN ts[i] ELSE us[i - n]
  BY ConcatProperties
<1> HIDE DEF vs
<1>2. ASSUME NEW i \in 1 .. Len(vs)
      PROVE  \/ i \in 1 .. n /\ vs[i] = ts[i]
             \/ i > n /\ i - n \in 1 .. Len(us) /\ vs[i] = us[i - n]
  BY <1>1
<1>3. ASSUME NEW i \in 1 .. Len(vs), NEW j \in 1 .. Len(vs), i < j
      PROVE  Before(vs[i], vs[j])
  <2>1. CASE j \in 1 .. n
    <3>1. i \in 1 .. n /\ vs[i] = ts[i] /\ vs[j] = ts[j]
      BY <1>1, <1>2, <1>3, <2>1
    <3> QED BY <1>3, <2>1, <3>1 DEF InScheduleOrder
  <2>2. CASE j > n /\ i \in 1 .. n
    <3>1. j - n \in 1 .. Len(us) /\ vs[j] = us[j - n] /\ vs[i] = ts[i]
      BY <1>1, <1>2, <2>2
    <3> QED BY <2>2, <3>1
  <2>3. CASE j > n /\ i > n
    <3>1. /\ j - n \in 1 .. Len(us) /\ vs[j] = us[j - n]
          /\ i - n \in 1 .. Len(us) /\ vs[i] = us[i - n]
          /\ i - n < j - n
      BY <1>1, <1>2, <1>3, <2>3
    <3> QED BY <3>1 DEF InScheduleOrder
  <2> QED BY <1>1, <2>1, <2>2, <2>3
<1> QED BY <1>3 DEF InScheduleOrder, vs

(* An inlined block goes after what was emitted and before what will be. *)
LEMMA InlineOrder ==
  ASSUME NEW b, IsBlock(b), NEW s \in Seq(Vals), s # << >>, ~Back(s).valueIsVar,
         NEW last \in TuplePositions(s, b),
         NEW ts \in Seq(Seq(Vals)), InScheduleOrder(ts),
         \A i \in 1 .. Len(ts) : Before(ts[i], s)
  PROVE  LET us == ts \o Place(s, b)
             t == Append(PopBack(s), Num(last + 1))
         IN /\ InScheduleOrder(us)
            /\ \A i \in 1 .. Len(us) : Before(us[i], t) /\ Passed(us[i], t)
<1> DEFINE p == Place(s, b)
           us == ts \o p
           t == Append(PopBack(s), Num(last + 1))
           n == Len(s)
<1>1. /\ Back(s).num \in Nat /\ n \in Nat /\ n >= 1
      /\ PopBack(s) \in Seq(Vals)
      /\ Len(PopBack(s)) = n - 1
      /\ \A k \in 1 .. n - 1 : PopBack(s)[k] = s[k]
  <2>1. n \in Nat /\ n >= 1
    OBVIOUS
  <2> QED BY <2>1, PopBackProperties, ValCases DEF Vals
<1>2. /\ last \in Int
      /\ last + 1 \in Nat
      /\ last + 1 >= Back(s).num
      /\ \A i \in 1 .. Len(b) : Back(s).num + b[i][1].num < last + 1
  BY <1>1, TuplePositionFacts
<1>3. /\ t \in Seq(Vals)
      /\ Len(t) = n
      /\ \A k \in 1 .. n - 1 : t[k] = s[k]
      /\ t[n] = Num(last + 1)
  <2>1. Num(last + 1) \in Vals
    BY <1>2 DEF Num, Vals, ScheduleVals, NumVals
  <2> QED BY <1>1, <2>1
<1>4. /\ p \in Seq(Seq(Vals))
      /\ Len(p) = Len(b)
      /\ \A i \in 1 .. Len(b) : p[i] = Placed(s, b[i])
  BY PlaceFacts DEF IsBlock
<1> HIDE DEF t, p
<1>5. ASSUME NEW i \in 1 .. Len(b)
      PROVE  /\ b[i] \in Seq(Vals) /\ b[i] # << >> /\ b[i][1].num \in Nat
             /\ p[i] \in Seq(Vals)
             /\ Len(p[i]) >= n /\ Len(p[i]) \in Nat
             /\ \A k \in 1 .. n - 1 : p[i][k] = s[k]
             /\ p[i][n] = Num(Back(s).num + b[i][1].num)
  <2>1. b[i] \in Seq(Vals) /\ b[i] # << >> /\ b[i][1].num \in Nat
    BY BlockFacts
  <2>2. /\ Placed(s, b[i]) \in Seq(Vals)
        /\ Len(Placed(s, b[i])) = n + Len(b[i]) - 1
        /\ \A k \in 1 .. n - 1 : Placed(s, b[i])[k] = s[k]
        /\ Placed(s, b[i])[n] = Num(Back(s).num + b[i][1].num)
    BY <2>1, PlacedFacts
  <2>3. Len(b[i]) >= 1 /\ Len(b[i]) \in Nat
    BY <2>1
  <2>4. n + Len(b[i]) - 1 >= n /\ n + Len(b[i]) - 1 \in Nat
    BY <1>1, <2>3
  <2>5. p[i] = Placed(s, b[i])
    BY <1>4
  <2> QED BY <2>1, <2>2, <2>4, <2>5
<1>6. InScheduleOrder(p)
  <2>1. ASSUME NEW i \in 1 .. Len(b), NEW j \in 1 .. Len(b), i < j
        PROVE  Before(p[i], p[j])
    <3>1. Before(b[i], b[j])
      BY <2>1, BlockFacts DEF InScheduleOrder
    <3>2. Before(Placed(s, b[i]), Placed(s, b[j]))
      BY <1>5, <3>1, PlacedOrder
    <3> QED BY <1>4, <3>2
  <2> QED BY <1>4, <2>1 DEF InScheduleOrder
<1>7. ASSUME NEW i \in 1 .. Len(ts), NEW j \in 1 .. Len(p)
      PROVE  Before(ts[i], p[j])
  <2>1. ts[i] \in Seq(Vals) /\ Before(ts[i], s) /\ j \in 1 .. Len(b)
    BY <1>4
  <2>2. b[j][1].num \in Nat
    BY <1>5, <2>1
  <2>3. /\ Back(s).num + b[j][1].num \in Nat
        /\ Back(s).num <= Back(s).num + b[j][1].num
    <3>1. \A x, y \in Nat : x + y \in Nat /\ x <= x + y
      OBVIOUS
    <3> QED BY <1>1, <2>2, <3>1, Zenon
  <2>4. /\ p[j] \in Seq(Vals)
        /\ Len(s) <= Len(p[j])
        /\ \A k \in 1 .. Len(s) - 1 : p[j][k] = s[k]
        /\ p[j][Len(s)] = Num(Back(s).num + b[j][1].num)
    BY <1>1, <1>5, <2>1
  <2> QED BY <2>1, <2>3, <2>4, BeforeLater
<1>8. InScheduleOrder(us)
  BY <1>4, <1>6, <1>7, ConcatOrder
<1>9. ASSUME NEW i \in 1 .. Len(ts) PROVE Before(ts[i], t)
  <2>1. ts[i] \in Seq(Vals) /\ Before(ts[i], s)
    OBVIOUS
  <2>2. Len(s) <= Len(t) /\ Back(s).num <= last + 1
    BY <1>1, <1>2, <1>3
  <2> QED BY <1>2, <1>3, <2>1, <2>2, BeforeLater
<1>10. ASSUME NEW i \in 1 .. Len(p) PROVE Before(p[i], t)
  <2>1. i \in 1 .. Len(b) /\ b[i][1].num \in Nat
    BY <1>4, <1>5
  <2>2. n \in 1 .. Len(p[i]) /\ n <= Len(t) /\ p[i] \in Seq(Vals)
    BY <1>1, <1>3, <1>5, <2>1
  <2>3. \A k \in 1 .. n - 1 : p[i][k] = t[k]
    BY <1>3, <1>5, <2>1
  <2>4. /\ p[i][n].num = Back(s).num + b[i][1].num /\ ~p[i][n].valueIsVar
        /\ t[n].num = last + 1 /\ ~t[n].valueIsVar
    <3>1. p[i][n] = Num(Back(s).num + b[i][1].num) /\ t[n] = Num(last + 1)
      BY <1>3, <1>5, <2>1
    <3>2. \A m : Num(m).num = m /\ ~Num(m).valueIsVar
      BY DEF Num
    <3> QED BY <3>1, <3>2, Zenon
  <2>5. p[i][n].num < t[n].num
    BY <1>2, <2>1, <2>4
  <2> HIDE DEF n
  <2> QED BY <1>3, <2>2, <2>3, <2>4, <2>5, SomeBefore
<1>11. ASSUME NEW i \in 1 .. Len(us) PROVE Before(us[i], t) /\ Passed(us[i], t)
  <2>1. us \in Seq(Seq(Vals)) /\ Len(us) = Len(ts) + Len(p)
        /\ us[i] = IF i <= Len(ts) THEN ts[i] ELSE p[i - Len(ts)]
    <3>1. /\ us \in Seq(Seq(Vals))
          /\ Len(us) = Len(ts) + Len(p)
          /\ \A k \in 1 .. Len(ts) + Len(p) :
               us[k] = IF k <= Len(ts) THEN ts[k] ELSE p[k - Len(ts)]
      BY <1>4, ConcatProperties, Zenon
    <3> QED BY <3>1, Zenon
  <2>2. us[i] \in Seq(Vals)
    BY <2>1
  <2>3. Before(us[i], t)
    <3>1. CASE i <= Len(ts)
      <4>1. i \in 1 .. Len(ts) /\ us[i] = ts[i]
        BY <2>1, <3>1
      <4> QED BY <1>9, <4>1
    <3>2. CASE ~(i <= Len(ts))
      <4>1. Len(ts) \in Nat /\ Len(p) \in Nat
        BY <1>4
      <4>2. i - Len(ts) \in 1 .. Len(p) /\ us[i] = p[i - Len(ts)]
        BY <2>1, <3>2, <4>1
      <4> QED BY <1>10, <4>2
    <3> QED BY <3>1, <3>2
  <2> QED BY <1>3, <2>2, <2>3, BeforeIsPassed DEF Vals
<1> QED BY <1>8, <1>11 DEF t, p

-------------------------------------------------------------------------------
(* A builder at schedule s is behind no statement it has emitted, and      *)
(* strictly past all of them while it is at a statement.  These are the    *)
(* lemmas about its steps.                                                 *)
Ordered(ts, s, atStatement) ==
  /\ InScheduleOrder(ts)
  /\ \A i \in 1 .. Len(ts) :
       /\ Passed(ts[i], s)
       /\ atStatement => Before(ts[i], s)

AtStatement(c) == Len(c.schedule) = 2 * Len(c.iterators) + 1

(* At a statement the schedule ends in a position. *)
LEMMA StatementFacts ==
  ASSUME NEW c, NEW o, Good(c, o), AtStatement(c)
  PROVE  /\ c.schedule \in Seq(Vals) /\ c.schedule # << >>
         /\ ~Back(c.schedule).valueIsVar
         /\ Back(c.schedule).num \in Nat
         /\ CanSkip(c.schedule)
<1>1. c.schedule \in Seq(Vals) /\ Len(c.iterators) \in Nat /\ Shape(c.schedule, c.iterators)
  BY ContextTypes DEF Good
<1>2. c.schedule # << >>
  BY <1>1 DEF AtStatement
<1>3. ~Back(c.schedule).valueIsVar
  <2>1. Len(c.iterators) \in 0 .. Len(c.iterators) /\ 2 * Len(c.iterators) < Len(c.schedule)
    BY <1>1 DEF AtStatement
  <2>2. ~c.schedule[2 * Len(c.iterators) + 1].valueIsVar
    BY <1>1, <2>1 DEF Shape
  <2> QED BY <2>2 DEF AtStatement, Back
<1>4. Back(c.schedule) \in Vals
  BY <1>1, <1>2, PopBackProperties
<1>5. Back(c.schedule).num \in Nat
  BY <1>3, <1>4, ValCases DEF Vals
<1> QED BY <1>1, <1>2, <1>3, <1>5 DEF CanSkip

(* Outside a statement, in a body that is not empty, it does too. *)
LEMMA BodyFacts ==
  ASSUME NEW c, NEW o, Good(c, o), c.iterators # << >>, ~Back(c.schedule).valueIsVar
  PROVE  AtStatement(c)
<1>1. /\ c.schedule \in Seq(Vals) /\ c.iterators \in Seq(Iterators)
      /\ Shape(c.schedule, c.iterators)
  BY ContextTypes DEF Good
<1>2. Len(c.iterators) \in 1 .. Len(c.iterators)
  BY <1>1
<1>3. c.schedule[2 * Len(c.iterators)].valueIsVar
  <2>1. c.schedule[2 * Len(c.iterators)] = Var(c.iterators[Len(c.iterators)])
    BY <1>1, <1>2 DEF Shape
  <2> QED BY <2>1 DEF Var
<1>4. Len(c.schedule) # 2 * Len(c.iterators)
  BY <1>3 DEF Back
<1> QED BY <1>1, <1>4 DEF Shape, AtStatement

(* advanceSchedule. *)
LEMMA OrderedAdvance ==
  ASSUME NEW ts \in Seq(Seq(Vals)), NEW s \in Seq(Vals), NEW w, Ordered(ts, s, w)
  PROVE  Ordered(ts, AdvanceSchedule(s), TRUE)
<1>1. AdvanceSchedule(s) \in Seq(Vals)
  BY AdvanceType DEF Vals
<1>2. ASSUME NEW i \in 1 .. Len(ts)
      PROVE  /\ Passed(ts[i], AdvanceSchedule(s))
             /\ Before(ts[i], AdvanceSchedule(s))
  <2>1. ts[i] \in Seq(Vals) /\ Passed(ts[i], s)
    BY DEF Ordered
  <2>2. Before(ts[i], AdvanceSchedule(s))
    BY <2>1, AdvancePasses DEF Vals
  <2> QED BY <1>1, <2>1, <2>2, BeforeIsPassed DEF Vals
<1> QED BY <1>2 DEF Ordered

(* addStmt. *)
LEMMA OrderedAppend ==
  ASSUME NEW ts \in Seq(Seq(Vals)), NEW s \in Seq(Vals), s # << >>, ~Back(s).valueIsVar,
         Ordered(ts, s, TRUE)
  PROVE  Ordered(Append(ts, s), s, FALSE)
<1>1. InScheduleOrder(Append(ts, s))
  BY AppendOrder DEF Ordered
<1>2. Passed(s, s)
  BY PassedSelf
<1>3. \A i \in 1 .. Len(Append(ts, s)) :
        \/ i \in 1 .. Len(ts) /\ Append(ts, s)[i] = ts[i]
        \/ Append(ts, s)[i] = s
  OBVIOUS
<1>4. \A i \in 1 .. Len(Append(ts, s)) : Passed(Append(ts, s)[i], s)
  BY <1>2, <1>3 DEF Ordered
<1> QED BY <1>1, <1>4 DEF Ordered

(* The end of inlineFunctionCall. *)
LEMMA OrderedInline ==
  ASSUME NEW b, IsBlock(b), NEW s \in Seq(Vals), s # << >>, ~Back(s).valueIsVar,
         NEW last \in TuplePositions(s, b),
         NEW ts \in Seq(Seq(Vals)), Ordered(ts, s, TRUE)
  PROVE  Ordered(ts \o Place(s, b), Append(PopBack(s), Num(last + 1)), TRUE)
BY InlineOrder DEF Ordered

(* enterFor at the next position. *)
LEMMA OrderedEnterFor ==
  ASSUME NEW ts \in Seq(Seq(Vals)), NEW c \in ContextSet(Iterators), NEW h \in Headers,
         NEW w, Ordered(ts, c.schedule, w)
  PROVE  Ordered(ts, EnterFor(Advance(c), h).schedule, FALSE)
<1> DEFINE s == AdvanceSchedule(c.schedule)
           t == PushValue(s, Var(h.iter))
<1>1. c.schedule \in Seq(Vals)
  BY ContextTypes
<1>2. EnterFor(Advance(c), h).schedule = t
  BY AdvanceContext DEF EnterFor
<1>3. s \in Seq(Vals)
  BY <1>1, AdvanceType DEF Vals
<1>4. Var(h.iter) \in Vals
  BY SourceAssumption DEF HeaderSet, Vals, Var, ScheduleVals, VarVals
<1>5. t \in Seq(Vals) /\ Len(s) <= Len(t) /\ \A k \in 1 .. Len(s) : t[k] = s[k]
  BY <1>3, <1>4 DEF PushValue
<1>6. Ordered(ts, s, TRUE)
  BY <1>1, OrderedAdvance
<1> HIDE DEF s, t
<1>7. ASSUME NEW i \in 1 .. Len(ts) PROVE Passed(ts[i], t)
  <2>1. ts[i] \in Seq(Vals) /\ Before(ts[i], s)
    BY <1>6 DEF Ordered
  <2>2. Before(ts[i], t)
    BY <1>3, <1>5, <2>1, BeforeExtends DEF Vals
  <2> QED BY <1>5, <2>1, <2>2, BeforeIsPassed DEF Vals
<1> QED BY <1>2, <1>7 DEF Ordered

(* exitFor behind a body that is not empty. *)
LEMMA OrderedExitFor ==
  ASSUME NEW ts \in Seq(Seq(Vals)), NEW c, NEW o \in Seq(Scopes), o # << >>,
         Back(o).kind = "for", Good(c, o), ~Back(c.schedule).valueIsVar,
         NEW w, Ordered(ts, c.schedule, w)
  PROVE  Ordered(ts, ExitFor(c).schedule, FALSE)
<1>1. /\ ExitFor(c).schedule = PopBack(PopBack(c.schedule))
      /\ c.iterators # << >>
  BY GoodExitFor
<1>2. AtStatement(c)
  BY <1>1, BodyFacts
<1>3. /\ c.schedule \in Seq(Vals) /\ c.iterators \in Seq(Iterators)
      /\ Shape(c.schedule, c.iterators)
  BY ContextTypes DEF Good
<1>4. ASSUME NEW i \in 1 .. Len(ts)
      PROVE  Passed(ts[i], PopBack(PopBack(c.schedule)))
  <2>1. ts[i] \in Seq(Vals) /\ Passed(ts[i], c.schedule)
    BY DEF Ordered
  <2> QED BY <1>1, <1>2, <1>3, <2>1, PassedPop DEF AtStatement
<1> QED BY <1>1, <1>4 DEF Ordered

-------------------------------------------------------------------------------
(* What is emitted can be a block's: it begins with positions. *)
LEMMA FormedAppend ==
  ASSUME NEW ts, IsFormed(ts), NEW c, NEW o, Good(c, o), AtStatement(c)
  PROVE  IsFormed(Append(ts, c.schedule))
<1> DEFINE s == c.schedule
           us == Append(ts, s)
<1>1. s \in Seq(Vals) /\ s # << >> /\ Shape(s, c.iterators) /\ Len(c.iterators) \in Nat
  BY StatementFacts, ContextTypes DEF Good
<1>2. s[1] \in NumVals
  <2>1. 0 \in 0 .. Len(c.iterators) /\ 2 * 0 < Len(s) /\ 2 * 0 + 1 = 1
    BY <1>1
  <2>2. ~s[1].valueIsVar
    BY <1>1, <2>1 DEF Shape
  <2>3. s[1] \in Vals
    BY <1>1
  <2> QED BY <2>2, <2>3, ValCases DEF Vals
<1>3. /\ us \in Seq(Seq(Vals))
      /\ \A i \in 1 .. Len(us) : (i \in 1 .. Len(ts) /\ us[i] = ts[i]) \/ us[i] = s
  <2>1. ts \in Seq(Seq(Vals))
    BY DEF IsFormed
  <2> HIDE DEF s
  <2> QED BY <1>1, <2>1
<1> QED BY <1>1, <1>2, <1>3 DEF IsFormed

(* Blocks one behind the other. *)
LEMMA FormedConcat ==
  ASSUME NEW ts, IsFormed(ts), NEW us, IsFormed(us)
  PROVE  IsFormed(ts \o us)
<1>1. ts \in Seq(Seq(Vals)) /\ us \in Seq(Seq(Vals)) /\ Len(ts) \in Nat /\ Len(us) \in Nat
  BY DEF IsFormed
<1>2. /\ ts \o us \in Seq(Seq(Vals))
      /\ Len(ts \o us) = Len(ts) + Len(us)
      /\ \A i \in 1 .. Len(ts) + Len(us) :
           (ts \o us)[i] = IF i <= Len(ts) THEN ts[i] ELSE us[i - Len(ts)]
  BY <1>1, ConcatProperties, Zenon
<1>3. \A i \in 1 .. Len(ts) + Len(us) :
        \/ i \in 1 .. Len(ts) /\ i <= Len(ts)
        \/ ~(i <= Len(ts)) /\ i - Len(ts) \in 1 .. Len(us)
  BY <1>1
<1>4. \A i \in 1 .. Len(ts) + Len(us) :
        \/ \E j \in 1 .. Len(ts) : (ts \o us)[i] = ts[j]
        \/ \E j \in 1 .. Len(us) : (ts \o us)[i] = us[j]
  BY <1>2, <1>3
<1>5. \A i \in 1 .. Len(ts) + Len(us) :
        (ts \o us)[i] # << >> /\ (ts \o us)[i][1] \in NumVals
  BY <1>4 DEF IsFormed
<1> QED BY <1>2, <1>5 DEF IsFormed

(* Blocks at a position. *)
LEMMA FormedPlace ==
  ASSUME NEW b, IsFormed(b), NEW s \in Seq(Vals), s # << >>, ~Back(s).valueIsVar,
         ~s[1].valueIsVar
  PROVE  IsFormed(Place(s, b))
<1>1. /\ Place(s, b) \in Seq(Seq(Vals)) /\ Len(Place(s, b)) = Len(b)
      /\ \A i \in 1 .. Len(b) : Place(s, b)[i] = Placed(s, b[i])
  BY PlaceFacts
<1>2. Len(s) \in Nat /\ Len(s) >= 1 /\ s[1] \in NumVals /\ Back(s).num \in Nat
  <2>1. Len(s) \in Nat /\ Len(s) >= 1 /\ s[1] \in Vals /\ Back(s) \in Vals
    BY PopBackProperties
  <2> QED BY <2>1, ValCases DEF Vals
<1>3. ASSUME NEW i \in 1 .. Len(b)
      PROVE  Placed(s, b[i]) # << >> /\ Placed(s, b[i])[1] \in NumVals
  <2>1. b[i] \in Seq(Vals) /\ b[i] # << >> /\ b[i][1].num \in Nat /\ Len(b[i]) \in Nat \ {0}
    BY FormedFacts
  <2>2. /\ Placed(s, b[i]) \in Seq(Vals)
        /\ Len(Placed(s, b[i])) = Len(s) + Len(b[i]) - 1
        /\ \A k \in 1 .. Len(s) - 1 : Placed(s, b[i])[k] = s[k]
        /\ Placed(s, b[i])[Len(s)] = Num(Back(s).num + b[i][1].num)
    BY <2>1, PlacedFacts
  <2>3. Len(Placed(s, b[i])) # 0
    BY <1>2, <2>1, <2>2
  <2> DEFINE e == Placed(s, b[i])
  <2>4. e # << >>
    BY <2>2, <2>3, EmptySeq
  <2>5. CASE Len(s) = 1
    <3>1. Back(s).num + b[i][1].num \in Nat
      BY <1>2, <2>1
    <3>2. e[1] = Num(Back(s).num + b[i][1].num)
      BY <2>2, <2>5
    <3> HIDE DEF e
    <3>3. e[1] \in NumVals
      BY <3>1, <3>2 DEF Num, NumVals
    <3> QED BY <2>4, <3>3 DEF e
  <2>6. CASE Len(s) # 1
    <3>1. 1 \in 1 .. Len(s) - 1
      <4>1. \A n \in Nat : n >= 1 /\ n # 1 => 1 \in 1 .. n - 1
        OBVIOUS
      <4> QED BY <1>2, <2>6, <4>1, Zenon
    <3>2. e[1] = s[1]
      BY <2>2, <3>1
    <3> HIDE DEF e
    <3> QED BY <1>2, <2>4, <3>2 DEF e
  <2> QED BY <2>5, <2>6
<1> QED BY <1>1, <1>3 DEF IsFormed
===============================================================================
