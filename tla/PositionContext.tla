--------------------------- MODULE PositionContext ---------------------------
(***************************************************************************)
(* struct PositionContext: what the builder knows about the place it has   *)
(* reached in a function.  A context is a value: the builder copies it     *)
(* whole around the inlining of a call.                                    *)
(*                                                                         *)
(* A for header and an if condition are records of what the code tests.    *)
(*   header.init  "assign" (i = e), "decl" (int i = e), "multi" (int i, j),*)
(*                "other" (neither of these) or "absent"                   *)
(*   .iter, .from the variable initialised and the text of its value       *)
(*   .cond        "binary", "other" or "absent"; .lhs, .op, .rhs its parts *)
(*   .scalars, .arrays  the names enterFor collects from its condition:    *)
(*                its components and, of a component that is an array, the *)
(*                arrays that are subscripts in it                         *)
(*   .inner       the names the condition refers to only deeper inside a   *)
(*                subscript (m in A[m], B in A[B[i] + 1])                  *)
(*   .inc         the increment: its form, the variable it changes, the    *)
(*                variable it adds to and the constant it adds             *)
(* A condition has a form ("binary", "other", or "declares" a variable)    *)
(* and the parts lhs, op, rhs.                                             *)
(***************************************************************************)
EXTENDS ExecSchedule

EmptyContext ==
  [iterators |-> << >>, constraints |-> << >>, schedule |-> << >>,
   nestLevel |-> 0, invariants |-> << >>]

(* Operators of a condition; "&&" stands for every binary operator that is *)
(* not a comparison.                                                       *)
Comparisons == {"<", "<=", ">", ">=", "==", "!="}
Ops == Comparisons \cup {"&&"}

HeaderSet(names) ==
  [init : STRING, iter : names, from : STRING, cond : STRING, lhs : STRING,
   op : Ops, rhs : STRING, scalars : SUBSET STRING, arrays : SUBSET STRING,
   inner : SUBSET STRING,
   inc : [form : STRING, var : STRING, base : STRING, by : Int]]

CondSet == [form : STRING, lhs : STRING, op : Ops, rhs : STRING]

NamesIn(s) == {s[i] : i \in 1 .. Len(s)}

IsIteratorName(c, name) == name \in NamesIn(c.iterators)

Constraint(lhs, op, rhs) == [lower |-> lhs, oper |-> op, upper |-> rhs]

ContextSet(names) ==
  [iterators : Seq(names),
   constraints : Seq([lower : STRING, oper : Ops, upper : STRING]),
   schedule : Seq(ScheduleVals(names)),
   nestLevel : Nat,
   invariants : Seq(SUBSET STRING)]

(* The accepted increments: ++i, i += 1, i -= -1, i = i + 1, i = 1 + i.    *)
ValidIncrement(inc) ==
  \/ inc.form = "++"
  \/ inc.form = "+=" /\ inc.by = 1
  \/ inc.form = "-=" /\ inc.by = -1
  \/ inc.form = "=+" /\ inc.by = 1 /\ inc.base = inc.var

(* The error enterFor stops with: the not-equal check runs while the       *)
(* condition is inserted, the rest are reported at the end, the last found *)
(* overwriting the others.                                                 *)
ForError(h) ==
  CASE h.cond = "binary" /\ h.op = "!="  -> "not-equal"
    [] ~ValidIncrement(h.inc)            -> "increment"
    [] h.cond # "binary"                 -> "condition"
    [] h.init \notin {"assign", "decl"}  -> "initializer"
    [] OTHER                             -> "none"

(* The data spaces held invariant in the new loop: what is collected from  *)
(* the condition, not all it refers to.  A scalar that is an iterator of   *)
(* an enclosing loop is no data space; the loop's own iterator is not one  *)
(* of the iterators yet.                                                   *)
(* (A mistake: the arrays of the condition are left out.)                  *)
ScalarInvariants(c, h) == h.scalars \ NamesIn(c.iterators)
NewInvariants(c, h) == (h.scalars \ NamesIn(c.iterators)) \cup h.arrays

EnterFor(c, h) ==
  [iterators   |-> Append(c.iterators, h.iter),
   constraints |-> c.constraints \o << Constraint(h.iter, ">=", h.from),
                                       Constraint(h.lhs, h.op, h.rhs) >>,
   schedule    |-> PushValue(c.schedule, Var(h.iter)),
   nestLevel   |-> c.nestLevel + 1,
   invariants  |-> Append(c.invariants, NewInvariants(c, h))]

(* Mistakes exitFor could make: pop one constraint or one schedule entry   *)
(* instead of two, leave two levels instead of one.                        *)
ExitForOneConstraint(c) ==
  [iterators   |-> PopBack(c.iterators),
   constraints |-> PopBack(c.constraints),
   schedule    |-> PopValue(PopValue(c.schedule)),
   nestLevel   |-> c.nestLevel - 1,
   invariants  |-> PopBack(c.invariants)]
ExitForOneEntry(c) ==
  [ExitForOneConstraint(c) EXCEPT !.constraints = PopBack(@),
                                  !.schedule = PopValue(c.schedule)]
ExitForTwoLevels(c) ==
  [ExitForOneConstraint(c) EXCEPT !.constraints = PopBack(@), !.nestLevel = @ - 1]

ExitFor(c) ==
  [iterators   |-> PopBack(c.iterators),
   constraints |-> PopBack(PopBack(c.constraints)),
   schedule    |-> PopValue(PopValue(c.schedule)),
   nestLevel   |-> c.nestLevel - 1,
   invariants  |-> PopBack(c.invariants)]

(* enterIf stops on a condition that is no binary operation, and on "!=".  *)
IfError(cond) == cond.form # "binary" \/ cond.op = "!="

(* The operators BinaryOperator::negateComparisonOp may yield: it is       *)
(* undefined on an operator that is not a comparison.                      *)
Negations(op) ==
  CASE op = "<"  -> {">="} [] op = ">=" -> {"<"}
    [] op = ">"  -> {"<="} [] op = "<=" -> {">"}
    [] op = "==" -> {"!="} [] op = "!=" -> {"=="}
    [] OTHER     -> Ops

EnterIf(c, cond) ==
  [c EXCEPT !.constraints = Append(@, Constraint(cond.lhs, cond.op, cond.rhs)),
            !.nestLevel = @ + 1]

ExitIf(c) ==
  [c EXCEPT !.constraints = PopBack(@), !.nestLevel = @ - 1]

(* getIterSpaceString needs every operator among the constraints to have a *)
(* string (Utils::operatorStrings).                                        *)
HasIterSpaceString(c) ==
  \A i \in 1 .. Len(c.constraints) : c.constraints[i].oper \in Comparisons

(* The context moved to the next position, to a given one. *)
Advance(c) == [c EXCEPT !.schedule = AdvanceSchedule(@)]
SkipTo(c, p) == [c EXCEPT !.schedule = SkipToPosition(@, p)]

-------------------------------------------------------------------------------
(* A schedule s names the iterators: one entry in two is an iterator, each *)
(* behind the position of its loop, and at most one position follows the   *)
(* last.                                                                   *)
Shape(s, iters) ==
  LET n == Len(iters) IN
    /\ Len(s) \in {2 * n, 2 * n + 1}
    /\ \A k \in 1 .. n : s[2 * k] = Var(iters[k])
    /\ \A k \in 0 .. n : 2 * k < Len(s) => ~s[2 * k + 1].valueIsVar

===============================================================================
