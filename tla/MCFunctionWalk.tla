---------------------------- MODULE MCFunctionWalk ----------------------------
(***************************************************************************)
(* FunctionWalk on small sets of headers, conditions and callees, and the  *)
(* mistakes a change of the code could make.                               *)
(***************************************************************************)
EXTENDS FunctionWalk

Inc(form, var, base, by) == [form |-> form, var |-> var, base |-> base, by |-> by]

Header(iter, op, scalars, arrays, inc) ==
  [init |-> "decl", iter |-> iter, from |-> "0", cond |-> "binary",
   lhs |-> iter, op |-> op, rhs |-> "bound", scalars |-> scalars,
   arrays |-> arrays, inner |-> {}, inc |-> inc]

LoopI == Header("i", "<", {"i", "N"}, {}, Inc("++", "i", "i", 1))
LoopJ == Header("j", "<=", {"j", "i"}, {"A"}, Inc("=+", "j", "j", 1))

(* Every error of enterFor. *)
BadLoops ==
  { [LoopI EXCEPT !.init = "multi"], [LoopI EXCEPT !.cond = "absent"],
    [LoopI EXCEPT !.op = "!="], [LoopI EXCEPT !.inc.by = 2, !.inc.form = "+="],
    [LoopJ EXCEPT !.inc.base = "i"], [LoopI EXCEPT !.inc.form = "absent"] }

Cond(op) == [form |-> "binary", lhs |-> "x", op |-> op, rhs |-> "3"]
NoComparison == [Cond("<") EXCEPT !.form = "other"]

(* What a callee may have contributed: nothing, two statements, a          *)
(* statement and a loop.                                                   *)
Straight == << <<Num(0)>>, <<Num(1)>> >>
Looping == << <<Num(0)>>, <<Num(2), Var("j"), Num(0)>>,
              <<Num(2), Var("j"), Num(1)>> >>

GoodHeaders == {LoopI, LoopJ}
AllHeaders == {LoopI, LoopJ} \cup BadLoops
NestConds == {Cond("<")}
AllConds == {Cond("<"), Cond("=="), Cond("!="), Cond("&&"), NoComparison}
AllBlocks == {<< >>, Straight, Looping}
SomeBlocks == {Straight}
===============================================================================
