----------------------------- MODULE ExecSchedule -----------------------------
(***************************************************************************)
(* The execution schedule of a statement position: struct ExecSchedule and *)
(* struct ScheduleVal.  A schedule is a tuple of entries, each a number (a *)
(* position among siblings) or the name of an iterator.  The operations    *)
(* map a tuple to a tuple; the modules that hold a schedule in a variable  *)
(* apply them.                                                             *)
(***************************************************************************)
EXTENDS Integers, Sequences

(* The two constructors of ScheduleVal. *)
Num(n) == [valueIsVar |-> FALSE, num |-> n]
Var(v) == [valueIsVar |-> TRUE, var |-> v]

NumVals == [valueIsVar : {FALSE}, num : Nat]
VarVals(names) == [valueIsVar : {TRUE}, var : names]
ScheduleVals(names) == NumVals \cup VarVals(names)

Back(t) == t[Len(t)]
PopBack(t) == SubSeq(t, 1, Len(t) - 1)

PushValue(t, val) == Append(t, val)

PopValue(t) == PopBack(t)

(* The next sibling position: the first one when the tuple is empty or     *)
(* ends in an iterator (a loop body has just been entered).                *)
AdvanceSchedule(t) ==
  IF t = << >> \/ Back(t).valueIsVar
    THEN Append(t, Num(0))
    ELSE Append(PopBack(t), Num(Back(t).num + 1))

(* skipToPosition refuses a tuple that ends in an iterator. *)
CanSkip(t) == ~Back(t).valueIsVar

(* (A mistake: the position is not taken over.)                            *)
SkipNowhere(t, newPosition) == t

SkipToPosition(t, newPosition) == Append(PopBack(t), Num(newPosition))

-------------------------------------------------------------------------------
(***************************************************************************)
(* What a schedule means: the order in which the instances of two          *)
(* statements run within one iteration of the loops they share.  s is      *)
(* before t when they agree up to an entry, a number in both, where s has  *)
(* the smaller one.                                                        *)
(***************************************************************************)
Before(s, t) ==
  \E d \in 1 .. Len(s) :
    /\ d <= Len(t)
    /\ \A k \in 1 .. d - 1 : s[k] = t[k]
    /\ ~s[d].valueIsVar
    /\ ~t[d].valueIsVar
    /\ s[d].num < t[d].num

InScheduleOrder(ts) ==
  \A i, j \in 1 .. Len(ts) : i < j => Before(ts[i], ts[j])

-------------------------------------------------------------------------------
(* Where appendComputation puts the statements of a block called from      *)
(* schedule t, and the last position they use.  With no statement to put   *)
(* the answer is the call's own position or the one before it: which, is   *)
(* the library's affair.                                                   *)
Place(t, b) ==
  [i \in 1 .. Len(b) |->
     PopBack(t) \o << Num(Back(t).num + b[i][1].num) >> \o Tail(b[i])]

TuplePositions(t, b) ==
  IF b = << >> THEN {Back(t).num - 1, Back(t).num}
               ELSE {Back(t).num + b[Len(b)][1].num}

===============================================================================
