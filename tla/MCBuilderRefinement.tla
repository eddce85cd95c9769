-------------------------- MODULE MCBuilderRefinement --------------------------
(***************************************************************************)
(* The refinement on the programs of MCComputationBuilder, with what f and *)
(* g contribute when each is at most two statements and calls.             *)
(***************************************************************************)
EXTENDS BuilderRefinement, MCComputationBuilder

Positions(n) == [i \in 1 .. n |-> <<Num(i - 1)>>]

RefinementStarts == Starts(4, 2)

InBody == {<<Num(1)>>, <<Num(2)>>} \cup {<<Num(1), Var(i), Num(0)>> : i \in Iterators}

(* g: its parameter, then two statements or one in a loop.                 *)
GBlocks == {Positions(n) : n \in 1 .. 3} \cup {<< <<Num(0)>>, t >> : t \in InBody}

(* f: its parameter, then a call of g, at the first position of the body,  *)
(* the second (behind a return) or in a loop, and a statement after it if  *)
(* the call was in an expression.                                          *)
CallOfG(t, b) == Positions(1) \o Place(t, b)
AfterG(t, b) == AdvanceSchedule(SkipToPosition(t, CHOOSE p \in TuplePositions(t, b) : TRUE))
FBlocks == {Positions(1)} \cup {CallOfG(t, b) : t \in InBody, b \in GBlocks}
           \cup {Append(CallOfG(t, b), AfterG(t, b)) : t \in InBody, b \in GBlocks}

MCBlocks == FBlocks \cup GBlocks
===============================================================================
