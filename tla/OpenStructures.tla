---------------------------- MODULE OpenStructures ----------------------------
(***************************************************************************)
(* The fors and ifs a builder is in, and how its context relates to them:  *)
(* what FunctionWalk and ComputationBuilder, which walk them, share.       *)
(***************************************************************************)
EXTENDS PositionContext

CONSTANTS
  Headers,         \* the for headers the source may have
  Conds            \* the if conditions the source may have

Iterators == {h.iter : h \in Headers}
Vals == ScheduleVals(Iterators)

ASSUME SourceAssumption ==
  /\ Iterators \subseteq STRING
  /\ Headers \subseteq HeaderSet(Iterators)
  /\ Conds \subseteq CondSet

(* An activation of processSingleStmt on a for, on an if or on its else:   *)
(* its node and the context it was entered in (at is history).             *)
Scope(kind, node, at) == [kind |-> kind, node |-> node, at |-> at]

Scopes ==
  [kind : {"for"}, node : Headers, at : ContextSet(Iterators)] \cup
  [kind : {"then", "else"}, node : CondSet, at : ContextSet(Iterators)]

(* The context left by entering a scope, schedule apart, and the context   *)
(* the k-th open scope must have been entered in.                          *)
After(s) == IF s.kind = "for" THEN EnterFor(s.at, s.node)
                              ELSE EnterIf(s.at, s.node)

Outside(o, k) == IF k = 0 THEN EmptyContext ELSE After(o[k])

SameScopes(c, d) ==
  /\ c.iterators = d.iterators
  /\ c.constraints = d.constraints
  /\ c.invariants = d.invariants
  /\ c.nestLevel = d.nestLevel

(* The lists of context c hold what the open structures o brought.         *)
Balanced(c, o) ==
  /\ SameScopes(c, Outside(o, Len(o)))
  /\ \A k \in 1 .. Len(o) : SameScopes(o[k].at, Outside(o, k - 1))
  /\ c.nestLevel = Len(o)

-------------------------------------------------------------------------------
(* What a callee contributes, as the sequence of its statements' schedules:*)
(* each begins with a position in the callee's body, and they are in order.*)
IsFormed(b) ==
  /\ b \in Seq(Seq(Vals))
  /\ \A i \in 1 .. Len(b) : b[i] # << >> /\ b[i][1] \in NumVals

IsBlock(b) == IsFormed(b) /\ InScheduleOrder(b)
===============================================================================
