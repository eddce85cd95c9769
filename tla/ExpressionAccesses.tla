-------------------------- MODULE ExpressionAccesses --------------------------
(***************************************************************************)
(* What DataAccessHandler promises: a definition of the accesses of an     *)
(* expression on its tree, by recursion over the nodes, with which the     *)
(* results of the code's walks are compared.                               *)
(***************************************************************************)
EXTENDS DataAccessHandler, SequencesExt

(* The reference: the subscripts and the base of an array node, and the    *)
(* nodes that are accesses in an expression, those within the subscripts   *)
(* of its arrays included.                                                 *)
Subscripts[n \in Nodes] ==
  IF IsArray(n) THEN Append(Subscripts[ast[n].left], ast[n].right) ELSE << >>
Base[n \in Nodes] == IF IsArray(n) THEN Base[ast[n].left] ELSE n
AccessesIn[n \in Nodes] ==
  CASE IsKind(n, "binary") -> AccessesIn[ast[n].left] \cup AccessesIn[ast[n].right]
    [] IsKind(n, "ref") -> {n}
    [] IsArray(n) -> {n} \cup UNION {AccessesIn[m] : m \in ToSet(Subscripts[n])}
    [] OTHER -> {}

(* Those of data spaces.                                                   *)
SpacesIn(n) == {m \in AccessesIn[n] : IsSpace(Base[m])}

(* The accesses within a subscript that is no array access itself: m in    *)
(* x[m], A in x[A[i] + 1].                                                 *)
InSubscripts ==
  UNION {AccessesIn[ast[n].right] : n \in {a \in Nodes : IsArray(a) /\ ~IsArray(ast[a].right)}}

AccessAt(n, isRead) ==
  [name |-> ast[Base[n]].name, sourceId |-> n, isRead |-> isRead, indexes |-> Subscripts[n]]

(* One access of each of the nodes, all reads but that of one.  Operands   *)
(* come before the node they are operands of, so the order of the nodes is *)
(* the order in which the code should meet them.                           *)
AreAccessesOf(accs, nodes, written) ==
  /\ {accs[i].sourceId : i \in 1 .. Len(accs)} = nodes
  /\ \A i, j \in 1 .. Len(accs) : i < j => accs[i].sourceId < accs[j].sourceId
  /\ \A i \in 1 .. Len(accs) :
       accs[i] = AccessAt(accs[i].sourceId, accs[i].sourceId # written)

(* The accesses recorded for a statement are those its expressions make,   *)
(* in the order they are evaluated: a subscript's before the array's, the  *)
(* array assigned the only write, iterators none.  "Add the space accessed *)
(* as a write, and any sub-accesses as reads" (DataAccessHandler.hpp); a   *)
(* subscript that is not an array access is not searched for more, so that *)
(* what is in it is left out, and nothing else is.                         *)
Spaces(exprs) == UNION {SpacesIn(n) : n \in exprs}

AccessesAreOfTheTree ==
  LET n == Len(stmtDataAccesses)
      written == [name |-> ast[roots[1]].name, sourceId |-> 0, isRead |-> FALSE,
                  indexes |-> << >>]
      reads == IF IsSpace(roots[1]) THEN SubSeq(stmtDataAccesses, 1, n - 1)
                                    ELSE stmtDataAccesses
  IN status = "done" =>
      /\ use = "assign" =>
           AreAccessesOf(stmtDataAccesses, Spaces(ToSet(roots)) \ InSubscripts, roots[1])
      /\ use = "declare" =>
           /\ IsSpace(roots[1]) => n > 0 /\ stmtDataAccesses[n] = written
           /\ AreAccessesOf(reads, SpacesIn(roots[2]) \ InSubscripts, 0)
      /\ use = "condition" => n = 0

(* Every access of a data space is found, those within any subscript       *)
(* included, and is one of the statement or, in a condition, makes an      *)
(* invariant of the loop: "Make all data accesses, including subaccesses,  *)
(* from the given expression" (DataAccessHandler.hpp).                     *)
AllAccessesMade ==
  status = "done" =>
    \A n \in Spaces(ToSet(roots)) :
      /\ use = "assign" =>
           \E i \in 1 .. Len(stmtDataAccesses) : stmtDataAccesses[i].sourceId = n
      /\ use = "condition" => ast[Base[n]].name \in newInvariants

(* No access has more than MAX_ARRAY_DIM dimensions, and an expression is  *)
(* refused only if it has an array of more, a call where none may be or an *)
(* expression that is neither a variable, an array access, a number, a     *)
(* call nor a binary operation ("Failed to process components of complex   *)
(* expression", Utils.cpp).                                                *)
DimensionLimit ==
  /\ status = "exit" =>
       \E n \in Nodes : ast[n].kind \in {"call", "other"} \/ Len(Subscripts[n]) > MaxArrayDim
  /\ \A i \in 1 .. Len(stmtDataAccesses) : Len(stmtDataAccesses[i].indexes) <= MaxArrayDim

(* The values of the arrays a loop's constraint calls are fixed in the     *)
(* loop: what toString puts as a call into the text of a condition is      *)
(* among the invariants enterFor collects, by another walk over the        *)
(* condition.                                                              *)
CalledArraysAreInvariant ==
  status = "done" /\ use = "condition" =>
    \A n \in printed : ast[Base[n]].name \in newInvariants
===============================================================================
