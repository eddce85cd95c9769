------------------------------ MODULE SafeArrays ------------------------------
(***************************************************************************)
(* The text exprToStringWithSafeArrays makes of an expression: for each of *)
(* its components that is an array, in turn, the text of the component is  *)
(* replaced, wherever it is found, by what toString makes of it.           *)
(*                                                                         *)
(* The text is the tree with the set of array nodes in it that have become *)
(* calls.  A text is found where a node has it, the base of an array       *)
(* included (A[i] in A[i][j]), and nothing in it has become a call before. *)
(* All numbers read the same here.                                         *)
(***************************************************************************)
EXTENDS ExpressionAccesses

Text[n \in Nodes] ==
  CASE IsKind(n, "ref") -> <<"ref", ast[n].name>>
    [] ast[n].kind \in {"binary", "array"} ->
         <<ast[n].kind, Text[ast[n].left], Text[ast[n].right]>>
    [] OTHER -> <<ast[n].kind>>

Within[n \in Nodes] ==
  {n} \cup (IF ast[n].kind \in {"binary", "array"}
              THEN Within[ast[n].left] \cup Within[ast[n].right] ELSE {})

(* collectComponentsFromCompoundExpr, variables left out. *)
ArrayComponents[n \in Nodes] ==
  CASE IsKind(n, "binary") -> ArrayComponents[ast[n].left] \o ArrayComponents[ast[n].right]
    [] IsArray(n) -> << n >>
    [] OTHER -> << >>

(* What toString puts as calls: the array with all its dimensions, and the *)
(* arrays that are subscripts of it; any other subscript is copied.        *)
Dimensions[n \in Nodes] == IF IsArray(n) THEN {n} \cup Dimensions[ast[n].left] ELSE {}
Called[n \in Nodes] ==
  IF IsArray(n) THEN Dimensions[n] \cup UNION {Called[m] : m \in ToSet(Subscripts[n])}
                ELSE {}

(* iegenlib::replaceInString, of the text of component c in expression n.  *)
ReplaceInString(n, calls, c) ==
  calls \cup UNION {Called[m] : m \in {k \in Within[n] : /\ Text[k] = Text[c]
                                                         /\ Within[k] \cap calls = {}}}

ExprToStringWithSafeArrays(n) ==
  FoldLeft(LAMBDA calls, c : ReplaceInString(n, calls, c), {}, ArrayComponents[n])

-------------------------------------------------------------------------------
(***************************************************************************)
(* A property, of the texts of the conditions that are accepted.           *)
(***************************************************************************)
Texts == IF status = "done" /\ use = "condition" THEN ToSet(roots) ELSE {}

(* The arrays the code goes through, the components of the expression, are *)
(* changed to calls, whatever other arrays there are: "Get the source code *)
(* of an expression, with array accesses changed to function calls"        *)
(* (PositionContext.hpp).  Arrays within other subscripts keep their       *)
(* brackets anyway, as toString does not look there.                       *)
ComponentsAreCalls ==
  \A n \in Texts : ToSet(ArrayComponents[n]) \subseteq ExprToStringWithSafeArrays(n)
===============================================================================
