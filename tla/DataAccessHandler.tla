--------------------------- MODULE DataAccessHandler ---------------------------
(***************************************************************************)
(* What becomes of the expressions of one statement or one loop condition: *)
(* struct DataAccessHandler collects the accesses they make, enterFor the  *)
(* data spaces a loop may not change, exprToStringWithSafeArrays the       *)
(* arrays to print as calls, A[i] as A(i).  The recursion of the code over *)
(* the tree is a stack of frames here, so that every step is one of the    *)
(* code's and nothing is assumed of the tree's depth.                      *)
(*                                                                         *)
(* A tree is the sequence of its nodes, the operands of a node before it;  *)
(* a node's place is its ID.  An array node has one subscript, and the     *)
(* array or array node it subscripts as its base: A[i][j] is (A[i])[j].    *)
(* Parentheses and implicit casts, which the code strips, are no nodes; a  *)
(* binary node has any binary operator, an assignment too.  An "other"     *)
(* expression is any that is none of these, such as -x, x++, s.x and ?:.   *)
(***************************************************************************)
EXTENDS Integers, Sequences, FiniteSets

CONSTANTS
  Names,         \* the variables in expressions,
  Iterators,     \* those that are iterators of the loops around
  MaxArrayDim,   \* MAX_ARRAY_DIM
  MaxNodes       \* bound on the nodes of the trees

ASSUME NamesAssumption == Iterators \subseteq Names
ASSUME BoundsAssumption == MaxArrayDim \in Nat /\ MaxNodes \in Nat

VARIABLES
  ast,                   \* the nodes read so far
  roots,                 \* the expressions among them that no other contains
  use,                   \* what the two expressions are for
  todo,                  \* what is left to do with them, the next first
  frames,                \* the activations of doBuildArrayAccessWork
  accesses,              \* the accesses of the expression at hand
  stmtDataAccesses,      \* those of the statement
  described,             \* how many of them addStmt has printed
  newInvariants,         \* the names enterFor has collected
  unprinted,             \* the arrays toString has come to, the next first
  printed,               \* the arrays it has put as calls
  replacementVarNumber,  \* Utils::replacementVarNumber
  status                 \* the function at work, or "done", "exit", "bug"

tree == <<ast, roots, use>>
results == <<stmtDataAccesses, described, newInvariants, printed, replacementVarNumber>>
vars == <<tree, todo, frames, accesses, results, unprinted, status>>

Init ==
  /\ ast = << >> /\ roots = << >> /\ use = "none"
  /\ todo = << >> /\ frames = << >> /\ accesses = << >> /\ unprinted = << >>
  /\ stmtDataAccesses = << >> /\ described = 0 /\ newInvariants = {}
  /\ printed = {} /\ replacementVarNumber = 0
  /\ status = "parsing"

-------------------------------------------------------------------------------
(* Clang's parser.  The trees come bottom up, an inner node taking the two *)
(* last expressions; two expressions must come of the nodes that are left.  *)
Leaves == [kind : {"ref"}, name : Names] \cup [kind : {"lit", "call", "other"}]

IsKind(n, kind) == ast[n].kind = kind
IsArray(n) == IsKind(n, "array")
IsSpace(n) == IsKind(n, "ref") /\ ast[n].name \notin Iterators

Parsed(node, rest) ==
  /\ status = "parsing"
  /\ LET left == MaxNodes - (Len(ast) + 1) IN
       left >= 0 /\ Len(rest) - 1 <= left /\ 1 - Len(rest) <= left
  /\ ast' = Append(ast, node)
  /\ roots' = Append(rest, Len(ast) + 1)
  /\ UNCHANGED <<use, todo, frames, accesses, results, unprinted, status>>

ParseLeaf(leaf) == Parsed(leaf, roots)

ParseInner(kind) ==
  LET n == Len(roots) IN
    /\ n >= 2
    /\ kind = "array" => IsArray(roots[n - 1]) \/ IsKind(roots[n - 1], "ref")
    /\ Parsed([kind |-> kind, left |-> roots[n - 1], right |-> roots[n]],
              SubSeq(roots, 1, n - 2))

-------------------------------------------------------------------------------
(* A task: to collect the components of an expression for some end, or to  *)
(* find the accesses of a component for it.                                *)
Collected(expr, end) == [do |-> "collect", expr |-> expr, end |-> end]
Accessed(expr, end) == [do |-> "access", expr |-> expr, end |-> end]
Declared(expr) == [do |-> "declare", expr |-> expr, end |-> "write"]

(* "left = right", "int left = right" and the condition "left < right".    *)
Work(what, left, right) ==
  CASE what = "assign" -> << Accessed(left, "write"), Collected(right, "read") >>
    [] what = "declare" -> << Collected(right, "read"), Declared(left) >>
    [] what = "condition" ->
         << Collected(left, "text"), Collected(right, "text"),
            Collected(left, "invariant"), Collected(right, "invariant") >>

Begin(what) ==
  /\ status = "parsing"
  /\ Len(roots) = 2
  /\ what = "assign" => IsArray(roots[1]) \/ ast[roots[1]].kind \in {"ref", "other"}
  /\ what = "declare" => IsKind(roots[1], "ref")
  /\ use' = what
  /\ todo' = Work(what, roots[1], roots[2])
  /\ status' = "collecting"
  /\ UNCHANGED <<ast, roots, frames, accesses, results, unprinted>>

Stop(how) ==
  /\ status' = how
  /\ UNCHANGED <<tree, todo, frames, accesses, results, unprinted>>

Doing(task) == status = "collecting" /\ todo # << >> /\ Head(todo).do = task

(* collectComponentsFromCompoundExpr.  A call is a component of statements *)
(* only, where it is no access; a variable's text stays as it is.  Any     *)
(* other expression is refused.                                            *)
Components(t) ==
  CASE IsKind(t.expr, "binary") ->
         << Collected(ast[t.expr].left, t.end), Collected(ast[t.expr].right, t.end) >>
    [] IsArray(t.expr) -> << Accessed(t.expr, t.end) >>
    [] IsKind(t.expr, "ref") /\ t.end # "text" -> << Accessed(t.expr, t.end) >>
    [] OTHER -> << >>

RefusedAs(end) == IF end = "read" THEN {"other"} ELSE {"other", "call"}

Collect ==
  /\ Doing("collect")
  /\ IF ast[Head(todo).expr].kind \in RefusedAs(Head(todo).end)
       THEN Stop("exit")
       ELSE /\ todo' = Components(Head(todo)) \o Tail(todo)
            /\ UNCHANGED <<tree, frames, accesses, results, unprinted, status>>

-------------------------------------------------------------------------------
(* makeDataAccessesFromExpr. *)
DataAccess(base, n, isRead, indexes) ==
  [name |-> ast[base].name, sourceId |-> n, isRead |-> isRead, indexes |-> indexes]

(* An activation of doBuildArrayAccessWork: the array it is at in          *)
(* getArrayExprInfo (0 when that is over), what that has pushed, and the   *)
(* indexes taken from there.                                               *)
Frame(n, isRead) ==
  [expr |-> n, isRead |-> isRead, at |-> n, base |-> n, info |-> << >>, indexes |-> << >>]

Start ==
  /\ Doing("access")
  /\ LET n == Head(todo).expr
         isRead == Head(todo).end # "write"
     IN \/ /\ IsArray(n)
           /\ frames' = << Frame(n, isRead) >>
           /\ accesses' = << >>
           /\ status' = "making"
        \/ /\ ~IsArray(n)
           /\ accesses' = IF IsSpace(n) THEN << DataAccess(n, n, isRead, << >>) >> ELSE << >>
           /\ status' = "made"
           /\ UNCHANGED frames
  /\ UNCHANGED <<tree, todo, results, unprinted>>

Top == frames[Len(frames)]
Below == SubSeq(frames, 1, Len(frames) - 1)
Making == status = "making"
Became(fs) ==
  /\ frames' = fs
  /\ UNCHANGED <<tree, todo, accesses, results, unprinted, status>>

(* getArrayExprInfo refuses one dimension more than MAX_ARRAY_DIM.         *)
(* (A mistake: one dimension too many is let through.)                     *)
FullBehind(info) == Len(info) > MaxArrayDim
Full(info) == Len(info) >= MaxArrayDim

GetArrayExprInfo ==
  /\ Making
  /\ Top.at # 0
  /\ LET base == ast[Top.at].left IN
       IF Full(Top.info)
         THEN Stop("exit")
         ELSE Became(Append(Below,
                [Top EXCEPT !.info = Append(@, ast[Top.at].right),
                            !.base = base,
                            !.at = IF IsArray(base) THEN base ELSE 0]))

(* The index on top of the stack is taken, when it is an array access      *)
(* itself after the accesses of it, which are always reads.                *)
Taken(f) ==
  [f EXCEPT !.indexes = Append(@, f.info[Len(f.info)]),
            !.info = SubSeq(@, 1, Len(@) - 1)]

(* (Mistakes: no recursion, and one that hands the write on.)              *)
IsSubAccessNever(n) == FALSE
IsSubAccess(n) == IsArray(n)
SubAccessAsOuter(n) == Frame(n, Top.isRead)
SubAccess(n) == Frame(n, TRUE)

TakeIndex ==
  /\ Making
  /\ Top.at = 0 /\ Top.info # << >>
  /\ LET index == Top.info[Len(Top.info)] IN
       Became(IF IsSubAccess(index) THEN Append(frames, SubAccess(index))
                                    ELSE Append(Below, Taken(Top)))

MakeDataAccess ==
  /\ Making
  /\ Top.at = 0 /\ Top.info = << >>
  /\ accesses' = Append(accesses, DataAccess(Top.base, Top.expr, Top.isRead, Top.indexes))
  /\ LET n == Len(Below) IN
       IF n = 0 THEN frames' = << >> /\ status' = "made"
                ELSE /\ frames' = [Below EXCEPT ![n] = Taken(@)]
                     /\ UNCHANGED status
  /\ UNCHANGED <<tree, todo, results, unprinted>>

-------------------------------------------------------------------------------
(* What the accesses of an expression are for. *)
Made(ends) == status = "made" /\ Head(todo).end \in ends
Done == todo' = Tail(todo) /\ status' = "collecting"

(* processSingleAccessExpr, one access after the other. *)
Record ==
  /\ Made({"read", "write"})
  /\ accesses # << >>
  /\ LET a == Head(accesses) IN
       stmtDataAccesses' = IF a.name \in Iterators THEN stmtDataAccesses
                                                   ELSE Append(stmtDataAccesses, a)
  /\ accesses' = Tail(accesses)
  /\ UNCHANGED <<tree, todo, frames, described, newInvariants, printed,
                 replacementVarNumber, unprinted, status>>

EndRecord ==
  /\ Made({"read", "write"})
  /\ accesses = << >>
  /\ Done
  /\ UNCHANGED <<tree, frames, accesses, results, unprinted>>

(* processWriteToScalarName: an access of no expression. *)
RecordDeclared ==
  /\ Doing("declare")
  /\ LET a == [name |-> ast[Head(todo).expr].name, sourceId |-> 0, isRead |-> FALSE,
               indexes |-> << >>]
     IN stmtDataAccesses' = IF a.name \in Iterators THEN stmtDataAccesses
                                                     ELSE Append(stmtDataAccesses, a)
  /\ Done
  /\ UNCHANGED <<tree, frames, accesses, described, newInvariants, printed,
                 replacementVarNumber, unprinted>>

(* enterFor. *)
(* (A mistake: of an array and its sub-accesses, only the array.)          *)
OutermostName ==
  IF accesses = << >> THEN {} ELSE {accesses[Len(accesses)].name}
AccessNames == {accesses[i].name : i \in 1 .. Len(accesses)}

AddInvariants ==
  /\ Made({"invariant"})
  /\ newInvariants' = newInvariants \cup AccessNames
  /\ Done
  /\ UNCHANGED <<tree, frames, accesses, stmtDataAccesses, described, printed,
                 replacementVarNumber, unprinted>>

(* exprToStringWithSafeArrays prints the last access, and toString each    *)
(* index of it that is an array access, found among the others by its ID.  *)
BeginToString ==
  /\ Made({"text"})
  /\ unprinted' = << accesses[Len(accesses)].sourceId >>
  /\ status' = "printing"
  /\ UNCHANGED <<tree, todo, frames, accesses, results>>

Found(n) == \E i \in 1 .. Len(accesses) : accesses[i].sourceId = n
Access(n) == accesses[CHOOSE i \in 1 .. Len(accesses) : accesses[i].sourceId = n]

Stringify ==
  /\ status = "printing"
  /\ unprinted # << >>
  /\ LET n == Head(unprinted)
         next(s) == unprinted' = s \o Tail(unprinted) /\ UNCHANGED status
     IN CASE ~IsArray(n) ->
               next(<< >>) /\ UNCHANGED <<tree, todo, frames, accesses, results>>
          [] IsArray(n) /\ Found(n) ->
               /\ next(Access(n).indexes)
               /\ printed' = printed \cup {n}
               /\ UNCHANGED <<tree, todo, frames, accesses, stmtDataAccesses, described,
                              newInvariants, replacementVarNumber>>
          [] OTHER -> Stop("bug")

EndToString ==
  /\ status = "printing"
  /\ unprinted = << >>
  /\ Done
  /\ UNCHANGED <<tree, frames, accesses, results, unprinted>>

(* getDataAccessString for the next access of the statement: an index that *)
(* is no variable is replaced by one, and printed in the constraint on it. *)
Describe ==
  /\ status = "collecting" /\ todo = << >>
  /\ described < Len(stmtDataAccesses)
  /\ LET indexes == stmtDataAccesses[described + 1].indexes IN
       /\ todo' = [i \in 1 .. Len(indexes) |-> Collected(indexes[i], "text")]
       /\ replacementVarNumber' = replacementVarNumber +
            Cardinality({i \in 1 .. Len(indexes) : ~IsKind(indexes[i], "ref")})
  /\ described' = described + 1
  /\ UNCHANGED <<tree, frames, accesses, stmtDataAccesses, newInvariants, printed,
                 unprinted, status>>

Finish ==
  /\ status = "collecting" /\ todo = << >>
  /\ described = Len(stmtDataAccesses)
  /\ Stop("done")

Terminated == status \in {"done", "exit", "bug"} /\ UNCHANGED vars

Next ==
  \/ \E leaf \in Leaves : ParseLeaf(leaf)
  \/ \E kind \in {"binary", "array"} : ParseInner(kind)
  \/ \E what \in {"assign", "declare", "condition"} : Begin(what)
  \/ Collect \/ Start
  \/ GetArrayExprInfo \/ TakeIndex \/ MakeDataAccess
  \/ Record \/ EndRecord \/ RecordDeclared \/ AddInvariants
  \/ BeginToString \/ Stringify \/ EndToString
  \/ Describe
  \/ Finish
  \/ Terminated

Spec == Init /\ [][Next]_vars

-------------------------------------------------------------------------------
(***************************************************************************)
(* Properties.                                                             *)
(***************************************************************************)
Nodes == 1 .. Len(ast)

NodeSet ==
  Leaves \cup [kind : {"binary", "array"}, left : Nat, right : Nat]
DataAccessSet(ids) == [name : Names, sourceId : ids, isRead : BOOLEAN, indexes : Seq(Nodes)]

(* The type invariant. *)
TypeOK ==
  /\ ast \in Seq(NodeSet)
  /\ roots \in Seq(Nodes)
  /\ use \in {"none", "assign", "declare", "condition"}
  /\ todo \in Seq([do : {"collect", "access", "declare"}, expr : Nodes,
                   end : {"read", "write", "text", "invariant"}])
  /\ frames \in Seq([expr : Nodes, isRead : BOOLEAN, at : Nodes \cup {0}, base : Nodes,
                     info : Seq(Nodes), indexes : Seq(Nodes)])
  /\ accesses \in Seq(DataAccessSet(Nodes))
  /\ stmtDataAccesses \in Seq(DataAccessSet(Nodes \cup {0}))
  /\ described \in 0 .. Len(stmtDataAccesses)
  /\ newInvariants \subseteq Names
  /\ unprinted \in Seq(Nodes)
  /\ printed \subseteq Nodes
  /\ replacementVarNumber \in Nat
  /\ status \in {"parsing", "collecting", "making", "made", "printing", "done", "exit", "bug"}

(* toString finds the sub-accesses it prints: "This point should be        *)
(* unreachable -- this is a bug" (DataAccessHandler.cpp).                  *)
StringifyNeverFails == status # "bug"
===============================================================================
