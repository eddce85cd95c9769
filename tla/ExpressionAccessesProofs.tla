----------------------- MODULE ExpressionAccessesProofs -----------------------
(***************************************************************************)
(* For any expressions, any iterators and any MAX_ARRAY_DIM: what the      *)
(* handler's walks make of a tree is what the definitions by recursion     *)
(* over its nodes say.                                                     *)
(***************************************************************************)
EXTENDS ExpressionAccesses, DataAccessHandlerProofs, WellFoundedInduction

-------------------------------------------------------------------------------
(* Where the code searches: the components of an expression, and of an     *)
(* array those of its subscripts that are arrays.                          *)
ComponentsOf[n \in Nodes] ==
  CASE IsKind(n, "binary") -> ComponentsOf[ast[n].left] \cup ComponentsOf[ast[n].right]
    [] IsKind(n, "ref") \/ IsArray(n) -> {n}
    [] OTHER -> {}
ArraysIn[n \in Nodes] ==
  IF IsArray(n) THEN {n} \cup UNION {ArraysIn[m] : m \in ToSet(Subscripts[n])} ELSE {}
Arrays(n) == UNION {ArraysIn[c] : c \in ComponentsOf[n]}
Searched(n) == {m \in ComponentsOf[n] \cup Arrays(n) : IsSpace(Base[m])}

(* The inductive invariant.  The order of the nodes: an operand comes      *)
(* before its node, the nodes of the right one all after the left one; the *)
(* nodes between an operand and its node are all of the operand after it;  *)
(* and the nodes of an expression no other contains come after those of    *)
(* the one before it.                                                      *)
Inner(n) == IsKind(n, "binary") \/ IsArray(n)
Above(b, n) == \A m \in Nodes : Inner(m) /\ b < m /\ m <= n => b < ast[m].left

OperandsBefore ==
  \A n \in Nodes : Inner(n) =>
    /\ ast[n].left < ast[n].right /\ ast[n].right < n
    /\ Above(ast[n].left, ast[n].right)
OperandsApart ==
  \A n, m \in Nodes : Inner(n) /\ Inner(m) /\ m < n =>
    \A b \in {ast[n].left, ast[n].right} : b < m => b < ast[m].left
RootsInOrder ==
  \A i \in 1 .. Len(roots) :
    /\ Above(roots[i], Len(ast))
    /\ \A j \in 1 .. Len(roots) : i < j => roots[i] < roots[j]

TreeShape == OperandsBefore /\ OperandsApart /\ RootsInOrder

(* What an activation has found on its way down the dimensions and taken   *)
(* on its way back.                                                        *)
Ahead(f) == IF f.at # 0 THEN Subscripts[f.at] ELSE f.indexes
SoFar(f) ==
  LET s == Subscripts[f.expr] IN
    /\ IsArray(f.expr)
    /\ f.at # 0 => f.indexes = << >> /\ Base[f.at] = Base[f.expr]
    /\ f.at = 0 => f.base = Base[f.expr]
    /\ Len(s) = Len(Ahead(f)) + Len(f.info)
    /\ \A j \in 1 .. Len(Ahead(f)) : Ahead(f)[j] = s[j]
    /\ \A k \in 1 .. Len(f.info) : f.info[k] = s[Len(s) + 1 - k]
    /\ Len(f.indexes) + Len(f.info) <= MaxArrayDim

PathsOK ==
  /\ \A i \in 1 .. Len(frames) : SoFar(frames[i])
  /\ status \in {"making", "made", "printing"} => Head(todo).do = "access"
  /\ status = "making" =>
       /\ frames[1].expr = Head(todo).expr
       /\ \A i \in 1 .. Len(frames) :
            frames[i].isRead = (i = 1 => Head(todo).end # "write")

(* The accesses an activation has yet to make; those called by it are at   *)
(* the index below its top.                                                *)
ArraysFrom(n, k) ==
  {n} \cup UNION {ArraysIn[Subscripts[n][j]] : j \in k .. Len(Subscripts[n])}
Remaining(i) ==
  ArraysFrom(frames[i].expr,
             Len(frames[i].indexes) + (IF i = Len(frames) THEN 1 ELSE 2))

(* The accesses of the expression at hand, made or all of those to make.   *)
Ids(accs) == {accs[i].sourceId : i \in 1 .. Len(accs)}
InOrder(accs) ==
  \A i, j \in 1 .. Len(accs) : i < j => accs[i].sourceId < accs[j].sourceId

AccessesOK ==
  status \in {"making", "made", "printing"} =>
    LET t == Head(todo) IN
      /\ InOrder(accesses)
      /\ \A i \in 1 .. Len(accesses) :
           /\ accesses[i] = AccessAt(accesses[i].sourceId,
                                     t.end = "write" => accesses[i].sourceId # t.expr)
           /\ Len(accesses[i].indexes) <= MaxArrayDim
      /\ Ids(accesses) \subseteq ComponentsOf[t.expr] \cup Arrays(t.expr)
      /\ t.end \in {"text", "invariant"} /\ status # "making" =>
           Arrays(t.expr) \subseteq Ids(accesses)
MakingOK ==
  status = "making" =>
    /\ Ids(accesses) \cup UNION {Remaining(i) : i \in 1 .. Len(frames)}
         = ArraysIn[Head(todo).expr]
    /\ \A i \in 1 .. Len(frames) :
         /\ \A x \in Ids(accesses), y \in Remaining(i) : x < y
         /\ \A j \in 1 .. i - 1 : \A x \in Remaining(i), y \in Remaining(j) : x < y

(* The accesses of the statement: what a task will add to them.            *)
Recorded(t) == t.end \in {"read", "write"} /\ t.do # "declare"
DueOf(t) == IF Recorded(t) THEN Searched(t.expr) ELSE {}
Due(i) ==
  IF i = 1 /\ status = "made" /\ Recorded(todo[1])
    THEN {m \in Ids(accesses) : IsSpace(Base[m])}
    ELSE DueOf(todo[i])
Wanted ==
  CASE use = "assign" -> Searched(roots[1]) \cup Searched(roots[2])
    [] use = "declare" -> Searched(roots[2])
    [] OTHER -> {}
Written == IF use = "assign" THEN roots[1] ELSE 0
DeclaredAccess ==
  [name |-> ast[roots[1]].name, sourceId |-> 0, isRead |-> FALSE, indexes |-> << >>]

TasksForUse ==
  \A i \in 1 .. Len(todo) :
    LET t == todo[i] IN
      /\ t.end = "write" /\ t.do # "declare" =>
           use = "assign" /\ t.expr = roots[1] /\ t.do = "access"
      /\ t.end = "read" => Written \notin Searched(t.expr)
      /\ t.do = "declare" =>
           use = "declare" /\ i = Len(todo) /\ t.expr = roots[1] /\ t.end = "write"
      /\ 0 \in Ids(stmtDataAccesses) => t.end = "text"

EntriesOK ==
  \A i \in 1 .. Len(stmtDataAccesses) :
    LET a == stmtDataAccesses[i] IN
      /\ a.sourceId # 0 =>
           /\ a = AccessAt(a.sourceId, a.sourceId # Written)
           /\ \A j \in 1 .. i - 1 : stmtDataAccesses[j].sourceId < a.sourceId
      /\ a.sourceId = 0 =>
           use = "declare" /\ a = DeclaredAccess /\ i = Len(stmtDataAccesses)
      /\ Len(a.indexes) <= MaxArrayDim

DeclaredOK ==
  use = "declare" =>
    /\ 0 \in Ids(stmtDataAccesses) => IsSpace(roots[1])
    /\ IsSpace(roots[1]) =>
         ((\E i \in 1 .. Len(todo) : todo[i].do = "declare")
            <=> 0 \notin Ids(stmtDataAccesses))

RecordedOK ==
  /\ (Ids(stmtDataAccesses) \ {0}) \cup UNION {Due(i) : i \in 1 .. Len(todo)} = Wanted
  /\ \A i, j \in 1 .. Len(todo) : i < j => \A x \in Due(i), y \in Due(j) : x < y
  /\ \A i \in 1 .. Len(todo) : \A x \in Ids(stmtDataAccesses), y \in Due(i) : x < y
  /\ EntriesOK
  /\ DeclaredOK

(* The arrays printed as calls: what a text or an array adds to them.      *)
PrintOf(t) == IF t.end = "text" THEN Arrays(t.expr) ELSE {}
ToPrint(i) == IF i = 1 /\ status = "printing" THEN {} ELSE PrintOf(todo[i])
Texts ==
  (IF use = "condition" THEN {roots[1], roots[2]} ELSE {})
    \cup UNION {ToSet(stmtDataAccesses[i].indexes) : i \in 1 .. described}
PrintedOK ==
  /\ printed \cup (UNION {ArraysIn[unprinted[i]] : i \in 1 .. Len(unprinted)})
             \cup (UNION {ToPrint(i) : i \in 1 .. Len(todo)})
       = UNION {Arrays(k) : k \in Texts}
  /\ status # "printing" => unprinted = << >>

(* The arrays of a condition whose names are still to be collected. *)
InvariantsOK ==
  use = "condition" =>
    \A r \in {1, 2} : \A m \in Arrays(roots[r]) :
      \/ ast[Base[m]].name \in newInvariants
      \/ \E i \in 1 .. Len(todo) : todo[i].end = "invariant" /\ m \in Arrays(todo[i].expr)

ExitOK ==
  status = "exit" =>
    \E n \in Nodes : ast[n].kind \in {"call", "other"} \/ Len(Subscripts[n]) > MaxArrayDim

WorkOK ==
  /\ use # "none" /\ Len(roots) = 2
  /\ PathsOK
  /\ AccessesOK
  /\ MakingOK
  /\ TasksForUse
  /\ RecordedOK
  /\ PrintedOK
  /\ InvariantsOK
  /\ ExitOK

DoneOK == status = "done" => todo = << >> /\ described = Len(stmtDataAccesses)

AInv ==
  /\ IInv
  /\ TreeShape
  /\ status # "parsing" => WorkOK
  /\ DoneOK

-------------------------------------------------------------------------------
(* The definitions by recursion over the nodes.  A set of numbers has a    *)
(* least element: what holds of a node when it holds of those before it    *)
(* holds of every node.                                                    *)
LEMMA Least ==
  ASSUME NEW T, T \subseteq Nat, T # {}
  PROVE  \E x \in T : \A y \in T : x <= y
<1> DEFINE R == OpToRel(<, Nat)
<1>1. IsWellFoundedOn(R, Nat)
  BY NatLessThanWellFounded
<1>2. PICK x \in T : \A y \in T : ~(<<y, x>> \in R)
  <2> HIDE DEF R
  <2> QED
    BY <1>1, WFMin
<1>3. \A y \in T : ~(y < x)
  BY <1>2 DEF OpToRel
<1> QED
  BY <1>3

Tree == ast \in Seq(NodeSet) /\ TreeOK /\ OperandsBefore

LEMMA Operands ==
  ASSUME Tree, NEW n \in Nodes, Inner(n)
  PROVE  /\ n \in Nat \ {0} /\ n <= Len(ast) /\ Len(ast) \in Nat
         /\ ast[n].left \in Nodes /\ ast[n].right \in Nodes
         /\ ast[n].left \in 1 .. n - 1 /\ ast[n].right \in 1 .. n - 1
         /\ ast[n].left < ast[n].right
         /\ Above(ast[n].left, ast[n].right)
<1>1. Len(ast) \in Nat /\ n \in 1 .. Len(ast)
  BY DEF Tree, Nodes
<1>2. ast[n].left \in Nodes /\ ast[n].right \in Nodes
  BY DEF Tree, TreeOK, Inner
<1>3. /\ ast[n].left < ast[n].right /\ ast[n].right < n
      /\ Above(ast[n].left, ast[n].right)
  BY DEF Tree, OperandsBefore
<1> QED
  BY <1>1, <1>2, <1>3 DEF Nodes

(* Each is a function of its values before the node, so there is such a    *)
(* function up to every node.                                              *)
SubscriptsBy(g, n) == IF IsArray(n) THEN Append(g[ast[n].left], ast[n].right) ELSE << >>
BaseBy(g, n) == IF IsArray(n) THEN g[ast[n].left] ELSE n
ComponentsBy(g, n) ==
  CASE IsKind(n, "binary") -> g[ast[n].left] \cup g[ast[n].right]
    [] IsKind(n, "ref") \/ IsArray(n) -> {n}
    [] OTHER -> {}
ArraysBy(g, n) ==
  IF IsArray(n) THEN {n} \cup UNION {g[m] : m \in ToSet(Subscripts[n])} ELSE {}

LEMMA SubscriptsRecursion ==
  ASSUME Tree
  PROVE  Subscripts = [n \in Nodes |-> SubscriptsBy(Subscripts, n)]
<1> DEFINE Defined(k) == \E g : g = [n \in 1 .. k |-> SubscriptsBy(g, n)]
           Bad == {k \in 0 .. Len(ast) : ~Defined(k)}
<1>1. Len(ast) \in Nat
  BY DEF Tree
<1>2. SUFFICES Bad = {}
  <2>1. Defined(Len(ast))
    BY <1>1, <1>2
  <2> QED
    BY <2>1 DEF Subscripts, Nodes, SubscriptsBy
<1>3. SUFFICES ASSUME Bad # {} PROVE FALSE
  OBVIOUS
<1>4. PICK k \in Bad : \A j \in Bad : k <= j
  <2> HIDE DEF Bad
  <2>1. Bad \subseteq Nat
    BY <1>1 DEF Bad
  <2> QED
    BY <1>3, <2>1, Least
<1>5. k # 0
  <2> DEFINE g == [n \in 1 .. 0 |-> n]
  <2>1. g = [n \in 1 .. 0 |-> SubscriptsBy(g, n)]
    OBVIOUS
  <2>2. Defined(0)
    BY <2>1
  <2> QED
    BY <2>2
<1>6. PICK g : g = [n \in 1 .. k - 1 |-> SubscriptsBy(g, n)]
  <2>1. k - 1 \in 0 .. Len(ast) /\ ~(k <= k - 1)
    BY <1>1, <1>5
  <2>2. Defined(k - 1)
    BY <2>1, <1>4
  <2> QED
    BY <2>2
<1> DEFINE h == [n \in 1 .. k |-> IF n < k THEN g[n] ELSE SubscriptsBy(g, n)]
<1>7. h = [n \in 1 .. k |-> SubscriptsBy(h, n)]
  <2>1. ASSUME NEW n \in 1 .. k
        PROVE  h[n] = SubscriptsBy(h, n)
    <3>1. n \in Nodes /\ n \in Nat
      BY <1>1 DEF Nodes
    <3>2. Inner(n) => /\ ast[n].left \in 1 .. k - 1 /\ ast[n].left < k
                      /\ ast[n].right \in 1 .. k - 1 /\ ast[n].right < k
      BY <1>1, <3>1, Operands
    <3>3. SubscriptsBy(h, n) = SubscriptsBy(g, n)
      <4>1. Inner(n) => h[ast[n].left] = g[ast[n].left] /\ h[ast[n].right] = g[ast[n].right]
        BY <3>2
      <4> HIDE DEF h
      <4> QED
        BY <4>1, Zenon DEF SubscriptsBy, Inner
    <3>4. CASE n < k
      <4>1. n \in 1 .. k - 1
        BY <3>4, <1>1
      <4>2. h[n] = g[n]
        BY <3>4
      <4> HIDE DEF h
      <4>3. g[n] = SubscriptsBy(g, n)
        BY <4>1, <1>6
      <4> QED
        BY <4>2, <4>3, <3>3
    <3>5. CASE ~(n < k)
      <4>1. h[n] = SubscriptsBy(g, n)
        BY <3>5
      <4> HIDE DEF h
      <4> QED
        BY <4>1, <3>3
    <3> QED
      BY <3>4, <3>5
  <2>2. h = [n \in 1 .. k |-> h[n]]
    OBVIOUS
  <2> HIDE DEF h
  <2> QED
    BY <2>1, <2>2
<1>8. Defined(k)
  <2> HIDE DEF h
  <2> QED
    BY <1>7
<1> QED
  BY <1>4, <1>8

LEMMA BaseRecursion ==
  ASSUME Tree
  PROVE  Base = [n \in Nodes |-> BaseBy(Base, n)]
<1> DEFINE Defined(k) == \E g : g = [n \in 1 .. k |-> BaseBy(g, n)]
           Bad == {k \in 0 .. Len(ast) : ~Defined(k)}
<1>1. Len(ast) \in Nat
  BY DEF Tree
<1>2. SUFFICES Bad = {}
  <2>1. Defined(Len(ast))
    BY <1>1, <1>2
  <2> QED
    BY <2>1 DEF Base, Nodes, BaseBy
<1>3. SUFFICES ASSUME Bad # {} PROVE FALSE
  OBVIOUS
<1>4. PICK k \in Bad : \A j \in Bad : k <= j
  <2> HIDE DEF Bad
  <2>1. Bad \subseteq Nat
    BY <1>1 DEF Bad
  <2> QED
    BY <1>3, <2>1, Least
<1>5. k # 0
  <2> DEFINE g == [n \in 1 .. 0 |-> n]
  <2>1. g = [n \in 1 .. 0 |-> BaseBy(g, n)]
    OBVIOUS
  <2>2. Defined(0)
    BY <2>1
  <2> QED
    BY <2>2
<1>6. PICK g : g = [n \in 1 .. k - 1 |-> BaseBy(g, n)]
  <2>1. k - 1 \in 0 .. Len(ast) /\ ~(k <= k - 1)
    BY <1>1, <1>5
  <2>2. Defined(k - 1)
    BY <2>1, <1>4
  <2> QED
    BY <2>2
<1> DEFINE h == [n \in 1 .. k |-> IF n < k THEN g[n] ELSE BaseBy(g, n)]
<1>7. h = [n \in 1 .. k |-> BaseBy(h, n)]
  <2>1. ASSUME NEW n \in 1 .. k
        PROVE  h[n] = BaseBy(h, n)
    <3>1. n \in Nodes /\ n \in Nat
      BY <1>1 DEF Nodes
    <3>2. Inner(n) => /\ ast[n].left \in 1 .. k - 1 /\ ast[n].left < k
                      /\ ast[n].right \in 1 .. k - 1 /\ ast[n].right < k
      BY <1>1, <3>1, Operands
    <3>3. BaseBy(h, n) = BaseBy(g, n)
      <4>1. Inner(n) => h[ast[n].left] = g[ast[n].left] /\ h[ast[n].right] = g[ast[n].right]
        BY <3>2
      <4> HIDE DEF h
      <4> QED
        BY <4>1, Zenon DEF BaseBy, Inner
    <3>4. CASE n < k
      <4>1. n \in 1 .. k - 1
        BY <3>4, <1>1
      <4>2. h[n] = g[n]
        BY <3>4
      <4> HIDE DEF h
      <4>3. g[n] = BaseBy(g, n)
        BY <4>1, <1>6
      <4> QED
        BY <4>2, <4>3, <3>3
    <3>5. CASE ~(n < k)
      <4>1. h[n] = BaseBy(g, n)
        BY <3>5
      <4> HIDE DEF h
      <4> QED
        BY <4>1, <3>3
    <3> QED
      BY <3>4, <3>5
  <2>2. h = [n \in 1 .. k |-> h[n]]
    OBVIOUS
  <2> HIDE DEF h
  <2> QED
    BY <2>1, <2>2
<1>8. Defined(k)
  <2> HIDE DEF h
  <2> QED
    BY <1>7
<1> QED
  BY <1>4, <1>8

LEMMA ComponentsOfRecursion ==
  ASSUME Tree
  PROVE  ComponentsOf = [n \in Nodes |-> ComponentsBy(ComponentsOf, n)]
<1> DEFINE Defined(k) == \E g : g = [n \in 1 .. k |-> ComponentsBy(g, n)]
           Bad == {k \in 0 .. Len(ast) : ~Defined(k)}
<1>1. Len(ast) \in Nat
  BY DEF Tree
<1>2. SUFFICES Bad = {}
  <2>1. Defined(Len(ast))
    BY <1>1, <1>2
  <2> QED
    BY <2>1 DEF ComponentsOf, Nodes, ComponentsBy
<1>3. SUFFICES ASSUME Bad # {} PROVE FALSE
  OBVIOUS
<1>4. PICK k \in Bad : \A j \in Bad : k <= j
  <2> HIDE DEF Bad
  <2>1. Bad \subseteq Nat
    BY <1>1 DEF Bad
  <2> QED
    BY <1>3, <2>1, Least
<1>5. k # 0
  <2> DEFINE g == [n \in 1 .. 0 |-> n]
  <2>1. g = [n \in 1 .. 0 |-> ComponentsBy(g, n)]
    OBVIOUS
  <2>2. Defined(0)
    BY <2>1
  <2> QED
    BY <2>2
<1>6. PICK g : g = [n \in 1 .. k - 1 |-> ComponentsBy(g, n)]
  <2>1. k - 1 \in 0 .. Len(ast) /\ ~(k <= k - 1)
    BY <1>1, <1>5
  <2>2. Defined(k - 1)
    BY <2>1, <1>4
  <2> QED
    BY <2>2
<1> DEFINE h == [n \in 1 .. k |-> IF n < k THEN g[n] ELSE ComponentsBy(g, n)]
<1>7. h = [n \in 1 .. k |-> ComponentsBy(h, n)]
  <2>1. ASSUME NEW n \in 1 .. k
        PROVE  h[n] = ComponentsBy(h, n)
    <3>1. n \in Nodes /\ n \in Nat
      BY <1>1 DEF Nodes
    <3>2. Inner(n) => /\ ast[n].left \in 1 .. k - 1 /\ ast[n].left < k
                      /\ ast[n].right \in 1 .. k - 1 /\ ast[n].right < k
      BY <1>1, <3>1, Operands
    <3>3. ComponentsBy(h, n) = ComponentsBy(g, n)
      <4>1. Inner(n) => h[ast[n].left] = g[ast[n].left] /\ h[ast[n].right] = g[ast[n].right]
        BY <3>2
      <4> HIDE DEF h
      <4> QED
        BY <4>1, Zenon DEF ComponentsBy, Inner
    <3>4. CASE n < k
      <4>1. n \in 1 .. k - 1
        BY <3>4, <1>1
      <4>2. h[n] = g[n]
        BY <3>4
      <4> HIDE DEF h
      <4>3. g[n] = ComponentsBy(g, n)
        BY <4>1, <1>6
      <4> QED
        BY <4>2, <4>3, <3>3
    <3>5. CASE ~(n < k)
      <4>1. h[n] = ComponentsBy(g, n)
        BY <3>5
      <4> HIDE DEF h
      <4> QED
        BY <4>1, <3>3
    <3> QED
      BY <3>4, <3>5
  <2>2. h = [n \in 1 .. k |-> h[n]]
    OBVIOUS
  <2> HIDE DEF h
  <2> QED
    BY <2>1, <2>2
<1>8. Defined(k)
  <2> HIDE DEF h
  <2> QED
    BY <1>7
<1> QED
  BY <1>4, <1>8

LEMMA SubscriptsOf ==
  ASSUME Tree, NEW n \in Nodes
  PROVE  /\ IsArray(n) => Subscripts[n] = Append(Subscripts[ast[n].left], ast[n].right)
         /\ ~IsArray(n) => Subscripts[n] = << >>
<1>1. Subscripts[n] = SubscriptsBy(Subscripts, n)
  <2>1. Subscripts = [m \in Nodes |-> SubscriptsBy(Subscripts, m)]
    BY SubscriptsRecursion
  <2> QED
    BY <2>1
<1> QED
  BY <1>1 DEF SubscriptsBy

LEMMA BaseOf ==
  ASSUME Tree, NEW n \in Nodes
  PROVE  /\ IsArray(n) => Base[n] = Base[ast[n].left]
         /\ ~IsArray(n) => Base[n] = n
<1>1. Base[n] = BaseBy(Base, n)
  <2>1. Base = [m \in Nodes |-> BaseBy(Base, m)]
    BY BaseRecursion
  <2> QED
    BY <2>1
<1> QED
  BY <1>1 DEF BaseBy

LEMMA ComponentsAre ==
  ASSUME Tree, NEW n \in Nodes
  PROVE  /\ IsKind(n, "binary") =>
              ComponentsOf[n] = ComponentsOf[ast[n].left] \cup ComponentsOf[ast[n].right]
         /\ IsKind(n, "ref") \/ IsArray(n) => ComponentsOf[n] = {n}
         /\ ~Inner(n) /\ ~IsKind(n, "ref") => ComponentsOf[n] = {}
<1>1. ComponentsOf[n] = ComponentsBy(ComponentsOf, n)
  <2>1. ComponentsOf = [m \in Nodes |-> ComponentsBy(ComponentsOf, m)]
    BY ComponentsOfRecursion
  <2> QED
    BY <2>1
<1>2. /\ ast[n].kind = "binary" => ComponentsBy(ComponentsOf, n)
                    = ComponentsOf[ast[n].left] \cup ComponentsOf[ast[n].right]
      /\ ast[n].kind \in {"ref", "array"} => ComponentsBy(ComponentsOf, n) = {n}
      /\ ast[n].kind \notin {"binary", "ref", "array"} => ComponentsBy(ComponentsOf, n) = {}
  BY DEF ComponentsBy, IsArray, IsKind
<1> QED
  BY <1>1, <1>2 DEF Inner, IsArray, IsKind

(* The subscripts, the components and the arrays of an expression above a  *)
(* node are between that node and the expression.                          *)
LEMMA AboveOperands ==
  ASSUME Tree, NEW b \in Nat, NEW n \in Nodes, Above(b, n), b < n, Inner(n)
  PROVE  /\ b < ast[n].left /\ Above(b, ast[n].left)
         /\ b < ast[n].right /\ Above(b, ast[n].right)
<1>1. /\ n \in Nat /\ ast[n].left \in 1 .. n - 1 /\ ast[n].right \in 1 .. n - 1
      /\ ast[n].left < ast[n].right
  BY Operands
<1>2. b < ast[n].left
  BY <1>1 DEF Above
<1>3. ASSUME NEW a \in 1 .. n - 1
      PROVE  Above(b, a)
  <2>1. \A m \in Nodes : m \in Nat /\ (m <= a => m <= n)
    BY <1>1 DEF Nodes
  <2> QED
    BY <2>1 DEF Above
<1> QED
  BY <1>1, <1>2, <1>3

LEMMA SubscriptsAbove ==
  ASSUME Tree, NEW b \in Nat, NEW n \in Nodes, Above(b, n), b < n
  PROVE  Subscripts[n] \in Seq(b + 1 .. n - 1)
<1> DEFINE P(m) == Above(b, m) /\ b < m => Subscripts[m] \in Seq(b + 1 .. m - 1)
           Bad == {m \in Nodes : ~P(m)}
<1>1. SUFFICES ASSUME Bad # {} PROVE FALSE
  OBVIOUS
<1>2. PICK m \in Bad : \A j \in Bad : m <= j
  <2> HIDE DEF Bad
  <2>1. Bad \subseteq Nat
    BY DEF Bad, Nodes
  <2> QED
    BY <1>1, <2>1, Least
<1>3. m \in Nodes /\ Above(b, m) /\ b < m /\ m \in Nat
  BY <1>2 DEF Nodes
<1>4. CASE ~IsArray(m)
  <2>1. Subscripts[m] = << >>
    BY <1>3, <1>4, SubscriptsOf
  <2>2. << >> \in Seq(b + 1 .. m - 1)
    BY EmptySeq
  <2> QED
    BY <1>2, <2>1, <2>2
<1>5. CASE IsArray(m)
  <2> DEFINE l == ast[m].left
             r == ast[m].right
  <2>1. /\ l \in Nodes /\ l \in 1 .. m - 1 /\ r \in 1 .. m - 1
        /\ b < l /\ Above(b, l) /\ b < r
    BY <1>3, <1>5, Operands, AboveOperands DEF Inner
  <2>2. P(l)
    <3>1. ~(m <= l)
      BY <1>3, <2>1
    <3> HIDE DEF P
    <3> QED
      BY <1>2, <2>1, <3>1
  <2>3. Subscripts[m] = Append(Subscripts[l], r)
    BY <1>3, <1>5, SubscriptsOf
  <2> HIDE DEF l, r
  <2>4. b + 1 .. l - 1 \subseteq b + 1 .. m - 1 /\ r \in b + 1 .. m - 1
    BY <1>3, <2>1
  <2>5. Subscripts[l] \in Seq(b + 1 .. m - 1)
    <3>1. Subscripts[l] \in Seq(b + 1 .. l - 1)
      BY <2>1, <2>2
    <3> QED
      BY <2>4, <3>1, SeqMonotonic
  <2>6. Subscripts[m] \in Seq(b + 1 .. m - 1)
    BY <2>3, <2>4, <2>5, AppendProperties
  <2> QED
    BY <1>2, <2>6
<1> QED
  BY <1>4, <1>5

LEMMA AboveNothing ==
  ASSUME Tree, NEW n \in Nodes
  PROVE  Above(0, n) /\ 0 < n
<1>1. \A m \in Nodes : m \in Nat \ {0}
  BY DEF Nodes
<1>2. \A m \in Nodes : Inner(m) => ast[m].left \in Nodes
  BY Operands
<1> QED
  BY <1>1, <1>2 DEF Above

LEMMA SubscriptsTyped ==
  ASSUME Tree, NEW n \in Nodes
  PROVE  /\ Subscripts[n] \in Seq(1 .. n - 1) /\ Subscripts[n] \in Seq(Nodes)
         /\ Len(Subscripts[n]) \in Nat
         /\ \A j \in 1 .. Len(Subscripts[n]) :
              Subscripts[n][j] \in Nodes /\ Subscripts[n][j] \in 1 .. n - 1
         /\ ToSet(Subscripts[n]) = {Subscripts[n][j] : j \in 1 .. Len(Subscripts[n])}
<1>1. Subscripts[n] \in Seq(0 + 1 .. n - 1)
  BY AboveNothing, SubscriptsAbove
<1>2. n \in 1 .. Len(ast) /\ Len(ast) \in Nat
  BY DEF Tree, Nodes
<1>3. 1 .. n - 1 \subseteq Nodes
  BY <1>2 DEF Nodes
<1>4. Subscripts[n] \in Seq(1 .. n - 1)
  BY <1>1
<1>5. Subscripts[n] \in Seq(Nodes)
  BY <1>3, <1>4, SeqMonotonic
<1>6. \A j \in 1 .. Len(Subscripts[n]) : Subscripts[n][j] \in 1 .. n - 1
  BY <1>4, ElementOfSeq
<1> QED
  BY <1>3, <1>4, <1>5, <1>6 DEF ToSet

LEMMA ArraysInRecursion ==
  ASSUME Tree
  PROVE  ArraysIn = [n \in Nodes |-> ArraysBy(ArraysIn, n)]
<1> DEFINE Defined(k) == \E g : g = [n \in 1 .. k |-> ArraysBy(g, n)]
           Bad == {k \in 0 .. Len(ast) : ~Defined(k)}
<1>1. Len(ast) \in Nat
  BY DEF Tree
<1>2. SUFFICES Bad = {}
  <2>1. Defined(Len(ast))
    BY <1>1, <1>2
  <2> QED
    BY <2>1 DEF ArraysIn, Nodes, ArraysBy
<1>3. SUFFICES ASSUME Bad # {} PROVE FALSE
  OBVIOUS
<1>4. PICK k \in Bad : \A j \in Bad : k <= j
  <2> HIDE DEF Bad
  <2>1. Bad \subseteq Nat
    BY <1>1 DEF Bad
  <2> QED
    BY <1>3, <2>1, Least
<1>5. k # 0
  <2> DEFINE g == [n \in 1 .. 0 |-> n]
  <2>1. g = [n \in 1 .. 0 |-> ArraysBy(g, n)]
    OBVIOUS
  <2>2. Defined(0)
    BY <2>1
  <2> QED
    BY <2>2
<1>6. PICK g : g = [n \in 1 .. k - 1 |-> ArraysBy(g, n)]
  <2>1. k - 1 \in 0 .. Len(ast) /\ ~(k <= k - 1)
    BY <1>1, <1>5
  <2>2. Defined(k - 1)
    BY <2>1, <1>4
  <2> QED
    BY <2>2
<1> DEFINE h == [n \in 1 .. k |-> IF n < k THEN g[n] ELSE ArraysBy(g, n)]
<1>7. h = [n \in 1 .. k |-> ArraysBy(h, n)]
  <2>1. ASSUME NEW n \in 1 .. k
        PROVE  h[n] = ArraysBy(h, n)
    <3>1. n \in Nodes /\ n \in Nat
      BY <1>1 DEF Nodes
    <3>2. \A m \in ToSet(Subscripts[n]) : m \in 1 .. k - 1 /\ m < k
      <4>1. \A j \in 1 .. Len(Subscripts[n]) : Subscripts[n][j] \in 1 .. n - 1
        BY <3>1, SubscriptsTyped
      <4>2. ToSet(Subscripts[n]) = {Subscripts[n][j] : j \in 1 .. Len(Subscripts[n])}
        BY <3>1, SubscriptsTyped
      <4> QED
        BY <1>1, <3>1, <4>1, <4>2
    <3>3. ArraysBy(h, n) = ArraysBy(g, n)
      <4>1. \A m \in ToSet(Subscripts[n]) : h[m] = g[m]
        BY <3>2
      <4> HIDE DEF h
      <4> QED
        BY <4>1, Zenon DEF ArraysBy
    <3>4. CASE n < k
      <4>1. n \in 1 .. k - 1
        BY <3>4, <1>1
      <4>2. h[n] = g[n]
        BY <3>4
      <4> HIDE DEF h
      <4>3. g[n] = ArraysBy(g, n)
        BY <4>1, <1>6
      <4> QED
        BY <4>2, <4>3, <3>3
    <3>5. CASE ~(n < k)
      <4>1. h[n] = ArraysBy(g, n)
        BY <3>5
      <4> HIDE DEF h
      <4> QED
        BY <4>1, <3>3
    <3> QED
      BY <3>4, <3>5
  <2>2. h = [n \in 1 .. k |-> h[n]]
    OBVIOUS
  <2> HIDE DEF h
  <2> QED
    BY <2>1, <2>2
<1>8. Defined(k)
  <2> HIDE DEF h
  <2> QED
    BY <1>7
<1> QED
  BY <1>4, <1>8

LEMMA ArraysAre ==
  ASSUME Tree, NEW n \in Nodes
  PROVE  /\ IsArray(n) =>
              ArraysIn[n] = {n} \cup UNION {ArraysIn[Subscripts[n][j]] :
                                              j \in 1 .. Len(Subscripts[n])}
         /\ ~IsArray(n) => ArraysIn[n] = {}
<1>1. ArraysIn[n] = ArraysBy(ArraysIn, n)
  <2>1. ArraysIn = [m \in Nodes |-> ArraysBy(ArraysIn, m)]
    BY ArraysInRecursion
  <2> QED
    BY <2>1
<1>2. ToSet(Subscripts[n]) = {Subscripts[n][j] : j \in 1 .. Len(Subscripts[n])}
  BY SubscriptsTyped
<1>3. UNION {ArraysIn[m] : m \in ToSet(Subscripts[n])}
        = UNION {ArraysIn[Subscripts[n][j]] : j \in 1 .. Len(Subscripts[n])}
  BY <1>2
<1> QED
  BY <1>1, <1>3 DEF ArraysBy

LEMMA BaseTyped ==
  ASSUME Tree, NEW n \in Nodes
  PROVE  /\ Base[n] \in Nodes
         /\ IsArray(n) \/ IsKind(n, "ref") =>
              IsKind(Base[n], "ref") /\ ast[Base[n]].name \in Names
<1> DEFINE P(m) == /\ Base[m] \in Nodes
                   /\ IsArray(m) \/ IsKind(m, "ref") => IsKind(Base[m], "ref")
           Bad == {m \in Nodes : ~P(m)}
<1>1. Bad = {}
  <2>1. SUFFICES ASSUME Bad # {} PROVE FALSE
    OBVIOUS
  <2>2. PICK m \in Bad : \A j \in Bad : m <= j
    <3> HIDE DEF Bad
    <3>1. Bad \subseteq Nat
      BY DEF Bad, Nodes
    <3> QED
      BY <2>1, <3>1, Least
  <2>3. m \in Nodes /\ m \in Nat
    BY <2>2 DEF Nodes
  <2>4. IsArray(m)
    <3>1. ~IsArray(m) => Base[m] = m
      BY <2>3, BaseOf
    <3> QED
      BY <2>2, <2>3, <3>1
  <2>5. /\ ast[m].left \in Nodes /\ ast[m].left \in 1 .. m - 1
        /\ IsArray(ast[m].left) \/ IsKind(ast[m].left, "ref")
    <3>1. ast[m].left \in Nodes /\ ast[m].left \in 1 .. m - 1
      BY <2>3, <2>4, Operands DEF Inner
    <3>2. IsArray(ast[m].left) \/ IsKind(ast[m].left, "ref")
      BY <2>3, <2>4 DEF Tree, TreeOK
    <3> QED
      BY <3>1, <3>2
  <2>6. P(ast[m].left)
    BY <2>2, <2>3, <2>5
  <2>7. Base[m] = Base[ast[m].left]
    BY <2>3, <2>4, BaseOf
  <2> QED
    BY <2>2, <2>5, <2>6, <2>7
<1>2. P(n)
  BY <1>1
<1> QED
  BY <1>2 DEF Tree, TreeOK

LEMMA ComponentsAbove ==
  ASSUME Tree, NEW b \in Nat, NEW n \in Nodes, Above(b, n), b < n
  PROVE  \A x \in ComponentsOf[n] :
           /\ x \in Nodes /\ x \in b + 1 .. n
           /\ IsArray(x) \/ IsKind(x, "ref")
<1> DEFINE In(x, m) == x \in Nodes /\ x \in b + 1 .. m /\ (IsArray(x) \/ IsKind(x, "ref"))
           P(m) == Above(b, m) /\ b < m => \A x \in ComponentsOf[m] : In(x, m)
           Bad == {m \in Nodes : ~P(m)}
<1>1. SUFFICES ASSUME Bad # {} PROVE FALSE
  OBVIOUS
<1>2. PICK m \in Bad : \A j \in Bad : m <= j
  <2> HIDE DEF Bad
  <2>1. Bad \subseteq Nat
    BY DEF Bad, Nodes
  <2> QED
    BY <1>1, <2>1, Least
<1>3. m \in Nodes /\ Above(b, m) /\ b < m /\ m \in Nat
  BY <1>2 DEF Nodes
<1>4. \A x \in ComponentsOf[m] : In(x, m)
  <2>1. CASE IsKind(m, "binary")
    <3> DEFINE l == ast[m].left
               r == ast[m].right
    <3>1. /\ l \in Nodes /\ l \in 1 .. m - 1 /\ r \in Nodes /\ r \in 1 .. m - 1
          /\ b < l /\ Above(b, l) /\ b < r /\ Above(b, r)
      BY <1>3, <2>1, Operands, AboveOperands DEF Inner
    <3>2. P(l) /\ P(r)
      BY <1>2, <1>3, <3>1
    <3>3. ComponentsOf[m] = ComponentsOf[l] \cup ComponentsOf[r]
      BY <1>3, <2>1, ComponentsAre
    <3> HIDE DEF l, r
    <3>4. \A x : In(x, l) \/ In(x, r) => In(x, m)
      BY <1>3, <3>1
    <3> QED
      BY <3>1, <3>2, <3>3, <3>4
  <2>2. CASE IsKind(m, "ref") \/ IsArray(m)
    BY <1>3, <2>2, ComponentsAre
  <2>3. CASE ~Inner(m) /\ ~IsKind(m, "ref")
    BY <1>3, <2>3, ComponentsAre
  <2> QED
    BY <2>1, <2>2, <2>3 DEF Inner
<1> QED
  BY <1>2, <1>4

LEMMA ArraysAbove ==
  ASSUME Tree, NEW b \in Nat, NEW n \in Nodes, Above(b, n), b < n
  PROVE  \A x \in ArraysIn[n] : x \in Nodes /\ x \in b + 1 .. n /\ IsArray(x)
<1> DEFINE In(x, m) == x \in Nodes /\ x \in b + 1 .. m /\ IsArray(x)
           P(m) == Above(b, m) /\ b < m => \A x \in ArraysIn[m] : In(x, m)
           Bad == {m \in Nodes : ~P(m)}
<1>1. SUFFICES ASSUME Bad # {} PROVE FALSE
  OBVIOUS
<1>2. PICK m \in Bad : \A j \in Bad : m <= j
  <2> HIDE DEF Bad
  <2>1. Bad \subseteq Nat
    BY DEF Bad, Nodes
  <2> QED
    BY <1>1, <2>1, Least
<1>3. m \in Nodes /\ Above(b, m) /\ b < m /\ m \in Nat
  BY <1>2 DEF Nodes
<1>4. ASSUME NEW j \in 1 .. Len(Subscripts[m]), NEW x \in ArraysIn[Subscripts[m][j]]
      PROVE  In(x, m)
  <2> DEFINE s == Subscripts[m][j]
  <2>1. Subscripts[m] \in Seq(b + 1 .. m - 1)
    BY <1>3, SubscriptsAbove
  <2>2. s \in b + 1 .. m - 1 /\ s \in Nodes
    BY <1>3, <2>1, ElementOfSeq, SubscriptsTyped
  <2> HIDE DEF s
  <2>3. Above(b, s)
    <3>1. \A k \in Nodes : k \in Nat /\ (k <= s => k <= m)
      BY <1>3, <2>2 DEF Nodes
    <3> QED
      BY <1>3, <3>1 DEF Above
  <2>4. P(s)
    BY <1>2, <1>3, <2>2
  <2>5. In(x, s)
    BY <2>2, <2>3, <2>4, <1>4 DEF s
  <2> QED
    BY <1>3, <2>2, <2>5
<1>5. \A x \in ArraysIn[m] : In(x, m)
  <2>1. CASE IsArray(m)
    BY <1>3, <1>4, <2>1, ArraysAre
  <2>2. CASE ~IsArray(m)
    BY <1>3, <2>2, ArraysAre
  <2> QED
    BY <2>1, <2>2
<1> QED
  BY <1>2, <1>5

LEMMA ArraysTyped ==
  ASSUME Tree, NEW n \in Nodes
  PROVE  \A x \in ArraysIn[n] : x \in Nodes /\ x \in 1 .. n /\ IsArray(x)
<1>1. \A x \in ArraysIn[n] : x \in Nodes /\ x \in 0 + 1 .. n /\ IsArray(x)
  BY AboveNothing, ArraysAbove
<1> QED
  BY <1>1

LEMMA ComponentsTyped ==
  ASSUME Tree, NEW n \in Nodes
  PROVE  \A x \in ComponentsOf[n] : x \in Nodes /\ (IsArray(x) \/ IsKind(x, "ref"))
<1> QED
  BY AboveNothing, ComponentsAbove

(* The arrays one subscript holds come before those the next one holds. *)
LEMMA SubscriptsInOrder ==
  ASSUME Tree, NEW n \in Nodes
  PROVE  \A k \in 1 .. Len(Subscripts[n]) : \A j \in 1 .. k - 1 :
           \A x \in ArraysIn[Subscripts[n][j]], y \in ArraysIn[Subscripts[n][k]] : x < y
<1> DEFINE P(m) == \A k \in 1 .. Len(Subscripts[m]) : \A j \in 1 .. k - 1 :
                     \A y \in ArraysIn[Subscripts[m][k]] : Subscripts[m][j] < y
           Bad == {m \in Nodes : ~P(m)}
<1>1. Bad = {}
  <2>1. SUFFICES ASSUME Bad # {} PROVE FALSE
    OBVIOUS
  <2>2. PICK m \in Bad : \A j \in Bad : m <= j
    <3> HIDE DEF Bad
    <3>1. Bad \subseteq Nat
      BY DEF Bad, Nodes
    <3> QED
      BY <2>1, <3>1, Least
  <2>3. m \in Nodes /\ m \in Nat
    BY <2>2 DEF Nodes
  <2>4. CASE ~IsArray(m)
    <3>1. Len(Subscripts[m]) = 0
      BY <2>3, <2>4, SubscriptsOf
    <3> QED
      BY <2>2, <3>1
  <2>5. CASE IsArray(m)
    <3> DEFINE l == ast[m].left
               r == ast[m].right
               c == Len(Subscripts[l])
    <3>1. /\ l \in Nodes /\ r \in Nodes /\ l \in 1 .. m - 1 /\ r \in 1 .. m - 1
          /\ l < r /\ Above(l, r)
      BY <2>3, <2>5, Operands DEF Inner
    <3>2. P(l)
      <4>1. l \in Nat /\ ~(m <= l)
        BY <2>3, <3>1
      <4> HIDE DEF P
      <4> QED
        BY <2>2, <3>1, <4>1
    <3>3. Subscripts[m] = Append(Subscripts[l], r)
      BY <2>3, <2>5, SubscriptsOf
    <3>4. /\ Subscripts[l] \in Seq(Nodes) /\ c \in Nat
          /\ \A j \in 1 .. c : Subscripts[l][j] \in 1 .. l - 1
      BY <3>1, SubscriptsTyped
    <3>5. \A y \in ArraysIn[r] : y \in l + 1 .. r
      BY <3>1, <2>3, ArraysAbove
    <3> HIDE DEF l, r
    <3>6. /\ Len(Subscripts[m]) = c + 1 /\ Subscripts[m][c + 1] = r
          /\ \A j \in 1 .. c : Subscripts[m][j] = Subscripts[l][j]
      BY <3>1, <3>3, <3>4, AppendProperties
    <3> HIDE DEF c
    <3>7. ASSUME NEW k \in 1 .. Len(Subscripts[m]), NEW j \in 1 .. k - 1,
                 NEW y \in ArraysIn[Subscripts[m][k]]
          PROVE  Subscripts[m][j] < y
      <4>0. k \in 1 .. c + 1
        BY <3>6
      <4>1. j \in 1 .. c /\ Subscripts[m][j] = Subscripts[l][j]
        BY <3>4, <3>6, <4>0
      <4>2. CASE k = c + 1
        <5>1. y \in l + 1 .. r /\ Subscripts[l][j] \in 1 .. l - 1
          BY <3>4, <3>5, <3>6, <4>1, <4>2
        <5> QED
          BY <3>1, <4>1, <5>1
      <4>3. CASE k # c + 1
        <5>1. k \in 1 .. c
          BY <3>4, <4>0, <4>3
        <5>2. Subscripts[m][k] = Subscripts[l][k]
          BY <3>6, <5>1
        <5> QED
          BY <3>2, <4>1, <5>1, <5>2 DEF c
      <4> QED
        BY <4>2, <4>3
    <3> QED
      BY <2>2, <3>7
  <2> QED
    BY <2>4, <2>5
<1>2. ASSUME NEW k \in 1 .. Len(Subscripts[n]), NEW j \in 1 .. k - 1,
             NEW x \in ArraysIn[Subscripts[n][j]], NEW y \in ArraysIn[Subscripts[n][k]]
      PROVE  x < y
  <2>1. Len(Subscripts[n]) \in Nat /\ j \in 1 .. Len(Subscripts[n])
    BY SubscriptsTyped
  <2>2. Subscripts[n][j] \in Nodes /\ Subscripts[n][k] \in Nodes
    BY <2>1, SubscriptsTyped
  <2>3. x \in 1 .. Subscripts[n][j] /\ y \in 1 .. Subscripts[n][k]
    BY <2>2, ArraysTyped
  <2>4. Subscripts[n][j] < y
    BY <1>1
  <2>5. Subscripts[n][j] \in Nat /\ Subscripts[n][k] \in Nat
    BY <2>2 DEF Nodes
  <2> QED
    BY <2>3, <2>4, <2>5
<1> QED
  BY <1>2

(* The arrays and spaces of an expression. *)
LEMMA OfArray ==
  ASSUME Tree, NEW n \in Nodes, IsArray(n)
  PROVE  /\ Arrays(n) = ArraysIn[n] /\ n \in ArraysIn[n]
         /\ Searched(n) = {m \in ArraysIn[n] : IsSpace(Base[m])}
<1>1. ComponentsOf[n] = {n}
  BY ComponentsAre
<1>2. n \in ArraysIn[n]
  BY ArraysAre
<1> QED
  BY <1>1, <1>2 DEF Arrays, Searched

LEMMA OfRef ==
  ASSUME Tree, NEW n \in Nodes, IsKind(n, "ref")
  PROVE  /\ Arrays(n) = {} /\ ArraysIn[n] = {} /\ ComponentsOf[n] = {n}
         /\ Base[n] = n /\ Subscripts[n] = << >>
         /\ Searched(n) = (IF IsSpace(n) THEN {n} ELSE {})
<1>1. ~IsArray(n)
  BY DEF IsArray, IsKind
<1>2. ComponentsOf[n] = {n} /\ ArraysIn[n] = {} /\ Base[n] = n /\ Subscripts[n] = << >>
  BY <1>1, ComponentsAre, ArraysAre, BaseOf, SubscriptsOf
<1>3. Arrays(n) = {}
  BY <1>2 DEF Arrays
<1>4. Searched(n) = {m \in {n} : IsSpace(Base[m])}
  BY <1>2, <1>3 DEF Searched
<1> QED
  BY <1>2, <1>3, <1>4

LEMMA OfLeaf ==
  ASSUME Tree, NEW n \in Nodes, ~Inner(n), ~IsKind(n, "ref")
  PROVE  Arrays(n) = {} /\ Searched(n) = {}
<1>1. ComponentsOf[n] = {}
  BY ComponentsAre
<1> QED
  BY <1>1 DEF Arrays, Searched

LEMMA SpacesAbove ==
  ASSUME Tree, NEW b \in Nat, NEW n \in Nodes, Above(b, n), b < n
  PROVE  \A x \in Searched(n) : x \in Nodes /\ x \in b + 1 .. n
<1>1. ASSUME NEW c \in ComponentsOf[n], NEW x \in ArraysIn[c]
      PROVE  x \in Nodes /\ x \in b + 1 .. n
  <2>1. c \in Nodes /\ c \in b + 1 .. n
    BY ComponentsAbove
  <2>2. Above(b, c)
    <3>1. \A k \in Nodes : k \in Nat /\ (k <= c => k <= n)
      BY <2>1 DEF Nodes
    <3> QED
      BY <3>1 DEF Above
  <2>3. x \in Nodes /\ x \in b + 1 .. c
    BY <2>1, <2>2, ArraysAbove
  <2>4. n \in Nat
    BY DEF Nodes
  <2> QED
    BY <2>1, <2>3, <2>4
<1>2. \A x \in ComponentsOf[n] : x \in Nodes /\ x \in b + 1 .. n
  BY ComponentsAbove
<1> QED
  BY <1>1, <1>2 DEF Searched, Arrays

LEMMA OfBinary ==
  ASSUME Tree, NEW n \in Nodes, IsKind(n, "binary")
  PROVE  /\ ast[n].left \in Nodes /\ ast[n].right \in Nodes
         /\ Arrays(n) = Arrays(ast[n].left) \cup Arrays(ast[n].right)
         /\ Searched(n) = Searched(ast[n].left) \cup Searched(ast[n].right)
         /\ \A x \in Searched(ast[n].left), y \in Searched(ast[n].right) : x < y
<1> DEFINE l == ast[n].left
           r == ast[n].right
<1>1. /\ n \in Nat /\ l \in Nodes /\ r \in Nodes /\ l \in 1 .. n - 1 /\ r \in 1 .. n - 1
      /\ l < r /\ Above(l, r)
  BY Operands DEF Inner
<1>2. ComponentsOf[n] = ComponentsOf[l] \cup ComponentsOf[r]
  BY ComponentsAre
<1> HIDE DEF l, r
<1>3. /\ Arrays(n) = Arrays(l) \cup Arrays(r)
      /\ Searched(n) = Searched(l) \cup Searched(r)
  BY <1>2 DEF Arrays, Searched
<1>4. \A x \in Searched(l) : x \in 0 + 1 .. l
  BY <1>1, AboveNothing, SpacesAbove
<1>5. \A y \in Searched(r) : y \in l + 1 .. r
  BY <1>1, SpacesAbove
<1>6. \A x \in Searched(l), y \in Searched(r) : x < y
  BY <1>1, <1>4, <1>5
<1> QED
  BY <1>1, <1>3, <1>6 DEF l, r

LEMMA SpacesTyped ==
  ASSUME Tree, NEW n \in Nodes
  PROVE  \A x \in Searched(n) : x \in Nodes /\ x \in 1 .. n
<1>1. \A x \in Searched(n) : x \in Nodes /\ x \in 0 + 1 .. n
  BY AboveNothing, SpacesAbove
<1> QED
  BY <1>1

(* What the tree is made of stays while the tree does. *)
LEMMA TreeStays ==
  ASSUME UNCHANGED ast
  PROVE  /\ UNCHANGED <<Nodes, Subscripts, Base, ComponentsOf, ArraysIn>>
         /\ Tree => Tree'
<1>1. UNCHANGED Nodes
  BY DEF Nodes
<1>2. UNCHANGED Subscripts
  BY DEF Subscripts, Nodes, IsArray, IsKind
<1>3. UNCHANGED Base
  BY DEF Base, Nodes, IsArray, IsKind
<1>4. UNCHANGED ComponentsOf
  BY DEF ComponentsOf, Nodes, IsArray, IsKind
<1>5. UNCHANGED ArraysIn
  BY <1>1, <1>2 DEF ArraysIn, IsArray, IsKind
<1>6. Tree => Tree'
  BY <1>1 DEF Tree, TreeOK, OperandsBefore, Above, Inner, IsArray, IsKind, NodeSet, Leaves
<1> QED
  BY <1>1, <1>2, <1>3, <1>4, <1>5, <1>6

-------------------------------------------------------------------------------
(* The parser puts a node behind the others, whatever it contains. *)
AboveNext(b, n) == \A m \in Nodes' : Inner(m)' /\ b < m /\ m <= n => b < ast'[m].left

LEMMA ParsedNodes ==
  ASSUME IInv, TreeShape, NEW node \in NodeSet, NEW rest \in Seq(Nodes),
         Parsed(node, rest), NEW n, n = Len(ast) + 1
  PROVE  /\ n \in Nat \ {0} /\ Len(ast) \in Nat /\ Len(ast') = n
         /\ Nodes' = Nodes \cup {n} /\ roots' = Append(rest, n)
         /\ \A m \in Nodes : m \in Nat /\ m < n /\ ast'[m] = ast[m] /\ Inner(m)' = Inner(m)
         /\ ast'[n] = node /\ Inner(n)' = (node.kind \in {"binary", "array"})
         /\ \A b \in Nat, e \in Nodes : Above(b, e) => AboveNext(b, e)
         /\ Tree
<1>1. ast \in Seq(NodeSet) /\ TreeOK
  BY DEF IInv, TypeOK
<1>2. ast' = Append(ast, node) /\ roots' = Append(rest, n) /\ Len(ast) \in Nat
  BY <1>1 DEF Parsed
<1>3. /\ Len(ast') = n /\ n \in Nat \ {0} /\ ast'[n] = node
      /\ \A m \in Nodes : ast'[m] = ast[m]
  BY <1>1, <1>2, AppendProperties DEF Nodes
<1>4. Nodes' = Nodes \cup {n} /\ \A m \in Nodes : m \in Nat /\ m < n
  BY <1>2, <1>3 DEF Nodes
<1>5. /\ \A m \in Nodes : Inner(m)' = Inner(m)
      /\ Inner(n)' = (node.kind \in {"binary", "array"})
  BY <1>3 DEF Inner, IsArray, IsKind
<1>6. ASSUME NEW b \in Nat, NEW e \in Nodes, Above(b, e)
      PROVE  AboveNext(b, e)
  <2>1. ~(n <= e)
    BY <1>2, <1>4
  <2> QED
    BY <1>3, <1>4, <1>5, <1>6, <2>1 DEF Above, AboveNext
<1>7. Tree
  BY <1>1 DEF Tree, TreeShape
<1> QED
  BY <1>2, <1>3, <1>4, <1>5, <1>6, <1>7

LEMMA RootsTyped ==
  ASSUME IInv, TreeShape
  PROVE  /\ roots \in Seq(Nodes) /\ Len(roots) \in Nat /\ Len(ast) \in Nat
         /\ \A i \in 1 .. Len(roots) : /\ roots[i] \in Nodes /\ roots[i] \in Nat
                                       /\ Above(roots[i], Len(ast))
                                       /\ roots[i] <= Len(ast)
         /\ \A i, j \in 1 .. Len(roots) : i < j => roots[i] < roots[j]
<1>1. roots \in Seq(Nodes) /\ Len(roots) \in Nat
  BY DEF IInv, TypeOK
<1>2. Len(ast) \in Nat
  BY DEF IInv, TypeOK
<1>3. \A i \in 1 .. Len(roots) : roots[i] \in Nodes
  BY <1>1, ElementOfSeq
<1>4. \A m \in Nodes : m \in Nat /\ m <= Len(ast)
  BY <1>2 DEF Nodes
<1> QED
  BY <1>1, <1>2, <1>3, <1>4 DEF TreeShape, RootsInOrder

LEMMA ParsedShape ==
  ASSUME IInv, TreeShape, NEW node \in NodeSet, NEW rest \in Seq(Nodes),
         Parsed(node, rest),
         Len(rest) <= Len(roots),
         \A i \in 1 .. Len(rest) : rest[i] = roots[i],
         node.kind \in {"binary", "array"} =>
           /\ node.left \in Nodes /\ node.right \in Nodes
           /\ node.left < node.right /\ Above(node.left, node.right)
           /\ Above(node.left, Len(ast)) /\ Above(node.right, Len(ast))
           /\ \A i \in 1 .. Len(rest) : rest[i] < node.left
  PROVE  TreeShape'
<1> PICK n : n = Len(ast) + 1
  OBVIOUS
<1>1. /\ n \in Nat \ {0} /\ Len(ast) \in Nat /\ Len(ast') = n
      /\ Nodes' = Nodes \cup {n} /\ roots' = Append(rest, n)
      /\ \A m \in Nodes : m \in Nat /\ m < n /\ ast'[m] = ast[m] /\ Inner(m)' = Inner(m)
      /\ ast'[n] = node /\ Inner(n)' = (node.kind \in {"binary", "array"})
      /\ Tree
  BY ParsedNodes
<1>2. \A b \in Nat, e \in Nodes : Above(b, e) => AboveNext(b, e)
  BY ParsedNodes
<1> DEFINE B(m) == /\ ast'[m].left < ast'[m].right /\ ast'[m].right < m
                   /\ AboveNext(ast'[m].left, ast'[m].right)
<1>3. ASSUME NEW m \in Nodes', Inner(m)'
      PROVE  B(m)
  <2>1. CASE m = n
    <3>1. /\ ast'[m].left = node.left /\ ast'[m].right = node.right
          /\ node.left \in Nodes /\ node.right \in Nodes /\ node.left < node.right
          /\ Above(node.left, node.right)
      BY <1>1, <1>3, <2>1
    <3>2. AboveNext(node.left, node.right)
      BY <1>1, <1>2, <3>1
    <3> QED
      BY <1>1, <2>1, <3>1, <3>2
  <2>2. CASE m \in Nodes
    <3> DEFINE l == ast[m].left
               r == ast[m].right
    <3>1. /\ ast'[m].left = l /\ ast'[m].right = r
          /\ l \in Nodes /\ r \in Nodes /\ l < r /\ r < m /\ Above(l, r)
      <4>1. Inner(m) /\ ast'[m] = ast[m]
        BY <1>1, <1>3, <2>2
      <4> QED
        BY <1>1, <2>2, <4>1, Operands
    <3> HIDE DEF l, r
    <3>2. AboveNext(l, r)
      BY <1>1, <1>2, <3>1
    <3> QED
      BY <3>1, <3>2
  <2> QED
    BY <1>1, <2>1, <2>2
<1>4. OperandsBefore'
  <2>1. \A m \in Nodes' : Inner(m)' => B(m)
    BY <1>3
  <2> QED
    BY <2>1 DEF OperandsBefore, Above, AboveNext
<1>5. ASSUME NEW i \in 1 .. Len(rest)
      PROVE  rest[i] \in Nat /\ rest[i] < n /\ AboveNext(rest[i], n)
  <2>1. /\ rest[i] \in Nodes /\ rest[i] \in Nat /\ Above(rest[i], Len(ast))
        /\ rest[i] <= Len(ast)
    <3>1. rest[i] = roots[i] /\ i \in 1 .. Len(roots)
      <4>1. Len(rest) \in Nat /\ Len(roots) \in Nat
        BY RootsTyped
      <4> QED
        BY <4>1
    <3> QED
      BY <3>1, RootsTyped
  <2>2. ASSUME NEW m \in Nodes', Inner(m)', rest[i] < m, m <= n
        PROVE  rest[i] < ast'[m].left
    <3>1. CASE m = n
      BY <1>1, <2>2, <3>1
    <3>2. CASE m \in Nodes
      <4>1. Inner(m) /\ ast'[m].left = ast[m].left /\ m <= Len(ast)
        BY <1>1, <2>2, <3>2
      <4> QED
        BY <2>1, <2>2, <3>2, <4>1 DEF Above
    <3> QED
      BY <1>1, <3>1, <3>2
  <2>3. AboveNext(rest[i], n)
    BY <2>2 DEF AboveNext
  <2> QED
    BY <1>1, <2>1, <2>3
<1>6. RootsInOrder'
  <2> DEFINE c == Len(rest)
  <2>1. c \in Nat /\ Len(roots') = c + 1 /\ roots'[c + 1] = n
        /\ \A i \in 1 .. c : roots'[i] = rest[i]
    <3>1. roots' = Append(rest, n) /\ rest \in Seq(Nat)
      <4>1. Nodes \subseteq Nat
        BY DEF Nodes
      <4> QED
        BY <1>1, <4>1, SeqMonotonic
    <3> QED
      BY <1>1, <3>1, AppendProperties
  <2>2. AboveNext(n, n)
    <3>1. \A m \in Nodes' : m \in Nat /\ ~(n < m)
      BY <1>1
    <3> QED
      BY <3>1, <1>1 DEF AboveNext
  <2>3. \A i, j \in 1 .. c : i < j => rest[i] < rest[j]
    <3>1. c \in Nat /\ Len(roots) \in Nat /\ c <= Len(roots)
      BY <2>1, RootsTyped
    <3>2. \A i, j \in 1 .. Len(roots) : i < j => roots[i] < roots[j]
      BY RootsTyped
    <3> QED
      BY <3>1, <3>2
  <2> HIDE DEF c
  <2>4. ASSUME NEW i \in 1 .. c + 1
        PROVE  /\ AboveNext(roots'[i], n)
               /\ \A j \in 1 .. c + 1 : i < j => roots'[i] < roots'[j]
    <3>1. CASE i = c + 1
      BY <2>1, <2>2, <3>1
    <3>2. CASE i \in 1 .. c
      <4>1. roots'[i] = rest[i] /\ AboveNext(rest[i], n) /\ rest[i] < n
        BY <1>5, <2>1, <3>2 DEF c
      <4>2. \A j \in 1 .. c + 1 : i < j => roots'[i] < roots'[j]
        <5>1. \A j \in 1 .. c + 1 : j \in 1 .. c \/ j = c + 1
          BY <2>1
        <5> QED
          BY <2>1, <2>3, <3>2, <4>1, <5>1
      <4> QED
        BY <4>1, <4>2
    <3> QED
      BY <2>1, <3>1, <3>2
  <2> QED
    BY <1>1, <2>1, <2>4 DEF RootsInOrder, Above, AboveNext
<1>7. ASSUME NEW k \in Nodes', NEW m \in Nodes', Inner(k)', Inner(m)', m < k,
             NEW b \in {ast'[k].left, ast'[k].right}, b < m
      PROVE  b < ast'[m].left
  <2>1. m \in Nodes /\ ast'[m] = ast[m] /\ Inner(m) /\ m <= Len(ast)
    <3>1. m # n
      BY <1>1, <1>7
    <3> QED
      BY <1>1, <1>7, <3>1
  <2>2. CASE k = n
    <3>1. Above(b, Len(ast))
      BY <1>1, <1>7, <2>2
    <3> QED
      BY <1>7, <2>1, <3>1 DEF Above
  <2>3. CASE k \in Nodes
    <3>1. Inner(k) /\ b \in {ast[k].left, ast[k].right}
      BY <1>1, <1>7, <2>3
    <3> QED
      BY <1>7, <2>1, <2>3, <3>1 DEF TreeShape, OperandsApart
  <2> QED
    BY <1>1, <2>2, <2>3
<1>8. OperandsApart'
  BY <1>7 DEF OperandsApart
<1> QED
  BY <1>4, <1>6, <1>8 DEF TreeShape

LEMMA ParseLeafShape ==
  ASSUME IInv, TreeShape, NEW leaf \in Leaves, ParseLeaf(leaf)
  PROVE  TreeShape'
<1>1. roots \in Seq(Nodes) /\ Len(roots) \in Nat
  BY RootsTyped
<1>2. leaf \in NodeSet
  BY DEF NodeSet
<1>3. leaf.kind \notin {"binary", "array"}
  BY DEF Leaves
<1> QED
  BY <1>1, <1>2, <1>3, ParsedShape DEF ParseLeaf

LEMMA ParseInnerShape ==
  ASSUME IInv, TreeShape, NEW kind \in {"binary", "array"}, ParseInner(kind)
  PROVE  TreeShape'
<1> DEFINE n == Len(roots)
           l == roots[n - 1]
           r == roots[n]
           node == [kind |-> kind, left |-> l, right |-> r]
           rest == SubSeq(roots, 1, n - 2)
<1>1. roots \in Seq(Nodes) /\ n \in Nat /\ n >= 2 /\ n - 1 \in 1 .. n /\ n \in 1 .. n
  BY RootsTyped DEF ParseInner
<1>2. l \in Nodes /\ r \in Nodes /\ l \in Nat /\ r \in Nat /\ l < r
  BY <1>1, RootsTyped
<1>3. Above(l, r)
  <2>1. Above(l, Len(ast)) /\ r <= Len(ast) /\ Len(ast) \in Nat
    BY <1>1, RootsTyped
  <2> HIDE DEF l, r
  <2>2. \A m \in Nodes : m \in Nat /\ (m <= r => m <= Len(ast))
    BY <1>2, <2>1 DEF Nodes
  <2> QED
    BY <2>1, <2>2 DEF Above
<1>9. Above(l, Len(ast)) /\ Above(r, Len(ast))
  BY <1>1, RootsTyped
<1>4. /\ rest \in Seq(Nodes) /\ Len(rest) = n - 2
      /\ \A i \in 1 .. n - 2 : rest[i] = roots[i]
  <2>1. \A i \in 1 .. n - 2 : roots[i] \in Nodes
    BY <1>1, RootsTyped
  <2>2. /\ rest \in Seq(Nodes) /\ Len(rest) = IF 1 <= n - 2 THEN n - 2 - 1 + 1 ELSE 0
        /\ \A i \in 1 .. n - 2 - 1 + 1 : rest[i] = roots[1 + i - 1]
    BY <1>1, <2>1, SubSeqProperties
  <2> HIDE DEF rest
  <2>3. Len(rest) = n - 2
    <3>1. n \in Nat /\ n >= 2
      BY <1>1
    <3>2. Len(rest) = IF 1 <= n - 2 THEN n - 2 - 1 + 1 ELSE 0
      BY <2>2
    <3> HIDE DEF n
    <3> QED
      BY <3>1, <3>2
  <2>4. \A i \in 1 .. n - 2 : rest[i] = roots[i]
    <3>1. \A i \in 1 .. n - 2 : i \in 1 .. n - 2 - 1 + 1 /\ 1 + i - 1 = i
      BY <1>1
    <3> QED
      BY <2>2, <3>1
  <2> QED
    BY <2>2, <2>3, <2>4
<1>5. \A i \in 1 .. n - 2 : rest[i] < l
  <2>1. \A i \in 1 .. n - 2 : i \in 1 .. n /\ i < n - 1
    BY <1>1
  <2> QED
    BY <1>1, <1>4, <2>1, RootsTyped
<1>6. node \in NodeSet /\ node.left = l /\ node.right = r
  BY <1>2 DEF NodeSet, Nodes
<1>7. Parsed(node, rest)
  BY DEF ParseInner
<1> HIDE DEF node, rest, l, r
<1>8. Len(rest) <= Len(roots)
  BY <1>1, <1>4
<1> QED
  BY <1>2, <1>3, <1>4, <1>5, <1>6, <1>7, <1>8, <1>9, ParsedShape

LEMMA ShapeStays ==
  ASSUME IInv, TreeShape, UNCHANGED <<ast, roots>>
  PROVE  TreeShape'
<1>1. UNCHANGED Nodes /\ UNCHANGED <<ast, roots>>
  BY DEF Nodes
<1> QED
  BY <1>1 DEF TreeShape, OperandsBefore, OperandsApart, RootsInOrder, Above, Inner, IsArray,
              IsKind

-------------------------------------------------------------------------------
(* The work.  What a step that leaves the tree alone leaves alone. *)
LEMMA OfTreeStays ==
  ASSUME UNCHANGED ast
  PROVE  /\ \A n : Arrays(n)' = Arrays(n) /\ Searched(n)' = Searched(n)
         /\ \A n : IsSpace(n)' = IsSpace(n) /\ IsArray(n)' = IsArray(n)
         /\ \A n, kind : IsKind(n, kind)' = IsKind(n, kind)
         /\ \A n, isRead : AccessAt(n, isRead)' = AccessAt(n, isRead)
         /\ \A t : DueOf(t)' = DueOf(t) /\ PrintOf(t)' = PrintOf(t)
         /\ \A f : SoFar(f)' = SoFar(f)
         /\ \A n, k : ArraysFrom(n, k)' = ArraysFrom(n, k)
         /\ UNCHANGED roots => UNCHANGED DeclaredAccess
         /\ UNCHANGED <<roots, use>> => UNCHANGED <<Wanted, Written>>
<1>1. UNCHANGED <<ast, Nodes, Subscripts, Base, ComponentsOf, ArraysIn>>
  BY TreeStays
<1>2. /\ \A n : IsSpace(n)' = IsSpace(n) /\ IsArray(n)' = IsArray(n)
      /\ \A n, kind : IsKind(n, kind)' = IsKind(n, kind)
  BY <1>1 DEF IsSpace, IsArray, IsKind
<1>3. \A n : Arrays(n)' = Arrays(n)
  BY <1>1 DEF Arrays
<1>4. \A n : Searched(n)' = Searched(n)
  BY <1>1, <1>2, <1>3 DEF Searched
<1>5. \A t : DueOf(t)' = DueOf(t) /\ PrintOf(t)' = PrintOf(t)
  BY <1>3, <1>4 DEF DueOf, PrintOf, Recorded
<1>6. \A f : SoFar(f)' = SoFar(f)
  BY <1>1, <1>2 DEF SoFar, Ahead
<1>7. \A n, isRead : AccessAt(n, isRead)' = AccessAt(n, isRead)
  BY <1>1 DEF AccessAt
<1>8. \A n, k : ArraysFrom(n, k)' = ArraysFrom(n, k)
  BY <1>1 DEF ArraysFrom
<1>9. /\ UNCHANGED roots => UNCHANGED DeclaredAccess
      /\ UNCHANGED <<roots, use>> => UNCHANGED <<Wanted, Written>>
  BY <1>1, <1>4 DEF DeclaredAccess, Wanted, Written
<1> QED
  BY <1>2, <1>3, <1>4, <1>5, <1>6, <1>7, <1>8, <1>9

LEMMA Concat ==
  ASSUME NEW S, NEW s \in Seq(S), NEW t \in Seq(S)
  PROVE  /\ s \o t \in Seq(S) /\ Len(s) \in Nat /\ Len(t) \in Nat
         /\ Len(s \o t) = Len(s) + Len(t)
         /\ \A i \in 1 .. Len(s) : (s \o t)[i] = s[i]
         /\ \A i \in 1 .. Len(t) : (s \o t)[Len(s) + i] = t[i]
<1>1. /\ s \o t \in Seq(S) /\ Len(s \o t) = Len(s) + Len(t)
      /\ Len(s) \in Nat /\ Len(t) \in Nat
      /\ \A i \in 1 .. Len(s) + Len(t) :
           (s \o t)[i] = IF i <= Len(s) THEN s[i] ELSE t[i - Len(s)]
  BY ConcatProperties
<1> DEFINE u == s \o t
           c == Len(s)
           d == Len(t)
<1> HIDE DEF u, c, d
<1>2. ASSUME NEW i \in 1 .. c
      PROVE  u[i] = s[i]
  BY <1>1 DEF u, c, d
<1>3. ASSUME NEW i \in 1 .. d
      PROVE  u[c + i] = t[i]
  <2>1. c \in Nat /\ d \in Nat
    BY <1>1 DEF c, d
  <2>2. c + i \in 1 .. c + d /\ ~(c + i <= c) /\ (c + i) - c = i
    BY <2>1
  <2>3. u[c + i] = IF c + i <= c THEN s[c + i] ELSE t[(c + i) - c]
    BY <1>1, <2>2 DEF u, c, d
  <2> QED
    BY <2>2, <2>3
<1> QED
  BY <1>1, <1>2, <1>3 DEF u, c, d

LEMMA ReplacedHead ==
  ASSUME NEW S, NEW s \in Seq(S), s # << >>, NEW new \in Seq(S),
         NEW t, t = new \o Tail(s)
  PROVE  /\ Len(s) \in Nat \ {0} /\ Len(new) \in Nat /\ Len(t) \in Nat
         /\ Len(t) = Len(new) + Len(s) - 1 /\ Head(s) = s[1]
         /\ \A i \in 1 .. Len(new) : i \in 1 .. Len(t) /\ t[i] = new[i]
         /\ \A k \in 2 .. Len(s) : /\ k - 1 + Len(new) \in 1 .. Len(t)
                                   /\ t[k - 1 + Len(new)] = s[k]
         /\ \A i \in 1 .. Len(t) :
              i \in 1 .. Len(new) \/ \E k \in 2 .. Len(s) : i = k - 1 + Len(new)
<1>1. /\ Tail(s) \in Seq(S) /\ Len(s) \in Nat \ {0} /\ Len(Tail(s)) = Len(s) - 1
      /\ Head(s) = s[1] /\ \A i \in 1 .. Len(Tail(s)) : Tail(s)[i] = s[i + 1]
  BY HeadTailProperties
<1> DEFINE u == Tail(s)
           c == Len(new)
<1>2. u \in Seq(S)
  BY <1>1
<1>3. /\ t \in Seq(S) /\ Len(t) = c + Len(u) /\ c \in Nat
      /\ \A i \in 1 .. c : t[i] = new[i]
      /\ \A i \in 1 .. Len(u) : t[c + i] = u[i]
  <2> HIDE DEF u
  <2>1. t = new \o u
    BY DEF u
  <2>2. /\ new \o u \in Seq(S) /\ c \in Nat /\ Len(new \o u) = c + Len(u)
        /\ \A i \in 1 .. c : (new \o u)[i] = new[i]
        /\ \A i \in 1 .. Len(u) : (new \o u)[c + i] = u[i]
    BY <1>2, Concat
  <2> QED
    BY <2>1, <2>2
<1> HIDE DEF c
<1>4. ASSUME NEW k \in 2 .. Len(s)
      PROVE  k - 1 + c \in 1 .. Len(t) /\ t[k - 1 + c] = s[k]
  <2>1. k - 1 \in 1 .. Len(u) /\ k - 1 + c = c + (k - 1) /\ (k - 1) + 1 = k
    BY <1>1, <1>3
  <2>2. t[c + (k - 1)] = u[k - 1] /\ u[k - 1] = s[(k - 1) + 1]
    BY <1>1, <1>3, <2>1
  <2>3. k - 1 + c \in 1 .. Len(t)
    BY <1>1, <1>3
  <2> QED
    BY <2>1, <2>2, <2>3
<1>5. ASSUME NEW i \in 1 .. Len(t), ~(i \in 1 .. c)
      PROVE  \E k \in 2 .. Len(s) : i = k - 1 + c
  <2>1. i - c + 1 \in 2 .. Len(s) /\ i = (i - c + 1) - 1 + c
    BY <1>1, <1>3, <1>5
  <2> QED
    BY <2>1
<1>6. \A i \in 1 .. c : i \in 1 .. Len(t)
  BY <1>1, <1>3
<1>7. Len(t) = c + Len(s) - 1 /\ Len(t) \in Nat
  BY <1>1, <1>3
<1> QED
  BY <1>1, <1>3, <1>4, <1>5, <1>6, <1>7 DEF c

LEMMA EntriesStay ==
  ASSUME EntriesOK, UNCHANGED <<ast, roots, use, stmtDataAccesses>>
  PROVE  EntriesOK'
<1> DEFINE G(i) ==
      LET a == stmtDataAccesses[i] IN
        /\ a.sourceId # 0 =>
             /\ a = AccessAt(a.sourceId, a.sourceId # Written)
             /\ \A j \in 1 .. i - 1 : stmtDataAccesses[j].sourceId < a.sourceId
        /\ a.sourceId = 0 =>
             use = "declare" /\ a = DeclaredAccess /\ i = Len(stmtDataAccesses)
        /\ Len(a.indexes) <= MaxArrayDim
<1>1. /\ \A n, isRead : AccessAt(n, isRead)' = AccessAt(n, isRead)
      /\ UNCHANGED <<DeclaredAccess, Written, use, stmtDataAccesses>>
  BY OfTreeStays
<1>2. \A i \in 1 .. Len(stmtDataAccesses) : G(i)
  BY DEF EntriesOK
<1>3. \A i \in 1 .. Len(stmtDataAccesses) : G(i)'
  BY <1>1, <1>2
<1>4. Len(stmtDataAccesses') = Len(stmtDataAccesses)
  OBVIOUS
<1> QED
  BY <1>3, <1>4, Zenon DEF EntriesOK, G

LEMMA RecordedStays ==
  ASSUME WorkOK, UNCHANGED <<ast, roots, use, todo, stmtDataAccesses>>,
         \A i \in 1 .. Len(todo) : Due(i)' = Due(i)
  PROVE  RecordedOK'
<1>1. UNCHANGED <<Wanted, use, todo, stmtDataAccesses>> /\ UNCHANGED Ids(stmtDataAccesses)
  BY OfTreeStays DEF Ids
<1>2. EntriesOK'
  BY EntriesStay DEF WorkOK, RecordedOK
<1>3. UNION {Due(i)' : i \in 1 .. Len(todo')} = UNION {Due(i) : i \in 1 .. Len(todo)}
  OBVIOUS
<1>4. /\ \A i, j \in 1 .. Len(todo') : i < j => \A x \in Due(i)', y \in Due(j)' : x < y
      /\ \A i \in 1 .. Len(todo') : \A x \in Ids(stmtDataAccesses), y \in Due(i)' : x < y
  BY DEF WorkOK, RecordedOK
<1>5. DeclaredOK'
  BY <1>1 DEF WorkOK, RecordedOK, DeclaredOK, IsSpace, IsKind
<1>6. (Ids(stmtDataAccesses)' \ {0}) \cup UNION {Due(i)' : i \in 1 .. Len(todo')} = Wanted'
  BY <1>1, <1>3 DEF WorkOK, RecordedOK
<1> QED
  BY <1>1, <1>2, <1>4, <1>5, <1>6, Zenon DEF RecordedOK

LEMMA PrintedStays ==
  ASSUME WorkOK, UNCHANGED <<ast, roots, use, todo, stmtDataAccesses, described, printed,
                             unprinted>>,
         status # "printing", \A i \in 1 .. Len(todo) : ToPrint(i)' = ToPrint(i)
  PROVE  PrintedOK'
<1>1. UNCHANGED Texts
  BY DEF Texts
<1>2. UNION {ToPrint(i)' : i \in 1 .. Len(todo')} = UNION {ToPrint(i) : i \in 1 .. Len(todo)}
  OBVIOUS
<1>3. UNION {ArraysIn[unprinted[i]] : i \in 1 .. Len(unprinted)}'
        = UNION {ArraysIn[unprinted[i]] : i \in 1 .. Len(unprinted)}
  BY TreeStays
<1>4. UNION {Arrays(k) : k \in Texts}' = UNION {Arrays(k) : k \in Texts}
  BY <1>1, OfTreeStays
<1> QED
  BY <1>2, <1>3, <1>4 DEF WorkOK, PrintedOK

(* A task, no declaration, gives way to others that are a part of it.      *)
LEMMA TasksReplaced ==
  ASSUME IInv, IInv', Tree, WorkOK, todo # << >>, NEW new \in Seq(Tasks),
         todo' = new \o Tail(todo),
         status' = "collecting", UNCHANGED <<ast, roots, use, stmtDataAccesses, described,
                                             unprinted, printed>>,
         Head(todo).do # "declare", status = "printing" => unprinted = << >>,
         \A i \in 1 .. Len(new) :
           /\ new[i].do # "declare" /\ new[i].end = Head(todo).end
           /\ new[i].end # "write"
           /\ Searched(new[i].expr) \subseteq Searched(Head(todo).expr),
         UNION {DueOf(new[i]) : i \in 1 .. Len(new)} = Due(1),
         \A i, j \in 1 .. Len(new) : i < j => \A x \in DueOf(new[i]), y \in DueOf(new[j]) : x < y,
         UNION {PrintOf(new[i]) : i \in 1 .. Len(new)} = ToPrint(1),
         newInvariants \subseteq newInvariants',
         Head(todo).end = "invariant" =>
           \A m \in Arrays(Head(todo).expr) :
             \/ ast[Base[m]].name \in newInvariants'
             \/ \E i \in 1 .. Len(new) : m \in Arrays(new[i].expr)
  PROVE  WorkOK'
<1> DEFINE c == Len(new)
           o(k) == k - 1 + c
<1>1. /\ Len(todo) \in Nat \ {0} /\ c \in Nat /\ Len(todo') \in Nat
      /\ Len(todo') = c + Len(todo) - 1 /\ Head(todo) = todo[1]
      /\ \A i \in 1 .. c : i \in 1 .. Len(todo') /\ todo'[i] = new[i]
      /\ \A k \in 2 .. Len(todo) : o(k) \in 1 .. Len(todo') /\ todo'[o(k)] = todo[k]
      /\ \A i \in 1 .. Len(todo') : i \in 1 .. c \/ \E k \in 2 .. Len(todo) : i = o(k)
  <2>1. todo \in Seq(Tasks)
    BY DEF IInv, TasksOK
  <2>2. /\ Len(todo) \in Nat \ {0} /\ Len(new) \in Nat /\ Len(todo') \in Nat
        /\ Len(todo') = Len(new) + Len(todo) - 1 /\ Head(todo) = todo[1]
    BY <2>1, ReplacedHead
  <2>3. \A i \in 1 .. Len(new) : i \in 1 .. Len(todo') /\ todo'[i] = new[i]
    BY <2>1, ReplacedHead
  <2>4. \A k \in 2 .. Len(todo) : /\ k - 1 + Len(new) \in 1 .. Len(todo')
                                  /\ todo'[k - 1 + Len(new)] = todo[k]
    BY <2>1, ReplacedHead
  <2>5. \A i \in 1 .. Len(todo') :
          i \in 1 .. Len(new) \/ \E k \in 2 .. Len(todo) : i = k - 1 + Len(new)
    BY <2>1, ReplacedHead
  <2> QED
    BY <2>2, <2>3, <2>4, <2>5
<1> HIDE DEF c
<1>2. frames' = << >>
  BY DEF IInv, StageOK
<1>3. /\ \A n : Arrays(n)' = Arrays(n) /\ Searched(n)' = Searched(n)
      /\ \A n, isRead : AccessAt(n, isRead)' = AccessAt(n, isRead)
      /\ \A t : DueOf(t)' = DueOf(t) /\ PrintOf(t)' = PrintOf(t)
      /\ UNCHANGED <<DeclaredAccess, Wanted, Written, Base>>
  BY OfTreeStays, TreeStays
<1>4. PathsOK' /\ AccessesOK' /\ MakingOK' /\ ExitOK'
  BY <1>2 DEF PathsOK, AccessesOK, MakingOK, ExitOK
<1>5. /\ \A i \in 1 .. c : Due(i)' = DueOf(new[i]) /\ ToPrint(i)' = PrintOf(new[i])
      /\ \A k \in 2 .. Len(todo) : Due(o(k))' = Due(k) /\ ToPrint(o(k))' = ToPrint(k)
  <2>1. \A i : Due(i)' = DueOf(todo'[i]) /\ ToPrint(i)' = PrintOf(todo'[i])
    BY <1>3 DEF Due, ToPrint
  <2>2. \A k \in 2 .. Len(todo) : Due(k) = DueOf(todo[k]) /\ ToPrint(k) = PrintOf(todo[k])
    BY <1>1 DEF Due, ToPrint
  <2>3. \A i \in 1 .. c : Due(i)' = DueOf(new[i]) /\ ToPrint(i)' = PrintOf(new[i])
    BY <1>1, <2>1
  <2>4. \A k \in 2 .. Len(todo) : todo'[o(k)] = todo[k]
    BY <1>1
  <2> HIDE DEF o
  <2>5. ASSUME NEW k \in 2 .. Len(todo)
        PROVE  Due(o(k))' = Due(k) /\ ToPrint(o(k))' = ToPrint(k)
    <3>1. Due(o(k))' = DueOf(todo'[o(k)]) /\ ToPrint(o(k))' = PrintOf(todo'[o(k)])
      BY <2>1
    <3> QED
      BY <2>2, <2>4, <3>1
  <2> QED
    BY <2>3, <2>5
<1>6. 1 \in 1 .. Len(todo) /\ \A k \in 1 .. Len(todo) : k = 1 \/ k \in 2 .. Len(todo)
  BY <1>1
<1>7. TasksForUse'
  <2>1. ASSUME NEW i \in 1 .. c
        PROVE  /\ new[i].end # "write" /\ new[i].do # "declare"
               /\ new[i].end = "read" => Written \notin Searched(new[i].expr)
               /\ 0 \in Ids(stmtDataAccesses) => new[i].end = "text"
    <3>1. /\ todo[1].end = "read" => Written \notin Searched(todo[1].expr)
          /\ 0 \in Ids(stmtDataAccesses) => todo[1].end = "text"
      BY <1>6 DEF WorkOK, TasksForUse
    <3>2. /\ new[i].do # "declare" /\ new[i].end # "write" /\ new[i].end = todo[1].end
          /\ Searched(new[i].expr) \subseteq Searched(todo[1].expr)
      BY <1>1 DEF c
    <3> QED
      BY <3>1, <3>2
  <2>2. \A k \in 2 .. Len(todo) : k = Len(todo) => o(k) = Len(todo')
    BY <1>1
  <2> DEFINE F(t, last) ==
        /\ t.end = "write" /\ t.do # "declare" =>
             use = "assign" /\ t.expr = roots[1] /\ t.do = "access"
        /\ t.end = "read" => Written \notin Searched(t.expr)
        /\ t.do = "declare" =>
             use = "declare" /\ last /\ t.expr = roots[1] /\ t.end = "write"
        /\ 0 \in Ids(stmtDataAccesses) => t.end = "text"
  <2>3. \A k \in 1 .. Len(todo) : F(todo[k], k = Len(todo))
    BY DEF WorkOK, TasksForUse
  <2>4. ASSUME NEW i \in 1 .. Len(todo')
        PROVE  F(todo'[i], i = Len(todo'))
    <3>1. CASE i \in 1 .. c
      BY <1>1, <2>1, <3>1
    <3>2. CASE \E k \in 2 .. Len(todo) : i = o(k)
      <4>1. PICK k \in 2 .. Len(todo) : i = o(k)
        BY <3>2
      <4>2. todo'[i] = todo[k] /\ F(todo[k], k = Len(todo)) /\ (k = Len(todo) => i = Len(todo'))
        BY <1>1, <2>2, <2>3, <4>1
      <4> QED
        BY <4>2
    <3> QED
      BY <1>1, <3>1, <3>2
  <2>5. UNCHANGED Ids(stmtDataAccesses)
    BY DEF Ids
  <2> QED
    BY <1>3, <2>4, <2>5 DEF TasksForUse
<1>8. /\ UNION {Due(i)' : i \in 1 .. Len(todo')} = UNION {Due(k) : k \in 1 .. Len(todo)}
      /\ UNION {ToPrint(i)' : i \in 1 .. Len(todo')} = UNION {ToPrint(k) : k \in 1 .. Len(todo)}
  <2>1. ASSUME NEW i \in 1 .. Len(todo')
        PROVE  /\ Due(i)' \subseteq UNION {Due(k) : k \in 1 .. Len(todo)}
               /\ ToPrint(i)' \subseteq UNION {ToPrint(k) : k \in 1 .. Len(todo)}
    <3>1. CASE i \in 1 .. c
      BY <1>5, <1>6, <3>1 DEF c
    <3>2. CASE \E k \in 2 .. Len(todo) : i = o(k)
      <4>1. PICK k \in 2 .. Len(todo) : i = o(k)
        BY <3>2
      <4>2. Due(i)' = Due(k) /\ ToPrint(i)' = ToPrint(k) /\ k \in 1 .. Len(todo)
        BY <1>1, <1>5, <4>1
      <4> QED
        BY <4>2
    <3> QED
      BY <1>1, <3>1, <3>2
  <2>2. ASSUME NEW k \in 1 .. Len(todo)
        PROVE  /\ Due(k) \subseteq UNION {Due(i)' : i \in 1 .. Len(todo')}
               /\ ToPrint(k) \subseteq UNION {ToPrint(i)' : i \in 1 .. Len(todo')}
    <3>1. CASE k = 1
      <4>1. \A i \in 1 .. c : Due(i)' = DueOf(new[i]) /\ ToPrint(i)' = PrintOf(new[i])
                              /\ i \in 1 .. Len(todo')
        BY <1>1, <1>5
      <4> QED
        BY <3>1, <4>1 DEF c
    <3>2. CASE k \in 2 .. Len(todo)
      BY <1>1, <1>5, <3>2
    <3> QED
      BY <1>6, <3>1, <3>2
  <2>3. UNION {Due(i)' : i \in 1 .. Len(todo')} = UNION {Due(k) : k \in 1 .. Len(todo)}
    BY <2>1, <2>2
  <2>4. UNION {ToPrint(i)' : i \in 1 .. Len(todo')} = UNION {ToPrint(k) : k \in 1 .. Len(todo)}
    BY <2>1, <2>2
  <2> QED
    BY <2>3, <2>4
<1>9. RecordedOK'
  <2>1. UNION {Due(i)' : i \in 1 .. Len(todo')} = UNION {Due(k) : k \in 1 .. Len(todo)}
    BY <1>8
  <2>2. ASSUME NEW i \in 1 .. Len(todo'), NEW j \in 1 .. Len(todo'), i < j,
               NEW x \in Due(i)', NEW y \in Due(j)'
        PROVE  x < y
    <3>1. \A k \in 2 .. Len(todo) : \A u \in Due(1), v \in Due(k) : u < v
      BY <1>1, <1>6 DEF WorkOK, RecordedOK
    <3>2. CASE i \in 1 .. c /\ j \in 1 .. c
      BY <1>5, <2>2, <3>2 DEF c
    <3>3. CASE i \in 1 .. c /\ ~(j \in 1 .. c)
      <4>1. PICK k \in 2 .. Len(todo) : j = o(k)
        BY <1>1, <3>3
      <4>2. y \in Due(k) /\ x \in Due(1)
        BY <1>5, <3>3, <4>1 DEF c
      <4> QED
        BY <3>1, <4>2
    <3>4. CASE ~(i \in 1 .. c)
      <4>1. PICK k \in 2 .. Len(todo) : i = o(k)
        BY <1>1, <3>4
      <4>2. ~(j \in 1 .. c)
        BY <1>1, <2>2, <3>4
      <4>3. PICK l \in 2 .. Len(todo) : j = o(l)
        BY <1>1, <4>2
      <4>4. x \in Due(k) /\ y \in Due(l)
        BY <1>5, <4>1, <4>3
      <4>5. k < l /\ k \in 1 .. Len(todo) /\ l \in 1 .. Len(todo)
        BY <1>1, <2>2, <4>1, <4>3
      <4>6. \A a, b \in 1 .. Len(todo) : a < b => \A u \in Due(a), v \in Due(b) : u < v
        BY DEF WorkOK, RecordedOK
      <4> QED
        BY <4>4, <4>5, <4>6
    <3> QED
      BY <3>2, <3>3, <3>4
  <2>3. ASSUME NEW i \in 1 .. Len(todo'), NEW x \in Ids(stmtDataAccesses), NEW y \in Due(i)'
        PROVE  x < y
    <3>1. PICK k \in 1 .. Len(todo) : y \in Due(k)
      <4>1. y \in UNION {Due(k) : k \in 1 .. Len(todo)}
        BY <2>1
      <4> QED
        BY <4>1
    <3>2. \A l \in 1 .. Len(todo) : \A u \in Ids(stmtDataAccesses), v \in Due(l) : u < v
      BY DEF WorkOK, RecordedOK
    <3> QED
      BY <3>1, <3>2
  <2>4. (\E i \in 1 .. Len(todo') : todo'[i].do = "declare")
          <=> (\E i \in 1 .. Len(todo) : todo[i].do = "declare")
    <3>1. ASSUME NEW i \in 1 .. Len(todo'), todo'[i].do = "declare"
          PROVE  \E k \in 1 .. Len(todo) : todo[k].do = "declare"
      <4>1. ~(i \in 1 .. c)
        BY <1>1, <3>1 DEF c
      <4>2. PICK k \in 2 .. Len(todo) : i = o(k)
        BY <1>1, <4>1
      <4>3. todo[k].do = "declare" /\ k \in 1 .. Len(todo)
        BY <1>1, <3>1, <4>2
      <4> QED
        BY <4>3
    <3>2. ASSUME NEW k \in 1 .. Len(todo), todo[k].do = "declare"
          PROVE  \E i \in 1 .. Len(todo') : todo'[i].do = "declare"
      <4>1. k \in 2 .. Len(todo)
        BY <1>1, <1>6, <3>2
      <4>2. o(k) \in 1 .. Len(todo') /\ todo'[o(k)] = todo[k]
        BY <1>1, <4>1
      <4> QED
        BY <3>2, <4>2
    <3> QED
      BY <3>1, <3>2
  <2>5. EntriesOK'
    BY EntriesStay DEF WorkOK, RecordedOK
  <2>6. UNCHANGED Ids(stmtDataAccesses)
    BY DEF Ids
  <2>7. (Ids(stmtDataAccesses)' \ {0}) \cup UNION {Due(i)' : i \in 1 .. Len(todo')} = Wanted'
    BY <1>3, <2>1, <2>6 DEF WorkOK, RecordedOK
  <2>8. DeclaredOK'
    BY <2>4, <2>6 DEF WorkOK, RecordedOK, DeclaredOK, IsSpace, IsKind
  <2> QED
    BY <2>2, <2>3, <2>5, <2>6, <2>7, <2>8, Zenon DEF RecordedOK
<1>10. PrintedOK'
  <2>1. UNCHANGED Texts
    BY DEF Texts
  <2>2. UNION {ArraysIn[unprinted[i]] : i \in 1 .. Len(unprinted)}'
          = UNION {ArraysIn[unprinted[i]] : i \in 1 .. Len(unprinted)}
    BY TreeStays
  <2>3. UNION {Arrays(k) : k \in Texts}' = UNION {Arrays(k) : k \in Texts}
    BY <1>3, <2>1
  <2> QED
    BY <1>8, <2>2, <2>3 DEF WorkOK, PrintedOK
<1>11. InvariantsOK'
  <2> SUFFICES ASSUME use = "condition", NEW r \in {1, 2}, NEW m \in Arrays(roots[r])
               PROVE  \/ ast[Base[m]].name \in newInvariants'
                      \/ \E i \in 1 .. Len(todo') :
                           todo'[i].end = "invariant" /\ m \in Arrays(todo'[i].expr)
    BY <1>3, Zenon DEF InvariantsOK
  <2>1. CASE ast[Base[m]].name \in newInvariants
    BY <2>1
  <2>2. CASE \E k \in 1 .. Len(todo) : todo[k].end = "invariant" /\ m \in Arrays(todo[k].expr)
    <3>1. PICK k \in 1 .. Len(todo) : todo[k].end = "invariant" /\ m \in Arrays(todo[k].expr)
      BY <2>2
    <3>2. CASE k = 1
      <4>1. Head(todo).end = "invariant" /\ m \in Arrays(Head(todo).expr)
        BY <1>1, <3>1, <3>2
      <4>2. CASE \E i \in 1 .. c : m \in Arrays(new[i].expr)
        <5>1. PICK i \in 1 .. c : m \in Arrays(new[i].expr)
          BY <4>2
        <5>2. new[i].end = "invariant"
          BY <4>1 DEF c
        <5> QED
          BY <1>1, <5>1, <5>2
      <4> QED
        BY <4>1, <4>2 DEF c
    <3>3. CASE k \in 2 .. Len(todo)
      <4>1. o(k) \in 1 .. Len(todo') /\ todo'[o(k)] = todo[k]
        BY <1>1, <3>3
      <4> HIDE DEF o
      <4> QED
        BY <3>1, <4>1
    <3> QED
      BY <1>6, <3>2, <3>3
  <2> QED
    BY <2>1, <2>2 DEF WorkOK, InvariantsOK
<1> QED
  BY <1>4, <1>7, <1>9, <1>10, <1>11 DEF WorkOK

LEMMA TreeHolds ==
  ASSUME IInv, TreeShape
  PROVE  Tree
  BY DEF IInv, TypeOK, TreeShape, Tree

LEMMA FirstTask ==
  ASSUME IInv, todo # << >>
  PROVE  /\ todo \in Seq(Tasks) /\ Head(todo) = todo[1] /\ Len(todo) \in Nat \ {0}
         /\ 1 \in 1 .. Len(todo) /\ todo[1] \in Tasks /\ todo[1].expr \in Nodes
         /\ Tail(todo) \in Seq(Tasks) /\ << >> \o Tail(todo) = Tail(todo)
<1>1. todo \in Seq(Tasks)
  BY DEF IInv, TasksOK
<1>2. Tail(todo) \in Seq(Tasks) /\ Len(todo) \in Nat \ {0} /\ Head(todo) = todo[1]
  BY <1>1, HeadTailProperties
<1>3. 1 \in 1 .. Len(todo) /\ todo[1] \in Tasks
  BY <1>1, <1>2, ElementOfSeq
<1>4. << >> \o Tail(todo) = Tail(todo)
  BY <1>2, ConcatEmptySeq
<1> QED
  BY <1>1, <1>2, <1>3, <1>4 DEF Tasks, TaskSet

LEMMA TaskEnds ==
  ASSUME IInv, IInv', Tree, WorkOK, todo # << >>, Done,
         UNCHANGED <<ast, roots, use, stmtDataAccesses, described, unprinted, printed>>,
         Head(todo).do # "declare", status = "printing" => unprinted = << >>,
         Due(1) = {}, ToPrint(1) = {},
         newInvariants \subseteq newInvariants',
         Head(todo).end = "invariant" =>
           \A m \in Arrays(Head(todo).expr) : ast[Base[m]].name \in newInvariants'
  PROVE  WorkOK'
<1> DEFINE new == << >>
<1>1. new \in Seq(Tasks) /\ Len(new) = 0
  BY EmptySeq
<1>2. todo' = new \o Tail(todo) /\ status' = "collecting"
  BY FirstTask DEF Done
<1>3. /\ UNION {DueOf(new[i]) : i \in 1 .. Len(new)} = Due(1)
      /\ UNION {PrintOf(new[i]) : i \in 1 .. Len(new)} = ToPrint(1)
      /\ \A i \in 1 .. Len(new) : FALSE
  BY <1>1
<1> HIDE DEF new
<1> QED
  BY <1>1, <1>2, <1>3, TasksReplaced

LEMMA EndRecordWork ==
  ASSUME IInv, IInv', Tree, WorkOK, EndRecord
  PROVE  WorkOK'
<1>1. /\ status = "made" /\ todo # << >> /\ accesses = << >> /\ Done
      /\ Head(todo).end \in {"read", "write"} /\ Head(todo).do = "access"
      /\ UNCHANGED <<tree, results, unprinted>>
  BY DEF IInv, StageOK, EndRecord, Made, WorkOK, PathsOK
<1>2. Head(todo) = todo[1]
  BY <1>1, FirstTask
<1>3. Due(1) = {}
  BY <1>1, <1>2 DEF Due, Recorded, Ids
<1>4. ToPrint(1) = {}
  BY <1>1, <1>2 DEF ToPrint, PrintOf
<1> QED
  BY <1>1, <1>3, <1>4, TaskEnds DEF tree, results

LEMMA EndToStringWork ==
  ASSUME IInv, IInv', Tree, WorkOK, EndToString
  PROVE  WorkOK'
<1>1. /\ status = "printing" /\ unprinted = << >> /\ todo # << >> /\ Done
      /\ Head(todo).end = "text" /\ Head(todo).do = "access"
      /\ UNCHANGED <<tree, results, unprinted>>
  BY DEF IInv, StageOK, SubAccessesMade, EndToString, WorkOK, PathsOK
<1>2. Head(todo) = todo[1]
  BY <1>1, FirstTask
<1>3. Due(1) = {}
  BY <1>1, <1>2 DEF Due, DueOf, Recorded
<1>4. ToPrint(1) = {}
  BY <1>1, <1>2 DEF ToPrint
<1> QED
  BY <1>1, <1>3, <1>4, TaskEnds DEF tree, results

LEMMA AddInvariantsWork ==
  ASSUME IInv, IInv', Tree, WorkOK, AddInvariants
  PROVE  WorkOK'
<1> DEFINE t == Head(todo)
<1>1. /\ status = "made" /\ todo # << >> /\ Done
      /\ t.end = "invariant" /\ t.do = "access"
      /\ newInvariants' = newInvariants \cup AccessNames
      /\ UNCHANGED <<tree, stmtDataAccesses, described, printed, unprinted>>
  BY DEF IInv, StageOK, AddInvariants, Made, WorkOK, PathsOK
<1>2. t = todo[1]
  BY <1>1, FirstTask
<1>3. Due(1) = {}
  BY <1>1, <1>2 DEF Due, DueOf, Recorded
<1>4. ToPrint(1) = {}
  BY <1>1, <1>2 DEF ToPrint, PrintOf
<1>5. ASSUME NEW m \in Arrays(t.expr)
      PROVE  ast[Base[m]].name \in newInvariants'
  <2>1. m \in Ids(accesses)
    BY <1>1 DEF WorkOK, AccessesOK
  <2>2. PICK i \in 1 .. Len(accesses) : m = accesses[i].sourceId
    BY <2>1 DEF Ids
  <2>3. accesses[i].name = ast[Base[m]].name
    <3>1. accesses[i] = AccessAt(m, t.end = "write" => m # t.expr)
      BY <1>1, <2>2 DEF WorkOK, AccessesOK
    <3> QED
      BY <3>1 DEF AccessAt
  <2> QED
    BY <1>1, <2>3 DEF AccessNames
<1> HIDE DEF t
<1> QED
  BY <1>1, <1>3, <1>4, <1>5, TaskEnds DEF tree, t

(* Where the program ends. *)
LEMMA StopWork ==
  ASSUME IInv, IInv', Tree, WorkOK, NEW how \in {"done", "exit"}, Stop(how),
         status \notin {"made", "printing"},
         how = "exit" => \E n \in Nodes :
           ast[n].kind \in {"call", "other"} \/ Len(Subscripts[n]) > MaxArrayDim
  PROVE  WorkOK'
<1>1. /\ UNCHANGED <<ast, roots, use, todo, frames, accesses, unprinted>>
      /\ UNCHANGED <<stmtDataAccesses, described, newInvariants, printed>>
      /\ status' = how
  BY DEF Stop, tree, results
<1>2. /\ UNCHANGED <<Nodes, Subscripts, Base, ArraysIn>>
      /\ \A n : Arrays(n)' = Arrays(n) /\ Searched(n)' = Searched(n)
      /\ \A n, isRead : AccessAt(n, isRead)' = AccessAt(n, isRead)
      /\ \A t : DueOf(t)' = DueOf(t) /\ PrintOf(t)' = PrintOf(t)
      /\ \A f : SoFar(f)' = SoFar(f)
      /\ UNCHANGED <<DeclaredAccess, Wanted, Written, Base>>
  BY <1>1, OfTreeStays, TreeStays
<1>3. PathsOK' /\ AccessesOK' /\ MakingOK'
  BY <1>1, <1>2 DEF WorkOK, PathsOK, AccessesOK, MakingOK
<1>4. ExitOK'
  BY <1>1, <1>2 DEF ExitOK, IsKind
<1>5. TasksForUse'
  BY <1>1, <1>2 DEF WorkOK, TasksForUse
<1>6. \A i \in 1 .. Len(todo) : Due(i)' = Due(i) /\ ToPrint(i)' = ToPrint(i)
  BY <1>1, <1>2 DEF Due, ToPrint
<1>7. RecordedOK'
  BY <1>1, <1>6, RecordedStays
<1>8. PrintedOK'
  BY <1>1, <1>6, PrintedStays
<1>9. InvariantsOK'
  BY <1>1, <1>2 DEF WorkOK, InvariantsOK
<1> QED
  BY <1>1, <1>3, <1>4, <1>5, <1>7, <1>8, <1>9 DEF WorkOK

LEMMA CollectWork ==
  ASSUME IInv, IInv', Tree, WorkOK, Collect
  PROVE  WorkOK'
<1> DEFINE t == Head(todo)
<1>1. status = "collecting" /\ todo # << >> /\ t.do = "collect"
  BY DEF Collect, Doing
<1>2. /\ t = todo[1] /\ t.expr \in Nodes /\ t \in Tasks
      /\ t.end \in {"read", "write", "text", "invariant"}
  BY <1>1, FirstTask DEF Tasks, TaskSet
<1>3. CASE ast[t.expr].kind \in RefusedAs(t.end)
  <2>1. Stop("exit")
    BY <1>3 DEF Collect
  <2>2. ast[t.expr].kind \in {"call", "other"}
    BY <1>3 DEF RefusedAs
  <2> QED
    BY <1>1, <1>2, <2>1, <2>2, StopWork
<1>4. t.end # "write"
  <2>1. 1 \in 1 .. Len(todo)
    BY <1>1, FirstTask
  <2> QED
    BY <1>1, <1>2, <2>1 DEF WorkOK, TasksForUse
<1>5. CASE ~(ast[t.expr].kind \in RefusedAs(t.end))
  <2>1. /\ todo' = Components(t) \o Tail(todo) /\ status' = "collecting"
        /\ UNCHANGED <<tree, frames, accesses, results, unprinted>>
    BY <1>1, <1>5 DEF Collect
  <2>2. Due(1) = DueOf(t) /\ ToPrint(1) = PrintOf(t)
    BY <1>1, <1>2 DEF Due, ToPrint
  <2> HIDE DEF t
  <2>3. /\ Recorded(t) <=> t.end \in {"read", "write"}
        /\ \A n : /\ Recorded(Collected(n, t.end)) <=> t.end \in {"read", "write"}
                  /\ Recorded(Accessed(n, t.end)) <=> t.end \in {"read", "write"}
    BY <1>1 DEF Recorded, Collected, Accessed, t
  <2> DEFINE new == Components(t)
  <2>4. CASE ast[t.expr].kind = "binary"
    <3> DEFINE l == ast[t.expr].left
               r == ast[t.expr].right
               a == Collected(l, t.end)
               b == Collected(r, t.end)
    <3>1. /\ l \in Nodes /\ r \in Nodes
          /\ Arrays(t.expr) = Arrays(l) \cup Arrays(r)
          /\ Searched(t.expr) = Searched(l) \cup Searched(r)
          /\ \A x \in Searched(l), y \in Searched(r) : x < y
      BY <1>2, <2>4, OfBinary DEF IsKind
    <3>2. new = << a, b >>
      <4>1. IsKind(t.expr, "binary") /\ ~IsArray(t.expr) /\ ~IsKind(t.expr, "ref")
        BY <2>4 DEF IsArray, IsKind
      <4> QED
        BY <4>1, Zenon DEF Components
    <3>3. a \in Tasks /\ b \in Tasks
      BY <1>2, <3>1, TasksTyped
    <3>4. /\ a.do = "collect" /\ a.end = t.end /\ a.expr = l
          /\ b.do = "collect" /\ b.end = t.end /\ b.expr = r
      BY DEF Collected
    <3>5. /\ DueOf(t) = DueOf(a) \cup DueOf(b)
          /\ \A x \in DueOf(a), y \in DueOf(b) : x < y
      BY <2>3, <3>1, <3>4 DEF DueOf
    <3>6. PrintOf(t) = PrintOf(a) \cup PrintOf(b)
      BY <3>1, <3>4 DEF PrintOf
    <3> HIDE DEF new, a, b, l, r
    <3>7. new \in Seq(Tasks) /\ Len(new) = 2 /\ new[1] = a /\ new[2] = b
      BY <3>2, <3>3
    <3>8. \A i \in 1 .. Len(new) : i = 1 \/ i = 2
      BY <3>7
    <3>9. \A i \in 1 .. Len(new) :
            /\ new[i].do # "declare" /\ new[i].end = t.end
            /\ new[i].end # "write"
            /\ Searched(new[i].expr) \subseteq Searched(t.expr)
      BY <1>4, <3>1, <3>4, <3>7, <3>8
    <3>10. /\ UNION {DueOf(new[i]) : i \in 1 .. Len(new)} = Due(1)
           /\ UNION {PrintOf(new[i]) : i \in 1 .. Len(new)} = ToPrint(1)
      <4>1. 1 \in 1 .. Len(new) /\ 2 \in 1 .. Len(new)
        BY <3>7
      <4> QED
        BY <2>2, <3>5, <3>6, <3>7, <3>8, <4>1
    <3>11. \A i, j \in 1 .. Len(new) :
             i < j => \A x \in DueOf(new[i]), y \in DueOf(new[j]) : x < y
      BY <3>5, <3>7, <3>8
    <3>12. \A m \in Arrays(t.expr) : \E i \in 1 .. Len(new) : m \in Arrays(new[i].expr)
      <4>1. 1 \in 1 .. Len(new) /\ 2 \in 1 .. Len(new)
        BY <3>7
      <4> QED
        BY <3>1, <3>4, <3>7, <4>1
    <3>13. todo' = new \o Tail(todo)
      BY <2>1 DEF new
    <3> QED
      BY <1>1, <2>1, <3>7, <3>9, <3>10, <3>11, <3>12, <3>13, TasksReplaced
         DEF tree, results, t
  <2>5. CASE ast[t.expr].kind = "array" \/ (ast[t.expr].kind = "ref" /\ t.end # "text")
    <3> DEFINE a == Accessed(t.expr, t.end)
    <3>1. new = << a >>
      BY <2>5 DEF Components, IsArray, IsKind
    <3>2. a \in Tasks
      BY <1>2, <2>5, TasksTyped DEF IsArray, IsKind, Single
    <3>3. a.do = "access" /\ a.end = t.end /\ a.expr = t.expr
      BY DEF Accessed
    <3>4. DueOf(t) = DueOf(a) /\ PrintOf(t) = PrintOf(a)
      BY <2>3, <3>3 DEF DueOf, PrintOf
    <3> HIDE DEF new, a
    <3>5. new \in Seq(Tasks) /\ Len(new) = 1 /\ new[1] = a /\ 1 \in 1 .. Len(new)
      BY <3>1, <3>2
    <3>6. \A i \in 1 .. Len(new) : i = 1
      BY <3>5
    <3>7. \A i \in 1 .. Len(new) :
            /\ new[i].do # "declare" /\ new[i].end = t.end
            /\ new[i].end # "write"
            /\ Searched(new[i].expr) \subseteq Searched(t.expr)
      BY <1>4, <3>3, <3>5, <3>6
    <3>8. /\ UNION {DueOf(new[i]) : i \in 1 .. Len(new)} = Due(1)
          /\ UNION {PrintOf(new[i]) : i \in 1 .. Len(new)} = ToPrint(1)
      BY <2>2, <3>4, <3>5, <3>6
    <3>9. \A i, j \in 1 .. Len(new) : ~(i < j)
      BY <3>6
    <3>10. \A m \in Arrays(t.expr) : \E i \in 1 .. Len(new) : m \in Arrays(new[i].expr)
      BY <3>3, <3>5
    <3>11. todo' = new \o Tail(todo)
      BY <2>1 DEF new
    <3> QED
      BY <1>1, <2>1, <3>5, <3>7, <3>8, <3>9, <3>10, <3>11, TasksReplaced
         DEF tree, results, t
  <2>6. CASE /\ ast[t.expr].kind \notin {"binary", "array"}
             /\ ~(ast[t.expr].kind = "ref" /\ t.end # "text")
    <3>1. Components(t) = << >>
      BY <2>6 DEF Components, IsArray, IsKind
    <3>2. Arrays(t.expr) = {} /\ (t.end # "text" => Searched(t.expr) = {})
      BY <1>2, <2>6, OfRef, OfLeaf DEF Inner, IsArray, IsKind
    <3>3. Due(1) = {} /\ ToPrint(1) = {}
      BY <2>2, <2>3, <3>2 DEF DueOf, PrintOf
    <3>4. Done
      BY <1>1, <2>1, <3>1, FirstTask DEF Done
    <3> QED
      BY <1>1, <2>1, <3>2, <3>3, <3>4, TaskEnds DEF tree, results, t
  <2> QED
    BY <2>4, <2>5, <2>6
<1> QED
  BY <1>3, <1>5

LEMMA DeclaredAdded ==
  ASSUME IInv, WorkOK, UNCHANGED <<ast, roots, use, described>>, use = "declare",
         0 \notin Ids(stmtDataAccesses), Tree,
         stmtDataAccesses' = Append(stmtDataAccesses, DeclaredAccess)
  PROVE  /\ EntriesOK' /\ Texts' = Texts
         /\ Ids(stmtDataAccesses') = Ids(stmtDataAccesses) \cup {0}
<1> DEFINE n == Len(stmtDataAccesses)
<1>7. /\ \A m, isRead : AccessAt(m, isRead)' = AccessAt(m, isRead)
      /\ UNCHANGED <<DeclaredAccess, Written>>
  BY OfTreeStays, TreeStays
<1>8. /\ n \in Nat /\ Len(stmtDataAccesses') = n + 1
      /\ stmtDataAccesses'[n + 1] = DeclaredAccess
      /\ \A i \in 1 .. n : stmtDataAccesses'[i] = stmtDataAccesses[i]
      /\ described \in 0 .. n
  <2>1. stmtDataAccesses \in Seq(DataAccessSet(Nodes \cup {0})) /\ described \in 0 .. n
    BY ResultsTyped
  <2> QED
    BY <2>1, AppendProperties
<1>10. Ids(stmtDataAccesses') = Ids(stmtDataAccesses) \cup {0}
  <2>1. DeclaredAccess.sourceId = 0
    BY DEF DeclaredAccess
  <2>2. \A i : i \in 1 .. n + 1 <=> i \in 1 .. n \/ i = n + 1
    BY <1>8
  <2> HIDE DEF n
  <2>3. Ids(stmtDataAccesses) = {stmtDataAccesses[i].sourceId : i \in 1 .. n}
    BY DEF Ids, n
  <2>4. Ids(stmtDataAccesses') = {stmtDataAccesses'[i].sourceId : i \in 1 .. n + 1}
    BY <1>8 DEF Ids
  <2> QED
    BY <1>8, <2>1, <2>2, <2>3, <2>4
<1> HIDE DEF n
<1>11. EntriesOK'
  <2>1. ASSUME NEW i \in 1 .. n + 1
        PROVE  LET a == stmtDataAccesses'[i] IN
                 /\ a.sourceId # 0 =>
                      /\ a = AccessAt(a.sourceId, a.sourceId # Written)
                      /\ \A j \in 1 .. i - 1 : stmtDataAccesses'[j].sourceId < a.sourceId
                 /\ a.sourceId = 0 =>
                      use = "declare" /\ a = DeclaredAccess /\ i = n + 1
                 /\ Len(a.indexes) <= MaxArrayDim
    <3>1. CASE i = n + 1
      <4>1. DeclaredAccess.sourceId = 0 /\ Len(DeclaredAccess.indexes) <= MaxArrayDim
        BY BoundsAssumption DEF DeclaredAccess
      <4> QED
        BY <1>8, <3>1, <4>1
    <3>2. CASE i # n + 1
      <4>1. /\ i \in 1 .. n /\ stmtDataAccesses'[i] = stmtDataAccesses[i]
            /\ \A j \in 1 .. i - 1 : stmtDataAccesses'[j] = stmtDataAccesses[j]
        BY <1>8, <3>2
      <4>2. stmtDataAccesses[i].sourceId # 0
        BY <4>1 DEF Ids, n
      <4>3. LET a == stmtDataAccesses[i] IN
              /\ a = AccessAt(a.sourceId, a.sourceId # Written)
              /\ \A j \in 1 .. i - 1 : stmtDataAccesses[j].sourceId < a.sourceId
              /\ Len(a.indexes) <= MaxArrayDim
        BY <4>1, <4>2 DEF WorkOK, RecordedOK, EntriesOK, n
      <4> QED
        BY <4>1, <4>2, <4>3
    <3> QED
      BY <3>1, <3>2
  <2> QED
    BY <1>7, <1>8, <2>1, Zenon DEF EntriesOK
<1>12. Texts' = Texts
  <2>1. \A i \in 1 .. described : stmtDataAccesses'[i] = stmtDataAccesses[i]
    BY <1>8
  <2>2. UNION {ToSet(stmtDataAccesses'[i].indexes) : i \in 1 .. described}
          = UNION {ToSet(stmtDataAccesses[i].indexes) : i \in 1 .. described}
    BY <2>1
  <2> QED
    BY <2>2 DEF Texts
<1> QED
  BY <1>10, <1>11, <1>12

LEMMA RecordDeclaredWork ==
  ASSUME IInv, IInv', Tree, WorkOK, RecordDeclared
  PROVE  WorkOK'
<1> DEFINE t == Head(todo)
<1>1. /\ status = "collecting" /\ todo # << >> /\ t.do = "declare" /\ Done
      /\ stmtDataAccesses' =
           IF ast[t.expr].name \in Iterators THEN stmtDataAccesses
           ELSE Append(stmtDataAccesses,
                  [name |-> ast[t.expr].name, sourceId |-> 0, isRead |-> FALSE,
                   indexes |-> << >>])
      /\ UNCHANGED <<ast, roots, use, frames, accesses, described, newInvariants, printed,
                     unprinted>>
  BY DEF RecordDeclared, Doing, tree
<1>2. t = todo[1] /\ 1 \in 1 .. Len(todo) /\ todo \in Seq(Tasks)
  BY <1>1, FirstTask
<1>3. use = "declare" /\ 1 = Len(todo) /\ t.expr = roots[1] /\ t.end = "write"
  BY <1>1, <1>2 DEF WorkOK, TasksForUse
<1>4. todo' = << >> /\ Len(todo') = 0 /\ status' = "collecting"
  BY <1>1, <1>2, <1>3, HeadTailProperties DEF Done
<1>5. /\ IsKind(roots[1], "ref")
      /\ stmtDataAccesses' = IF IsSpace(roots[1]) THEN Append(stmtDataAccesses, DeclaredAccess)
                                                 ELSE stmtDataAccesses
  <2>1. IsKind(roots[1], "ref")
    BY <1>1, <1>3, AtTask DEF Tasks
  <2> QED
    BY <1>1, <1>3, <2>1 DEF DeclaredAccess, IsSpace
<1>6. Due(1) = {} /\ ToPrint(1) = {}
  BY <1>1, <1>2, <1>3 DEF Due, DueOf, Recorded, ToPrint, PrintOf
<1> HIDE DEF t
<1>7. /\ \A m : Arrays(m)' = Arrays(m)
      /\ \A m, isRead : AccessAt(m, isRead)' = AccessAt(m, isRead)
      /\ UNCHANGED <<DeclaredAccess, Wanted, Written, ArraysIn>>
  BY <1>1, OfTreeStays, TreeStays
<1>8. 0 \notin Ids(stmtDataAccesses)
  BY <1>1, <1>2, <1>3 DEF WorkOK, TasksForUse, t
<1>9. \A i \in 1 .. Len(todo') : FALSE
  BY <1>4
<1>10. /\ EntriesOK' /\ DeclaredOK' /\ Texts' = Texts
       /\ Ids(stmtDataAccesses') \ {0} = Ids(stmtDataAccesses)
  <2>1. CASE IsSpace(roots[1])
    <3>1. /\ EntriesOK' /\ Texts' = Texts
          /\ Ids(stmtDataAccesses') = Ids(stmtDataAccesses) \cup {0}
      BY <1>1, <1>3, <1>5, <1>8, <2>1, DeclaredAdded
    <3>2. IsSpace(roots[1])' /\ 0 \in Ids(stmtDataAccesses)'
      BY <1>1, <2>1, <3>1 DEF IsSpace, IsKind, Ids
    <3>3. DeclaredOK'
      BY <1>9, <3>2 DEF DeclaredOK
    <3> QED
      BY <1>8, <3>1, <3>3
  <2>2. CASE ~IsSpace(roots[1])
    <3>1. stmtDataAccesses' = stmtDataAccesses
      BY <1>5, <2>2
    <3>2. EntriesOK'
      BY <1>1, <3>1, EntriesStay DEF WorkOK, RecordedOK
    <3>3. ~IsSpace(roots[1])' /\ Ids(stmtDataAccesses)' = Ids(stmtDataAccesses)
      BY <1>1, <2>2, <3>1 DEF IsSpace, IsKind, Ids
    <3>4. DeclaredOK'
      BY <1>8, <3>3 DEF DeclaredOK
    <3>5. Texts' = Texts
      BY <1>1, <3>1 DEF Texts
    <3>6. Ids(stmtDataAccesses') = Ids(stmtDataAccesses)
      BY <3>1
    <3> QED
      BY <1>8, <3>2, <3>4, <3>5, <3>6
  <2> QED
    BY <2>1, <2>2
<1>12. UNION {Due(i) : i \in 1 .. Len(todo)} = {}
       /\ UNION {ToPrint(i) : i \in 1 .. Len(todo)} = {}
  <2>1. 1 .. Len(todo) = {1}
    <3>1. Len(todo) = 1
      BY <1>3
    <3> QED
      BY <3>1
  <2> QED
    BY <1>6, <2>1
<1>13. RecordedOK'
  <2>1. (Ids(stmtDataAccesses') \ {0}) \cup UNION {Due(i)' : i \in 1 .. Len(todo')} = Wanted'
    <3>1. Ids(stmtDataAccesses) \ {0} = Ids(stmtDataAccesses)
      BY <1>8
    <3> QED
      BY <1>4, <1>7, <1>10, <1>12, <3>1 DEF WorkOK, RecordedOK
  <2>2. Ids(stmtDataAccesses)' = Ids(stmtDataAccesses')
    BY DEF Ids
  <2> QED
    BY <1>9, <1>10, <2>1, <2>2 DEF RecordedOK
<1>14. PrintedOK'
  <2>2. UNION {ToPrint(i)' : i \in 1 .. Len(todo')} = {}
    BY <1>4
  <2>3. UNION {ArraysIn[unprinted[i]] : i \in 1 .. Len(unprinted)}'
          = UNION {ArraysIn[unprinted[i]] : i \in 1 .. Len(unprinted)}
    BY <1>1, <1>7
  <2>4. UNION {Arrays(k) : k \in Texts}' = UNION {Arrays(k) : k \in Texts}
    BY <1>7, <1>10
  <2> QED
    BY <1>1, <1>12, <2>2, <2>3, <2>4 DEF WorkOK, PrintedOK
<1>15. frames' = << >>
  BY <1>4 DEF IInv, StageOK
<1>16. PathsOK' /\ AccessesOK' /\ MakingOK' /\ ExitOK'
  BY <1>4, <1>15 DEF PathsOK, AccessesOK, MakingOK, ExitOK
<1>17. TasksForUse' /\ InvariantsOK'
  <2>1. use' # "condition" /\ \A i \in 1 .. Len(todo') : FALSE
    BY <1>1, <1>3, <1>4
  <2> QED
    BY <2>1 DEF TasksForUse, InvariantsOK
<1> QED
  BY <1>1, <1>3, <1>13, <1>14, <1>16, <1>17 DEF WorkOK

LEMMA DescribeWork ==
  ASSUME IInv, IInv', Tree, WorkOK, Describe
  PROVE  WorkOK'
<1> DEFINE k == described + 1
           s == stmtDataAccesses[k].indexes
<1>1. /\ status = "collecting" /\ status' = "collecting" /\ todo = << >>
      /\ todo' = [i \in 1 .. Len(s) |-> Collected(s[i], "text")]
      /\ described < Len(stmtDataAccesses) /\ described' = k
      /\ UNCHANGED <<ast, roots, use, frames, accesses, stmtDataAccesses, newInvariants,
                     printed, unprinted>>
  BY DEF Describe, tree
<1>2. s \in Seq(Nodes) /\ Len(s) \in Nat /\ described \in Nat
  <2>1. /\ stmtDataAccesses \in Seq(DataAccessSet(Nodes \cup {0}))
        /\ described \in 0 .. Len(stmtDataAccesses)
    BY ResultsTyped
  <2>2. k \in 1 .. Len(stmtDataAccesses)
    BY <1>1, <2>1
  <2>3. stmtDataAccesses[k] \in DataAccessSet(Nodes \cup {0})
    BY <2>1, <2>2, ElementOfSeq
  <2> QED
    BY <2>1, <2>3 DEF DataAccessSet
<1> HIDE DEF s
<1>3. /\ \A m : Arrays(m)' = Arrays(m)
      /\ \A t : DueOf(t)' = DueOf(t) /\ PrintOf(t)' = PrintOf(t)
      /\ UNCHANGED <<Wanted, ArraysIn>>
  BY <1>1, OfTreeStays, TreeStays
<1>4. /\ Len(todo') = Len(s)
      /\ \A i \in 1 .. Len(s) : /\ todo'[i].do = "collect" /\ todo'[i].end = "text"
                                /\ todo'[i].expr = s[i]
  <2>1. /\ Len(todo') = Len(s)
        /\ \A i \in 1 .. Len(s) : todo'[i] = Collected(s[i], "text")
    BY <1>1, <1>2
  <2>2. \A n : /\ Collected(n, "text").do = "collect" /\ Collected(n, "text").end = "text"
               /\ Collected(n, "text").expr = n
    BY DEF Collected
  <2> QED
    BY <2>1, <2>2
<1>5. \A i \in 1 .. Len(s) : Due(i)' = {} /\ ToPrint(i)' = Arrays(s[i])
  <2>1. \A i : Due(i)' = DueOf(todo'[i]) /\ ToPrint(i)' = PrintOf(todo'[i])
    BY <1>1, <1>3 DEF Due, ToPrint
  <2> QED
    BY <1>4, <2>1 DEF DueOf, PrintOf, Recorded
<1>6. Len(todo) = 0
  BY <1>1
<1>7. TasksForUse'
  BY <1>4 DEF TasksForUse
<1>8. RecordedOK'
  <2>1. EntriesOK'
    BY <1>1, EntriesStay DEF WorkOK, RecordedOK
  <2>2. UNION {Due(i)' : i \in 1 .. Len(todo')} = {}
    BY <1>4, <1>5
  <2>3. UNION {Due(i) : i \in 1 .. Len(todo)} = {}
    BY <1>6
  <2>4. UNCHANGED Ids(stmtDataAccesses)
    BY <1>1 DEF Ids
  <2>5. (Ids(stmtDataAccesses)' \ {0}) \cup UNION {Due(i)' : i \in 1 .. Len(todo')} = Wanted'
    BY <1>3, <2>2, <2>3, <2>4 DEF WorkOK, RecordedOK
  <2>6. \A i \in 1 .. Len(todo') : Due(i)' = {} /\ todo'[i].do # "declare"
    BY <1>4, <1>5
  <2>7. DeclaredOK'
    <3>1. \A i \in 1 .. Len(todo) : FALSE
      BY <1>6
    <3> QED
      BY <1>1, <2>4, <2>6, <3>1 DEF WorkOK, RecordedOK, DeclaredOK, IsSpace, IsKind
  <2> QED
    BY <1>1, <2>1, <2>4, <2>5, <2>6, <2>7 DEF RecordedOK
<1>9. PrintedOK'
  <2> DEFINE T(d) == (IF use = "condition" THEN {roots[1], roots[2]} ELSE {})
                       \cup UNION {ToSet(stmtDataAccesses[i].indexes) : i \in 1 .. d}
  <2>1. Texts = T(described) /\ Texts' = T(k)
    BY <1>1 DEF Texts
  <2>2. T(k) = T(described) \cup ToSet(s)
    <3>1. \A i : i \in 1 .. k <=> i \in 1 .. described \/ i = k
      BY <1>2
    <3> HIDE DEF k
    <3> QED
      BY <3>1 DEF s
  <2>3. ToSet(s) = {s[i] : i \in 1 .. Len(s)}
    BY <1>2 DEF ToSet
  <2> HIDE DEF T
  <2>4. UNION {Arrays(n) : n \in Texts}'
          = (UNION {Arrays(n) : n \in Texts}) \cup UNION {Arrays(s[i]) : i \in 1 .. Len(s)}
    BY <1>3, <2>1, <2>2, <2>3
  <2>5. UNION {ToPrint(i)' : i \in 1 .. Len(todo')} = UNION {Arrays(s[i]) : i \in 1 .. Len(s)}
    BY <1>4, <1>5
  <2>6. UNION {ToPrint(i) : i \in 1 .. Len(todo)} = {}
    BY <1>6
  <2>7. UNION {ArraysIn[unprinted[i]] : i \in 1 .. Len(unprinted)}'
          = UNION {ArraysIn[unprinted[i]] : i \in 1 .. Len(unprinted)}
    BY <1>1, <1>3
  <2> QED
    BY <1>1, <2>4, <2>5, <2>6, <2>7 DEF WorkOK, PrintedOK
<1>10. InvariantsOK'
  <2>1. Base' = Base
    BY <1>1, TreeStays
  <2>2. \A i \in 1 .. Len(todo) : FALSE
    BY <1>6
  <2>3. use = "condition" =>
          \A r \in {1, 2} : \A m \in Arrays(roots[r]) : ast[Base[m]].name \in newInvariants
    BY <2>2 DEF WorkOK, InvariantsOK
  <2> QED
    BY <1>1, <1>3, <2>1, <2>3 DEF InvariantsOK
<1>11. frames' = << >>
  BY <1>1 DEF IInv, StageOK
<1>12. PathsOK' /\ AccessesOK' /\ MakingOK' /\ ExitOK'
  BY <1>1, <1>11 DEF PathsOK, AccessesOK, MakingOK, ExitOK
<1> QED
  BY <1>1, <1>7, <1>8, <1>9, <1>10, <1>12 DEF WorkOK

-------------------------------------------------------------------------------
(* The work begins. *)
LEMMA RootsApart ==
  ASSUME IInv, TreeShape, Len(roots) = 2
  PROVE  /\ Tree /\ roots[1] \in Nodes /\ roots[2] \in Nodes
         /\ roots[1] # 0 /\ roots[2] # 0
         /\ \A x \in Searched(roots[1]), y \in Searched(roots[2]) : x < y
         /\ \A y \in Searched(roots[2]) : y # roots[1]
         /\ 0 \notin Searched(roots[1]) \cup Searched(roots[2])
<1> DEFINE l == roots[1]
           r == roots[2]
<1>1. /\ l \in Nodes /\ r \in Nodes /\ l \in Nat /\ r \in Nat /\ l < r
      /\ Above(l, Len(ast)) /\ r <= Len(ast)
  BY RootsTyped
<1>2. Tree
  BY TreeHolds
<1> HIDE DEF l, r
<1>3. Above(l, r)
  <2>1. \A m \in Nodes : m \in Nat /\ (m <= r => m <= Len(ast))
    BY <1>1, RootsTyped DEF Nodes
  <2> QED
    BY <1>1, <2>1 DEF Above
<1>4. \A y \in Searched(r) : y \in l + 1 .. r
  BY <1>1, <1>2, <1>3, SpacesAbove
<1>5. \A x \in Searched(l) : x \in 1 .. l
  BY <1>1, <1>2, SpacesTyped
<1>6. /\ \A y \in Searched(r) : y \in Nat /\ l < y /\ y # 0
      /\ \A x \in Searched(l) : x \in Nat /\ x <= l /\ x # 0
  BY <1>1, <1>4, <1>5
<1>7. l # 0 /\ r # 0
  BY <1>1 DEF Nodes
<1>8. \A x \in Searched(l), y \in Searched(r) : x < y
  BY <1>1, <1>6
<1> QED
  BY <1>1, <1>2, <1>6, <1>7, <1>8 DEF l, r

LEMMA BeginWork ==
  ASSUME IInv, IInv', TreeShape, NEW what \in {"assign", "declare", "condition"}, Begin(what)
  PROVE  WorkOK'
<1> DEFINE l == roots[1]
           r == roots[2]
<1>1. /\ status = "parsing" /\ status' = "collecting" /\ Len(roots) = 2
      /\ use' = what /\ todo' = Work(what, l, r)
      /\ UNCHANGED <<ast, roots, frames, accesses, unprinted>>
      /\ UNCHANGED <<stmtDataAccesses, described, newInvariants, printed>>
  BY DEF Begin, results
<1>2. /\ l \in Nodes /\ r \in Nodes /\ l # 0
      /\ \A x \in Searched(l), y \in Searched(r) : x < y
      /\ \A y \in Searched(r) : y # l
      /\ 0 \notin Searched(l) \cup Searched(r)
  BY <1>1, RootsApart
<1>3. /\ frames = << >> /\ accesses = << >> /\ unprinted = << >>
      /\ stmtDataAccesses = << >> /\ described = 0 /\ printed = {}
  BY <1>1 DEF IInv, StageOK
<1>4. /\ \A n : Arrays(n)' = Arrays(n) /\ Searched(n)' = Searched(n)
      /\ \A t : DueOf(t)' = DueOf(t) /\ PrintOf(t)' = PrintOf(t)
      /\ UNCHANGED <<Base, ArraysIn, DeclaredAccess>>
  BY <1>1, OfTreeStays, TreeStays
<1>5. \A i : Due(i)' = DueOf(todo'[i]) /\ ToPrint(i)' = PrintOf(todo'[i])
  BY <1>1, <1>4 DEF Due, ToPrint
<1>6. Wanted' = CASE what = "assign" -> Searched(l) \cup Searched(r)
                  [] what = "declare" -> Searched(r)
                  [] OTHER -> {}
  BY <1>1, <1>4 DEF Wanted
<1>7. Written' = IF what = "assign" THEN l ELSE 0
  BY <1>1 DEF Written
<1>8. Texts' = IF what = "condition" THEN {l, r} ELSE {}
  BY <1>1, <1>3 DEF Texts
<1>9. Ids(stmtDataAccesses)' = {}
  BY <1>1, <1>3 DEF Ids
<1>10. UNION {ArraysIn[unprinted[i]] : i \in 1 .. Len(unprinted)}' = {}
  BY <1>1, <1>3
<1>11. PathsOK' /\ AccessesOK' /\ MakingOK' /\ ExitOK'
  BY <1>1, <1>3 DEF PathsOK, AccessesOK, MakingOK, ExitOK
<1>12. EntriesOK'
  BY <1>1, <1>3 DEF EntriesOK
<1>13. printed' = {} /\ unprinted' = << >>
  BY <1>1, <1>3
<1> HIDE DEF l, r
<1>14. CASE what = "assign"
  <2> DEFINE a == Accessed(l, "write")
             b == Collected(r, "read")
  <2>1. todo' = << a, b >>
    BY <1>1, <1>14 DEF Work
  <2>2. /\ a.do = "access" /\ a.expr = l /\ a.end = "write"
        /\ b.do = "collect" /\ b.expr = r /\ b.end = "read"
    BY DEF Accessed, Collected
  <2> HIDE DEF a, b
  <2>3. /\ Len(todo') = 2 /\ todo'[1] = a /\ todo'[2] = b
        /\ \A i \in 1 .. 2 : i = 1 \/ i = 2
        /\ 1 \in 1 .. 2 /\ 2 \in 1 .. 2
    BY <2>1
  <2>4. /\ Due(1)' = Searched(l) /\ Due(2)' = Searched(r)
        /\ ToPrint(1)' = {} /\ ToPrint(2)' = {}
    BY <1>5, <2>2, <2>3 DEF DueOf, PrintOf, Recorded
  <2>5. TasksForUse'
    BY <1>1, <1>2, <1>4, <1>7, <1>9, <1>14, <2>2, <2>3 DEF TasksForUse, l
  <2>6. RecordedOK'
    <3>1. UNION {Due(i)' : i \in 1 .. Len(todo')} = Searched(l) \cup Searched(r)
      BY <2>3, <2>4
    <3>2. (Ids(stmtDataAccesses)' \ {0}) \cup UNION {Due(i)' : i \in 1 .. Len(todo')} = Wanted'
      BY <1>6, <1>9, <1>14, <3>1
    <3>3. \A i, j \in 1 .. Len(todo') : i < j => \A x \in Due(i)', y \in Due(j)' : x < y
      BY <1>2, <2>3, <2>4
    <3> QED
      BY <1>1, <1>9, <1>12, <1>14, <3>2, <3>3 DEF RecordedOK, DeclaredOK
  <2>7. PrintedOK'
    <3>1. UNION {ToPrint(i)' : i \in 1 .. Len(todo')} = {}
      BY <2>3, <2>4
    <3>2. UNION {Arrays(k) : k \in Texts}' = {}
      BY <1>8, <1>14
    <3> QED
      BY <1>10, <1>13, <3>1, <3>2 DEF PrintedOK
  <2>8. InvariantsOK'
    BY <1>1, <1>14 DEF InvariantsOK
  <2> QED
    BY <1>1, <1>11, <1>14, <2>5, <2>6, <2>7, <2>8 DEF WorkOK
<1>15. CASE what = "declare"
  <2> DEFINE a == Collected(r, "read")
             b == Declared(l)
  <2>1. todo' = << a, b >>
    BY <1>1, <1>15 DEF Work
  <2>2. /\ a.do = "collect" /\ a.expr = r /\ a.end = "read"
        /\ b.do = "declare" /\ b.expr = l /\ b.end = "write"
    BY DEF Declared, Collected
  <2> HIDE DEF a, b
  <2>3. /\ Len(todo') = 2 /\ todo'[1] = a /\ todo'[2] = b
        /\ \A i \in 1 .. 2 : i = 1 \/ i = 2
        /\ 1 \in 1 .. 2 /\ 2 \in 1 .. 2
    BY <2>1
  <2>4. /\ Due(1)' = Searched(r) /\ Due(2)' = {}
        /\ ToPrint(1)' = {} /\ ToPrint(2)' = {}
    BY <1>5, <2>2, <2>3 DEF DueOf, PrintOf, Recorded
  <2>5. TasksForUse'
    <3>1. Written' = 0 /\ use' = "declare" /\ roots'[1] = l
      BY <1>1, <1>7, <1>15 DEF l
    <3>2. 0 \notin Searched(r)
      BY <1>2
    <3>3. \A m : Searched(m)' = Searched(m)
      BY <1>4
    <3>4. /\ todo'[1].expr = r /\ todo'[1].end = "read" /\ todo'[1].do # "declare"
          /\ todo'[2].expr = l /\ todo'[2].end = "write" /\ todo'[2].do = "declare"
          /\ Len(todo') = 2 /\ \A i \in 1 .. Len(todo') : i = 1 \/ i = 2
      BY <2>2, <2>3
    <3>5. 0 \notin Ids(stmtDataAccesses)'
      BY <1>9
    <3> QED
      BY <3>1, <3>2, <3>3, <3>4, <3>5 DEF TasksForUse
  <2>6. RecordedOK'
    <3>1. UNION {Due(i)' : i \in 1 .. Len(todo')} = Searched(r)
      BY <2>3, <2>4
    <3>2. (Ids(stmtDataAccesses)' \ {0}) \cup UNION {Due(i)' : i \in 1 .. Len(todo')} = Wanted'
      BY <1>6, <1>9, <1>15, <3>1
    <3>3. \A i, j \in 1 .. Len(todo') : i < j => \A x \in Due(i)', y \in Due(j)' : x < y
      BY <1>2, <2>3, <2>4
    <3>4. \E i \in 1 .. Len(todo') : todo'[i].do = "declare"
      BY <2>2, <2>3
    <3>5. DeclaredOK'
      BY <1>9, <3>4 DEF DeclaredOK
    <3> QED
      BY <1>1, <1>9, <1>12, <1>15, <3>2, <3>3, <3>5 DEF RecordedOK
  <2>7. PrintedOK'
    <3>1. UNION {ToPrint(i)' : i \in 1 .. Len(todo')} = {}
      BY <2>3, <2>4
    <3>2. UNION {Arrays(k) : k \in Texts}' = {}
      BY <1>8, <1>15
    <3> QED
      BY <1>10, <1>13, <3>1, <3>2 DEF PrintedOK
  <2>8. InvariantsOK'
    BY <1>1, <1>15 DEF InvariantsOK
  <2> QED
    BY <1>1, <1>11, <1>15, <2>5, <2>6, <2>7, <2>8 DEF WorkOK
<1>16. CASE what = "condition"
  <2> DEFINE a == Collected(l, "text")
             b == Collected(r, "text")
             c == Collected(l, "invariant")
             d == Collected(r, "invariant")
  <2>1. todo' = << a, b, c, d >>
    BY <1>1, <1>16 DEF Work
  <2>2. /\ a.do = "collect" /\ a.expr = l /\ a.end = "text"
        /\ b.do = "collect" /\ b.expr = r /\ b.end = "text"
        /\ c.do = "collect" /\ c.expr = l /\ c.end = "invariant"
        /\ d.do = "collect" /\ d.expr = r /\ d.end = "invariant"
    BY DEF Collected
  <2> HIDE DEF a, b, c, d
  <2>3. /\ Len(todo') = 4 /\ todo'[1] = a /\ todo'[2] = b /\ todo'[3] = c /\ todo'[4] = d
        /\ \A i \in 1 .. 4 : i = 1 \/ i = 2 \/ i = 3 \/ i = 4
        /\ 1 \in 1 .. 4 /\ 2 \in 1 .. 4 /\ 3 \in 1 .. 4 /\ 4 \in 1 .. 4
    BY <2>1
  <2>4. /\ Due(1)' = {} /\ Due(2)' = {} /\ Due(3)' = {} /\ Due(4)' = {}
        /\ ToPrint(1)' = Arrays(l) /\ ToPrint(2)' = Arrays(r)
        /\ ToPrint(3)' = {} /\ ToPrint(4)' = {}
    BY <1>5, <2>2, <2>3 DEF DueOf, PrintOf, Recorded
  <2>5. TasksForUse'
    BY <1>9, <2>2, <2>3 DEF TasksForUse
  <2>6. RecordedOK'
    <3>1. \A i \in 1 .. Len(todo') : Due(i)' = {}
      BY <2>3, <2>4
    <3>2. (Ids(stmtDataAccesses)' \ {0}) \cup UNION {Due(i)' : i \in 1 .. Len(todo')} = Wanted'
      BY <1>6, <1>9, <1>16, <3>1
    <3> QED
      BY <1>1, <1>9, <1>12, <1>16, <3>1, <3>2 DEF RecordedOK, DeclaredOK
  <2>7. PrintedOK'
    <3>1. UNION {ToPrint(i)' : i \in 1 .. Len(todo')} = Arrays(l) \cup Arrays(r)
      BY <2>3, <2>4
    <3>2. UNION {Arrays(k) : k \in Texts}' = Arrays(l) \cup Arrays(r)
      BY <1>4, <1>8, <1>16
    <3> QED
      BY <1>10, <1>13, <3>1, <3>2 DEF PrintedOK
  <2>8. InvariantsOK'
    <3>1. ASSUME NEW k \in {1, 2}, NEW m \in Arrays(roots[k])
          PROVE  \E i \in 1 .. Len(todo') :
                   todo'[i].end = "invariant" /\ m \in Arrays(todo'[i].expr)
      <4>1. CASE k = 1
        BY <2>2, <2>3, <3>1, <4>1 DEF l
      <4>2. CASE k = 2
        BY <2>2, <2>3, <3>1, <4>2 DEF r
      <4> QED
        BY <4>1, <4>2
    <3> QED
      BY <1>1, <1>4, <3>1 DEF InvariantsOK
  <2> QED
    BY <1>1, <1>11, <1>16, <2>5, <2>6, <2>7, <2>8 DEF WorkOK
<1> QED
  BY <1>14, <1>15, <1>16

-------------------------------------------------------------------------------
(* The activations.  The steps of doBuildArrayAccessWork leave the tasks   *)
(* and the results alone.                                                  *)
LEMMA ActivationsWork ==
  ASSUME IInv, IInv', Tree, WorkOK, todo # << >>,
         UNCHANGED <<tree, todo, results, unprinted>>,
         status \in {"collecting", "making"}, status' \in {"making", "made"},
         PathsOK', AccessesOK', MakingOK',
         status' = "made" /\ Recorded(Head(todo)) =>
           {m \in Ids(accesses') : IsSpace(Base[m])} = Searched(Head(todo).expr)
  PROVE  WorkOK'
<1>1. /\ UNCHANGED <<ast, roots, use, todo, unprinted>>
      /\ UNCHANGED <<stmtDataAccesses, described, newInvariants, printed>>
  BY DEF tree, results
<1>2. /\ UNCHANGED <<Base, Written>>
      /\ \A n : Arrays(n)' = Arrays(n) /\ Searched(n)' = Searched(n)
      /\ \A n : IsSpace(n)' = IsSpace(n)
      /\ \A t : DueOf(t)' = DueOf(t) /\ PrintOf(t)' = PrintOf(t)
  BY <1>1, OfTreeStays, TreeStays
<1>3. Head(todo) = todo[1]
  BY FirstTask
<1>4. ASSUME NEW i \in 1 .. Len(todo)
      PROVE  Due(i)' = Due(i)
  <2>1. Due(i) = DueOf(todo[i])
    BY DEF Due
  <2>2. CASE i = 1 /\ status' = "made" /\ Recorded(todo[1])
    <3>1. Due(i)' = {m \in Ids(accesses') : IsSpace(Base[m])}
      BY <1>1, <1>2, <2>2 DEF Due, Recorded, Ids
    <3>2. Due(i) = Searched(todo[1].expr)
      BY <2>1, <2>2 DEF DueOf
    <3> QED
      BY <1>3, <2>2, <3>1, <3>2
  <2>3. CASE ~(i = 1 /\ status' = "made" /\ Recorded(todo[1]))
    <3>1. Due(i)' = DueOf(todo[i])'
      BY <1>1, <2>3 DEF Due, Recorded
    <3> QED
      BY <1>1, <1>2, <2>1, <3>1
  <2> QED
    BY <2>2, <2>3
<1>5. \A i \in 1 .. Len(todo) : ToPrint(i)' = ToPrint(i)
  BY <1>1, <1>2 DEF ToPrint
<1>6. RecordedOK'
  BY <1>1, <1>4, RecordedStays
<1>7. PrintedOK'
  BY <1>1, <1>5, PrintedStays
<1>8. TasksForUse'
  <2>1. UNCHANGED Ids(stmtDataAccesses)
    BY <1>1 DEF Ids
  <2> QED
    BY <1>1, <1>2, <2>1 DEF WorkOK, TasksForUse
<1>9. InvariantsOK'
  BY <1>1, <1>2 DEF WorkOK, InvariantsOK
<1>10. ExitOK'
  BY DEF ExitOK
<1> QED
  BY <1>1, <1>6, <1>7, <1>8, <1>9, <1>10 DEF WorkOK

LEMMA ActivationTyped ==
  ASSUME NEW f \in Activations
  PROVE  /\ f.expr \in Nodes /\ f.isRead \in BOOLEAN /\ f.base \in Nodes
         /\ f.info \in Seq(Nodes) /\ f.indexes \in Seq(Nodes)
         /\ Len(f.info) \in Nat /\ Len(f.indexes) \in Nat
         /\ f.at # 0 => f.at \in Nodes /\ IsArray(f.at)
  BY DEF Activations, FrameSet

LEMMA ArraysFromAll ==
  ASSUME Tree, NEW n \in Nodes, IsArray(n)
  PROVE  ArraysFrom(n, 1) = ArraysIn[n]
  BY ArraysAre DEF ArraysFrom

LEMMA ArraysFromNext ==
  ASSUME Tree, NEW n \in Nodes, NEW k \in 1 .. Len(Subscripts[n])
  PROVE  /\ Subscripts[n][k] \in Nodes
         /\ ArraysFrom(n, k) = ArraysIn[Subscripts[n][k]] \cup ArraysFrom(n, k + 1)
         /\ \A x \in ArraysIn[Subscripts[n][k]], y \in ArraysFrom(n, k + 1) : x < y
<1> DEFINE s == Subscripts[n]
           c == Len(s)
<1>1. /\ c \in Nat /\ k \in Nat /\ n \in Nat
      /\ \A j \in 1 .. c : s[j] \in Nodes /\ s[j] \in 1 .. n - 1
  <2>1. n \in Nat
    BY DEF Nodes
  <2> QED
    BY <2>1, SubscriptsTyped
<1> HIDE DEF c, s
<1>2. \A j : j \in k .. c <=> j = k \/ j \in k + 1 .. c
  BY <1>1 DEF c, s
<1>3. /\ ArraysFrom(n, k) = {n} \cup UNION {ArraysIn[s[j]] : j \in k .. c}
      /\ ArraysFrom(n, k + 1) = {n} \cup UNION {ArraysIn[s[j]] : j \in k + 1 .. c}
  BY DEF ArraysFrom, s, c
<1>4. ArraysFrom(n, k) = ArraysIn[s[k]] \cup ArraysFrom(n, k + 1)
  BY <1>2, <1>3
<1>5. k \in 1 .. c
  BY DEF s, c
<1>6. ASSUME NEW x \in ArraysIn[s[k]], NEW y \in ArraysFrom(n, k + 1)
      PROVE  x < y
  <2>1. x \in 1 .. s[k] /\ s[k] \in 1 .. n - 1
    BY <1>1, <1>5, ArraysTyped
  <2>2. CASE y = n
    BY <1>1, <2>1, <2>2
  <2>3. CASE y # n
    <3>1. PICK j \in k + 1 .. c : y \in ArraysIn[s[j]]
      BY <1>3, <2>3
    <3>2. j \in 1 .. c /\ k \in 1 .. j - 1
      BY <1>1, <1>5
    <3>3. \A i \in 1 .. c : \A h \in 1 .. i - 1 :
            \A u \in ArraysIn[s[h]], v \in ArraysIn[s[i]] : u < v
      BY SubscriptsInOrder DEF s, c
    <3> QED
      BY <3>1, <3>2, <3>3
  <2> QED
    BY <2>2, <2>3
<1> QED
  BY <1>1, <1>4, <1>5, <1>6 DEF s

(* The index on top of an activation is the next of its subscripts. *)
LEMMA NextIndex ==
  ASSUME Tree, NEW f \in Activations, SoFar(f), f.at = 0, f.info # << >>
  PROVE  /\ Len(f.indexes) + 1 \in 1 .. Len(Subscripts[f.expr])
         /\ f.info[Len(f.info)] = Subscripts[f.expr][Len(f.indexes) + 1]
         /\ SoFar(Taken(f))
         /\ Taken(f).expr = f.expr /\ Taken(f).isRead = f.isRead
         /\ Len(Taken(f).indexes) = Len(f.indexes) + 1
<1> DEFINE s == Subscripts[f.expr]
           c == Len(s)
           a == Len(f.indexes)
           b == Len(f.info)
           index == f.info[b]
           indexes == Append(f.indexes, index)
           info == SubSeq(f.info, 1, b - 1)
<1>1. /\ f.info \in Seq(Nodes) /\ f.indexes \in Seq(Nodes) /\ a \in Nat /\ b \in Nat \ {0}
      /\ index \in Nodes
  BY ActivationTyped
<1>2. f.expr \in Nodes
  BY ActivationTyped
<1>3. c \in Nat
  BY <1>2, SubscriptsTyped
<1>4. /\ c = a + b /\ IsArray(f.expr) /\ f.base = Base[f.expr] /\ a + b <= MaxArrayDim
      /\ \A j \in 1 .. a : f.indexes[j] = s[j]
      /\ \A k \in 1 .. b : f.info[k] = s[c + 1 - k]
  BY DEF SoFar, Ahead
<1>5. index = s[a + 1] /\ a + 1 \in 1 .. c
  <2>1. b \in 1 .. b /\ c + 1 - b = a + 1 /\ a + 1 \in 1 .. c
    <3>1. a \in Nat /\ b \in Nat \ {0} /\ c = a + b
      BY <1>1, <1>4
    <3> HIDE DEF a, b, c
    <3> QED
      BY <3>1
  <2>2. f.info[b] = s[c + 1 - b]
    BY <1>4, <2>1
  <2> HIDE DEF s
  <2> QED
    BY <2>1, <2>2
<1>6. /\ Len(indexes) = a + 1 /\ indexes[a + 1] = index
      /\ \A j \in 1 .. a : indexes[j] = f.indexes[j]
  BY <1>1, AppendProperties
<1>7. Len(info) = b - 1 /\ \A k \in 1 .. b - 1 : info[k] = f.info[k]
  <2>1. \A k \in 1 .. b - 1 : f.info[k] \in Nodes
    BY <1>1
  <2> DEFINE d == b - 1
  <2>2. d \in Nat /\ 1 \in Int /\ d \in Int
    BY <1>1
  <2> HIDE DEF d
  <2>3. /\ Len(SubSeq(f.info, 1, d)) = IF 1 <= d THEN d - 1 + 1 ELSE 0
        /\ \A k \in 1 .. d - 1 + 1 : SubSeq(f.info, 1, d)[k] = f.info[1 + k - 1]
    BY <1>1, <2>1, <2>2, SubSeqProperties DEF d
  <2>4. Len(SubSeq(f.info, 1, d)) = d /\ \A k \in 1 .. d : SubSeq(f.info, 1, d)[k] = f.info[k]
    BY <2>2, <2>3
  <2> QED
    BY <2>4 DEF d
<1>8. Taken(f) = [f EXCEPT !.indexes = indexes, !.info = info]
  BY DEF Taken
<1> HIDE DEF indexes, info, index
<1>9. /\ Taken(f).expr = f.expr /\ Taken(f).isRead = f.isRead /\ Taken(f).at = 0
      /\ Taken(f).base = f.base /\ Taken(f).indexes = indexes /\ Taken(f).info = info
  <2>1. f \in FrameSet
    BY DEF Activations
  <2> QED
    BY <1>8, <2>1 DEF FrameSet
<1> HIDE DEF a, b, c, s
<1>10. \A j \in 1 .. a + 1 : indexes[j] = s[j]
  <2>1. \A j \in 1 .. a + 1 : j \in 1 .. a \/ j = a + 1
    BY <1>1
  <2> QED
    BY <1>4, <1>5, <1>6, <2>1
<1>11. \A k \in 1 .. b - 1 : info[k] = s[c + 1 - k]
  <2>1. \A k \in 1 .. b - 1 : k \in 1 .. b
    BY <1>1
  <2> QED
    BY <1>4, <1>7, <2>1
<1>12. c = a + 1 + (b - 1) /\ a + 1 + (b - 1) <= MaxArrayDim
  BY <1>1, <1>3, <1>4
<1>13. SoFar(Taken(f))
  <2> DEFINE g == Taken(f)
  <2>1. /\ Ahead(g) = indexes /\ g.at = 0 /\ g.base = Base[g.expr] /\ IsArray(g.expr)
        /\ Subscripts[g.expr] = s /\ g.indexes = indexes /\ g.info = info
    BY <1>4, <1>9 DEF Ahead, s
  <2> HIDE DEF g
  <2>2. Len(s) = Len(Ahead(g)) + Len(g.info) /\ Len(g.indexes) + Len(g.info) <= MaxArrayDim
    BY <1>6, <1>7, <1>12, <2>1 DEF c
  <2>3. \A j \in 1 .. Len(Ahead(g)) : Ahead(g)[j] = s[j]
    BY <1>6, <1>10, <2>1
  <2>4. \A k \in 1 .. Len(g.info) : g.info[k] = s[Len(s) + 1 - k]
    BY <1>7, <1>11, <2>1 DEF c
  <2>5. SoFar(g)
    BY <2>1, <2>2, <2>3, <2>4, Zenon DEF SoFar
  <2> QED
    BY <2>5 DEF g
<1> QED
  BY <1>5, <1>6, <1>9, <1>13 DEF a, b, c, s, index

LEMMA SoFarStays ==
  ASSUME UNCHANGED ast, NEW i, SoFar(frames'[i])
  PROVE  SoFar(frames[i])'
<1>1. UNCHANGED <<ast, Nodes, Subscripts, Base>>
  BY TreeStays
<1> QED
  BY <1>1 DEF SoFar, Ahead, IsArray, IsKind

(* Another activation in the place of the one at work, with as much to do. *)
LEMMA TopWork ==
  ASSUME IInv, IInv', Tree, WorkOK, Making, NEW f \in Activations, Became(Append(Below, f)),
         f.expr = Top.expr, f.isRead = Top.isRead, SoFar(f),
         ArraysFrom(f.expr, Len(f.indexes) + 1) = ArraysFrom(Top.expr, Len(Top.indexes) + 1)
  PROVE  WorkOK'
<1> DEFINE n == Len(frames)
<1>1. /\ n \in Nat \ {0} /\ frames \in Seq(Activations) /\ Below \in Seq(Activations)
      /\ Len(Below) = n - 1 /\ todo # << >> /\ Top = frames[n]
      /\ \A m \in 1 .. n - 1 : Below[m] = frames[m]
  BY AtFrame DEF Top
<1>2. /\ frames' = Append(Below, f) /\ status = "making" /\ status' = "making"
      /\ UNCHANGED <<tree, todo, accesses, results, unprinted>>
  BY DEF Became, Making
<1>3. /\ Len(frames') = n /\ frames'[n] = f
      /\ \A m \in 1 .. n - 1 : frames'[m] = frames[m]
  BY <1>1, <1>2, AppendProperties
<1>4. UNCHANGED ast
  BY <1>2 DEF tree
<1>5. /\ UNCHANGED <<Base, Subscripts, ArraysIn, ComponentsOf>>
      /\ \A m : Arrays(m)' = Arrays(m)
      /\ \A m, isRead : AccessAt(m, isRead)' = AccessAt(m, isRead)
      /\ \A g : SoFar(g)' = SoFar(g)
      /\ \A m, k : ArraysFrom(m, k)' = ArraysFrom(m, k)
  BY <1>4, OfTreeStays, TreeStays
<1> HIDE DEF n
<1>6. ASSUME NEW i \in 1 .. n
      PROVE  /\ frames'[i].expr = frames[i].expr /\ frames'[i].isRead = frames[i].isRead
             /\ SoFar(frames'[i]) /\ SoFar(frames[i])'
             /\ Remaining(i)' = Remaining(i)
  <2>1. CASE i = n
    <3>1. frames'[i] = f /\ frames[i] = Top
      BY <1>1, <1>3, <2>1
    <3>2. Remaining(i) = ArraysFrom(Top.expr, Len(Top.indexes) + 1)
      BY <2>1, <3>1 DEF Remaining, n
    <3>3. Remaining(i)' = ArraysFrom(f.expr, Len(f.indexes) + 1)
      BY <1>3, <1>5, <2>1, <3>1 DEF Remaining
    <3>4. SoFar(frames'[i])
      BY <3>1
    <3> QED
      BY <1>4, <3>1, <3>2, <3>3, <3>4, <1>5, SoFarStays
  <2>2. CASE i # n
    <3>1. frames'[i] = frames[i]
      BY <1>1, <1>3, <2>2
    <3>2. SoFar(frames[i])
      BY DEF WorkOK, PathsOK, n
    <3>3. Remaining(i)' = Remaining(i)
      BY <1>3, <1>5, <2>2, <3>1 DEF Remaining, n
    <3>4. SoFar(frames'[i])
      BY <3>1, <3>2
    <3> QED
      BY <1>4, <3>1, <3>3, <3>4, SoFarStays
  <2> QED
    BY <2>1, <2>2
<1>7. 1 \in 1 .. n
  BY <1>1
<1>8. PathsOK'
  <2>1. \A i \in 1 .. Len(frames') : SoFar(frames[i])'
    BY <1>3, <1>6
  <2>2. /\ Head(todo).do = "access" /\ frames[1].expr = Head(todo).expr
        /\ \A i \in 1 .. n : frames[i].isRead = (i = 1 => Head(todo).end # "write")
    BY <1>2 DEF WorkOK, PathsOK, n
  <2>3. /\ frames'[1].expr = Head(todo).expr
        /\ \A i \in 1 .. Len(frames') :
             frames'[i].isRead = (i = 1 => Head(todo).end # "write")
    BY <1>3, <1>6, <1>7, <2>2
  <2> QED
    BY <1>2, <2>1, <2>2, <2>3 DEF PathsOK
<1>9. AccessesOK'
  <2>1. InOrder(accesses)' = InOrder(accesses) /\ Ids(accesses)' = Ids(accesses)
    BY <1>2 DEF InOrder, Ids
  <2> QED
    BY <1>2, <1>5, <2>1 DEF WorkOK, AccessesOK
<1>10. MakingOK'
  <2>1. Ids(accesses)' = Ids(accesses) /\ UNCHANGED <<ArraysIn, todo>>
    BY <1>2, <1>5 DEF Ids
  <2>2. UNION {Remaining(i)' : i \in 1 .. Len(frames')}
          = UNION {Remaining(i) : i \in 1 .. Len(frames)}
    BY <1>3, <1>6 DEF n
  <2>3. /\ Ids(accesses) \cup UNION {Remaining(i) : i \in 1 .. Len(frames)}
             = ArraysIn[Head(todo).expr]
        /\ \A i \in 1 .. Len(frames) :
             /\ \A x \in Ids(accesses), y \in Remaining(i) : x < y
             /\ \A j \in 1 .. i - 1 : \A x \in Remaining(i), y \in Remaining(j) : x < y
    BY <1>2 DEF WorkOK, MakingOK
  <2>4. \A i \in 1 .. Len(frames') :
          /\ \A x \in Ids(accesses), y \in Remaining(i)' : x < y
          /\ \A j \in 1 .. i - 1 : \A x \in Remaining(i)', y \in Remaining(j)' : x < y
    <3>1. \A i \in 1 .. n : \A j \in 1 .. i - 1 : j \in 1 .. n
      BY <1>1
    <3> QED
      BY <1>3, <1>6, <2>3, <3>1 DEF n
  <2> QED
    BY <2>1, <2>2, <2>3, <2>4 DEF MakingOK
<1> QED
  BY <1>1, <1>2, <1>8, <1>9, <1>10, ActivationsWork

LEMMA GetArrayExprInfoWork ==
  ASSUME IInv, IInv', Tree, WorkOK, GetArrayExprInfo
  PROVE  WorkOK'
<1> DEFINE n == Top.at
           base == ast[n].left
           right == ast[n].right
           info == Append(Top.info, right)
           at == IF IsArray(base) THEN base ELSE 0
           f == [Top EXCEPT !.info = info, !.base = base, !.at = at]
           s == Subscripts[Top.expr]
           c == Len(Top.info)
           d == Len(Subscripts[base])
<1>1. Making /\ n # 0 /\ (IF Full(Top.info) THEN Stop("exit") ELSE Became(Append(Below, f)))
  BY DEF GetArrayExprInfo
<1>2. /\ Top \in Activations /\ todo # << >> /\ status = "making" /\ SoFar(Top)
  <2>1. Top \in Activations /\ todo # << >> /\ Len(frames) \in 1 .. Len(frames)
    BY <1>1, AtFrame
  <2> QED
    BY <1>1, <2>1 DEF Making, WorkOK, PathsOK, Top
<1>3. /\ n \in Nodes /\ IsArray(n) /\ Top.expr \in Nodes /\ Top.info \in Seq(Nodes)
      /\ c \in Nat
  BY <1>1, <1>2, ActivationTyped
<1>4. /\ base \in Nodes /\ right \in Nodes
      /\ IsArray(base) \/ IsKind(base, "ref")
  BY <1>3 DEF Tree, TreeOK
<1>5. /\ Subscripts[n] = Append(Subscripts[base], right) /\ Base[n] = Base[base]
      /\ Subscripts[base] \in Seq(Nodes) /\ d \in Nat
      /\ Len(Subscripts[n]) = d + 1 /\ Subscripts[n][d + 1] = right
      /\ \A j \in 1 .. d : Subscripts[n][j] = Subscripts[base][j]
  <2>1. /\ Subscripts[n] = Append(Subscripts[base], right) /\ Base[n] = Base[base]
        /\ Subscripts[base] \in Seq(Nodes)
    BY <1>3, <1>4, SubscriptsOf, BaseOf, SubscriptsTyped
  <2> HIDE DEF base, right
  <2>2. d \in Nat
    BY <2>1
  <2>3. /\ Len(Append(Subscripts[base], right)) = d + 1
        /\ Append(Subscripts[base], right)[d + 1] = right
        /\ \A j \in 1 .. d : Append(Subscripts[base], right)[j] = Subscripts[base][j]
    BY <1>4, <2>1, AppendProperties
  <2> QED
    BY <2>1, <2>2, <2>3
<1>6. /\ IsArray(Top.expr) /\ Top.indexes = << >> /\ Base[n] = Base[Top.expr]
      /\ Len(s) = d + 1 + c
      /\ \A j \in 1 .. d + 1 : s[j] = Subscripts[n][j]
      /\ \A k \in 1 .. c : Top.info[k] = s[Len(s) + 1 - k]
  BY <1>1, <1>2, <1>5 DEF SoFar, Ahead
<1>7. CASE Full(Top.info)
  <2>1. Stop("exit")
    BY <1>1, <1>7
  <2>2. Len(s) > MaxArrayDim
    <3>1. c >= MaxArrayDim /\ MaxArrayDim \in Nat
      BY <1>7, BoundsAssumption DEF Full
    <3>2. c \in Nat /\ d \in Nat /\ Len(s) = d + 1 + c
      BY <1>3, <1>5, <1>6
    <3> HIDE DEF c, d, s
    <3> QED
      BY <3>1, <3>2
  <2> QED
    BY <1>2, <1>3, <2>1, <2>2, StopWork
<1>8. CASE ~Full(Top.info)
  <2>1. Became(Append(Below, f))
    BY <1>1, <1>8
  <2>2. /\ info \in Seq(Nodes) /\ Len(info) = c + 1 /\ info[c + 1] = right
        /\ \A k \in 1 .. c : info[k] = Top.info[k]
    BY <1>3, <1>4, AppendProperties
  <2>3. c + 1 <= MaxArrayDim
    BY <1>3, <1>8, BoundsAssumption DEF Full
  <2>4. at \in Nodes \cup {0} /\ (at # 0 => at = base /\ IsArray(base))
        /\ (at = 0 => ~IsArray(base) /\ IsKind(base, "ref"))
    <3>1. 0 \notin Nodes
      BY DEF Nodes
    <3> HIDE DEF base
    <3> QED
      BY <1>4, <3>1
  <2> HIDE DEF base, n, info, at, right
  <2>5. /\ f.at = at /\ f.base = base /\ f.info = info
        /\ f.expr = Top.expr /\ f.indexes = Top.indexes /\ f.isRead = Top.isRead
        /\ f \in Activations
    <3>1. Top \in FrameSet
      BY <1>2 DEF Activations
    <3>2. /\ f \in FrameSet /\ f.at = at /\ f.base = base /\ f.info = info
          /\ f.expr = Top.expr /\ f.indexes = Top.indexes /\ f.isRead = Top.isRead
      BY <1>4, <2>2, <2>4, <3>1 DEF FrameSet
    <3> HIDE DEF f
    <3> QED
      BY <2>4, <3>2 DEF Activations
  <2> HIDE DEF f, c
  <2>6. Ahead(f) = Subscripts[base]
    <3>1. CASE at # 0
      BY <2>4, <2>5, <3>1 DEF Ahead
    <3>2. CASE at = 0
      <4>1. Subscripts[base] = << >>
        BY <1>4, <2>4, <3>2, SubscriptsOf
      <4> QED
        BY <1>6, <2>5, <3>2, <4>1 DEF Ahead
    <3> QED
      BY <3>1, <3>2
  <2> HIDE DEF d, s
  <2>7. \A k \in 1 .. c + 1 : info[k] = s[Len(s) + 1 - k]
    <3>1. info[c + 1] = s[Len(s) + 1 - (c + 1)]
      <4>1. d + 1 \in 1 .. d + 1 /\ Len(s) + 1 - (c + 1) = d + 1
        BY <1>3, <1>5, <1>6
      <4>2. s[d + 1] = right
        BY <1>5, <1>6, <4>1
      <4> QED
        BY <2>2, <4>1, <4>2
    <3>2. \A k \in 1 .. c + 1 : k \in 1 .. c \/ k = c + 1
      BY <1>3
    <3> QED
      BY <1>6, <2>2, <3>1, <3>2
  <2>8. \A j \in 1 .. d : j \in 1 .. d + 1
    BY <1>5
  <2>9. SoFar(f)
    <3>1. IsArray(f.expr) /\ Subscripts[f.expr] = s /\ Len(f.indexes) = 0
      BY <1>6, <2>5 DEF s
    <3>2. f.at # 0 => f.indexes = << >> /\ Base[f.at] = Base[f.expr]
      BY <1>5, <1>6, <2>4, <2>5
    <3>3. f.at = 0 => f.base = Base[f.expr]
      <4>1. at = 0 => Base[base] = base
        BY <1>4, <2>4, BaseOf
      <4> QED
        BY <1>5, <1>6, <2>5, <4>1
    <3>4. Len(s) = Len(Ahead(f)) + Len(f.info)
      <4>1. Len(Ahead(f)) = d /\ Len(f.info) = c + 1
        BY <2>2, <2>5, <2>6 DEF d
      <4> QED
        BY <1>3, <1>5, <1>6, <4>1
    <3>5. \A j \in 1 .. Len(Ahead(f)) : Ahead(f)[j] = s[j]
      BY <1>5, <1>6, <2>6, <2>8 DEF d
    <3>6. \A k \in 1 .. Len(f.info) : f.info[k] = s[Len(s) + 1 - k]
      BY <2>2, <2>5, <2>7
    <3>7. Len(f.indexes) + Len(f.info) <= MaxArrayDim
      BY <1>3, <2>2, <2>3, <2>5, <3>1
    <3> QED
      BY <3>1, <3>2, <3>3, <3>4, <3>5, <3>6, <3>7, Zenon DEF SoFar
  <2> QED
    BY <1>1, <2>1, <2>5, <2>9, TopWork
<1> QED
  BY <1>7, <1>8

LEMMA StartWork ==
  ASSUME IInv, IInv', Tree, WorkOK, Start
  PROVE  WorkOK'
<1> DEFINE t == Head(todo)
           n == t.expr
           isRead == t.end # "write"
<1>1. /\ status = "collecting" /\ todo # << >> /\ t.do = "access"
      /\ UNCHANGED <<tree, todo, results, unprinted>> /\ UNCHANGED ast
  BY DEF Start, Doing, tree
<1>2. n \in Nodes /\ (IsArray(n) \/ (Single(n) /\ t.end # "text"))
  BY <1>1, AtTask DEF Tasks
<1>3. /\ UNCHANGED <<Base, Subscripts, ArraysIn, ComponentsOf>>
      /\ \A m : Arrays(m)' = Arrays(m)
      /\ \A m, r : AccessAt(m, r)' = AccessAt(m, r)
      /\ \A g : SoFar(g)' = SoFar(g)
      /\ \A m, k : ArraysFrom(m, k)' = ArraysFrom(m, k)
  BY <1>1, OfTreeStays, TreeStays
<1> HIDE DEF t
<1>4. CASE IsArray(n)
  <2> DEFINE f == Frame(n, isRead)
  <2>1. frames' = << f >> /\ accesses' = << >> /\ status' = "making"
    BY <1>4 DEF Start, t
  <2>2. /\ f.expr = n /\ f.isRead = isRead /\ f.at = n /\ f.info = << >>
        /\ f.indexes = << >> /\ n # 0
    BY <1>2 DEF Frame, Nodes
  <2> HIDE DEF f, n
  <2>3. Len(frames') = 1 /\ frames'[1] = f /\ \A i \in 1 .. 1 : i = 1
    BY <2>1
  <2>4. SoFar(f)
    <3>1. Subscripts[n] \in Seq(Nodes)
      BY <1>2, SubscriptsTyped DEF n
    <3>2. Ahead(f) = Subscripts[n] /\ Len(Subscripts[n]) \in Nat
      BY <2>2, <3>1 DEF Ahead
    <3> QED
      BY <1>4, <2>2, <3>2, BoundsAssumption DEF SoFar, n
  <2>5. PathsOK'
    BY <1>1, <1>3, <2>1, <2>2, <2>3, <2>4 DEF PathsOK, t, n
  <2>6. Ids(accesses)' = {}
    BY <2>1 DEF Ids
  <2>7. AccessesOK'
    BY <1>1, <1>3, <2>1, <2>6 DEF AccessesOK, InOrder
  <2>8. MakingOK'
    <3>1. Remaining(1)' = ArraysIn[n]
      <4>1. Remaining(1)' = ArraysFrom(n, 1)
        BY <1>3, <2>2, <2>3 DEF Remaining
      <4> QED
        BY <1>2, <1>4, <4>1, ArraysFromAll DEF n
    <3>2. UNION {Remaining(i)' : i \in 1 .. Len(frames')} = ArraysIn[n]
      BY <2>3, <3>1
    <3>3. \A i \in 1 .. Len(frames') : \A j \in 1 .. i - 1 : FALSE
      BY <2>3
    <3> QED
      BY <1>1, <1>3, <2>6, <3>2, <3>3 DEF MakingOK, t, n
  <2> QED
    BY <1>1, <2>1, <2>5, <2>7, <2>8, ActivationsWork
<1>5. CASE ~IsArray(n)
  <2>1. /\ accesses' = IF IsSpace(n) THEN << DataAccess(n, n, isRead, << >>) >> ELSE << >>
        /\ status' = "made" /\ UNCHANGED frames
    BY <1>5 DEF Start, t
  <2>2. Single(n) /\ t.end # "text"
    BY <1>2, <1>5
  <2>3. /\ Arrays(n) = {} /\ Searched(n) = (IF IsSpace(n) THEN {n} ELSE {})
        /\ IsSpace(n) => ComponentsOf[n] = {n} /\ Base[n] = n /\ Subscripts[n] = << >>
    <3>1. CASE IsKind(n, "ref")
      BY <1>2, <3>1, OfRef
    <3>2. CASE ~IsKind(n, "ref")
      <4>1. ~Inner(n) /\ ~IsSpace(n)
        BY <2>2, <3>2 DEF Single, Inner, IsArray, IsKind, IsSpace
      <4> QED
        BY <1>2, <3>2, <4>1, OfLeaf
    <3> QED
      BY <3>1, <3>2
  <2>4. frames = << >>
    BY <1>1 DEF IInv, StageOK
  <2>5. IsSpace(n) => DataAccess(n, n, isRead, << >>) = AccessAt(n, isRead)
    BY <2>3 DEF DataAccess, AccessAt
  <2>6. /\ IsSpace(n) => AccessAt(n, isRead).sourceId = n /\ AccessAt(n, isRead).indexes = << >>
        /\ accesses' = IF IsSpace(n) THEN << AccessAt(n, isRead) >> ELSE << >>
    BY <2>1, <2>3, <2>5 DEF AccessAt
  <2> HIDE DEF n, isRead
  <2>7. PathsOK' /\ MakingOK'
    BY <1>1, <2>1, <2>4 DEF PathsOK, MakingOK, t
  <2>8. Ids(accesses') = IF IsSpace(n) THEN {n} ELSE {}
    BY <2>6 DEF Ids
  <2>9. AccessesOK'
    <3>1. ASSUME NEW i \in 1 .. Len(accesses')
          PROVE  i = 1 /\ accesses'[i] = AccessAt(n, isRead) /\ IsSpace(n)
      BY <2>6
    <3>2. \A i, j \in 1 .. Len(accesses') : ~(i < j)
      BY <3>1
    <3>3. isRead = (t.end = "write" => n # n)
      BY DEF isRead
    <3>4. \A i \in 1 .. Len(accesses') :
            /\ accesses'[i].sourceId = n
            /\ accesses'[i] = AccessAt(accesses'[i].sourceId,
                                       t.end = "write" => accesses'[i].sourceId # n)
            /\ Len(accesses'[i].indexes) <= MaxArrayDim
      BY <2>6, <3>1, <3>3, BoundsAssumption
    <3>5. Ids(accesses') \subseteq ComponentsOf[n] /\ Ids(accesses)' = Ids(accesses')
      BY <2>3, <2>8 DEF Ids
    <3>6. InOrder(accesses)'
      BY <3>2 DEF InOrder
    <3> QED
      BY <1>1, <1>3, <2>1, <2>3, <3>4, <3>5, <3>6 DEF AccessesOK, t, n
  <2>10. {m \in Ids(accesses') : IsSpace(Base[m])} = Searched(n)
    BY <2>3, <2>8
  <2> QED
    BY <1>1, <2>1, <2>7, <2>9, <2>10, ActivationsWork DEF t, n
<1> QED
  BY <1>4, <1>5

LEMMA TakeIndexWork ==
  ASSUME IInv, IInv', Tree, WorkOK, TakeIndex
  PROVE  WorkOK'
<1>0. PICK n : n = Len(frames)
  OBVIOUS
<1> DEFINE index == Top.info[Len(Top.info)]
           e == Top.expr
           k == Len(Top.indexes) + 1
<1>1. Making /\ Top.at = 0 /\ Top.info # << >> /\ status = "making"
  BY DEF TakeIndex, Making
<1>2. /\ n \in Nat \ {0} /\ frames \in Seq(Activations) /\ Top \in Activations /\ todo # << >>
      /\ Top = frames[n] /\ n \in 1 .. n
  BY <1>0, <1>1, AtFrame DEF Top
<1>3. SoFar(Top)
  BY <1>0, <1>2 DEF WorkOK, PathsOK
<1>4. e \in Nodes
  BY <1>2, ActivationTyped
<1>5. /\ k \in 1 .. Len(Subscripts[e]) /\ index = Subscripts[e][k]
      /\ SoFar(Taken(Top)) /\ Taken(Top).expr = e /\ Taken(Top).isRead = Top.isRead
      /\ Len(Taken(Top).indexes) = k
  BY <1>1, <1>2, <1>3, NextIndex
<1>6. /\ index \in Nodes
      /\ ArraysFrom(e, k) = ArraysIn[index] \cup ArraysFrom(e, k + 1)
      /\ \A x \in ArraysIn[index], y \in ArraysFrom(e, k + 1) : x < y
  <2>1. /\ Subscripts[e][k] \in Nodes
        /\ ArraysFrom(e, k) = ArraysIn[Subscripts[e][k]] \cup ArraysFrom(e, k + 1)
        /\ \A x \in ArraysIn[Subscripts[e][k]], y \in ArraysFrom(e, k + 1) : x < y
    <3> HIDE DEF e, k
    <3> QED
      BY <1>4, <1>5, ArraysFromNext
  <2> HIDE DEF index, e, k
  <2> QED
    BY <1>5, <2>1
<1>7. CASE ~IsArray(index)
  <2>1. Became(Append(Below, Taken(Top)))
    BY <1>7 DEF TakeIndex, IsSubAccess
  <2>2. AllFound(Top.indexes, accesses)
    BY <1>0, <1>2 DEF IInv, SubAccessesMade
  <2>3. Taken(Top) \in Activations
    BY <1>1, <1>2, <1>7, <2>2, TakenKeeps
  <2>4. ArraysIn[index] = {}
    BY <1>6, <1>7, ArraysAre
  <2>5. ArraysFrom(Taken(Top).expr, Len(Taken(Top).indexes) + 1) = ArraysFrom(e, k)
    BY <1>5, <1>6, <2>4
  <2> QED
    BY <1>1, <1>5, <2>1, <2>3, <2>5, TopWork
<1>8. CASE IsArray(index)
  <2> DEFINE g == Frame(index, TRUE)
  <2>1. Became(Append(frames, g))
    BY <1>8 DEF TakeIndex, IsSubAccess, SubAccess
  <2>2. g \in Activations /\ g.expr = index /\ g.isRead = TRUE /\ g.indexes = << >>
        /\ g.info = << >> /\ g.at = index /\ index # 0
    <3>1. /\ g.expr = index /\ g.isRead = TRUE /\ g.indexes = << >>
          /\ g.info = << >> /\ g.at = index
      BY DEF Frame
    <3>2. index # 0
      BY <1>6 DEF Nodes
    <3>3. g \in Activations
      BY <1>6, <1>8, FrameActivation
    <3> QED
      BY <3>1, <3>2, <3>3
  <2> HIDE DEF g, index, e, k
  <2>3. /\ frames' = Append(frames, g) /\ status' = "making"
        /\ UNCHANGED <<tree, todo, accesses, results, unprinted>>
    BY <1>1, <2>1 DEF Became, Making
  <2>4. /\ Len(frames') = n + 1 /\ frames'[n + 1] = g
        /\ \A m \in 1 .. n : frames'[m] = frames[m]
    BY <1>0, <1>2, <2>2, <2>3, AppendProperties
  <2>5. UNCHANGED ast
    BY <2>3 DEF tree
  <2>6. /\ UNCHANGED <<Base, Subscripts, ArraysIn, ComponentsOf>>
        /\ \A m : Arrays(m)' = Arrays(m)
        /\ \A m, isRead : AccessAt(m, isRead)' = AccessAt(m, isRead)
        /\ \A m, j : ArraysFrom(m, j)' = ArraysFrom(m, j)
    BY <2>5, OfTreeStays, TreeStays
  <2>7. SoFar(g)
    <3>1. Subscripts[index] \in Seq(Nodes)
      BY <1>6, SubscriptsTyped
    <3>2. Ahead(g) = Subscripts[index] /\ Len(Subscripts[index]) \in Nat
      BY <2>2, <3>1 DEF Ahead
    <3> QED
      BY <1>8, <2>2, <3>2, BoundsAssumption DEF SoFar
  <2>8. n + 1 \in 1 .. n + 1 /\ 1 \in 1 .. n /\ n + 1 # 1 /\ n + 1 # n
        /\ \A i \in 1 .. n + 1 : i \in 1 .. n \/ i = n + 1
    BY <1>2
  <2>9. PathsOK'
    <3>1. ASSUME NEW i \in 1 .. n + 1
          PROVE  SoFar(frames[i])'
      <4>1. CASE i = n + 1
        BY <2>4, <2>5, <2>7, <4>1, SoFarStays
      <4>2. CASE i \in 1 .. n
        <5>1. SoFar(frames[i]) /\ frames'[i] = frames[i]
          BY <1>0, <2>4, <4>2 DEF WorkOK, PathsOK
        <5> QED
          BY <2>5, <5>1, SoFarStays
      <4> QED
        BY <2>8, <4>1, <4>2
    <3>2. /\ Head(todo).do = "access" /\ frames[1].expr = Head(todo).expr
          /\ \A i \in 1 .. n : frames[i].isRead = (i = 1 => Head(todo).end # "write")
      BY <1>0, <1>1 DEF WorkOK, PathsOK
    <3>3. ASSUME NEW i \in 1 .. n + 1
          PROVE  frames'[i].isRead = (i = 1 => Head(todo).end # "write")
      <4>1. CASE i = n + 1
        <5>1. frames'[i].isRead = TRUE /\ i # 1
          BY <2>2, <2>4, <2>8, <4>1
        <5> QED
          BY <5>1
      <4>2. CASE i \in 1 .. n
        BY <2>4, <3>2, <4>2
      <4> QED
        BY <2>8, <4>1, <4>2
    <3> QED
      BY <2>3, <2>4, <2>8, <3>1, <3>2, <3>3 DEF PathsOK
  <2>10. AccessesOK'
    <3>1. InOrder(accesses)' = InOrder(accesses) /\ Ids(accesses)' = Ids(accesses)
      BY <2>3 DEF InOrder, Ids
    <3> QED
      BY <1>1, <2>3, <2>6, <3>1 DEF WorkOK, AccessesOK
  <2>11. /\ Remaining(n) = ArraysIn[index] \cup Remaining(n)'
         /\ Remaining(n + 1)' = ArraysIn[index]
         /\ \A x \in Remaining(n + 1)', y \in Remaining(n)' : x < y
         /\ \A i \in 1 .. n : i # n => Remaining(i)' = Remaining(i)
    <3>1. Remaining(n) = ArraysFrom(e, k)
      BY <1>0, <1>2 DEF Remaining, e, k
    <3>2. Remaining(n)' = ArraysFrom(e, k + 1)
      <4>1. Remaining(n)' = ArraysFrom(e, Len(Top.indexes) + 2)
        BY <1>2, <2>4, <2>6, <2>8 DEF Remaining, e
      <4>2. Len(Top.indexes) + 2 = k + 1
        BY <1>2, ActivationTyped DEF k
      <4> QED
        BY <4>1, <4>2
    <3>3. Remaining(n + 1)' = ArraysIn[index]
      <4>1. Remaining(n + 1)' = ArraysFrom(index, 1)
        BY <2>2, <2>4, <2>6 DEF Remaining
      <4> QED
        BY <1>6, <1>8, <4>1, ArraysFromAll
    <3>4. ASSUME NEW i \in 1 .. n, i # n
          PROVE  Remaining(i)' = Remaining(i)
      <4>1. frames'[i] = frames[i] /\ i # n + 1
        BY <1>2, <2>4
      <4> QED
        BY <1>0, <2>4, <2>6, <3>4, <4>1 DEF Remaining
    <3> QED
      BY <1>6, <3>1, <3>2, <3>3, <3>4
  <2>12. /\ Ids(accesses) \cup UNION {Remaining(i) : i \in 1 .. n} = ArraysIn[Head(todo).expr]
         /\ \A i \in 1 .. n : \A x \in Ids(accesses), y \in Remaining(i) : x < y
         /\ \A i, j \in 1 .. n : j < i => \A x \in Remaining(i), y \in Remaining(j) : x < y
    <3>1. \A i, j \in 1 .. n : j < i => j \in 1 .. i - 1
      BY <1>2
    <3> QED
      BY <1>0, <1>1, <3>1 DEF WorkOK, MakingOK
  <2>13. /\ \A i \in 1 .. n : Remaining(i)' \subseteq Remaining(i)
         /\ Remaining(n + 1)' \subseteq Remaining(n) /\ n \in 1 .. n
    BY <1>0, <1>2, <2>11
  <2>14. MakingOK'
    <3>1. UNION {Remaining(i)' : i \in 1 .. n + 1} = UNION {Remaining(i) : i \in 1 .. n}
      <4>1. ASSUME NEW i \in 1 .. n
            PROVE  Remaining(i) \subseteq UNION {Remaining(j)' : j \in 1 .. n + 1}
        <5>1. i \in 1 .. n + 1 /\ n \in 1 .. n + 1 /\ n + 1 \in 1 .. n + 1
          BY <1>0, <1>2
        <5> QED
          BY <2>11, <5>1
      <4>2. ASSUME NEW i \in 1 .. n + 1
            PROVE  Remaining(i)' \subseteq UNION {Remaining(j) : j \in 1 .. n}
        BY <2>8, <2>13
      <4> QED
        BY <4>1, <4>2
    <3>2. ASSUME NEW i \in 1 .. n + 1, NEW x \in Ids(accesses), NEW y \in Remaining(i)'
          PROVE  x < y
      BY <2>8, <2>12, <2>13
    <3>3. ASSUME NEW i \in 1 .. n + 1, NEW j \in 1 .. i - 1, NEW x \in Remaining(i)',
                 NEW y \in Remaining(j)'
          PROVE  x < y
      <4>1. j \in 1 .. n /\ j < i
        <5>1. n \in Nat
          BY <1>2
        <5> QED
          BY <5>1
      <4>2. CASE i = n + 1 /\ j = n
        BY <2>11, <4>2
      <4>3. CASE i = n + 1 /\ j # n
        <5>1. j < n /\ x \in Remaining(n) /\ y \in Remaining(j)
          BY <1>2, <2>13, <4>1, <4>3
        <5> QED
          BY <2>12, <2>13, <4>1, <5>1
      <4>4. CASE i \in 1 .. n
        <5>1. x \in Remaining(i) /\ y \in Remaining(j)
          BY <2>13, <4>1, <4>4
        <5> QED
          BY <2>12, <4>1, <4>4, <5>1
      <4> QED
        BY <2>8, <4>2, <4>3, <4>4
    <3>4. Ids(accesses)' = Ids(accesses) /\ UNCHANGED <<ArraysIn, todo>>
      BY <2>3, <2>6 DEF Ids
    <3>5. Ids(accesses) \cup UNION {Remaining(i)' : i \in 1 .. Len(frames')}
            = ArraysIn[Head(todo).expr]
      BY <2>4, <2>12, <3>1
    <3> QED
      BY <2>4, <3>2, <3>3, <3>4, <3>5 DEF MakingOK
  <2> QED
    BY <1>1, <1>2, <2>3, <2>9, <2>10, <2>14, ActivationsWork
<1> QED
  BY <1>7, <1>8

LEMMA MakeDataAccessWork ==
  ASSUME IInv, IInv', Tree, WorkOK, MakeDataAccess
  PROVE  WorkOK'
<1>0. PICK n : n = Len(frames)
  OBVIOUS
<1>1. PICK e : e = Top.expr
  OBVIOUS
<1>2. PICK t : t = Head(todo)
  OBVIOUS
<1> DEFINE a == DataAccess(Top.base, Top.expr, Top.isRead, Top.indexes)
<1>3. /\ Making /\ Top.at = 0 /\ Top.info = << >> /\ accesses' = Append(accesses, a)
      /\ status = "making"
      /\ UNCHANGED <<tree, todo, results, unprinted>> /\ UNCHANGED ast
  BY DEF MakeDataAccess, Making, tree
<1>4. /\ n \in Nat \ {0} /\ frames \in Seq(Activations) /\ Top \in Activations /\ todo # << >>
      /\ Below \in Seq(Activations) /\ Len(Below) = n - 1
      /\ \A m \in 1 .. n - 1 : Below[m] = frames[m]
      /\ Top = frames[n] /\ n \in 1 .. n /\ 1 \in 1 .. n
  BY <1>0, <1>3, AtFrame DEF Top
<1>5. SoFar(Top)
  BY <1>0, <1>4 DEF WorkOK, PathsOK
<1>6. e \in Nodes /\ Top.indexes \in Seq(Nodes) /\ Len(Top.indexes) \in Nat
  BY <1>1, <1>4, ActivationTyped
<1>7. /\ Top.indexes = Subscripts[e] /\ Top.base = Base[e] /\ IsArray(e)
      /\ Len(Top.indexes) <= MaxArrayDim
  <2>1. /\ IsArray(e) /\ Top.base = Base[e] /\ Len(Top.info) = 0
        /\ Len(Subscripts[e]) = Len(Top.indexes) + Len(Top.info)
        /\ \A j \in 1 .. Len(Top.indexes) : Top.indexes[j] = Subscripts[e][j]
        /\ Len(Top.indexes) + Len(Top.info) <= MaxArrayDim
    BY <1>1, <1>3, <1>5 DEF SoFar, Ahead
  <2>2. Len(Top.indexes) + Len(Top.info) = Len(Top.indexes)
    BY <1>6, <2>1
  <2>3. Subscripts[e] \in Seq(Nodes)
    BY <1>6, SubscriptsTyped
  <2>4. Top.indexes = Subscripts[e]
    BY <1>6, <2>1, <2>2, <2>3, SeqEqual
  <2> QED
    BY <2>1, <2>2, <2>4
<1>8. a = AccessAt(e, Top.isRead) /\ a.sourceId = e /\ a.indexes = Subscripts[e]
  BY <1>1, <1>7 DEF DataAccess, AccessAt
<1> HIDE DEF a
<1>9. /\ Len(accesses) \in Nat /\ Len(accesses') = Len(accesses) + 1
      /\ accesses'[Len(accesses) + 1] = a
      /\ \A i \in 1 .. Len(accesses) : accesses'[i] = accesses[i]
  <2> DEFINE S == DataAccessSet(Nodes) \cup {a}
  <2>1. accesses \in Seq(DataAccessSet(Nodes))
    BY DEF IInv, TypeOK
  <2>2. accesses \in Seq(S) /\ a \in S
    BY <2>1, SeqMonotonic
  <2> HIDE DEF S
  <2> QED
    BY <1>3, <2>2, AppendProperties
<1>10. /\ UNCHANGED <<Base, Subscripts, ArraysIn, ComponentsOf>>
       /\ \A m : Arrays(m)' = Arrays(m)
       /\ \A m, isRead : AccessAt(m, isRead)' = AccessAt(m, isRead)
       /\ \A m, j : ArraysFrom(m, j)' = ArraysFrom(m, j)
  BY <1>3, OfTreeStays, TreeStays
<1>11. Ids(accesses') = Ids(accesses) \cup {e}
  <2> PICK c : c = Len(accesses)
    OBVIOUS
  <2>1. \A i : i \in 1 .. c + 1 <=> i \in 1 .. c \/ i = c + 1
    BY <1>9
  <2>2. Ids(accesses) = {accesses[i].sourceId : i \in 1 .. c}
    BY DEF Ids
  <2>3. Ids(accesses') = {accesses'[i].sourceId : i \in 1 .. c + 1}
    BY <1>9 DEF Ids
  <2>4. /\ accesses'[c + 1].sourceId = e
        /\ \A i \in 1 .. c : accesses'[i].sourceId = accesses[i].sourceId
    BY <1>8, <1>9
  <2> QED
    BY <2>1, <2>2, <2>3, <2>4
<1>12. /\ Ids(accesses) \cup UNION {Remaining(i) : i \in 1 .. n} = ArraysIn[t.expr]
       /\ \A i \in 1 .. n : \A x \in Ids(accesses), y \in Remaining(i) : x < y
       /\ \A i, j \in 1 .. n : j < i => \A x \in Remaining(i), y \in Remaining(j) : x < y
  <2>1. \A i, j \in 1 .. n : j < i => j \in 1 .. i - 1
    BY <1>4
  <2> QED
    BY <1>0, <1>2, <1>3, <2>1 DEF WorkOK, MakingOK
<1>13. Remaining(n) = {e}
  <2>1. Remaining(n) = ArraysFrom(e, Len(Subscripts[e]) + 1)
    BY <1>0, <1>1, <1>4, <1>7 DEF Remaining
  <2>2. \A j \in Len(Subscripts[e]) + 1 .. Len(Subscripts[e]) : FALSE
    BY <1>6, <1>7
  <2> QED
    BY <2>1, <2>2 DEF ArraysFrom
<1>14. /\ t.do = "access" /\ frames[1].expr = t.expr
       /\ \A i \in 1 .. n : frames[i].isRead = (i = 1 => t.end # "write")
  BY <1>0, <1>2, <1>3 DEF WorkOK, PathsOK
<1>15. /\ t \in Tasks /\ t.expr \in Nodes
  BY <1>2, <1>4, AtTask
<1>16. IsArray(t.expr) /\ t.expr \in Remaining(1)
  <2>1. SoFar(frames[1])
    BY <1>0, <1>4 DEF WorkOK, PathsOK
  <2>2. IsArray(t.expr)
    BY <1>14, <2>1 DEF SoFar
  <2> QED
    BY <1>14, <2>2 DEF Remaining, ArraysFrom
<1>17. a = AccessAt(e, t.end = "write" => e # t.expr)
  <2>1. CASE n = 1
    <3>1. e = t.expr /\ Top.isRead = (t.end # "write")
      BY <1>1, <1>4, <1>14, <2>1
    <3>2. Top.isRead = (t.end = "write" => e # t.expr)
      BY <3>1
    <3> QED
      BY <1>8, <3>2
  <2>2. CASE n # 1
    <3>1. Top.isRead = TRUE
      <4>1. Top.isRead = (n = 1 => t.end # "write")
        BY <1>4, <1>14
      <4> QED
        BY <2>2, <4>1
    <3>2. e # t.expr
      <4>1. 1 \in 1 .. n /\ 1 < n
        BY <1>4, <2>2
      <4>2. \A y \in Remaining(1) : e < y
        BY <1>4, <1>12, <1>13, <4>1
      <4> QED
        BY <1>6, <1>16, <4>2 DEF Nodes
    <3>3. (t.end = "write" => e # t.expr) = TRUE
      BY <3>2
    <3> QED
      BY <1>8, <3>1, <3>3
  <2> QED
    BY <2>1, <2>2
<1>18. e \in ArraysIn[t.expr]
  BY <1>4, <1>12, <1>13
<1>19. Arrays(t.expr) = ArraysIn[t.expr]
  BY <1>15, <1>16, OfArray
<1>20. /\ InOrder(accesses) /\ Ids(accesses) \subseteq ComponentsOf[t.expr] \cup Arrays(t.expr)
       /\ \A i \in 1 .. Len(accesses) :
            /\ accesses[i] = AccessAt(accesses[i].sourceId,
                                      t.end = "write" => accesses[i].sourceId # t.expr)
            /\ Len(accesses[i].indexes) <= MaxArrayDim
  BY <1>2, <1>3 DEF WorkOK, AccessesOK
<1>21. InOrder(accesses')
  <2> PICK c : c = Len(accesses)
    OBVIOUS
  <2>1. ASSUME NEW i \in 1 .. c + 1, NEW j \in 1 .. c + 1, i < j
        PROVE  accesses'[i].sourceId < accesses'[j].sourceId
    <3>1. i \in 1 .. c /\ (j \in 1 .. c \/ j = c + 1)
      BY <1>9, <2>1
    <3>2. CASE j \in 1 .. c
      BY <1>9, <1>20, <2>1, <3>1, <3>2 DEF InOrder
    <3>3. CASE j = c + 1
      <4>1. accesses'[j].sourceId = e /\ accesses'[i] = accesses[i]
        BY <1>8, <1>9, <3>1, <3>3
      <4>2. accesses[i].sourceId \in Ids(accesses)
        BY <3>1 DEF Ids
      <4> QED
        BY <1>4, <1>12, <1>13, <4>1, <4>2
    <3> QED
      BY <3>1, <3>2, <3>3
  <2> QED
    BY <1>9, <2>1 DEF InOrder
<1>22. \A i \in 1 .. Len(accesses') :
         /\ accesses'[i] = AccessAt(accesses'[i].sourceId,
                                    t.end = "write" => accesses'[i].sourceId # t.expr)
         /\ Len(accesses'[i].indexes) <= MaxArrayDim
  <2>1. ASSUME NEW i \in 1 .. Len(accesses')
        PROVE  /\ accesses'[i] = AccessAt(accesses'[i].sourceId,
                                    t.end = "write" => accesses'[i].sourceId # t.expr)
               /\ Len(accesses'[i].indexes) <= MaxArrayDim
    <3>1. CASE i = Len(accesses) + 1
      BY <1>7, <1>8, <1>9, <1>17, <3>1
    <3>2. CASE i # Len(accesses) + 1
      <4>1. i \in 1 .. Len(accesses)
        BY <1>9, <3>2
      <4> QED
        BY <1>9, <1>20, <4>1
    <3> QED
      BY <3>1, <3>2
  <2> QED
    BY <2>1
<1>23. Ids(accesses') \subseteq ComponentsOf[t.expr] \cup Arrays(t.expr)
  BY <1>11, <1>18, <1>19, <1>20
<1>24. /\ Ids(accesses)' = Ids(accesses') /\ InOrder(accesses)' = InOrder(accesses')
       /\ Head(todo)' = t
  BY <1>2, <1>3 DEF Ids, InOrder
<1>25. ASSUME status' = "made" => Arrays(t.expr) \subseteq Ids(accesses')
       PROVE  AccessesOK'
  BY <1>10, <1>21, <1>22, <1>23, <1>24, <1>25, <1>3 DEF AccessesOK, MakeDataAccess
<1>26. CASE n = 1
  <2>1. frames' = << >> /\ status' = "made"
    BY <1>4, <1>26 DEF MakeDataAccess
  <2>2. Ids(accesses') = ArraysIn[t.expr]
    <3>1. \A i : i \in 1 .. n <=> i = 1
      BY <1>26
    <3>2. UNION {Remaining(i) : i \in 1 .. n} = {e}
      BY <1>13, <1>26, <3>1
    <3> QED
      BY <1>11, <1>12, <3>2
  <2>3. AccessesOK'
    BY <1>19, <1>25, <2>2
  <2>4. PathsOK' /\ MakingOK'
    BY <1>2, <1>3, <1>14, <2>1 DEF PathsOK, MakingOK
  <2>5. {m \in Ids(accesses') : IsSpace(Base[m])} = Searched(t.expr)
    BY <1>15, <1>16, <2>2, OfArray
  <2> QED
    BY <1>2, <1>3, <1>4, <2>1, <2>3, <2>4, <2>5, ActivationsWork
<1>27. CASE n # 1
  <2> PICK k : k = n - 1
    OBVIOUS
  <2> DEFINE f == Below[k]
             g == Taken(f)
  <2>1. /\ k \in Nat \ {0} /\ k \in 1 .. k /\ k \in 1 .. n /\ k < n /\ k + 1 = n /\ 1 \in 1 .. k
        /\ \A i \in 1 .. k : i \in 1 .. n /\ i # n
        /\ \A i \in 1 .. n : i \in 1 .. k \/ i = n
    BY <1>4, <1>27
  <2>2. /\ frames' = [Below EXCEPT ![k] = g] /\ status' = "making"
    BY <1>3, <1>4, <1>27 DEF MakeDataAccess
  <2>3. f \in Activations /\ f = frames[k]
    BY <1>4, <2>1
  <2>4. f.at = 0 /\ f.info # << >>
    <3>1. Calls(frames[k], frames[k + 1])
      BY <1>0, <2>1 DEF IInv, FramesOK
    <3> QED
      BY <2>3, <3>1 DEF Calls
  <2>5. SoFar(f)
    BY <1>0, <2>1, <2>3 DEF WorkOK, PathsOK
  <2>6. /\ SoFar(g) /\ g.expr = f.expr /\ g.isRead = f.isRead
        /\ Len(g.indexes) = Len(f.indexes) + 1
    BY <2>3, <2>4, <2>5, NextIndex
  <2> HIDE DEF f, g
  <2>7. /\ Len(frames') = k /\ frames'[k] = g
        /\ \A m \in 1 .. k : m # k => frames'[m] = frames[m]
    BY <1>4, <2>1, <2>2
  <2>8. ASSUME NEW i \in 1 .. k
        PROVE  /\ frames'[i].expr = frames[i].expr /\ frames'[i].isRead = frames[i].isRead
               /\ SoFar(frames[i])'
               /\ Remaining(i)' = Remaining(i)
    <3>1. CASE i = k
      <4>1. frames'[i] = g /\ frames[i] = f
        BY <2>3, <2>7, <3>1
      <4>2. SoFar(frames[i])'
        BY <1>3, <2>6, <4>1, SoFarStays
      <4>3. Remaining(i) = ArraysFrom(f.expr, Len(f.indexes) + 2)
        BY <1>0, <2>1, <3>1, <4>1 DEF Remaining
      <4>4. Remaining(i)' = ArraysFrom(f.expr, Len(f.indexes) + 1 + 1)
        BY <1>10, <2>6, <2>7, <3>1, <4>1 DEF Remaining
      <4>5. Len(f.indexes) + 2 = Len(f.indexes) + 1 + 1
        BY <2>3, ActivationTyped
      <4> QED
        BY <2>6, <4>1, <4>2, <4>3, <4>4, <4>5
    <3>2. CASE i # k
      <4>1. frames'[i] = frames[i]
        BY <2>7, <3>2
      <4>2. SoFar(frames[i])
        BY <1>0, <2>1 DEF WorkOK, PathsOK
      <4>3. SoFar(frames[i])'
        BY <1>3, <4>1, <4>2, SoFarStays
      <4>4. Remaining(i)' = Remaining(i)
        BY <1>0, <1>10, <2>1, <2>7, <3>2, <4>1 DEF Remaining
      <4> QED
        BY <4>1, <4>3, <4>4
    <3> QED
      BY <3>1, <3>2
  <2>9. PathsOK'
    BY <1>2, <1>3, <1>14, <2>1, <2>2, <2>7, <2>8 DEF PathsOK
  <2>10. AccessesOK'
    BY <1>25, <2>2
  <2>11. MakingOK'
    <3>1. (UNION {Remaining(i)' : i \in 1 .. k}) \cup {e}
            = UNION {Remaining(i) : i \in 1 .. n}
      <4>1. ASSUME NEW i \in 1 .. n
            PROVE  Remaining(i) \subseteq (UNION {Remaining(j)' : j \in 1 .. k}) \cup {e}
        BY <1>13, <2>1, <2>8
      <4>2. \A i \in 1 .. k : Remaining(i)' \subseteq UNION {Remaining(j) : j \in 1 .. n}
        BY <2>1, <2>8
      <4>3. {e} \subseteq UNION {Remaining(j) : j \in 1 .. n}
        BY <1>4, <1>13
      <4> QED
        BY <4>1, <4>2, <4>3
    <3>2. Ids(accesses') \cup UNION {Remaining(i)' : i \in 1 .. Len(frames')} = ArraysIn[t.expr]
      BY <1>11, <1>12, <2>7, <3>1
    <3>3. ASSUME NEW i \in 1 .. k, NEW x \in Ids(accesses'), NEW y \in Remaining(i)'
          PROVE  x < y
      <4>1. y \in Remaining(i) /\ i \in 1 .. n /\ i < n
        BY <1>4, <2>1, <2>8
      <4>2. CASE x = e
        BY <1>4, <1>12, <1>13, <4>1, <4>2
      <4>3. CASE x # e
        BY <1>11, <1>12, <4>1, <4>3
      <4> QED
        BY <4>2, <4>3
    <3>4. ASSUME NEW i \in 1 .. k, NEW j \in 1 .. i - 1, NEW x \in Remaining(i)',
                 NEW y \in Remaining(j)'
          PROVE  x < y
      <4>1. j \in 1 .. k /\ j < i
        BY <2>1
      <4> QED
        BY <1>12, <2>1, <2>8, <4>1
    <3> QED
      BY <1>10, <1>24, <2>7, <3>2, <3>3, <3>4 DEF MakingOK
  <2> QED
    BY <1>3, <1>4, <2>2, <2>9, <2>10, <2>11, ActivationsWork
<1> QED
  BY <1>26, <1>27

-------------------------------------------------------------------------------
(* What the accesses are for. *)
LEMMA RecordWork ==
  ASSUME IInv, IInv', Tree, WorkOK, Record
  PROVE  WorkOK'
<1>0. PICK t : t = Head(todo)
  OBVIOUS
<1>1. PICK n : n = Len(stmtDataAccesses)
  OBVIOUS
<1> DEFINE a == Head(accesses)
           m0 == a.sourceId
<1>2. /\ status = "made" /\ status' = "made" /\ t.end \in {"read", "write"}
      /\ accesses # << >> /\ accesses' = Tail(accesses)
      /\ stmtDataAccesses' = IF a.name \in Iterators THEN stmtDataAccesses
                                                     ELSE Append(stmtDataAccesses, a)
      /\ UNCHANGED <<ast, roots, use, todo, frames, described, newInvariants, printed,
                     unprinted>>
  BY <1>0 DEF Record, Made, tree
<1>3. /\ todo # << >> /\ frames = << >>
  BY <1>2 DEF IInv, StageOK
<1>4. t = todo[1] /\ 1 \in 1 .. Len(todo) /\ t.expr \in Nodes
  BY <1>0, <1>3, FirstTask
<1>5. t.do = "access" /\ Recorded(todo[1])
  BY <1>0, <1>2, <1>4 DEF WorkOK, PathsOK, Recorded
<1>6. /\ accesses \in Seq(DataAccessSet(Nodes)) /\ Len(accesses) \in Nat \ {0}
      /\ a = accesses[1] /\ a \in DataAccessSet(Nodes) /\ m0 \in Nodes /\ m0 # 0
      /\ Len(accesses') = Len(accesses) - 1
      /\ \A i \in 1 .. Len(accesses') : accesses'[i] = accesses[i + 1]
                                        /\ i + 1 \in 1 .. Len(accesses)
  <2>1. accesses \in Seq(DataAccessSet(Nodes))
    BY DEF IInv, TypeOK
  <2>2. /\ a \in DataAccessSet(Nodes) /\ Len(accesses') = Len(accesses) - 1
        /\ \A i \in 1 .. Len(accesses') : accesses'[i] = accesses[i + 1]
    BY <1>2, <2>1, HeadTailProperties
  <2>3. Len(accesses) \in Nat \ {0} /\ a = accesses[1]
    BY <1>2, <2>1
  <2>4. \A i \in 1 .. Len(accesses') : i + 1 \in 1 .. Len(accesses)
    BY <2>2, <2>3
  <2>5. m0 \in Nodes /\ 0 \notin Nodes
    BY <2>2 DEF DataAccessSet, Nodes
  <2> QED
    BY <2>1, <2>2, <2>3, <2>4, <2>5
<1>7. /\ \A i, j \in 1 .. Len(accesses) :
           i < j => accesses[i].sourceId < accesses[j].sourceId
      /\ \A i \in 1 .. Len(accesses) :
           /\ accesses[i] = AccessAt(accesses[i].sourceId,
                                     t.end = "write" => accesses[i].sourceId # t.expr)
           /\ Len(accesses[i].indexes) <= MaxArrayDim
      /\ Ids(accesses) \subseteq ComponentsOf[t.expr] \cup Arrays(t.expr)
  BY <1>0, <1>2 DEF WorkOK, AccessesOK, InOrder
<1>8. 1 \in 1 .. Len(accesses)
  BY <1>6
<1>9. /\ Ids(accesses) = Ids(accesses') \cup {m0}
      /\ \A x \in Ids(accesses') : m0 < x
  <2>1. \A i \in 1 .. Len(accesses) : i = 1 \/ i - 1 \in 1 .. Len(accesses')
    BY <1>6
  <2>2. \A i \in 1 .. Len(accesses) : i - 1 \in 1 .. Len(accesses')
                                        => accesses'[i - 1] = accesses[i]
    <3>1. \A i \in 1 .. Len(accesses) : (i - 1) + 1 = i
      BY <1>6
    <3> QED
      BY <1>6, <3>1
  <2>3. Ids(accesses) \subseteq Ids(accesses') \cup {m0}
    BY <1>6, <2>1, <2>2 DEF Ids
  <2>4. Ids(accesses') \subseteq Ids(accesses) /\ m0 \in Ids(accesses)
    BY <1>6, <1>8 DEF Ids
  <2>5. ASSUME NEW i \in 1 .. Len(accesses')
        PROVE  m0 < accesses'[i].sourceId
    <3>1. i + 1 \in 1 .. Len(accesses) /\ 1 < i + 1
      BY <1>6
    <3> QED
      BY <1>6, <1>7, <1>8, <3>1
  <2> QED
    BY <2>3, <2>4, <2>5 DEF Ids
<1>10. a = AccessAt(m0, t.end = "write" => m0 # t.expr) /\ Len(a.indexes) <= MaxArrayDim
  BY <1>6, <1>7, <1>8
<1>11. a.name = ast[Base[m0]].name
  BY <1>10 DEF AccessAt
<1> HIDE DEF a, m0
<1>12. m0 \in ComponentsOf[t.expr] \cup Arrays(t.expr)
  BY <1>7, <1>9
<1>13. IsSpace(Base[m0]) <=> a.name \notin Iterators
  <2>1. IsArray(m0) \/ IsKind(m0, "ref")
    <3>1. CASE m0 \in ComponentsOf[t.expr]
      BY <1>4, <3>1, ComponentsTyped
    <3>2. CASE m0 \in Arrays(t.expr)
      <4>1. PICK c \in ComponentsOf[t.expr] : m0 \in ArraysIn[c]
        BY <3>2 DEF Arrays
      <4> QED
        BY <1>4, <4>1, ComponentsTyped, ArraysTyped
    <3> QED
      BY <1>12, <3>1, <3>2
  <2>2. IsKind(Base[m0], "ref")
    BY <1>6, <2>1, BaseTyped
  <2> QED
    BY <1>11, <2>2 DEF IsSpace
<1>14. /\ UNCHANGED <<Base, Written, Wanted, DeclaredAccess, ComponentsOf, ArraysIn, Subscripts>>
       /\ \A m : Arrays(m)' = Arrays(m) /\ Searched(m)' = Searched(m)
       /\ \A m : IsSpace(m)' = IsSpace(m)
       /\ \A m, isRead : AccessAt(m, isRead)' = AccessAt(m, isRead)
       /\ \A u : DueOf(u)' = DueOf(u) /\ PrintOf(u)' = PrintOf(u)
  BY <1>2, OfTreeStays, TreeStays
<1>15. /\ Due(1) = {m \in Ids(accesses) : IsSpace(Base[m])}
       /\ Due(1)' = {m \in Ids(accesses') : IsSpace(Base[m])}
       /\ \A i : i # 1 => Due(i)' = Due(i)
  <2>1. Recorded(todo[1])'
    BY <1>2, <1>5 DEF Recorded
  <2>2. Due(1) = {m \in Ids(accesses) : IsSpace(Base[m])}
    BY <1>2, <1>5 DEF Due
  <2>3. Due(1)' = {m \in Ids(accesses') : IsSpace(Base[m])}
    <3>1. Ids(accesses)' = Ids(accesses')
      BY DEF Ids
    <3> QED
      BY <1>2, <1>14, <2>1, <3>1 DEF Due
  <2>4. \A i : i # 1 => Due(i)' = Due(i)
    BY <1>2, <1>14 DEF Due
  <2> QED
    BY <2>2, <2>3, <2>4
<1>16. \A i : ToPrint(i)' = ToPrint(i)
  BY <1>2, <1>14 DEF ToPrint
<1>17. PathsOK' /\ MakingOK' /\ ExitOK'
  BY <1>0, <1>2, <1>3, <1>5 DEF PathsOK, MakingOK, ExitOK
<1>18. InvariantsOK'
  BY <1>2, <1>14 DEF WorkOK, InvariantsOK
<1>19. AccessesOK'
  <2>1. \A i, j \in 1 .. Len(accesses') :
          i < j => accesses'[i].sourceId < accesses'[j].sourceId
    <3>1. \A i, j \in 1 .. Len(accesses') : i < j => i + 1 < j + 1
      BY <1>6
    <3> QED
      BY <1>6, <1>7, <3>1
  <2>2. \A i \in 1 .. Len(accesses') :
          /\ accesses'[i] = AccessAt(accesses'[i].sourceId,
                                     t.end = "write" => accesses'[i].sourceId # t.expr)
          /\ Len(accesses'[i].indexes) <= MaxArrayDim
    BY <1>6, <1>7
  <2>3. Ids(accesses') \subseteq ComponentsOf[t.expr] \cup Arrays(t.expr)
    BY <1>7, <1>9
  <2>4. /\ Ids(accesses)' = Ids(accesses') /\ Head(todo)' = t
        /\ InOrder(accesses)'
    BY <1>0, <1>2, <2>1 DEF Ids, InOrder
  <2> QED
    BY <1>2, <1>14, <2>2, <2>3, <2>4 DEF AccessesOK
<1>20. CASE a.name \in Iterators
  <2>1. stmtDataAccesses' = stmtDataAccesses
    BY <1>2, <1>20
  <2>2. Due(1)' = Due(1)
    BY <1>9, <1>13, <1>15, <1>20
  <2>3. \A i \in 1 .. Len(todo) : Due(i)' = Due(i)
    BY <1>15, <2>2
  <2>4. RecordedOK'
    BY <1>2, <2>1, <2>3, RecordedStays
  <2>5. PrintedOK'
    BY <1>2, <1>16, <2>1, PrintedStays
  <2>6. TasksForUse'
    <3>1. UNCHANGED Ids(stmtDataAccesses)
      BY <2>1 DEF Ids
    <3> QED
      BY <1>2, <1>14, <3>1 DEF WorkOK, TasksForUse
  <2> QED
    BY <1>2, <1>17, <1>18, <1>19, <2>4, <2>5, <2>6 DEF WorkOK
<1>21. CASE a.name \notin Iterators
  <2>1. stmtDataAccesses' = Append(stmtDataAccesses, a)
    BY <1>2, <1>21
  <2>2. /\ n \in Nat /\ Len(stmtDataAccesses') = n + 1
        /\ stmtDataAccesses'[n + 1] = a
        /\ \A i \in 1 .. n : stmtDataAccesses'[i] = stmtDataAccesses[i]
        /\ described \in 0 .. n
    <3>1. stmtDataAccesses \in Seq(DataAccessSet(Nodes \cup {0})) /\ described \in 0 .. n
      BY <1>1, ResultsTyped
    <3>2. a \in DataAccessSet(Nodes \cup {0})
      BY <1>6 DEF DataAccessSet
    <3> QED
      BY <1>1, <2>1, <3>1, <3>2, AppendProperties
  <2>3. m0 \in Due(1) /\ Due(1) = Due(1)' \cup {m0} /\ \A y \in Due(1)' : m0 < y
    BY <1>9, <1>13, <1>15, <1>21
  <2>4. m0 = a.sourceId
    BY DEF m0
  <2>5. Ids(stmtDataAccesses)' = Ids(stmtDataAccesses) \cup {m0}
    <3>1. \A i : i \in 1 .. n + 1 <=> i \in 1 .. n \/ i = n + 1
      BY <2>2
    <3>2. Ids(stmtDataAccesses) = {stmtDataAccesses[i].sourceId : i \in 1 .. n}
      BY <1>1 DEF Ids
    <3>3. Ids(stmtDataAccesses)' = {stmtDataAccesses'[i].sourceId : i \in 1 .. n + 1}
      BY <2>2 DEF Ids
    <3> QED
      BY <2>2, <2>4, <3>1, <3>2, <3>3
  <2>6. a = AccessAt(m0, m0 # Written)
    <3>1. CASE t.end = "write"
      <4>1. Written = t.expr
        BY <1>4, <1>5, <3>1 DEF WorkOK, TasksForUse, Written
      <4>2. (t.end = "write" => m0 # t.expr) = (m0 # Written)
        BY <3>1, <4>1
      <4> QED
        BY <1>10, <4>2
    <3>2. CASE t.end = "read"
      <4>1. Written \notin Searched(t.expr)
        BY <1>4, <3>2 DEF WorkOK, TasksForUse
      <4>2. m0 \in Searched(t.expr)
        BY <1>12, <1>13, <1>21 DEF Searched
      <4>3. (t.end = "write" => m0 # t.expr) = (m0 # Written)
        BY <3>2, <4>1, <4>2
      <4> QED
        BY <1>10, <4>3
    <3> QED
      BY <1>2, <3>1, <3>2
  <2>7. 0 \notin Ids(stmtDataAccesses) /\ 0 \notin Ids(stmtDataAccesses)'
    <3>1. 0 \notin Ids(stmtDataAccesses)
      BY <1>2, <1>4 DEF WorkOK, TasksForUse
    <3> QED
      BY <1>6, <2>5, <3>1
  <2>8. \A x \in Ids(stmtDataAccesses) : x < m0
    BY <1>4, <2>3 DEF WorkOK, RecordedOK
  <2>9. EntriesOK'
    <3>1. ASSUME NEW i \in 1 .. n + 1
          PROVE  LET b == stmtDataAccesses'[i] IN
                   /\ b.sourceId # 0
                   /\ b = AccessAt(b.sourceId, b.sourceId # Written)
                   /\ \A j \in 1 .. i - 1 : stmtDataAccesses'[j].sourceId < b.sourceId
                   /\ Len(b.indexes) <= MaxArrayDim
      <4>1. \A j \in 1 .. i - 1 : j \in 1 .. n
        BY <2>2
      <4>2. CASE i = n + 1
        <5>1. \A j \in 1 .. n : stmtDataAccesses[j].sourceId < m0
          BY <1>1, <2>8 DEF Ids
        <5>2. \A j \in 1 .. i - 1 : stmtDataAccesses'[j].sourceId < m0
          BY <2>2, <4>1, <5>1
        <5> QED
          BY <1>6, <1>10, <2>2, <2>4, <2>6, <4>2, <5>2
      <4>3. CASE i # n + 1
        <5>1. i \in 1 .. n /\ stmtDataAccesses'[i] = stmtDataAccesses[i]
              /\ \A j \in 1 .. i - 1 : stmtDataAccesses'[j] = stmtDataAccesses[j]
          BY <2>2, <4>1, <4>3
        <5>2. stmtDataAccesses[i].sourceId # 0
          BY <1>1, <2>7, <5>1 DEF Ids
        <5>3. LET b == stmtDataAccesses[i] IN
                /\ b = AccessAt(b.sourceId, b.sourceId # Written)
                /\ \A j \in 1 .. i - 1 : stmtDataAccesses[j].sourceId < b.sourceId
                /\ Len(b.indexes) <= MaxArrayDim
          BY <1>1, <5>1, <5>2 DEF WorkOK, RecordedOK, EntriesOK
        <5> QED
          BY <5>1, <5>2, <5>3
      <4> QED
        BY <4>2, <4>3
    <3> QED
      BY <1>14, <2>2, <3>1 DEF EntriesOK
  <2>10. RecordedOK'
    <3>1. UNION {Due(i) : i \in 1 .. Len(todo)} =
            (UNION {Due(i)' : i \in 1 .. Len(todo')}) \cup {m0}
      <4>1. ASSUME NEW i \in 1 .. Len(todo)
            PROVE  /\ Due(i) \subseteq (UNION {Due(j)' : j \in 1 .. Len(todo')}) \cup {m0}
                   /\ Due(i)' \subseteq UNION {Due(j) : j \in 1 .. Len(todo)}
        <5>1. Due(i)' \subseteq Due(i) /\ Due(i) \subseteq Due(i)' \cup {m0}
          BY <1>15, <2>3
        <5> QED
          BY <1>2, <5>1
      <4>2. m0 \in UNION {Due(j) : j \in 1 .. Len(todo)}
        BY <1>4, <2>3
      <4> QED
        BY <1>2, <4>1, <4>2
    <3>2. (Ids(stmtDataAccesses)' \ {0}) \cup UNION {Due(i)' : i \in 1 .. Len(todo')} = Wanted'
      <4>1. (Ids(stmtDataAccesses) \ {0}) \cup UNION {Due(i) : i \in 1 .. Len(todo)} = Wanted
        BY DEF WorkOK, RecordedOK
      <4> QED
        BY <1>6, <1>14, <2>5, <3>1, <4>1
    <3>3. ASSUME NEW i \in 1 .. Len(todo), NEW j \in 1 .. Len(todo), i < j,
                 NEW x \in Due(i)', NEW y \in Due(j)'
          PROVE  x < y
      <4>1. x \in Due(i) /\ y \in Due(j)
        BY <1>15, <2>3
      <4> QED
        BY <3>3, <4>1 DEF WorkOK, RecordedOK
    <3>4. ASSUME NEW i \in 1 .. Len(todo), NEW x \in Ids(stmtDataAccesses)', NEW y \in Due(i)'
          PROVE  x < y
      <4>1. CASE x \in Ids(stmtDataAccesses)
        <5>1. y \in Due(i)
          BY <1>15, <2>3
        <5> QED
          BY <4>1, <5>1 DEF WorkOK, RecordedOK
      <4>2. CASE x = m0
        <5>1. CASE i = 1
          BY <2>3, <4>2, <5>1
        <5>2. CASE i # 1
          <6>1. y \in Due(i) /\ 1 < i /\ m0 \in Due(1)
            BY <1>4, <1>15, <2>3, <5>2
          <6> QED
            BY <1>4, <4>2, <6>1 DEF WorkOK, RecordedOK
        <5> QED
          BY <5>1, <5>2
      <4> QED
        BY <2>5, <4>1, <4>2
    <3>5. DeclaredOK'
      BY <1>2, <2>7 DEF WorkOK, RecordedOK, DeclaredOK, IsSpace, IsKind
    <3>6. /\ \A i, j \in 1 .. Len(todo') : i < j => \A x \in Due(i)', y \in Due(j)' : x < y
          /\ \A i \in 1 .. Len(todo') : \A x \in Ids(stmtDataAccesses)', y \in Due(i)' : x < y
      BY <1>2, <3>3, <3>4
    <3> QED
      BY <2>9, <3>2, <3>5, <3>6, Zenon DEF RecordedOK
  <2>11. PrintedOK'
    <3>1. Texts' = Texts
      <4>1. \A i \in 1 .. described : stmtDataAccesses'[i] = stmtDataAccesses[i]
        BY <2>2
      <4> QED
        BY <1>2, <4>1 DEF Texts
    <3>2. UNION {ToPrint(i)' : i \in 1 .. Len(todo')} = UNION {ToPrint(i) : i \in 1 .. Len(todo)}
      BY <1>2, <1>16
    <3>3. UNION {ArraysIn[unprinted[i]] : i \in 1 .. Len(unprinted)}'
            = UNION {ArraysIn[unprinted[i]] : i \in 1 .. Len(unprinted)}
      BY <1>2, <1>14
    <3>4. UNION {Arrays(k) : k \in Texts}' = UNION {Arrays(k) : k \in Texts}
      BY <1>14, <3>1
    <3> QED
      BY <1>2, <3>2, <3>3, <3>4 DEF WorkOK, PrintedOK
  <2>12. TasksForUse'
    <3>1. TasksForUse
      BY DEF WorkOK
    <3> QED
      BY <1>2, <1>14, <2>7, <3>1 DEF TasksForUse
  <2> QED
    BY <1>2, <1>17, <1>18, <1>19, <2>10, <2>11, <2>12 DEF WorkOK
<1> QED
  BY <1>20, <1>21

LEMMA BeginToStringWork ==
  ASSUME IInv, IInv', Tree, WorkOK, BeginToString
  PROVE  WorkOK'
<1>0. PICK t : t = Head(todo)
  OBVIOUS
<1>1. PICK c : c = Len(accesses)
  OBVIOUS
<1>2. /\ status = "made" /\ status' = "printing" /\ t.end = "text"
      /\ unprinted' = << accesses[c].sourceId >>
      /\ UNCHANGED <<ast, roots, use, todo, frames, accesses>>
      /\ UNCHANGED <<stmtDataAccesses, described, newInvariants, printed>>
  BY <1>0, <1>1 DEF BeginToString, Made, tree, results
<1>3. /\ todo # << >> /\ frames = << >> /\ accesses # << >>
  BY <1>0, <1>2 DEF IInv, StageOK
<1>4. t = todo[1] /\ 1 \in 1 .. Len(todo) /\ t \in Tasks /\ t.expr \in Nodes
  BY <1>0, <1>3, FirstTask
<1>5. t.do = "access" /\ IsArray(t.expr)
  <2>1. t.do = "access"
    BY <1>0, <1>2 DEF WorkOK, PathsOK
  <2> QED
    BY <1>2, <1>4, <2>1 DEF Tasks
<1>6. c \in Nat /\ c \in 1 .. c
  <2>1. accesses \in Seq(DataAccessSet(Nodes))
    BY DEF IInv, TypeOK
  <2> QED
    BY <1>1, <1>3, <2>1
<1>7. accesses[c].sourceId = t.expr
  <2>1. /\ \A i, j \in 1 .. c : i < j => accesses[i].sourceId < accesses[j].sourceId
        /\ Ids(accesses) \subseteq ComponentsOf[t.expr] \cup Arrays(t.expr)
        /\ Arrays(t.expr) \subseteq Ids(accesses)
    BY <1>0, <1>1, <1>2 DEF WorkOK, AccessesOK, InOrder
  <2>2. Arrays(t.expr) = ArraysIn[t.expr] /\ t.expr \in ArraysIn[t.expr]
    BY <1>4, <1>5, OfArray
  <2>3. ComponentsOf[t.expr] = {t.expr}
    BY <1>4, <1>5, ComponentsAre
  <2>4. PICK i \in 1 .. c : accesses[i].sourceId = t.expr
    BY <1>1, <2>1, <2>2 DEF Ids
  <2>5. accesses[c].sourceId \in ArraysIn[t.expr]
    BY <1>1, <1>6, <2>1, <2>2, <2>3 DEF Ids
  <2>6. accesses[c].sourceId \in 1 .. t.expr
    BY <1>4, <2>5, ArraysTyped
  <2>7. CASE i = c
    BY <2>4, <2>7
  <2>8. CASE i # c
    <3>1. t.expr < accesses[c].sourceId
      BY <1>6, <2>1, <2>4, <2>8
    <3> QED
      BY <1>4, <2>6, <3>1 DEF Nodes
  <2> QED
    BY <2>7, <2>8
<1>8. /\ UNCHANGED <<Base, Written, ComponentsOf, ArraysIn, Subscripts>>
      /\ \A m : Arrays(m)' = Arrays(m) /\ Searched(m)' = Searched(m)
      /\ \A m, isRead : AccessAt(m, isRead)' = AccessAt(m, isRead)
      /\ \A u : DueOf(u)' = DueOf(u) /\ PrintOf(u)' = PrintOf(u)
  BY <1>2, OfTreeStays, TreeStays
<1>9. UNCHANGED <<Ids(stmtDataAccesses), Ids(accesses), InOrder(accesses)>>
  BY <1>2 DEF Ids, InOrder
<1>10. PathsOK' /\ MakingOK' /\ ExitOK'
  BY <1>0, <1>2, <1>3, <1>5 DEF PathsOK, MakingOK, ExitOK
<1>11. InvariantsOK'
  BY <1>2, <1>8 DEF WorkOK, InvariantsOK
<1>12. TasksForUse'
  BY <1>2, <1>8, <1>9 DEF WorkOK, TasksForUse
<1>13. AccessesOK'
  <2>1. AccessesOK
    BY DEF WorkOK
  <2> QED
    BY <1>2, <1>8, <1>9, <2>1 DEF AccessesOK
<1>14. RecordedOK'
  <2>1. ~Recorded(todo[1])
    BY <1>2, <1>4 DEF Recorded
  <2>2. \A i \in 1 .. Len(todo) : Due(i)' = Due(i)
    BY <1>2, <1>8, <2>1 DEF Due
  <2> QED
    BY <1>2, <2>2, RecordedStays
<1>15. PrintedOK'
  <2>1. unprinted = << >> /\ Len(unprinted) = 0
    BY <1>2 DEF WorkOK, PrintedOK
  <2>2. Len(unprinted') = 1 /\ unprinted'[1] = t.expr /\ \A i \in 1 .. 1 : i = 1
    BY <1>2, <1>7
  <2>3. UNION {ArraysIn[unprinted[i]] : i \in 1 .. Len(unprinted)}' = ArraysIn[t.expr]
    BY <1>8, <2>2
  <2>4. UNION {ArraysIn[unprinted[i]] : i \in 1 .. Len(unprinted)} = {}
    BY <2>1
  <2>5. /\ ToPrint(1) = ArraysIn[t.expr] /\ ToPrint(1)' = {}
        /\ \A i : i # 1 => ToPrint(i)' = ToPrint(i)
    <3>1. ToPrint(1) = Arrays(t.expr)
      BY <1>2, <1>4 DEF ToPrint, PrintOf
    <3>2. ToPrint(1)' = {}
      BY <1>2 DEF ToPrint
    <3>3. \A i : i # 1 => ToPrint(i)' = ToPrint(i)
      BY <1>2, <1>8 DEF ToPrint
    <3> QED
      BY <1>4, <1>5, <3>1, <3>2, <3>3, OfArray
  <2>6. (UNION {ToPrint(i)' : i \in 1 .. Len(todo')}) \cup ArraysIn[t.expr]
          = UNION {ToPrint(i) : i \in 1 .. Len(todo)}
    BY <1>2, <1>4, <2>5
  <2>7. Texts' = Texts
    BY <1>2 DEF Texts
  <2>8. UNION {Arrays(k) : k \in Texts}' = UNION {Arrays(k) : k \in Texts}
    BY <1>8, <2>7
  <2> QED
    BY <1>2, <2>3, <2>4, <2>6, <2>8 DEF WorkOK, PrintedOK
<1> QED
  BY <1>2, <1>10, <1>11, <1>12, <1>13, <1>14, <1>15 DEF WorkOK

LEMMA StringifyWork ==
  ASSUME IInv, IInv', Tree, WorkOK, Stringify
  PROVE  WorkOK'
<1>0. PICK n : n = Head(unprinted)
  OBVIOUS
<1>1. status = "printing" /\ unprinted # << >>
  BY DEF Stringify
<1>2. /\ todo # << >> /\ frames = << >> /\ unprinted \in Seq(Nodes)
      /\ accesses \in Seq(DataAccessSet(Nodes))
  BY <1>1 DEF IInv, StageOK, TypeOK
<1>3. n \in Nodes /\ Tail(unprinted) \in Seq(Nodes)
  BY <1>0, <1>1, <1>2, HeadTailProperties
<1>4. ~Stop("bug")
  BY DEF Stop, IInv, StringifyNeverFails
<1>5. PICK new \in Seq(Nodes), p \in SUBSET Nodes :
        /\ unprinted' = new \o Tail(unprinted) /\ printed' = printed \cup p
        /\ ArraysIn[n] = p \cup UNION {ArraysIn[new[i]] : i \in 1 .. Len(new)}
        /\ UNCHANGED <<ast, roots, use, todo, frames, accesses, status>>
        /\ UNCHANGED <<stmtDataAccesses, described, newInvariants>>
  <2>1. CASE ~IsArray(n)
    <3>1. /\ unprinted' = << >> \o Tail(unprinted)
          /\ UNCHANGED <<status, tree, todo, frames, accesses, results>>
      BY <1>0, <1>4, <2>1 DEF Stringify
    <3>2. ArraysIn[n] = {}
      BY <1>3, <2>1, ArraysAre
    <3>3. << >> \in Seq(Nodes) /\ Len(<< >>) = 0
      OBVIOUS
    <3>4. UNION {ArraysIn[<< >>[i]] : i \in 1 .. Len(<< >>)} = {}
      OBVIOUS
    <3>5. /\ UNCHANGED <<ast, roots, use, todo, frames, accesses, status>>
          /\ UNCHANGED <<stmtDataAccesses, described, newInvariants, printed>>
      BY <3>1 DEF tree, results
    <3>6. printed' = printed \cup {} /\ ArraysIn[n] = {} \cup {}
      BY <3>2, <3>5
    <3> WITNESS << >> \in Seq(Nodes), {} \in SUBSET Nodes
    <3> QED
      BY <3>1, <3>4, <3>5, <3>6
  <2>2. CASE IsArray(n) /\ Found(n)
    <3> DEFINE s == Access(n).indexes
    <3>1. /\ unprinted' = s \o Tail(unprinted) /\ printed' = printed \cup {n}
          /\ UNCHANGED status
          /\ UNCHANGED <<tree, todo, frames, accesses, stmtDataAccesses, described,
                         newInvariants, replacementVarNumber>>
      BY <1>0, <1>4, <2>2 DEF Stringify
    <3>2. \E i \in 1 .. Len(accesses) : accesses[i].sourceId = n
      BY <2>2 DEF Found
    <3>3. PICK i \in 1 .. Len(accesses) : Access(n) = accesses[i] /\ accesses[i].sourceId = n
      <4> PICK j : j = CHOOSE i \in 1 .. Len(accesses) : accesses[i].sourceId = n
        OBVIOUS
      <4>1. j \in 1 .. Len(accesses) /\ accesses[j].sourceId = n
        BY <3>2
      <4>2. Access(n) = accesses[j]
        BY DEF Access
      <4> QED
        BY <4>1, <4>2
    <3>4. accesses[i] = AccessAt(n, Head(todo).end = "write" => n # Head(todo).expr)
      BY <1>1, <3>3 DEF WorkOK, AccessesOK
    <3>5. s = Subscripts[n]
      BY <3>3, <3>4 DEF AccessAt
    <3>6. s \in Seq(Nodes)
      BY <1>3, <3>5, SubscriptsTyped
    <3>7. ArraysIn[n] = {n} \cup UNION {ArraysIn[s[k]] : k \in 1 .. Len(s)}
      BY <1>3, <2>2, <3>5, ArraysAre
    <3>8. /\ UNCHANGED <<ast, roots, use, todo, frames, accesses, status>>
          /\ UNCHANGED <<stmtDataAccesses, described, newInvariants>>
      BY <3>1 DEF tree
    <3> HIDE DEF s
    <3>9. {n} \in SUBSET Nodes
      BY <1>3
    <3> WITNESS s \in Seq(Nodes), {n} \in SUBSET Nodes
    <3> QED
      BY <3>1, <3>7, <3>8
  <2>3. CASE IsArray(n) /\ ~Found(n)
    BY <1>0, <1>4, <2>3 DEF Stringify
  <2> QED
    BY <2>1, <2>2, <2>3
<1>6. /\ UNCHANGED <<Base, Written, ComponentsOf, ArraysIn, Subscripts>>
      /\ \A m : Arrays(m)' = Arrays(m) /\ Searched(m)' = Searched(m)
      /\ \A m, isRead : AccessAt(m, isRead)' = AccessAt(m, isRead)
      /\ \A u : DueOf(u)' = DueOf(u) /\ PrintOf(u)' = PrintOf(u)
  BY <1>5, OfTreeStays, TreeStays
<1>7. UNCHANGED <<Ids(stmtDataAccesses), Ids(accesses), InOrder(accesses)>>
  BY <1>5 DEF Ids, InOrder
<1>8. PathsOK' /\ MakingOK' /\ ExitOK'
  BY <1>1, <1>2, <1>5 DEF WorkOK, PathsOK, MakingOK, ExitOK
<1>9. InvariantsOK'
  BY <1>5, <1>6 DEF WorkOK, InvariantsOK
<1>10. TasksForUse'
  BY <1>5, <1>6, <1>7 DEF WorkOK, TasksForUse
<1>11. AccessesOK'
  <2>1. AccessesOK
    BY DEF WorkOK
  <2> QED
    BY <1>5, <1>6, <1>7, <2>1 DEF AccessesOK
<1>12. RecordedOK'
  <2>1. \A i \in 1 .. Len(todo) : Due(i)' = Due(i)
    BY <1>1, <1>5, <1>6 DEF Due
  <2> QED
    BY <1>5, <2>1, RecordedStays
<1>13. PrintedOK'
  <2>1. UNION {ToPrint(i)' : i \in 1 .. Len(todo')} = UNION {ToPrint(i) : i \in 1 .. Len(todo)}
    BY <1>5, <1>6 DEF ToPrint
  <2>2. Texts' = Texts
    BY <1>5 DEF Texts
  <2>3. UNION {Arrays(k) : k \in Texts}' = UNION {Arrays(k) : k \in Texts}
    BY <1>6, <2>2
  <2>4. p \cup (UNION {ArraysIn[unprinted[i]] : i \in 1 .. Len(unprinted)}')
          = UNION {ArraysIn[unprinted[i]] : i \in 1 .. Len(unprinted)}
    <3>1. /\ Len(unprinted) \in Nat \ {0} /\ Len(new) \in Nat /\ Len(unprinted') \in Nat
          /\ Len(unprinted') = Len(new) + Len(unprinted) - 1
          /\ Head(unprinted) = unprinted[1]
      BY <1>1, <1>2, <1>5, ReplacedHead
    <3>2. \A i \in 1 .. Len(new) : i \in 1 .. Len(unprinted') /\ unprinted'[i] = new[i]
      BY <1>1, <1>2, <1>5, ReplacedHead
    <3>3. \A k \in 2 .. Len(unprinted) : /\ k - 1 + Len(new) \in 1 .. Len(unprinted')
                                         /\ unprinted'[k - 1 + Len(new)] = unprinted[k]
      BY <1>1, <1>2, <1>5, ReplacedHead
    <3>4. \A i \in 1 .. Len(unprinted') :
            i \in 1 .. Len(new) \/ \E k \in 2 .. Len(unprinted) : i = k - 1 + Len(new)
      BY <1>1, <1>2, <1>5, ReplacedHead
    <3>5. /\ unprinted[1] = n /\ 1 \in 1 .. Len(unprinted)
          /\ \A k \in 1 .. Len(unprinted) : k = 1 \/ k \in 2 .. Len(unprinted)
          /\ \A k \in 2 .. Len(unprinted) : k \in 1 .. Len(unprinted)
      BY <1>0, <3>1
    <3> DEFINE U == UNION {ArraysIn[unprinted[i]] : i \in 1 .. Len(unprinted)}
               V == UNION {ArraysIn[unprinted'[i]] : i \in 1 .. Len(unprinted')}
    <3>6. ASSUME NEW k \in 1 .. Len(unprinted)
          PROVE  ArraysIn[unprinted[k]] \subseteq p \cup V
      <4>1. CASE k = 1
        <5>1. \A i \in 1 .. Len(new) : ArraysIn[new[i]] \subseteq V
          BY <3>2
        <5>2. ArraysIn[n] = p \cup UNION {ArraysIn[new[i]] : i \in 1 .. Len(new)}
          BY <1>5
        <5>3. ArraysIn[unprinted[k]] = ArraysIn[n]
          BY <3>5, <4>1
        <5> HIDE DEF V
        <5> QED
          BY <5>1, <5>2, <5>3
      <4>2. CASE k \in 2 .. Len(unprinted)
        BY <3>3, <4>2
      <4> QED
        BY <3>5, <4>1, <4>2
    <3>7. ASSUME NEW i \in 1 .. Len(unprinted')
          PROVE  ArraysIn[unprinted'[i]] \subseteq U
      <4>1. CASE i \in 1 .. Len(new)
        <5>1. ArraysIn[new[i]] \subseteq ArraysIn[n]
          BY <1>5, <4>1
        <5> QED
          BY <3>2, <3>5, <4>1, <5>1
      <4>2. CASE ~(i \in 1 .. Len(new))
        <5>1. PICK k \in 2 .. Len(unprinted) : i = k - 1 + Len(new)
          BY <3>4, <4>2
        <5>2. unprinted'[i] = unprinted[k] /\ k \in 1 .. Len(unprinted)
          BY <3>3, <3>5, <5>1
        <5> QED
          BY <5>2
      <4> QED
        BY <4>1, <4>2
    <3>8. p \subseteq U
      BY <1>5, <3>5
    <3>9. p \cup V = U
      BY <3>6, <3>7, <3>8
    <3> QED
      BY <1>6, <3>9
  <2>5. status' = "printing"
    BY <1>1, <1>5
  <2> QED
    BY <1>5, <2>1, <2>3, <2>4, <2>5 DEF WorkOK, PrintedOK
<1> QED
  BY <1>5, <1>8, <1>9, <1>10, <1>11, <1>12, <1>13 DEF WorkOK

-------------------------------------------------------------------------------
(* Every step keeps the invariant. *)
LEMMA FinishWork ==
  ASSUME IInv, IInv', Tree, WorkOK, Finish
  PROVE  WorkOK'
<1>1. Stop("done") /\ status = "collecting"
  BY DEF Finish
<1> QED
  BY <1>1, StopWork

LEMMA StutterWork ==
  ASSUME WorkOK, UNCHANGED vars
  PROVE  WorkOK'
<1>1. /\ UNCHANGED <<ast, roots, use, todo, frames, accesses, unprinted, status>>
      /\ UNCHANGED <<stmtDataAccesses, described, newInvariants, printed>>
  BY DEF vars, tree, results
<1>2. /\ UNCHANGED <<Nodes, Subscripts, Base, ComponentsOf, ArraysIn>>
      /\ \A n : Arrays(n)' = Arrays(n) /\ Searched(n)' = Searched(n)
      /\ \A n : IsSpace(n)' = IsSpace(n)
      /\ \A n, kind : IsKind(n, kind)' = IsKind(n, kind)
      /\ \A n, isRead : AccessAt(n, isRead)' = AccessAt(n, isRead)
      /\ \A t : DueOf(t)' = DueOf(t) /\ PrintOf(t)' = PrintOf(t)
      /\ \A f : SoFar(f)' = SoFar(f)
      /\ \A n, k : ArraysFrom(n, k)' = ArraysFrom(n, k)
      /\ UNCHANGED <<DeclaredAccess, Wanted, Written>>
  BY <1>1, OfTreeStays, TreeStays
<1>3. PathsOK'
  BY <1>1, <1>2 DEF WorkOK, PathsOK
<1>4. UNCHANGED <<Ids(accesses), InOrder(accesses), Ids(stmtDataAccesses), Texts>>
  BY <1>1 DEF Ids, InOrder, Texts
<1>5. AccessesOK'
  BY <1>1, <1>2, <1>4 DEF WorkOK, AccessesOK
<1>6. \A i : Remaining(i)' = Remaining(i)
  BY <1>1, <1>2 DEF Remaining
<1>7. MakingOK'
  BY <1>1, <1>2, <1>4, <1>6 DEF WorkOK, MakingOK
<1>8. TasksForUse'
  BY <1>1, <1>2, <1>4 DEF WorkOK, TasksForUse
<1>9. \A i : Due(i)' = Due(i) /\ ToPrint(i)' = ToPrint(i)
  BY <1>1, <1>2, <1>4 DEF Due, ToPrint
<1>10. RecordedOK'
  BY <1>1, <1>9, RecordedStays
<1>11. PrintedOK'
  BY <1>1, <1>2, <1>4, <1>9 DEF WorkOK, PrintedOK
<1>12. InvariantsOK'
  BY <1>1, <1>2 DEF WorkOK, InvariantsOK
<1>13. ExitOK'
  BY <1>1, <1>2 DEF WorkOK, ExitOK
<1> QED
  BY <1>1, <1>3, <1>5, <1>7, <1>8, <1>10, <1>11, <1>12, <1>13 DEF WorkOK

LEMMA NextWork ==
  ASSUME AInv, [Next]_vars
  PROVE  AInv'
<1>1. IInv /\ IInv' /\ TreeShape /\ Tree
  BY NextKeeps, TreeHolds DEF AInv
<1>2. CASE \E leaf \in Leaves : ParseLeaf(leaf)
  <2>1. status' = "parsing"
    BY <1>2 DEF ParseLeaf, Parsed
  <2> QED
    BY <1>1, <1>2, <2>1, ParseLeafShape DEF AInv, DoneOK
<1>3. CASE \E kind \in {"binary", "array"} : ParseInner(kind)
  <2>1. status' = "parsing"
    BY <1>3 DEF ParseInner, Parsed
  <2> QED
    BY <1>1, <1>3, <2>1, ParseInnerShape DEF AInv, DoneOK
<1>4. CASE \E what \in {"assign", "declare", "condition"} : Begin(what)
  <2>1. UNCHANGED <<ast, roots>> /\ status' = "collecting"
    BY <1>4 DEF Begin
  <2>2. TreeShape'
    BY <1>1, <2>1, ShapeStays
  <2>3. WorkOK'
    BY <1>1, <1>4, BeginWork
  <2> QED
    BY <1>1, <2>1, <2>2, <2>3 DEF AInv, DoneOK
<1>5. ASSUME UNCHANGED tree, status # "parsing", status' # "done", WorkOK => WorkOK'
      PROVE  AInv'
  <2>1. TreeShape'
    BY <1>1, <1>5, ShapeStays DEF tree
  <2> QED
    BY <1>1, <1>5, <2>1 DEF AInv, DoneOK
<1>6. CASE Collect \/ Start
  <2>1. UNCHANGED tree /\ status # "parsing" /\ status' # "done"
    BY <1>6 DEF Collect, Start, Doing, Stop
  <2> QED
    BY <1>1, <1>5, <1>6, <2>1, CollectWork, StartWork
<1>7. CASE GetArrayExprInfo \/ TakeIndex \/ MakeDataAccess
  <2>1. UNCHANGED tree /\ status # "parsing" /\ status' # "done"
    BY <1>7 DEF GetArrayExprInfo, TakeIndex, MakeDataAccess, Making, Became, Stop
  <2> QED
    BY <1>1, <1>5, <1>7, <2>1, GetArrayExprInfoWork, TakeIndexWork, MakeDataAccessWork
<1>8. CASE Record \/ EndRecord \/ RecordDeclared \/ AddInvariants
  <2>1. UNCHANGED tree /\ status # "parsing" /\ status' # "done"
    BY <1>8 DEF Record, EndRecord, RecordDeclared, AddInvariants, Made, Doing, Done
  <2> QED
    BY <1>1, <1>5, <1>8, <2>1, RecordWork, EndRecordWork, RecordDeclaredWork, AddInvariantsWork
<1>9. CASE BeginToString \/ Stringify \/ EndToString
  <2>1. UNCHANGED tree /\ status # "parsing" /\ status' # "done"
    BY <1>9 DEF BeginToString, Stringify, EndToString, Made, Done, Stop
  <2> QED
    BY <1>1, <1>5, <1>9, <2>1, BeginToStringWork, StringifyWork, EndToStringWork
<1>10. CASE Describe
  <2>1. UNCHANGED tree /\ status # "parsing" /\ status' # "done"
    BY <1>10 DEF Describe
  <2> QED
    BY <1>1, <1>5, <1>10, <2>1, DescribeWork
<1>11. CASE Finish
  <2>1. /\ UNCHANGED <<ast, roots, todo, described, stmtDataAccesses>>
        /\ status # "parsing" /\ status' = "done"
        /\ todo = << >> /\ described = Len(stmtDataAccesses)
    BY <1>11 DEF Finish, Stop, tree, results
  <2>2. TreeShape' /\ WorkOK'
    BY <1>1, <1>11, <2>1, ShapeStays, FinishWork DEF AInv
  <2> QED
    BY <1>1, <2>1, <2>2 DEF AInv, DoneOK
<1>12. CASE Terminated \/ UNCHANGED vars
  <2>1. UNCHANGED vars /\ UNCHANGED <<ast, roots, status, todo, described, stmtDataAccesses>>
    BY <1>12 DEF Terminated, vars, tree, results
  <2>2. TreeShape' /\ (status' # "parsing" => WorkOK')
    BY <1>1, <2>1, ShapeStays, StutterWork DEF AInv
  <2> QED
    BY <1>1, <2>1, <2>2 DEF AInv, DoneOK
<1> QED
  BY <1>2, <1>3, <1>4, <1>6, <1>7, <1>8, <1>9, <1>10, <1>11, <1>12 DEF Next

LEMMA AInvariance == Spec => []AInv
<1>1. Init => AInv
  <2> SUFFICES ASSUME Init PROVE AInv
    OBVIOUS
  <2>1. Nodes = {} /\ Len(roots) = 0 /\ status = "parsing"
    BY DEF Init, Nodes
  <2>2. TreeShape
    BY <2>1 DEF TreeShape, OperandsBefore, OperandsApart, RootsInOrder
  <2> QED
    BY <2>1, <2>2, InitKeeps DEF AInv, DoneOK
<1>2. AInv /\ [Next]_vars => AInv'
  BY NextWork
<1> QED
  BY <1>1, <1>2, PTL DEF Spec

-------------------------------------------------------------------------------
(* What has been recorded when all is done. *)
LEMMA AllRecorded ==
  ASSUME AInv, status = "done"
  PROVE  /\ use \in {"assign", "declare", "condition"}
         /\ Ids(stmtDataAccesses) \ {0} = Wanted
         /\ EntriesOK
         /\ use = "declare" => (0 \in Ids(stmtDataAccesses) <=> IsSpace(roots[1]))
         /\ Len(stmtDataAccesses) \in Nat
         /\ stmtDataAccesses \in Seq(DataAccessSet(Nodes \cup {0}))
<1>1. RecordedOK /\ use # "none" /\ TypeOK /\ todo = << >>
  BY DEF AInv, WorkOK, IInv, DoneOK
<1>2. Len(todo) = 0
  BY <1>1, EmptySeq
<1>3. UNION {Due(i) : i \in 1 .. Len(todo)} = {}
  BY <1>2
<1>4. /\ (Ids(stmtDataAccesses) \ {0}) \cup UNION {Due(i) : i \in 1 .. Len(todo)} = Wanted
      /\ EntriesOK
      /\ DeclaredOK
  BY <1>1 DEF RecordedOK
<1>5. use = "declare" => (0 \in Ids(stmtDataAccesses) <=> IsSpace(roots[1]))
  <2>1. \A i \in 1 .. Len(todo) : FALSE
    BY <1>2
  <2> QED
    BY <1>4, <2>1 DEF DeclaredOK
<1>6. Ids(stmtDataAccesses) \ {0} = Wanted
  BY <1>3, <1>4
<1> QED
  BY <1>1, <1>4, <1>5, <1>6 DEF TypeOK

LEMMA ConditionRecordsNothing ==
  ASSUME AInv, status = "done", use = "condition"
  PROVE  Len(stmtDataAccesses) = 0
<1>1. /\ Ids(stmtDataAccesses) \ {0} = Wanted /\ EntriesOK /\ Len(stmtDataAccesses) \in Nat
  BY AllRecorded
<1>2. Wanted = {}
  BY DEF Wanted
<1>3. \A i \in 1 .. Len(stmtDataAccesses) : stmtDataAccesses[i].sourceId # 0
  BY <1>1 DEF EntriesOK
<1>4. \A i \in 1 .. Len(stmtDataAccesses) : stmtDataAccesses[i].sourceId \in Ids(stmtDataAccesses)
  BY DEF Ids
<1>5. \A i \in 1 .. Len(stmtDataAccesses) : FALSE
  BY <1>1, <1>2, <1>3, <1>4
<1> QED
  BY <1>1, <1>5

LEMMA SearchedRecorded ==
  ASSUME AInv, status = "done"
  PROVE  LET s == stmtDataAccesses
             reads == IF IsSpace(roots[1]) THEN SubSeq(s, 1, Len(s) - 1) ELSE s
         IN /\ use \in {"assign", "declare", "condition"}
            /\ use = "assign" =>
                 AreAccessesOf(s, Searched(roots[1]) \cup Searched(roots[2]), roots[1])
            /\ use = "declare" =>
                 /\ IsSpace(roots[1]) => Len(s) > 0 /\ s[Len(s)] = DeclaredAccess
                 /\ AreAccessesOf(reads, Searched(roots[2]), 0)
            /\ use = "condition" => Len(s) = 0
<1> DEFINE s == stmtDataAccesses
<1>1. /\ use \in {"assign", "declare", "condition"}
      /\ Ids(s) \ {0} = Wanted
      /\ EntriesOK
      /\ use = "declare" => (0 \in Ids(s) <=> IsSpace(roots[1]))
      /\ Len(s) \in Nat
      /\ s \in Seq(DataAccessSet(Nodes \cup {0}))
  BY AllRecorded
<1>2. \A i \in 1 .. Len(s) :
        /\ s[i].sourceId # 0 =>
             /\ s[i] = AccessAt(s[i].sourceId, s[i].sourceId # Written)
             /\ \A j \in 1 .. i - 1 : s[j].sourceId < s[i].sourceId
        /\ s[i].sourceId = 0 =>
             use = "declare" /\ s[i] = DeclaredAccess /\ i = Len(s)
  BY <1>1 DEF EntriesOK
<1>3. \A i \in 1 .. Len(s) : s[i].sourceId \in Ids(s)
  BY DEF Ids
<1>4. \A x \in Ids(s) : \E i \in 1 .. Len(s) : x = s[i].sourceId
  BY DEF Ids
<1> HIDE DEF s
<1>5. ASSUME NEW m \in 0 .. Len(s), NEW w, NEW nodes, NEW u, u = SubSeq(s, 1, m),
             \A i \in 1 .. m : s[i].sourceId # 0, w = Written, nodes = Wanted,
             \A i \in m + 1 .. Len(s) : s[i].sourceId = 0
      PROVE  AreAccessesOf(u, nodes, w)
  <2>1. Len(u) = m /\ \A i \in 1 .. m : u[i] = s[i] /\ i \in 1 .. Len(s)
    BY <1>1, <1>5
  <2>2. {u[i].sourceId : i \in 1 .. Len(u)} = nodes
    <3>1. \A i \in 1 .. Len(u) : u[i].sourceId \in nodes
      BY <1>1, <1>3, <1>5, <2>1
    <3>2. ASSUME NEW x \in nodes
          PROVE  \E i \in 1 .. Len(u) : x = u[i].sourceId
      <4>1. x \in Ids(s) /\ x # 0
        BY <1>1, <1>5
      <4>2. PICK i \in 1 .. Len(s) : x = s[i].sourceId
        BY <1>4, <4>1
      <4>3. i \in 1 .. m
        BY <1>1, <1>5, <4>1, <4>2
      <4> QED
        BY <2>1, <4>2, <4>3
    <3> QED
      BY <3>1, <3>2
  <2>3. ASSUME NEW i \in 1 .. Len(u), NEW j \in 1 .. Len(u), i < j
        PROVE  u[i].sourceId < u[j].sourceId
    <3>1. i \in 1 .. j - 1 /\ i \in 1 .. m /\ j \in 1 .. m
      BY <1>1, <1>5, <2>1, <2>3
    <3> QED
      BY <1>2, <1>5, <2>1, <3>1
  <2>4. \A i \in 1 .. Len(u) : u[i] = AccessAt(u[i].sourceId, u[i].sourceId # w)
    BY <1>2, <1>5, <2>1
  <2> QED
    BY <2>2, <2>3, <2>4 DEF AreAccessesOf
<1>6. CASE use = "assign"
  <2>1. /\ Wanted = Searched(roots[1]) \cup Searched(roots[2]) /\ Written = roots[1]
    BY <1>6 DEF Wanted, Written
  <2>2. \A i \in 1 .. Len(s) : s[i].sourceId # 0
    BY <1>2, <1>6
  <2>3. s = SubSeq(s, 1, Len(s)) /\ Len(s) \in 0 .. Len(s)
    BY <1>1
  <2>4. AreAccessesOf(s, Searched(roots[1]) \cup Searched(roots[2]), roots[1])
    BY <1>1, <1>5, <2>1, <2>2, <2>3
  <2> QED
    BY <1>6, <2>4 DEF s
<1>7. CASE use = "declare"
  <2>1. Wanted = Searched(roots[2]) /\ Written = 0
    BY <1>7 DEF Wanted, Written
  <2>2. CASE IsSpace(roots[1])
    <3>1. PICK n \in 1 .. Len(s) : s[n].sourceId = 0
      BY <1>1, <1>4, <1>7, <2>2
    <3>2. n = Len(s) /\ s[n] = DeclaredAccess /\ n > 0
      BY <1>2, <3>1
    <3>3. \A i \in 1 .. n - 1 : s[i].sourceId # 0
      BY <1>1, <1>2, <3>2
    <3>4. n - 1 \in 0 .. Len(s) /\ \A i \in (n - 1) + 1 .. Len(s) : s[i].sourceId = 0
      BY <1>1, <3>1, <3>2
    <3>5. AreAccessesOf(SubSeq(s, 1, n - 1), Searched(roots[2]), 0)
      BY <1>5, <2>1, <3>3, <3>4
    <3> QED
      BY <1>7, <2>2, <3>2, <3>5 DEF s
  <2>3. CASE ~IsSpace(roots[1])
    <3>1. \A i \in 1 .. Len(s) : s[i].sourceId # 0
      BY <1>1, <1>3, <1>7, <2>3
    <3>2. s = SubSeq(s, 1, Len(s)) /\ Len(s) \in 0 .. Len(s)
      BY <1>1
    <3>3. AreAccessesOf(s, Searched(roots[2]), 0)
      BY <1>1, <1>5, <2>1, <3>1, <3>2
    <3> QED
      BY <1>7, <2>3, <3>3 DEF s
  <2> QED
    BY <2>2, <2>3
<1>8. CASE use = "condition"
  BY <1>8, ConditionRecordsNothing
<1> QED
  BY <1>1, <1>6, <1>7, <1>8

(* What has been printed when all is done. *)
LEMMA AllPrinted ==
  ASSUME AInv, status = "done"
  PROVE  printed = UNION {Arrays(k) : k \in Texts}
<1>1. PrintedOK /\ todo = << >> /\ status # "printing"
  BY DEF AInv, WorkOK, DoneOK
<1>2. /\ unprinted = << >>
      /\ printed \cup (UNION {ArraysIn[unprinted[i]] : i \in 1 .. Len(unprinted)})
                 \cup (UNION {ToPrint(i) : i \in 1 .. Len(todo)})
           = UNION {Arrays(k) : k \in Texts}
  BY <1>1 DEF PrintedOK
<1>3. Len(todo) = 0 /\ Len(unprinted) = 0
  BY <1>1, <1>2, EmptySeq
<1>4. /\ UNION {ArraysIn[unprinted[i]] : i \in 1 .. Len(unprinted)} = {}
      /\ UNION {ToPrint(i) : i \in 1 .. Len(todo)} = {}
  BY <1>3
<1> QED
  BY <1>2, <1>4

LEMMA TextsOfCondition ==
  ASSUME AInv, status = "done", use = "condition"
  PROVE  Texts = {roots[1], roots[2]} /\ ToSet(roots) = {roots[1], roots[2]}
<1>1. described = 0
  BY ConditionRecordsNothing DEF AInv, DoneOK
<1>2. roots \in Seq(Nodes) /\ Len(roots) = 2
  BY DEF AInv, WorkOK, IInv, TypeOK
<1>3. DOMAIN roots = {1, 2}
  BY <1>2
<1>4. ToSet(roots) = {roots[1], roots[2]}
  BY <1>3 DEF ToSet
<1>5. UNION {ToSet(stmtDataAccesses[i].indexes) : i \in 1 .. described} = {}
  BY <1>1
<1> QED
  BY <1>4, <1>5 DEF Texts

LEMMA CollectedRight ==
  ASSUME AInv, status = "done", use = "condition", NEW n \in printed
  PROVE  ast[Base[n]].name \in newInvariants
<1>1. printed = UNION {Arrays(k) : k \in {roots[1], roots[2]}}
  BY AllPrinted, TextsOfCondition
<1>2. PICK r \in {1, 2} : n \in Arrays(roots[r])
  BY <1>1
<1>3. InvariantsOK /\ todo = << >>
  BY DEF AInv, WorkOK, DoneOK
<1>4. Len(todo) = 0
  BY <1>3, EmptySeq
<1>5. \/ ast[Base[n]].name \in newInvariants
      \/ \E i \in 1 .. Len(todo) : todo[i].end = "invariant" /\ n \in Arrays(todo[i].expr)
  BY <1>2, <1>3 DEF InvariantsOK
<1> QED
  BY <1>4, <1>5

-------------------------------------------------------------------------------
(* What the code searches is what the definition by recursion says but for *)
(* what is within subscripts that are no arrays.                           *)
AccessesBy(g, n) ==
  CASE IsKind(n, "binary") -> g[ast[n].left] \cup g[ast[n].right]
    [] IsKind(n, "ref") -> {n}
    [] IsArray(n) -> {n} \cup UNION {g[m] : m \in ToSet(Subscripts[n])}
    [] OTHER -> {}

LEMMA AccessesRecursion ==
  ASSUME Tree
  PROVE  AccessesIn = [n \in Nodes |-> AccessesBy(AccessesIn, n)]
<1> DEFINE Defined(k) == \E g : g = [n \in 1 .. k |-> AccessesBy(g, n)]
           Bad == {k \in 0 .. Len(ast) : ~Defined(k)}
<1>1. Len(ast) \in Nat
  BY DEF Tree
<1>2. SUFFICES Bad = {}
  <2>1. Defined(Len(ast))
    BY <1>1, <1>2
  <2> QED
    BY <2>1 DEF AccessesIn, Nodes, AccessesBy
<1>3. SUFFICES ASSUME Bad # {} PROVE FALSE
  OBVIOUS
<1>4. PICK k \in Bad : \A j \in Bad : k <= j
  <2> HIDE DEF Bad
  <2>1. Bad \subseteq Nat
    BY <1>1 DEF Bad
  <2> QED
    BY <1>3, <2>1, Least
<1>5. k # 0
  <2> DEFINE g == [n \in 1 .. 0 |-> n]
  <2>1. g = [n \in 1 .. 0 |-> AccessesBy(g, n)]
    OBVIOUS
  <2>2. Defined(0)
    BY <2>1
  <2> QED
    BY <2>2
<1>6. PICK g : g = [n \in 1 .. k - 1 |-> AccessesBy(g, n)]
  <2>1. k - 1 \in 0 .. Len(ast) /\ ~(k <= k - 1)
    BY <1>1, <1>5
  <2>2. Defined(k - 1)
    BY <2>1, <1>4
  <2> QED
    BY <2>2
<1> DEFINE h == [n \in 1 .. k |-> IF n < k THEN g[n] ELSE AccessesBy(g, n)]
<1>7. h = [n \in 1 .. k |-> AccessesBy(h, n)]
  <2>1. ASSUME NEW n \in 1 .. k
        PROVE  h[n] = AccessesBy(h, n)
    <3>1. n \in Nodes /\ n \in Nat
      BY <1>1 DEF Nodes
    <3>2. \A m \in ToSet(Subscripts[n]) : m \in 1 .. k - 1 /\ m < k
      <4>1. \A j \in 1 .. Len(Subscripts[n]) : Subscripts[n][j] \in 1 .. n - 1
        BY <3>1, SubscriptsTyped
      <4>2. ToSet(Subscripts[n]) = {Subscripts[n][j] : j \in 1 .. Len(Subscripts[n])}
        BY <3>1, SubscriptsTyped
      <4> QED
        BY <1>1, <3>1, <4>1, <4>2
    <3>3. Inner(n) => /\ ast[n].left \in 1 .. k - 1 /\ ast[n].left < k
                      /\ ast[n].right \in 1 .. k - 1 /\ ast[n].right < k
      BY <1>1, <3>1, Operands
    <3>4. AccessesBy(h, n) = AccessesBy(g, n)
      <4>1. \A m \in ToSet(Subscripts[n]) : h[m] = g[m]
        BY <3>2
      <4>2. Inner(n) => h[ast[n].left] = g[ast[n].left] /\ h[ast[n].right] = g[ast[n].right]
        BY <3>3
      <4> HIDE DEF h
      <4>3. CASE IsKind(n, "binary")
        <5>1. ast[n].kind = "binary"
          BY <4>3 DEF IsKind
        <5> QED
          BY <4>2, <5>1 DEF AccessesBy, Inner, IsArray, IsKind
      <4>4. CASE IsArray(n)
        <5>1. UNION {h[m] : m \in ToSet(Subscripts[n])} = UNION {g[m] : m \in ToSet(Subscripts[n])}
          BY <4>1
        <5>2. ast[n].kind = "array"
          BY <4>4 DEF IsArray, IsKind
        <5> QED
          BY <5>1, <5>2 DEF AccessesBy, IsArray, IsKind
      <4>5. CASE ~Inner(n)
        BY <4>5 DEF AccessesBy, Inner
      <4> QED
        BY <4>3, <4>4, <4>5 DEF Inner
    <3>5. CASE n < k
      <4>1. n \in 1 .. k - 1
        BY <3>5, <1>1
      <4>2. h[n] = g[n]
        BY <3>5
      <4> HIDE DEF h
      <4>3. g[n] = AccessesBy(g, n)
        BY <4>1, <1>6
      <4> QED
        BY <4>2, <4>3, <3>4
    <3>6. CASE ~(n < k)
      <4>1. h[n] = AccessesBy(g, n)
        BY <3>6
      <4> HIDE DEF h
      <4> QED
        BY <4>1, <3>4
    <3> QED
      BY <3>5, <3>6
  <2>2. h = [n \in 1 .. k |-> h[n]]
    OBVIOUS
  <2> HIDE DEF h
  <2> QED
    BY <2>1, <2>2
<1>8. Defined(k)
  <2> HIDE DEF h
  <2> QED
    BY <1>7
<1> QED
  BY <1>4, <1>8

LEMMA AccessesAre ==
  ASSUME Tree, NEW n \in Nodes
  PROVE  /\ IsKind(n, "binary") =>
              AccessesIn[n] = AccessesIn[ast[n].left] \cup AccessesIn[ast[n].right]
         /\ IsKind(n, "ref") => AccessesIn[n] = {n}
         /\ IsArray(n) =>
              AccessesIn[n] = {n} \cup UNION {AccessesIn[Subscripts[n][j]] :
                                                j \in 1 .. Len(Subscripts[n])}
         /\ ~Inner(n) /\ ~IsKind(n, "ref") => AccessesIn[n] = {}
<1>1. AccessesIn[n] = AccessesBy(AccessesIn, n)
  <2>1. AccessesIn = [m \in Nodes |-> AccessesBy(AccessesIn, m)]
    BY AccessesRecursion
  <2> QED
    BY <2>1
<1>2. ToSet(Subscripts[n]) = {Subscripts[n][j] : j \in 1 .. Len(Subscripts[n])}
  BY SubscriptsTyped
<1>3. UNION {AccessesIn[m] : m \in ToSet(Subscripts[n])}
        = UNION {AccessesIn[Subscripts[n][j]] : j \in 1 .. Len(Subscripts[n])}
  BY <1>2
<1>4. /\ ast[n].kind = "binary" => AccessesBy(AccessesIn, n)
                    = AccessesIn[ast[n].left] \cup AccessesIn[ast[n].right]
      /\ ast[n].kind = "ref" => AccessesBy(AccessesIn, n) = {n}
      /\ ast[n].kind = "array" => AccessesBy(AccessesIn, n) =
                    {n} \cup UNION {AccessesIn[m] : m \in ToSet(Subscripts[n])}
      /\ ast[n].kind \notin {"binary", "ref", "array"} => AccessesBy(AccessesIn, n) = {}
  BY DEF AccessesBy, IsArray, IsKind
<1> QED
  BY <1>1, <1>3, <1>4 DEF Inner, IsArray, IsKind

(* A subscript is the right operand of an array.                           *)
LEMMA SubscriptsAreRight ==
  ASSUME Tree, NEW n \in Nodes, NEW j \in 1 .. Len(Subscripts[n])
  PROVE  \E a \in Nodes : IsArray(a) /\ ast[a].right = Subscripts[n][j]
<1> DEFINE P(m) == \A k \in 1 .. Len(Subscripts[m]) :
                     \E a \in Nodes : IsArray(a) /\ ast[a].right = Subscripts[m][k]
           Bad == {m \in Nodes : ~P(m)}
<1>1. SUFFICES Bad = {}
  OBVIOUS
<1>2. SUFFICES ASSUME Bad # {} PROVE FALSE
  OBVIOUS
<1>3. PICK m \in Bad : \A i \in Bad : m <= i
  <2> HIDE DEF Bad
  <2>1. Bad \subseteq Nat
    BY DEF Bad, Nodes
  <2> QED
    BY <1>2, <2>1, Least
<1>4. m \in Nodes /\ m \in Nat
  BY <1>3 DEF Nodes
<1>5. CASE ~IsArray(m)
  <2>1. Len(Subscripts[m]) = 0
    BY <1>4, <1>5, SubscriptsOf
  <2> QED
    BY <1>3, <2>1
<1>6. CASE IsArray(m)
  <2> DEFINE l == ast[m].left
             r == ast[m].right
             c == Len(Subscripts[l])
  <2>1. l \in Nodes /\ l \in 1 .. m - 1 /\ r \in Nodes
    BY <1>4, <1>6, Operands DEF Inner
  <2>2. P(l)
    <3>1. ~(m <= l)
      BY <1>4, <2>1
    <3> HIDE DEF P
    <3> QED
      BY <1>3, <2>1, <3>1
  <2>3. Subscripts[m] = Append(Subscripts[l], r) /\ Subscripts[l] \in Seq(Nodes) /\ c \in Nat
    BY <1>4, <1>6, <2>1, SubscriptsOf, SubscriptsTyped
  <2> HIDE DEF l
  <2>4. /\ Len(Subscripts[m]) = c + 1 /\ Subscripts[m][c + 1] = r
        /\ \A k \in 1 .. c : Subscripts[m][k] = Subscripts[l][k]
    <3> HIDE DEF r
    <3> QED
      BY <2>1, <2>3, AppendProperties
  <2>5. ASSUME NEW k \in 1 .. c + 1
        PROVE  \E a \in Nodes : IsArray(a) /\ ast[a].right = Subscripts[m][k]
    <3>1. CASE k = c + 1
      BY <1>4, <1>6, <2>4, <3>1
    <3>2. CASE k \in 1 .. c
      BY <2>2, <2>4, <3>2
    <3> QED
      BY <2>3, <3>1, <3>2
  <2> QED
    BY <1>3, <2>4, <2>5
<1> QED
  BY <1>5, <1>6

LEMMA AccessesAbove ==
  ASSUME Tree, NEW b \in Nat, NEW n \in Nodes, Above(b, n), b < n
  PROVE  \A x \in AccessesIn[n] : x \in b + 1 .. n
<1> DEFINE P(m) == Above(b, m) /\ b < m => \A x \in AccessesIn[m] : x \in b + 1 .. m
           Bad == {m \in Nodes : ~P(m)}
<1>1. SUFFICES ASSUME Bad # {} PROVE FALSE
  OBVIOUS
<1>2. PICK m \in Bad : \A j \in Bad : m <= j
  <2> HIDE DEF Bad
  <2>1. Bad \subseteq Nat
    BY DEF Bad, Nodes
  <2> QED
    BY <1>1, <2>1, Least
<1>3. m \in Nodes /\ Above(b, m) /\ b < m /\ m \in Nat
  BY <1>2 DEF Nodes
<1>4. CASE IsKind(m, "binary")
  <2> DEFINE l == ast[m].left
             r == ast[m].right
  <2>1. /\ l \in Nodes /\ l \in 1 .. m - 1 /\ r \in Nodes /\ r \in 1 .. m - 1
        /\ b < l /\ Above(b, l) /\ b < r /\ Above(b, r)
    BY <1>3, <1>4, Operands, AboveOperands DEF Inner
  <2>2. P(l) /\ P(r)
    BY <1>2, <1>3, <2>1
  <2>3. AccessesIn[m] = AccessesIn[l] \cup AccessesIn[r]
    BY <1>3, <1>4, AccessesAre
  <2> HIDE DEF l, r
  <2>4. \A x : x \in b + 1 .. l \/ x \in b + 1 .. r => x \in b + 1 .. m
    BY <1>3, <2>1
  <2> QED
    BY <1>2, <2>1, <2>2, <2>3, <2>4
<1>5. CASE IsArray(m)
  <2>1. ASSUME NEW j \in 1 .. Len(Subscripts[m]), NEW x \in AccessesIn[Subscripts[m][j]]
        PROVE  x \in b + 1 .. m
    <3> DEFINE s == Subscripts[m][j]
    <3>1. Subscripts[m] \in Seq(b + 1 .. m - 1)
      BY <1>3, SubscriptsAbove
    <3>2. s \in b + 1 .. m - 1 /\ s \in Nodes
      BY <1>3, <3>1, ElementOfSeq, SubscriptsTyped
    <3> HIDE DEF s
    <3>3. Above(b, s)
      <4>1. \A k \in Nodes : k \in Nat /\ (k <= s => k <= m)
        BY <1>3, <3>2 DEF Nodes
      <4> QED
        BY <1>3, <4>1 DEF Above
    <3>4. P(s)
      BY <1>2, <1>3, <3>2
    <3>5. x \in b + 1 .. s
      BY <2>1, <3>2, <3>3, <3>4 DEF s
    <3> QED
      BY <1>3, <3>2, <3>5
  <2>2. \A x \in AccessesIn[m] : x \in b + 1 .. m
    BY <1>3, <1>5, <2>1, AccessesAre
  <2> QED
    BY <1>2, <2>2
<1>6. CASE ~Inner(m)
  <2>1. AccessesIn[m] \subseteq {m}
    BY <1>3, <1>6, AccessesAre
  <2>2. \A x \in AccessesIn[m] : x \in b + 1 .. m
    BY <1>3, <2>1
  <2> QED
    BY <1>2, <2>2
<1> QED
  BY <1>4, <1>5, <1>6 DEF Inner

LEMMA SearchedAreAccesses ==
  ASSUME Tree, NEW n \in Nodes
  PROVE  ComponentsOf[n] \cup Arrays(n) \subseteq AccessesIn[n]
<1> DEFINE P(m) == /\ ArraysIn[m] \subseteq AccessesIn[m]
                   /\ \A c \in ComponentsOf[m] : c \in AccessesIn[m]
                                              /\ AccessesIn[c] \subseteq AccessesIn[m]
           Bad == {m \in Nodes : ~P(m)}
<1>1. Bad = {}
  <2>1. SUFFICES ASSUME Bad # {} PROVE FALSE
    OBVIOUS
  <2>2. PICK m \in Bad : \A j \in Bad : m <= j
    <3> HIDE DEF Bad
    <3>1. Bad \subseteq Nat
      BY DEF Bad, Nodes
    <3> QED
      BY <2>1, <3>1, Least
  <2>3. m \in Nodes /\ m \in Nat
    BY <2>2 DEF Nodes
  <2>4. \A j \in Nodes : j \in 1 .. m - 1 => P(j)
    <3> HIDE DEF P
    <3> QED
      BY <2>2, <2>3
  <2>5. CASE IsKind(m, "binary")
    <3> DEFINE l == ast[m].left
               r == ast[m].right
    <3>1. l \in Nodes /\ r \in Nodes /\ l \in 1 .. m - 1 /\ r \in 1 .. m - 1
      BY <2>3, <2>5, Operands DEF Inner
    <3>2. P(l) /\ P(r)
      <4> HIDE DEF P, l, r
      <4> QED
        BY <2>4, <3>1
    <3>3. /\ ComponentsOf[m] = ComponentsOf[l] \cup ComponentsOf[r]
          /\ AccessesIn[m] = AccessesIn[l] \cup AccessesIn[r]
          /\ ArraysIn[m] = {}
      <4>1. ~IsArray(m)
        BY <2>5 DEF IsArray, IsKind
      <4> QED
        BY <2>3, <2>5, <4>1, ComponentsAre, AccessesAre, ArraysAre
    <3> HIDE DEF l, r
    <3> QED
      BY <2>2, <3>2, <3>3
  <2>6. CASE IsArray(m)
    <3>1. \A j \in 1 .. Len(Subscripts[m]) :
            ArraysIn[Subscripts[m][j]] \subseteq AccessesIn[Subscripts[m][j]]
      BY <2>3, <2>4, SubscriptsTyped
    <3>2. /\ ComponentsOf[m] = {m}
          /\ AccessesIn[m] = {m} \cup UNION {AccessesIn[Subscripts[m][j]] :
                                             j \in 1 .. Len(Subscripts[m])}
          /\ ArraysIn[m] = {m} \cup UNION {ArraysIn[Subscripts[m][j]] :
                                           j \in 1 .. Len(Subscripts[m])}
      BY <2>3, <2>6, ComponentsAre, AccessesAre, ArraysAre
    <3>3. ArraysIn[m] \subseteq AccessesIn[m]
      BY <3>1, <3>2
    <3> QED
      BY <2>2, <3>2, <3>3
  <2>7. CASE ~Inner(m)
    <3>1. ArraysIn[m] = {} /\ ComponentsOf[m] = AccessesIn[m] /\ ComponentsOf[m] \subseteq {m}
      BY <2>3, <2>7, ComponentsAre, AccessesAre, ArraysAre DEF Inner
    <3> QED
      BY <2>2, <3>1
  <2> QED
    BY <2>5, <2>6, <2>7 DEF Inner
<1>2. ASSUME NEW m \in Nodes
      PROVE  P(m)
  BY <1>1
<1> HIDE DEF Bad
<1>3. \A c \in ComponentsOf[n] : c \in AccessesIn[n] /\ ArraysIn[c] \subseteq AccessesIn[n]
  <2>1. \A c \in ComponentsOf[n] : c \in Nodes
    BY ComponentsTyped
  <2> QED
    BY <1>2, <2>1
<1> QED
  BY <1>3 DEF Arrays

LEMMA AccessesAreSearched ==
  ASSUME Tree, NEW n \in Nodes
  PROVE  AccessesIn[n] \subseteq ComponentsOf[n] \cup Arrays(n) \cup InSubscripts
<1> DEFINE P(m) == AccessesIn[m] \subseteq ComponentsOf[m] \cup Arrays(m) \cup InSubscripts
           Bad == {m \in Nodes : ~P(m)}
<1>1. SUFFICES ASSUME Bad # {} PROVE FALSE
  OBVIOUS
<1>2. PICK m \in Bad : \A j \in Bad : m <= j
  <2> HIDE DEF Bad
  <2>1. Bad \subseteq Nat
    BY DEF Bad, Nodes
  <2> QED
    BY <1>1, <2>1, Least
<1>3. m \in Nodes /\ m \in Nat
  BY <1>2 DEF Nodes
<1>4. \A j \in Nodes : j \in 1 .. m - 1 => P(j)
  <2> HIDE DEF P
  <2> QED
    BY <1>2, <1>3
<1>5. CASE IsKind(m, "binary")
  <2> DEFINE l == ast[m].left
             r == ast[m].right
  <2>1. l \in Nodes /\ r \in Nodes /\ l \in 1 .. m - 1 /\ r \in 1 .. m - 1
    BY <1>3, <1>5, Operands DEF Inner
  <2>2. P(l) /\ P(r)
    <3> HIDE DEF P, l, r
    <3> QED
      BY <1>4, <2>1
  <2>3. /\ ComponentsOf[m] = ComponentsOf[l] \cup ComponentsOf[r]
        /\ AccessesIn[m] = AccessesIn[l] \cup AccessesIn[r]
    BY <1>3, <1>5, ComponentsAre, AccessesAre
  <2>4. Arrays(m) = Arrays(l) \cup Arrays(r)
    <3> HIDE DEF l, r
    <3> QED
      BY <2>3 DEF Arrays
  <2> HIDE DEF l, r
  <2> QED
    BY <1>2, <2>2, <2>3, <2>4
<1>6. CASE IsArray(m)
  <2>1. /\ ComponentsOf[m] = {m}
        /\ AccessesIn[m] = {m} \cup UNION {AccessesIn[Subscripts[m][j]] :
                                           j \in 1 .. Len(Subscripts[m])}
        /\ ArraysIn[m] = {m} \cup UNION {ArraysIn[Subscripts[m][j]] :
                                         j \in 1 .. Len(Subscripts[m])}
    BY <1>3, <1>6, ComponentsAre, AccessesAre, ArraysAre
  <2>2. ASSUME NEW j \in 1 .. Len(Subscripts[m])
        PROVE  AccessesIn[Subscripts[m][j]] \subseteq ArraysIn[Subscripts[m][j]] \cup InSubscripts
    <3> DEFINE s == Subscripts[m][j]
    <3>1. s \in Nodes /\ s \in 1 .. m - 1
      BY <1>3, SubscriptsTyped
    <3>2. P(s)
      <4> HIDE DEF P, s
      <4> QED
        BY <1>4, <3>1
    <3>3. PICK a \in Nodes : IsArray(a) /\ ast[a].right = s
      BY <1>3, SubscriptsAreRight
    <3> HIDE DEF s
    <3>4. CASE IsArray(s)
      <4>1. ComponentsOf[s] = {s} /\ s \in ArraysIn[s]
        BY <3>1, <3>4, ComponentsAre, ArraysAre
      <4>2. Arrays(s) = ArraysIn[s]
        BY <4>1 DEF Arrays
      <4> QED
        BY <3>2, <4>1, <4>2 DEF s
    <3>5. CASE ~IsArray(s)
      <4>1. a \in {x \in Nodes : IsArray(x) /\ ~IsArray(ast[x].right)}
        BY <3>3, <3>5
      <4>2. AccessesIn[ast[a].right] \subseteq InSubscripts
        BY <4>1 DEF InSubscripts
      <4> QED
        BY <3>3, <4>2 DEF s
    <3> QED
      BY <3>4, <3>5
  <2>3. Arrays(m) = ArraysIn[m]
    BY <2>1 DEF Arrays
  <2> QED
    BY <1>2, <2>1, <2>2, <2>3
<1>7. CASE ~Inner(m)
  <2>1. ComponentsOf[m] = AccessesIn[m]
    BY <1>3, <1>7, ComponentsAre, AccessesAre DEF Inner
  <2> QED
    BY <1>2, <2>1
<1> QED
  BY <1>5, <1>6, <1>7 DEF Inner

(* What is within a subscript that is no array lies between the base of    *)
(* its array and that array; an expression that does not is searched only  *)
(* outside.                                                                *)
Outside(a, n) == n <= ast[a].left \/ a <= n

LEMMA OperandsOutside ==
  ASSUME Tree, OperandsApart, NEW a \in Nodes, IsArray(a),
         NEW n \in Nodes, Inner(n), Outside(a, n)
  PROVE  /\ Outside(a, ast[n].left)
         /\ n # a => Outside(a, ast[n].right)
<1>1. /\ n \in Nat /\ ast[n].left \in 1 .. n - 1 /\ ast[n].right \in 1 .. n - 1
      /\ ast[n].left < ast[n].right
  BY Operands
<1>2. /\ a \in Nat /\ ast[a].left \in 1 .. a - 1 /\ Inner(a)
  BY Operands DEF Inner
<1>3. CASE n <= ast[a].left
  BY <1>1, <1>2, <1>3 DEF Outside
<1>4. CASE n = a
  BY <1>1, <1>2, <1>4 DEF Outside
<1>5. CASE a < n
  <2>1. \A b \in {ast[n].left, ast[n].right} : b < a => b < ast[a].left
    BY <1>2, <1>5 DEF OperandsApart
  <2> QED
    BY <1>1, <1>2, <1>5, <2>1 DEF Outside
<1> QED
  BY <1>1, <1>2, <1>3, <1>4, <1>5 DEF Outside

LEMMA ComponentsOutside ==
  ASSUME Tree, OperandsApart, NEW a \in Nodes, IsArray(a), NEW n \in Nodes, Outside(a, n)
  PROVE  \A c \in ComponentsOf[n] : Outside(a, c)
<1> DEFINE P(m) == Outside(a, m) => \A c \in ComponentsOf[m] : Outside(a, c)
           Bad == {m \in Nodes : ~P(m)}
<1>1. SUFFICES ASSUME Bad # {} PROVE FALSE
  OBVIOUS
<1>2. PICK m \in Bad : \A j \in Bad : m <= j
  <2> HIDE DEF Bad
  <2>1. Bad \subseteq Nat
    BY DEF Bad, Nodes
  <2> QED
    BY <1>1, <2>1, Least
<1>3. m \in Nodes /\ m \in Nat /\ Outside(a, m)
  BY <1>2 DEF Nodes
<1>4. \A j \in Nodes : j \in 1 .. m - 1 => P(j)
  <2> HIDE DEF P
  <2> QED
    BY <1>2, <1>3
<1>5. CASE IsKind(m, "binary")
  <2> DEFINE l == ast[m].left
             r == ast[m].right
  <2>1. l \in Nodes /\ r \in Nodes /\ l \in 1 .. m - 1 /\ r \in 1 .. m - 1
    BY <1>3, <1>5, Operands DEF Inner
  <2>2. m # a
    BY <1>5 DEF IsArray, IsKind
  <2>3. Outside(a, l) /\ Outside(a, r)
    BY <1>3, <1>5, <2>2, OperandsOutside DEF Inner
  <2>4. ComponentsOf[m] = ComponentsOf[l] \cup ComponentsOf[r]
    BY <1>3, <1>5, ComponentsAre
  <2> HIDE DEF l, r
  <2>5. P(l) /\ P(r)
    <3> HIDE DEF P
    <3> QED
      BY <1>4, <2>1
  <2> QED
    BY <1>2, <2>3, <2>4, <2>5
<1>6. CASE ~IsKind(m, "binary")
  <2>1. ComponentsOf[m] \subseteq {m}
    BY <1>3, <1>6, ComponentsAre DEF Inner
  <2> QED
    BY <1>2, <1>3, <2>1
<1> QED
  BY <1>5, <1>6

LEMMA ArraysOutside ==
  ASSUME Tree, OperandsApart, NEW a \in Nodes, IsArray(a), ~IsArray(ast[a].right),
         NEW n \in Nodes, Outside(a, n)
  PROVE  \A c \in ArraysIn[n] : Outside(a, c)
<1> DEFINE P(m) == Outside(a, m) => \A c \in ArraysIn[m] : Outside(a, c)
           Bad == {m \in Nodes : ~P(m)}
<1>1. SUFFICES ASSUME Bad # {} PROVE FALSE
  OBVIOUS
<1>2. PICK m \in Bad : \A j \in Bad : m <= j
  <2> HIDE DEF Bad
  <2>1. Bad \subseteq Nat
    BY DEF Bad, Nodes
  <2> QED
    BY <1>1, <2>1, Least
<1>3. m \in Nodes /\ m \in Nat /\ Outside(a, m)
  BY <1>2 DEF Nodes
<1>4. \A j \in Nodes : j \in 1 .. m - 1 => P(j)
  <2> HIDE DEF P
  <2> QED
    BY <1>2, <1>3
<1>5. IsArray(m)
  <2>1. ~IsArray(m) => ArraysIn[m] = {}
    BY <1>3, ArraysAre
  <2> QED
    BY <1>2, <2>1
<1> DEFINE l == ast[m].left
           r == ast[m].right
<1>6. l \in Nodes /\ r \in Nodes /\ l \in 1 .. m - 1 /\ r \in 1 .. m - 1
  BY <1>3, <1>5, Operands DEF Inner
<1>7. Outside(a, l) /\ (m # a => Outside(a, r))
  BY <1>3, <1>5, OperandsOutside DEF Inner
<1>8. /\ Subscripts[m] = Append(Subscripts[l], r)
      /\ ~IsArray(l) => Len(Subscripts[l]) = 0
      /\ Subscripts[l] \in Seq(Nodes) /\ Len(Subscripts[l]) \in Nat
  <2>1. Subscripts[m] = Append(Subscripts[l], r)
    BY <1>3, <1>5, SubscriptsOf
  <2> HIDE DEF l, r
  <2>2. ~IsArray(l) => Len(Subscripts[l]) = 0
    BY <1>6, SubscriptsOf
  <2> QED
    BY <1>6, <2>1, <2>2, SubscriptsTyped
<1>9. ArraysIn[m] = {m} \cup UNION {ArraysIn[Subscripts[m][j]] : j \in 1 .. Len(Subscripts[m])}
  BY <1>3, <1>5, ArraysAre
<1>10. IsArray(l) =>
         ArraysIn[l] = {l} \cup UNION {ArraysIn[Subscripts[l][j]] : j \in 1 .. Len(Subscripts[l])}
  BY <1>6, ArraysAre
<1>11. \A c \in ArraysIn[r] : Outside(a, c)
  <2>1. CASE m = a
    <3>1. ArraysIn[r] = {}
      BY <1>6, <2>1, ArraysAre
    <3> QED
      BY <3>1
  <2>2. CASE m # a
    <3>1. P(r)
      <4> HIDE DEF P, r
      <4> QED
        BY <1>4, <1>6
    <3> QED
      BY <1>7, <2>2, <3>1
  <2> QED
    BY <2>1, <2>2
<1>12. \A c \in ArraysIn[l] : Outside(a, c)
  <2>1. P(l)
    <3> HIDE DEF P, l
    <3> QED
      BY <1>4, <1>6
  <2> QED
    BY <1>7, <2>1
<1> DEFINE k == Len(Subscripts[l])
<1>13. /\ Len(Subscripts[m]) = k + 1 /\ Subscripts[m][k + 1] = r
       /\ \A j \in 1 .. k : Subscripts[m][j] = Subscripts[l][j]
  <2> HIDE DEF l, r
  <2> QED
    BY <1>6, <1>8, AppendProperties
<1> HIDE DEF l, r
<1>14. ASSUME NEW j \in 1 .. k + 1, NEW c \in ArraysIn[Subscripts[m][j]]
       PROVE  Outside(a, c)
  <2>1. CASE j = k + 1
    BY <1>11, <1>13, <1>14, <2>1
  <2>2. CASE j \in 1 .. k
    <3>1. IsArray(l) /\ c \in ArraysIn[Subscripts[l][j]]
      BY <1>8, <1>13, <1>14, <2>2
    <3> QED
      BY <1>10, <1>12, <2>2, <3>1
  <2> QED
    BY <1>8, <2>1, <2>2
<1>15. \A c \in ArraysIn[m] : Outside(a, c)
  <2> HIDE DEF k
  <2> QED
    BY <1>3, <1>9, <1>13, <1>14
<1> QED
  BY <1>2, <1>15

LEMMA RootsSearched ==
  ASSUME IInv, TreeShape, NEW i \in 1 .. Len(roots)
  PROVE  Searched(roots[i]) = SpacesIn(roots[i]) \ InSubscripts
<1> DEFINE n == roots[i]
<1>1. Tree /\ OperandsApart /\ n \in Nodes /\ Above(n, Len(ast))
  BY TreeHolds, RootsTyped DEF TreeShape
<1> HIDE DEF n
<1>2. ComponentsOf[n] \cup Arrays(n) \subseteq AccessesIn[n]
  BY <1>1, SearchedAreAccesses
<1>3. AccessesIn[n] \subseteq ComponentsOf[n] \cup Arrays(n) \cup InSubscripts
  BY <1>1, AccessesAreSearched
<1>4. ASSUME NEW x \in ComponentsOf[n] \cup Arrays(n), x \in InSubscripts
      PROVE  FALSE
  <2>1. PICK a \in Nodes : IsArray(a) /\ ~IsArray(ast[a].right) /\ x \in AccessesIn[ast[a].right]
    BY <1>4 DEF InSubscripts
  <2>2. /\ a \in Nat /\ a <= Len(ast) /\ Len(ast) \in Nat /\ Inner(a)
        /\ ast[a].left \in 1 .. a - 1 /\ ast[a].right \in 1 .. a - 1
        /\ ast[a].right \in Nodes /\ ast[a].left \in Nodes
        /\ ast[a].left < ast[a].right /\ Above(ast[a].left, ast[a].right)
    BY <1>1, <2>1, Operands DEF Inner
  <2>3. x \in ast[a].left + 1 .. ast[a].right
    <3>1. ast[a].left \in Nat
      BY <2>2
    <3> QED
      BY <1>1, <2>1, <2>2, <3>1, AccessesAbove
  <2>4. Outside(a, n)
    <3>1. n \in Nat
      BY <1>1 DEF Nodes
    <3>2. n < a => n < ast[a].left
      BY <1>1, <2>2 DEF Above
    <3> QED
      BY <2>2, <3>1, <3>2 DEF Outside
  <2>5. Outside(a, x)
    <3>1. CASE x \in ComponentsOf[n]
      BY <1>1, <2>1, <2>4, <3>1, ComponentsOutside
    <3>2. CASE x \in Arrays(n)
      <4>1. PICK c \in ComponentsOf[n] : x \in ArraysIn[c]
        BY <3>2 DEF Arrays
      <4>2. c \in Nodes /\ Outside(a, c)
        BY <1>1, <2>1, <2>4, ComponentsOutside, ComponentsTyped
      <4> QED
        BY <1>1, <2>1, <4>1, <4>2, ArraysOutside
    <3> QED
      BY <1>4, <3>1, <3>2
  <2> QED
    BY <2>2, <2>3, <2>5 DEF Outside
<1> QED
  BY <1>2, <1>3, <1>4 DEF Searched, SpacesIn, n

LEMMA AccessesRight ==
  ASSUME AInv, status = "done"
  PROVE  AccessesAreOfTheTree
<1> DEFINE l == roots[1]
           r == roots[2]
<1>1. IInv /\ TreeShape /\ Len(roots) = 2 /\ roots \in Seq(Nodes)
  BY DEF AInv, WorkOK, IInv, TypeOK
<1>2. Searched(l) = SpacesIn(l) \ InSubscripts /\ Searched(r) = SpacesIn(r) \ InSubscripts
  <2>1. 1 \in 1 .. Len(roots) /\ 2 \in 1 .. Len(roots)
    BY <1>1
  <2> QED
    BY <1>1, <2>1, RootsSearched
<1>3. ToSet(roots) = {l, r}
  <2>1. DOMAIN roots = {1, 2}
    BY <1>1
  <2> QED
    BY <2>1 DEF ToSet
<1>4. Searched(l) \cup Searched(r) = Spaces(ToSet(roots)) \ InSubscripts
  BY <1>2, <1>3 DEF Spaces
<1>5. use \in {"assign", "declare", "condition"}
  BY SearchedRecorded
<1>6. use = "assign" =>
        AreAccessesOf(stmtDataAccesses, Spaces(ToSet(roots)) \ InSubscripts, roots[1])
  BY <1>4, SearchedRecorded
<1> DEFINE n == Len(stmtDataAccesses)
           reads == IF IsSpace(roots[1]) THEN SubSeq(stmtDataAccesses, 1, n - 1)
                                         ELSE stmtDataAccesses
<1>7. use = "declare" =>
        /\ IsSpace(roots[1]) => n > 0 /\ stmtDataAccesses[n] = DeclaredAccess
        /\ AreAccessesOf(reads, SpacesIn(roots[2]) \ InSubscripts, 0)
  BY <1>2, SearchedRecorded
<1>8. use = "condition" => n = 0
  BY SearchedRecorded
<1> QED
  BY <1>6, <1>7, <1>8 DEF AccessesAreOfTheTree, DeclaredAccess

-------------------------------------------------------------------------------
(* Whatever the expressions, the nesting of their subscripts and the       *)
(* iterators around: the accesses recorded for a statement are those of    *)
(* data spaces its expressions make but for what is within a subscript     *)
(* that is no array, each once and in the order they are evaluated, all    *)
(* reads but that of the array assigned, that of the variable declared     *)
(* last (DataAccessHandler.cpp, processAsReads and processAsWrite).        *)
THEOREM TreeAccesses == Spec => []AccessesAreOfTheTree
<1>1. AInv => AccessesAreOfTheTree
  BY AccessesRight DEF AccessesAreOfTheTree
<1> QED
  BY <1>1, AInvariance, PTL

(* For any MAX_ARRAY_DIM: an expression is refused only if it has an array *)
(* of more dimensions, a call or an expression of no kind the code splits  *)
(* up, and no access recorded has more dimensions (getArrayExprInfo,       *)
(* collectComponentsFromCompoundExpr).                                     *)
THEOREM DimensionsLimited == Spec => []DimensionLimit
<1>1. ASSUME AInv PROVE DimensionLimit
  <2>1. status = "exit" =>
          \E n \in Nodes : ast[n].kind \in {"call", "other"} \/ Len(Subscripts[n]) > MaxArrayDim
    BY <1>1 DEF AInv, WorkOK, ExitOK
  <2>2. CASE status = "parsing"
    <3>1. Len(stmtDataAccesses) = 0
      BY <1>1, <2>2, EmptySeq DEF AInv, IInv, StageOK
    <3> QED
      BY <2>1, <3>1 DEF DimensionLimit
  <2>3. CASE status # "parsing"
    BY <1>1, <2>1, <2>3 DEF AInv, WorkOK, RecordedOK, EntriesOK, DimensionLimit
  <2> QED
    BY <2>2, <2>3
<1> QED
  BY <1>1, AInvariance, PTL

(* Two walks over a loop's condition agree: every array that               *)
(* makeAndInsertConstraint prints as a call is of a name enterFor adds to  *)
(* the loop's invariants.                                                  *)
THEOREM CalledAreInvariant == Spec => []CalledArraysAreInvariant
<1>1. AInv => CalledArraysAreInvariant
  BY CollectedRight DEF CalledArraysAreInvariant
<1> QED
  BY <1>1, AInvariance, PTL
===============================================================================
