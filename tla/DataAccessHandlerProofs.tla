------------------------ MODULE DataAccessHandlerProofs ------------------------
(***************************************************************************)
(* For any expressions and any MAX_ARRAY_DIM: toString finds every         *)
(* sub-access it prints.                                                   *)
(***************************************************************************)
EXTENDS DataAccessHandler, SequenceTheorems, FiniteSetTheorems, TLAPS

-------------------------------------------------------------------------------
(* The inductive invariant.  What the parser guarantees of a tree.         *)
TreeOK ==
  \A n \in Nodes :
    /\ IsKind(n, "ref") => ast[n].name \in Names
    /\ IsKind(n, "binary") \/ IsArray(n) => ast[n].left \in Nodes /\ ast[n].right \in Nodes
    /\ IsArray(n) => IsArray(ast[n].left) \/ IsKind(ast[n].left, "ref")

(* What is only there at some stages of the work. *)
StageOK ==
  /\ status = "parsing" =>
       /\ todo = << >> /\ frames = << >> /\ accesses = << >> /\ unprinted = << >>
       /\ stmtDataAccesses = << >> /\ described = 0 /\ printed = {}
  /\ status \in {"making", "made", "printing"} => todo # << >>
  /\ status = "making" <=> frames # << >> /\ status # "exit"
  /\ status = "made" /\ Head(todo).end = "text" => accesses # << >>

(* Accesses are asked for of arrays, of variables and of what else may be  *)
(* assigned, texts only of arrays.                                         *)
Single(n) == ast[n].kind \in {"ref", "other"}
TaskSet == [do : {"collect", "access", "declare"}, expr : Nodes,
            end : {"read", "write", "text", "invariant"}]
Tasks ==
  {t \in TaskSet :
     /\ t.do = "access" => IsArray(t.expr) \/ (Single(t.expr) /\ t.end # "text")
     /\ t.do = "declare" => IsKind(t.expr, "ref")}
TasksOK == todo \in Seq(Tasks)

(* An activation that has called another is at the index that is handled   *)
(* there.                                                                  *)
FrameSet == [expr : Nodes, isRead : BOOLEAN, at : Nodes \cup {0}, base : Nodes,
             info : Seq(Nodes), indexes : Seq(Nodes)]
Activations ==
  {f \in FrameSet : /\ f.at # 0 => IsArray(f.at)
                    /\ f.at = 0 => IsKind(f.base, "ref")}
Calls(f, g) == f.at = 0 /\ f.info # << >> /\ g.expr = f.info[Len(f.info)]

FramesOK ==
  /\ frames \in Seq(Activations)
  /\ \A m \in 1 .. Len(frames) : m < Len(frames) => Calls(frames[m], frames[m + 1])

(* The sub-accesses among the indexes an activation has taken, an access   *)
(* has or toString is to print have been made.                             *)
FoundIn(n, made) == \E i \in 1 .. Len(made) : made[i].sourceId = n
AllFound(indexes, made) ==
  \A j \in 1 .. Len(indexes) : IsArray(indexes[j]) => FoundIn(indexes[j], made)

SubAccessesMade ==
  /\ \A m \in 1 .. Len(frames) : AllFound(frames[m].indexes, accesses)
  /\ status \in {"making", "made", "printing"} /\ Head(todo).end = "text" =>
       \A i \in 1 .. Len(accesses) : AllFound(accesses[i].indexes, accesses)
  /\ status = "printing" => Head(todo).end = "text" /\ AllFound(unprinted, accesses)

IInv ==
  /\ TypeOK
  /\ TreeOK
  /\ StageOK
  /\ TasksOK
  /\ FramesOK
  /\ SubAccessesMade
  /\ StringifyNeverFails

LEMMA InitKeeps == Init => IInv
<1> SUFFICES ASSUME Init PROVE IInv
  OBVIOUS
<1>1. Len(ast) = 0 /\ Nodes = {}
  BY DEF Init, Nodes
<1>2. TypeOK
  BY <1>1 DEF Init, TypeOK
<1> QED
  BY <1>1, <1>2 DEF Init, IInv, TreeOK, StageOK, TasksOK, FramesOK, SubAccessesMade,
                    StringifyNeverFails

-------------------------------------------------------------------------------
(* The parser puts a node behind the others. *)
LEMMA ParsedKeeps ==
  ASSUME IInv, NEW node \in NodeSet, NEW rest \in Seq(Nodes), Parsed(node, rest),
         node.kind = "ref" => node.name \in Names,
         node.kind \in {"binary", "array"} => node.left \in Nodes /\ node.right \in Nodes,
         node.kind = "array" => IsArray(node.left) \/ IsKind(node.left, "ref")
  PROVE  IInv'
<1> DEFINE n == Len(ast) + 1
<1>1. TypeOK /\ TreeOK /\ StageOK /\ status = "parsing"
  BY DEF IInv, Parsed
<1>2. /\ ast \in Seq(NodeSet) /\ ast' = Append(ast, node) /\ roots' = Append(rest, n)
      /\ UNCHANGED <<use, todo, frames, accesses, results, unprinted, status>>
  BY <1>1 DEF TypeOK, Parsed
<1>3. /\ ast' \in Seq(NodeSet) /\ Len(ast') = n /\ n \in Nat \ {0} /\ ast'[n] = node
      /\ \A m \in Nodes : ast'[m] = ast[m]
  BY <1>2, AppendProperties DEF Nodes
<1>4. Nodes' = Nodes \cup {n} /\ n \notin Nodes
  BY <1>2, <1>3 DEF Nodes
<1>5. roots' \in Seq(Nodes')
  <2>1. rest \in Seq(Nodes')
    BY <1>4, SeqMonotonic
  <2> QED
    BY <1>2, <1>4, <2>1, AppendProperties
<1>6. TypeOK'
  BY <1>1, <1>2, <1>3, <1>5 DEF TypeOK, StageOK, results, NodeSet, Leaves
<1>7. TreeOK'
  <2>1. ASSUME NEW m \in Nodes'
        PROVE  /\ ast'[m].kind = "ref" => ast'[m].name \in Names
               /\ ast'[m].kind \in {"binary", "array"} =>
                    ast'[m].left \in Nodes /\ ast'[m].right \in Nodes
               /\ ast'[m].kind = "array" => ast'[ast'[m].left].kind \in {"array", "ref"}
    <3>1. CASE m = n
      BY <1>3, <3>1 DEF IsArray, IsKind
    <3>2. CASE m \in Nodes
      BY <1>1, <1>3, <3>2 DEF TreeOK, IsArray, IsKind
    <3> QED
      BY <1>4, <3>1, <3>2
  <2> QED
    BY <1>4, <2>1 DEF TreeOK, IsArray, IsKind
<1> QED
  BY <1>1, <1>2, <1>6, <1>7
     DEF IInv, StageOK, results, TasksOK, FramesOK, Calls, SubAccessesMade, StringifyNeverFails

LEMMA ParseLeafKeeps ==
  ASSUME IInv, NEW leaf \in Leaves, ParseLeaf(leaf)
  PROVE  IInv'
<1>1. roots \in Seq(Nodes)
  BY DEF IInv, TypeOK
<1>2. leaf \in NodeSet
  BY DEF NodeSet
<1>3. leaf.kind = "ref" => leaf.name \in Names
  BY DEF Leaves
<1>4. leaf.kind \notin {"binary", "array"}
  BY DEF Leaves
<1> QED
  BY <1>1, <1>2, <1>3, <1>4, ParsedKeeps DEF ParseLeaf

LEMMA ParseInnerKeeps ==
  ASSUME IInv, NEW kind \in {"binary", "array"}, ParseInner(kind)
  PROVE  IInv'
<1> DEFINE n == Len(roots)
           node == [kind |-> kind, left |-> roots[n - 1], right |-> roots[n]]
           rest == SubSeq(roots, 1, n - 2)
<1>1. roots \in Seq(Nodes) /\ n \in Nat /\ n >= 2
  BY DEF IInv, TypeOK, ParseInner
<1>2. n - 1 \in 1 .. n /\ n \in 1 .. n
  BY <1>1
<1>3. roots[n - 1] \in Nodes /\ roots[n] \in Nodes
  BY <1>1, <1>2, ElementOfSeq
<1>4. rest \in Seq(Nodes)
  <2>1. \A i \in 1 .. n - 2 : roots[i] \in Nodes
    BY <1>1
  <2> QED
    BY <1>1, <2>1, SubSeqProperties
<1>5. node \in NodeSet
  BY <1>3 DEF NodeSet, Nodes
<1>6. kind = "array" => IsArray(roots[n - 1]) \/ IsKind(roots[n - 1], "ref")
  BY DEF ParseInner
<1>7. Parsed(node, rest)
  BY DEF ParseInner
<1>8. node.kind = kind /\ node.left = roots[n - 1] /\ node.right = roots[n]
  OBVIOUS
<1> HIDE DEF node, rest, n
<1> QED
  BY <1>3, <1>4, <1>5, <1>6, <1>7, <1>8, ParsedKeeps

-------------------------------------------------------------------------------
(* The tasks.  Between two of them nothing of the last is left. *)
LEMMA NextTask ==
  ASSUME IInv, status \notin {"making", "exit"}, status' = "collecting",
         todo' \in Seq(Tasks),
         use' \in {"none", "assign", "declare", "condition"},
         UNCHANGED <<ast, roots, frames, accesses, unprinted>>,
         stmtDataAccesses' \in Seq(DataAccessSet(Nodes \cup {0})),
         described' \in 0 .. Len(stmtDataAccesses'),
         newInvariants' \subseteq Names, printed' \subseteq Nodes,
         replacementVarNumber' \in Nat
  PROVE  IInv'
<1>1. TypeOK /\ TreeOK /\ StageOK /\ frames = << >>
  BY DEF IInv, StageOK
<1>2. Nodes' = Nodes /\ NodeSet' = NodeSet
  BY DEF Nodes, NodeSet, Leaves
<1>3. Tasks' = Tasks
  BY <1>2 DEF Tasks, TaskSet, IsArray, IsKind, Single
<1>4. TreeOK' /\ TasksOK'
  BY <1>1, <1>2, <1>3 DEF TreeOK, TasksOK, IsArray, IsKind
<1>5. todo' \in Seq(TaskSet)
  <2>1. Tasks \subseteq TaskSet
    BY DEF Tasks
  <2> QED
    BY <2>1, SeqMonotonic
<1>6. TypeOK'
  BY <1>1, <1>2, <1>5 DEF TypeOK, TaskSet, DataAccessSet
<1>7. StageOK' /\ FramesOK' /\ SubAccessesMade' /\ StringifyNeverFails'
  BY <1>1 DEF StageOK, FramesOK, SubAccessesMade, StringifyNeverFails
<1> QED
  BY <1>4, <1>6, <1>7 DEF IInv

LEMMA AtTask ==
  ASSUME IInv, todo # << >>
  PROVE  /\ Head(todo) \in Tasks /\ Tail(todo) \in Seq(Tasks)
         /\ Head(todo).expr \in Nodes
         /\ Head(todo).end \in {"read", "write", "text", "invariant"}
<1>1. Head(todo) \in Tasks /\ Tail(todo) \in Seq(Tasks)
  BY HeadTailProperties DEF IInv, TasksOK
<1> QED
  BY <1>1 DEF Tasks, TaskSet

LEMMA ResultsTyped ==
  ASSUME IInv
  PROVE  /\ stmtDataAccesses \in Seq(DataAccessSet(Nodes \cup {0}))
         /\ described \in 0 .. Len(stmtDataAccesses)
         /\ newInvariants \subseteq Names /\ printed \subseteq Nodes
         /\ replacementVarNumber \in Nat
         /\ use \in {"none", "assign", "declare", "condition"}
  BY DEF IInv, TypeOK

LEMMA TasksTyped ==
  ASSUME NEW n \in Nodes, NEW end \in {"read", "write", "text", "invariant"}
  PROVE  /\ Collected(n, end) \in Tasks
         /\ IsArray(n) \/ (Single(n) /\ end # "text") => Accessed(n, end) \in Tasks
         /\ IsKind(n, "ref") => Declared(n) \in Tasks
  BY DEF Collected, Accessed, Declared, Tasks, TaskSet, IsKind

LEMMA BeginKeeps ==
  ASSUME IInv, NEW what \in {"assign", "declare", "condition"}, Begin(what)
  PROVE  IInv'
<1> DEFINE l == roots[1]
           r == roots[2]
<1>1. roots \in Seq(Nodes) /\ 1 \in 1 .. Len(roots) /\ 2 \in 1 .. Len(roots)
  BY DEF IInv, TypeOK, Begin
<1>2. l \in Nodes /\ r \in Nodes
  BY <1>1, ElementOfSeq
<1>3. /\ what = "assign" => IsArray(l) \/ Single(l)
      /\ what = "declare" => IsKind(l, "ref")
  BY DEF Begin, Single
<1>4. /\ todo' = Work(what, l, r) /\ status = "parsing" /\ status' = "collecting"
      /\ use' = what /\ UNCHANGED <<ast, roots, frames, accesses, results, unprinted>>
  BY DEF Begin
<1> HIDE DEF l, r
<1>5. todo' \in Seq(Tasks)
  <2>1. /\ \A end \in {"read", "write", "text", "invariant"} :
             Collected(l, end) \in Tasks /\ Collected(r, end) \in Tasks
        /\ IsArray(l) \/ Single(l) => Accessed(l, "write") \in Tasks
        /\ IsKind(l, "ref") => Declared(l) \in Tasks
    BY <1>2, TasksTyped
  <2>2. CASE what = "assign"
    BY <1>3, <1>4, <2>1, <2>2 DEF Work
  <2>3. CASE what = "declare"
    BY <1>3, <1>4, <2>1, <2>3 DEF Work
  <2>4. CASE what = "condition"
    BY <1>4, <2>1, <2>4 DEF Work
  <2> QED
    BY <2>2, <2>3, <2>4
<1> QED
  BY <1>4, <1>5, NextTask, ResultsTyped DEF results

(* Where the program ends. *)
LEMMA StopKeeps ==
  ASSUME IInv, NEW how \in {"done", "exit"}, how = "done" => frames = << >>,
         Stop(how)
  PROVE  IInv'
<1>1. TypeOK /\ TreeOK /\ StageOK /\ TasksOK /\ FramesOK /\ SubAccessesMade
  BY DEF IInv
<1>2. UNCHANGED <<ast, roots, use, todo, frames, accesses, unprinted>> /\ status' = how
  BY DEF Stop, tree
<1>3. Nodes' = Nodes /\ NodeSet' = NodeSet
  BY <1>2 DEF Nodes, NodeSet, Leaves
<1>4. TypeOK'
  <2>1. UNCHANGED results /\ how \in {"done", "exit"}
    BY DEF Stop
  <2> QED
    BY <1>1, <1>2, <1>3, <2>1 DEF TypeOK, DataAccessSet, results
<1>5. TreeOK' /\ TasksOK' /\ FramesOK'
  <2>1. TreeOK'
    BY <1>1, <1>2, <1>3 DEF TreeOK, IsArray, IsKind
  <2>2. TasksOK'
    BY <1>1, <1>2, <1>3 DEF TasksOK, Tasks, TaskSet, IsArray, IsKind, Single
  <2>3. FramesOK'
    BY <1>1, <1>2, <1>3 DEF FramesOK, Activations, FrameSet, Calls, IsArray, IsKind
  <2> QED
    BY <2>1, <2>2, <2>3
<1>6. StageOK' /\ SubAccessesMade' /\ StringifyNeverFails'
  BY <1>1, <1>2 DEF StageOK, SubAccessesMade, AllFound, FoundIn, IsArray, IsKind,
                    StringifyNeverFails
<1> QED
  BY <1>4, <1>5, <1>6 DEF IInv

LEMMA CollectKeeps ==
  ASSUME IInv, Collect
  PROVE  IInv'
<1> DEFINE t == Head(todo)
<1>1. status = "collecting" /\ todo # << >>
  BY DEF Collect, Doing
<1>2. /\ t.expr \in Nodes /\ t.end \in {"read", "write", "text", "invariant"}
      /\ Tail(todo) \in Seq(Tasks)
  BY <1>1, AtTask
<1>3. CASE Stop("exit")
  BY <1>3, StopKeeps
<1>4. CASE ~Stop("exit")
  <2>1. /\ todo' = Components(t) \o Tail(todo)
        /\ UNCHANGED <<tree, frames, accesses, results, unprinted, status>>
    BY <1>4 DEF Collect
  <2> HIDE DEF t
  <2>2. Components(t) \in Seq(Tasks)
    <3>1. CASE ast[t.expr].kind = "binary"
      <4>1. ast[t.expr].left \in Nodes /\ ast[t.expr].right \in Nodes
        BY <1>2, <3>1 DEF IInv, TreeOK, IsKind
      <4>2. Components(t) = << Collected(ast[t.expr].left, t.end),
                               Collected(ast[t.expr].right, t.end) >>
        <5>1. IsKind(t.expr, "binary") /\ ~IsArray(t.expr) /\ ~IsKind(t.expr, "ref")
          BY <3>1 DEF IsArray, IsKind
        <5> QED
          BY <5>1, Zenon DEF Components
      <4>3. /\ Collected(ast[t.expr].left, t.end) \in Tasks
            /\ Collected(ast[t.expr].right, t.end) \in Tasks
        BY <1>2, <4>1, TasksTyped
      <4> QED
        BY <4>2, <4>3
    <3>2. CASE ast[t.expr].kind = "array" \/ (ast[t.expr].kind = "ref" /\ t.end # "text")
      <4>1. Components(t) = << Accessed(t.expr, t.end) >>
        BY <3>2 DEF Components, IsArray, IsKind
      <4>2. Accessed(t.expr, t.end) \in Tasks
        BY <1>2, <3>2, TasksTyped DEF IsArray, IsKind, Single
      <4> QED
        BY <4>1, <4>2
    <3>3. CASE /\ ast[t.expr].kind \notin {"binary", "array"}
               /\ ~(ast[t.expr].kind = "ref" /\ t.end # "text")
      <4>1. Components(t) = << >>
        BY <3>3 DEF Components, IsArray, IsKind
      <4> QED
        BY <4>1
    <3> QED
      BY <3>1, <3>2, <3>3
  <2>3. todo' \in Seq(Tasks)
    BY <1>2, <2>1, <2>2, ConcatProperties
  <2> QED
    BY <1>1, <2>1, <2>3, NextTask, ResultsTyped DEF tree, results
<1> QED
  BY <1>3, <1>4

LEMMA TaskDone ==
  ASSUME IInv, status \in {"collecting", "made", "printing"}, todo # << >>, Done,
         UNCHANGED <<tree, frames, accesses, described, replacementVarNumber, unprinted>>,
         stmtDataAccesses' \in Seq(DataAccessSet(Nodes \cup {0})),
         Len(stmtDataAccesses') >= Len(stmtDataAccesses),
         newInvariants' \subseteq Names, printed' \subseteq Nodes
  PROVE  IInv'
<1>1. Tail(todo) \in Seq(Tasks)
  BY AtTask
<1>2. described' \in 0 .. Len(stmtDataAccesses')
  <2>1. /\ described \in 0 .. Len(stmtDataAccesses) /\ Len(stmtDataAccesses) \in Nat
        /\ Len(stmtDataAccesses') \in Nat
    BY ResultsTyped
  <2> QED
    BY <2>1
<1> QED
  BY <1>1, <1>2, NextTask, ResultsTyped DEF Done, tree

LEMMA EndRecordKeeps ==
  ASSUME IInv, EndRecord
  PROVE  IInv'
<1>1. todo # << >> /\ Done /\ UNCHANGED <<tree, frames, accesses, results, unprinted>>
  BY DEF IInv, StageOK, EndRecord, Made
<1>2. Len(stmtDataAccesses) \in Nat
  BY ResultsTyped
<1> QED
  BY <1>1, <1>2, TaskDone, ResultsTyped DEF EndRecord, Made, results

LEMMA EndToStringKeeps ==
  ASSUME IInv, EndToString
  PROVE  IInv'
<1>1. todo # << >> /\ Done /\ UNCHANGED <<tree, frames, accesses, results, unprinted>>
  BY DEF IInv, StageOK, EndToString
<1>2. Len(stmtDataAccesses) \in Nat
  BY ResultsTyped
<1> QED
  BY <1>1, <1>2, TaskDone, ResultsTyped DEF EndToString, results

LEMMA RecordDeclaredKeeps ==
  ASSUME IInv, RecordDeclared
  PROVE  IInv'
<1> DEFINE n == Head(todo).expr
           a == [name |-> ast[n].name, sourceId |-> 0, isRead |-> FALSE, indexes |-> << >>]
<1>1. /\ todo # << >> /\ status = "collecting" /\ Head(todo).do = "declare"
      /\ stmtDataAccesses' \in {stmtDataAccesses, Append(stmtDataAccesses, a)} /\ Done
      /\ UNCHANGED <<tree, frames, accesses, described, newInvariants, printed,
                     replacementVarNumber, unprinted>>
  BY DEF RecordDeclared, Doing
<1>2. n \in Nodes /\ IsKind(n, "ref")
  BY <1>1, AtTask DEF Tasks
<1>3. ast[n].name \in Names
  BY <1>2 DEF IInv, TreeOK
<1>4. a \in DataAccessSet(Nodes \cup {0})
  BY <1>3 DEF DataAccessSet
<1> HIDE DEF a, n
<1>5. /\ stmtDataAccesses' \in Seq(DataAccessSet(Nodes \cup {0}))
      /\ Len(stmtDataAccesses') >= Len(stmtDataAccesses)
  BY <1>1, <1>4, ResultsTyped, AppendProperties
<1> QED
  BY <1>1, <1>5, TaskDone, ResultsTyped

LEMMA AddInvariantsKeeps ==
  ASSUME IInv, AddInvariants
  PROVE  IInv'
<1>1. /\ todo # << >> /\ status = "made" /\ Done
      /\ newInvariants' = newInvariants \cup AccessNames
      /\ UNCHANGED <<tree, frames, accesses, stmtDataAccesses, described, printed,
                     replacementVarNumber, unprinted>>
  BY DEF IInv, StageOK, AddInvariants, Made
<1>2. AccessNames \subseteq Names
  <2>1. accesses \in Seq(DataAccessSet(Nodes))
    BY DEF IInv, TypeOK
  <2>2. ASSUME NEW i \in 1 .. Len(accesses)
        PROVE  accesses[i].name \in Names
    <3>1. accesses[i] \in DataAccessSet(Nodes)
      BY <2>1
    <3> QED
      BY <3>1 DEF DataAccessSet
  <2> QED
    BY <2>2 DEF AccessNames
<1>3. Len(stmtDataAccesses) \in Nat
  BY ResultsTyped
<1> QED
  BY <1>1, <1>2, <1>3, TaskDone, ResultsTyped

LEMMA DescribeKeeps ==
  ASSUME IInv, Describe
  PROVE  IInv'
<1> DEFINE a == stmtDataAccesses[described + 1]
           texts == [i \in 1 .. Len(a.indexes) |-> Collected(a.indexes[i], "text")]
           replaced == {i \in 1 .. Len(a.indexes) : ~IsKind(a.indexes[i], "ref")}
<1>1. /\ status = "collecting" /\ status' = "collecting"
      /\ described < Len(stmtDataAccesses) /\ described' = described + 1
      /\ todo' = texts
      /\ replacementVarNumber' = replacementVarNumber + Cardinality(replaced)
      /\ UNCHANGED <<tree, frames, accesses, stmtDataAccesses, newInvariants, printed,
                     unprinted>>
  BY DEF Describe
<1>2. a \in DataAccessSet(Nodes \cup {0}) /\ described' \in 0 .. Len(stmtDataAccesses')
  BY <1>1, ResultsTyped
<1>3. a.indexes \in Seq(Nodes) /\ Len(a.indexes) \in Nat
  BY <1>2 DEF DataAccessSet
<1>4. texts \in Seq(Tasks)
  <2>1. \A i \in 1 .. Len(a.indexes) : Collected(a.indexes[i], "text") \in Tasks
    BY <1>3, TasksTyped
  <2> QED
    BY <1>3, <2>1
<1>5. replacementVarNumber' \in Nat
  <2>1. IsFiniteSet(1 .. Len(a.indexes))
    BY <1>3, FS_Interval
  <2>2. IsFiniteSet(replaced)
    BY <2>1, FS_Subset
  <2>3. Cardinality(replaced) \in Nat
    BY <2>2, FS_CardinalityType
  <2> QED
    BY <1>1, <2>3, ResultsTyped
<1> HIDE DEF texts, replaced, a
<1> QED
  BY <1>1, <1>2, <1>4, <1>5, NextTask, ResultsTyped DEF tree

-------------------------------------------------------------------------------
(* The activations.  What is left to see of a step that leaves everything  *)
(* but them and the accesses as it is.                                     *)
LEMMA GoesOn ==
  ASSUME IInv, UNCHANGED <<tree, todo, results, unprinted>>, todo # << >>,
         status' \in {"making", "made"}, status' = "making" <=> frames' # << >>,
         accesses' \in Seq(DataAccessSet(Nodes)),
         status' = "made" /\ Head(todo).end = "text" => accesses' # << >>,
         FramesOK', SubAccessesMade'
  PROVE  IInv'
<1>1. TypeOK /\ TreeOK /\ StageOK /\ TasksOK
  BY DEF IInv
<1>2. UNCHANGED <<ast, roots, use, todo, results, unprinted>>
  BY DEF tree
<1>3. Nodes' = Nodes /\ NodeSet' = NodeSet
  BY <1>2 DEF Nodes, NodeSet, Leaves
<1>4. frames' \in Seq(FrameSet')
  <2>1. Activations' \subseteq FrameSet'
    BY DEF Activations
  <2> QED
    BY <2>1, SeqMonotonic DEF FramesOK
<1>5. TypeOK'
  BY <1>1, <1>2, <1>3, <1>4 DEF TypeOK, DataAccessSet, FrameSet, results
<1>6. TreeOK' /\ TasksOK'
  BY <1>1, <1>2, <1>3 DEF TreeOK, TasksOK, Tasks, TaskSet, IsArray, IsKind, Single
<1>7. StageOK' /\ StringifyNeverFails'
  BY <1>2 DEF StageOK, StringifyNeverFails
<1> QED
  BY <1>5, <1>6, <1>7 DEF IInv

LEMMA SubAccessesStayMade ==
  ASSUME UNCHANGED ast,
         \A m \in 1 .. Len(frames') : AllFound(frames'[m].indexes, accesses'),
         status' \in {"making", "made", "printing"} /\ Head(todo').end = "text" =>
           \A i \in 1 .. Len(accesses') : AllFound(accesses'[i].indexes, accesses'),
         status' = "printing" =>
           Head(todo').end = "text" /\ AllFound(unprinted', accesses')
  PROVE  SubAccessesMade'
<1>1. \A s, made : (\A j \in 1 .. Len(s) : ast'[s[j]].kind = "array" => FoundIn(s[j], made))
                     <=> AllFound(s, made)
  BY DEF AllFound, IsArray, IsKind
<1> QED
  BY <1>1 DEF SubAccessesMade, AllFound, FoundIn, IsArray, IsKind

LEMMA AtFrame ==
  ASSUME IInv, Making
  PROVE  /\ Len(frames) \in Nat \ {0} /\ frames \in Seq(Activations)
         /\ Top \in Activations /\ Below \in Seq(Activations)
         /\ Len(Below) = Len(frames) - 1
         /\ \A m \in 1 .. Len(frames) - 1 : Below[m] = frames[m]
         /\ todo # << >>
<1>1. frames \in Seq(Activations) /\ frames # << >> /\ todo # << >>
  BY DEF IInv, FramesOK, StageOK, Making
<1>2. Len(frames) \in Nat \ {0} /\ Top \in Activations
  BY <1>1 DEF Top
<1>3. \A m \in 1 .. Len(frames) - 1 : frames[m] \in Activations
  BY <1>1
<1>4. /\ Below \in Seq(Activations) /\ Len(Below) = Len(frames) - 1
      /\ \A m \in 1 .. Len(frames) - 1 : Below[m] = frames[m]
  <2> DEFINE k == Len(frames) - 1
  <2>1. k \in Nat /\ 1 \in Int /\ k \in Int
    BY <1>2
  <2>2. \A m \in 1 .. k : frames[m] \in Activations
    BY <1>3
  <2>3. Below = SubSeq(frames, 1, k)
    BY DEF Below
  <2> HIDE DEF k
  <2>4. /\ SubSeq(frames, 1, k) \in Seq(Activations)
        /\ Len(SubSeq(frames, 1, k)) = IF 1 <= k THEN k - 1 + 1 ELSE 0
        /\ \A m \in 1 .. k - 1 + 1 : SubSeq(frames, 1, k)[m] = frames[1 + m - 1]
    BY <2>1, <2>2, SubSeqProperties
  <2>5. Len(Below) = k /\ \A m \in 1 .. k : Below[m] = frames[m]
    BY <2>1, <2>3, <2>4
  <2> QED
    BY <2>3, <2>4, <2>5 DEF k
<1> QED
  BY <1>1, <1>2, <1>4

(* Another activation in the place of the one at work. *)
LEMMA TopBecomes ==
  ASSUME IInv, Making, NEW f \in Activations, f.expr = Top.expr, AllFound(f.indexes, accesses),
         Became(Append(Below, f))
  PROVE  IInv'
<1> DEFINE n == Len(frames)
<1>1. /\ n \in Nat \ {0} /\ frames \in Seq(Activations) /\ Below \in Seq(Activations)
      /\ Len(Below) = n - 1 /\ todo # << >>
      /\ \A m \in 1 .. n - 1 : Below[m] = frames[m]
  BY AtFrame
<1>2. /\ frames' = Append(Below, f) /\ status = "making"
      /\ UNCHANGED <<tree, todo, accesses, results, unprinted, status>>
  BY DEF Became, Making
<1>3. /\ frames' \in Seq(Activations) /\ Len(frames') = n /\ frames' # << >>
      /\ frames'[n] = f
      /\ \A m \in 1 .. n - 1 : frames'[m] = frames[m]
  BY <1>1, <1>2, AppendProperties
<1>4. FramesOK'
  <2>1. Activations' = Activations
    BY <1>2 DEF Activations, FrameSet, Nodes, IsArray, IsKind, tree
  <2>2. ASSUME NEW m \in 1 .. n, m < n
        PROVE  Calls(frames'[m], frames'[m + 1])
    <3>1. Calls(frames[m], frames[m + 1])
      BY <2>2 DEF IInv, FramesOK
    <3>2. frames'[m] = frames[m]
      BY <1>1, <1>3, <2>2
    <3>3. CASE m + 1 = n
      BY <1>3, <3>1, <3>2, <3>3 DEF Calls, Top
    <3>4. CASE m + 1 # n
      <4>1. m + 1 \in 1 .. n - 1
        BY <1>1, <2>2, <3>4
      <4> QED
        BY <1>3, <3>1, <3>2, <4>1
    <3> QED
      BY <3>3, <3>4
  <2> QED
    BY <1>3, <2>1, <2>2 DEF FramesOK, Calls
<1>5. SubAccessesMade'
  <2>1. ASSUME NEW m \in 1 .. n
        PROVE  AllFound(frames'[m].indexes, accesses)
    <3>1. CASE m = n
      BY <1>3, <3>1
    <3>2. CASE m # n
      <4>1. frames'[m] = frames[m]
        BY <1>1, <1>3, <3>2
      <4> QED
        BY <4>1 DEF IInv, SubAccessesMade
    <3> QED
      BY <3>1, <3>2
  <2>2. SubAccessesMade /\ UNCHANGED <<ast, todo, accesses, unprinted, status>>
    BY <1>2 DEF IInv, tree
  <2>3. \A m \in 1 .. n : AllFound(frames'[m].indexes, accesses')
    BY <2>1, <2>2
  <2> QED
    BY <1>2, <1>3, <2>2, <2>3, SubAccessesStayMade DEF SubAccessesMade, Making
<1>6. accesses' \in Seq(DataAccessSet(Nodes))
  BY <1>2 DEF IInv, TypeOK
<1> QED
  BY <1>1, <1>2, <1>3, <1>4, <1>5, <1>6, GoesOn

LEMMA GetArrayExprInfoKeeps ==
  ASSUME IInv, GetArrayExprInfo
  PROVE  IInv'
<1> DEFINE n == Top.at
           base == ast[n].left
           info == Append(Top.info, ast[n].right)
           at == IF IsArray(base) THEN base ELSE 0
           f == [Top EXCEPT !.info = info, !.base = base, !.at = at]
<1>1. Making /\ n # 0 /\ (Stop("exit") \/ Became(Append(Below, f)))
  BY DEF GetArrayExprInfo
<1>2. CASE Stop("exit")
  BY <1>2, StopKeeps
<1>3. CASE Became(Append(Below, f))
  <2>1. Top \in Activations
    BY <1>1, AtFrame
  <2>2. n \in Nodes /\ IsArray(n)
    BY <1>1, <2>1 DEF Activations, FrameSet
  <2>3. /\ base \in Nodes /\ ast[n].right \in Nodes
        /\ IsArray(base) \/ IsKind(base, "ref")
    BY <2>2 DEF IInv, TreeOK
  <2>4. info \in Seq(Nodes)
    BY <2>1, <2>3 DEF Activations, FrameSet
  <2>5. at \in Nodes \cup {0} /\ (at # 0 => IsArray(at)) /\ (at = 0 => IsKind(base, "ref"))
    <3>1. 0 \notin Nodes
      BY DEF Nodes
    <3> HIDE DEF base
    <3> QED
      BY <2>3, <3>1
  <2>6. f \in Activations /\ f.expr = Top.expr /\ f.indexes = Top.indexes
    <3>1. Top \in FrameSet
      BY <2>1 DEF Activations
    <3> HIDE DEF base, n, info, at
    <3>2. /\ f \in FrameSet /\ f.at = at /\ f.base = base
          /\ f.expr = Top.expr /\ f.indexes = Top.indexes
      BY <2>3, <2>4, <2>5, <3>1 DEF FrameSet
    <3> HIDE DEF f
    <3> QED
      BY <2>5, <3>2 DEF Activations
  <2>7. AllFound(f.indexes, accesses)
    <3>1. Len(frames) \in Nat \ {0}
      BY <1>1, AtFrame
    <3> QED
      BY <2>6, <3>1 DEF IInv, SubAccessesMade, Top
  <2> HIDE DEF f
  <2> QED
    BY <1>1, <1>3, <2>6, <2>7, TopBecomes
<1> QED
  BY <1>1, <1>2, <1>3

(* The index on top of the stack is taken: its access has been made. *)
LEMMA TakenKeeps ==
  ASSUME NEW made, NEW f \in Activations, f.at = 0, f.info # << >>, AllFound(f.indexes, made),
         LET index == f.info[Len(f.info)] IN IsArray(index) => FoundIn(index, made)
  PROVE  /\ Taken(f) \in Activations /\ Taken(f).expr = f.expr /\ Taken(f).at = 0
         /\ AllFound(Taken(f).indexes, made)
<1> DEFINE n == Len(f.info)
           index == f.info[n]
           indexes == Append(f.indexes, index)
           info == SubSeq(f.info, 1, n - 1)
<1>1. f \in FrameSet /\ f.info \in Seq(Nodes) /\ f.indexes \in Seq(Nodes)
  BY DEF Activations, FrameSet
<1>2. n \in Nat \ {0} /\ index \in Nodes
  BY <1>1
<1>3. /\ indexes \in Seq(Nodes) /\ Len(indexes) = Len(f.indexes) + 1
      /\ indexes[Len(f.indexes) + 1] = index
      /\ \A j \in 1 .. Len(f.indexes) : indexes[j] = f.indexes[j]
  BY <1>1, <1>2, AppendProperties
<1>4. info \in Seq(Nodes)
  <2>1. \A j \in 1 .. n - 1 : f.info[j] \in Nodes
    BY <1>1, <1>2
  <2>2. n - 1 \in Int
    BY <1>2
  <2> QED
    BY <2>1, <2>2, SubSeqProperties
<1>5. Taken(f) = [f EXCEPT !.indexes = indexes, !.info = info]
  BY DEF Taken
<1>6. AllFound(indexes, made)
  <2>1. ASSUME NEW j \in 1 .. Len(indexes), IsArray(indexes[j])
        PROVE  FoundIn(indexes[j], made)
    <3>1. CASE j = Len(f.indexes) + 1
      BY <1>3, <2>1, <3>1
    <3>2. CASE j # Len(f.indexes) + 1
      <4>1. j \in 1 .. Len(f.indexes)
        BY <1>1, <1>3, <3>2
      <4>2. indexes[j] = f.indexes[j]
        BY <1>3, <4>1
      <4> QED
        BY <2>1, <4>1, <4>2 DEF AllFound
    <3> QED
      BY <3>1, <3>2
  <2> QED
    BY <2>1 DEF AllFound
<1> HIDE DEF indexes, info, index, n
<1>7. /\ Taken(f) \in FrameSet /\ Taken(f).expr = f.expr /\ Taken(f).at = f.at
      /\ Taken(f).base = f.base /\ Taken(f).indexes = indexes
  BY <1>1, <1>3, <1>4, <1>5 DEF FrameSet
<1>8. Taken(f) \in Activations
  BY <1>7 DEF Activations
<1> QED
  BY <1>6, <1>7, <1>8

LEMMA FrameActivation ==
  ASSUME NEW made, NEW n \in Nodes, IsArray(n), NEW isRead \in BOOLEAN
  PROVE  /\ Frame(n, isRead) \in Activations /\ Frame(n, isRead).expr = n
         /\ AllFound(Frame(n, isRead).indexes, made)
<1>1. n # 0
  BY DEF Nodes
<1>2. Frame(n, isRead) \in FrameSet
  BY DEF Frame, FrameSet
<1>3. /\ Frame(n, isRead).expr = n /\ Frame(n, isRead).at = n
      /\ Frame(n, isRead).indexes = << >>
  BY DEF Frame
<1>4. Frame(n, isRead) \in Activations
  BY <1>1, <1>2, <1>3 DEF Activations
<1> QED
  BY <1>3, <1>4 DEF AllFound

LEMMA TakeIndexKeeps ==
  ASSUME IInv, TakeIndex
  PROVE  IInv'
<1> DEFINE n == Len(frames)
           index == Top.info[Len(Top.info)]
<1>1. Making /\ Top.at = 0 /\ Top.info # << >>
  BY DEF TakeIndex
<1>2. n \in Nat \ {0} /\ frames \in Seq(Activations) /\ Top \in Activations /\ todo # << >>
  BY <1>1, AtFrame
<1>3. AllFound(Top.indexes, accesses)
  BY <1>2 DEF IInv, SubAccessesMade, Top
<1>4. index \in Nodes
  <2>1. Top.info \in Seq(Nodes)
    BY <1>2 DEF Activations, FrameSet
  <2> QED
    BY <1>1, <2>1
<1>5. CASE ~IsArray(index)
  <2>1. Became(Append(Below, Taken(Top)))
    BY <1>5 DEF TakeIndex, IsSubAccess
  <2>2. /\ Taken(Top) \in Activations /\ Taken(Top).expr = Top.expr
        /\ AllFound(Taken(Top).indexes, accesses)
    BY <1>1, <1>2, <1>3, <1>5, TakenKeeps
  <2> QED
    BY <1>1, <2>1, <2>2, TopBecomes
<1>6. CASE IsArray(index)
  <2> DEFINE g == Frame(index, TRUE)
  <2>1. Became(Append(frames, g))
    BY <1>6 DEF TakeIndex, IsSubAccess, SubAccess
  <2>2. g \in Activations /\ g.expr = index /\ AllFound(g.indexes, accesses)
    BY <1>4, <1>6, FrameActivation
  <2> HIDE DEF g
  <2>3. /\ frames' = Append(frames, g) /\ status = "making"
        /\ UNCHANGED <<tree, todo, accesses, results, unprinted, status>>
    BY <1>1, <2>1 DEF Became, Making
  <2>4. /\ frames' \in Seq(Activations) /\ Len(frames') = n + 1 /\ frames' # << >>
        /\ frames'[n + 1] = g /\ \A m \in 1 .. n : frames'[m] = frames[m]
    BY <1>2, <2>2, <2>3, AppendProperties
  <2>5. FramesOK'
    <3>1. Activations' = Activations
      BY <2>3 DEF Activations, FrameSet, Nodes, IsArray, IsKind, tree
    <3>2. ASSUME NEW m \in 1 .. n
          PROVE  Calls(frames'[m], frames'[m + 1])
      <4>1. CASE m = n
        <5>1. frames'[m] = Top
          BY <2>4, <4>1 DEF Top
        <5> QED
          BY <1>1, <2>2, <2>4, <4>1, <5>1 DEF Calls
      <4>2. CASE m # n
        <5>1. m + 1 \in 1 .. n /\ m < n
          BY <1>2, <4>2
        <5>2. Calls(frames[m], frames[m + 1])
          BY <5>1 DEF IInv, FramesOK
        <5> QED
          BY <2>4, <5>1, <5>2
      <4> QED
        BY <4>1, <4>2
    <3> QED
      BY <1>2, <2>4, <3>1, <3>2 DEF FramesOK, Calls
  <2>6. SubAccessesMade'
    <3>1. ASSUME NEW m \in 1 .. n + 1
          PROVE  AllFound(frames'[m].indexes, accesses)
      <4>1. CASE m = n + 1
        BY <2>2, <2>4, <4>1
      <4>2. CASE m # n + 1
        <5>1. m \in 1 .. n
          BY <1>2, <4>2
        <5> QED
          BY <2>4, <5>1 DEF IInv, SubAccessesMade
      <4> QED
        BY <4>1, <4>2
    <3>2. SubAccessesMade /\ UNCHANGED <<ast, todo, accesses, unprinted, status>>
      BY <2>3 DEF IInv, tree
    <3>3. \A m \in 1 .. n + 1 : AllFound(frames'[m].indexes, accesses')
      BY <3>1, <3>2
    <3> QED
      BY <2>3, <2>4, <3>2, <3>3, SubAccessesStayMade DEF SubAccessesMade
  <2>7. accesses' \in Seq(DataAccessSet(Nodes))
    BY <2>3 DEF IInv, TypeOK
  <2> QED
    BY <1>2, <2>3, <2>4, <2>5, <2>6, <2>7, GoesOn
<1> QED
  BY <1>5, <1>6

LEMMA StartKeeps ==
  ASSUME IInv, Start
  PROVE  IInv'
<1> DEFINE n == Head(todo).expr
           isRead == Head(todo).end # "write"
<1>1. /\ status = "collecting" /\ todo # << >> /\ Head(todo).do = "access"
      /\ UNCHANGED <<tree, todo, results, unprinted>>
  BY DEF Start, Doing
<1>2. /\ n \in Nodes
      /\ IsArray(n) \/ (Single(n) /\ Head(todo).end # "text")
  BY <1>1, AtTask DEF Tasks
<1>3. frames = << >>
  BY <1>1 DEF IInv, StageOK
<1>4. Activations' = Activations
  BY <1>1 DEF Activations, FrameSet, Nodes, IsArray, IsKind, tree
<1>5. CASE /\ IsArray(n)
           /\ frames' = << Frame(n, isRead) >>
           /\ accesses' = << >>
           /\ status' = "making"
  <2> DEFINE f == Frame(n, isRead)
  <2>1. f \in Activations /\ f.indexes = << >>
    BY <1>2, <1>5, FrameActivation DEF Frame
  <2> HIDE DEF f
  <2>2. FramesOK'
    <3>1. frames' = << f >>
      BY <1>5 DEF f
    <3> QED
      BY <1>4, <2>1, <3>1 DEF FramesOK
  <2>3. SubAccessesMade'
    BY <1>5, <2>1 DEF SubAccessesMade, AllFound, f
  <2> QED
    BY <1>1, <1>5, <2>2, <2>3, GoesOn
<1>6. CASE /\ ~IsArray(n)
           /\ accesses' = IF IsSpace(n) THEN << DataAccess(n, n, isRead, << >>) >> ELSE << >>
           /\ status' = "made"
           /\ UNCHANGED frames
  <2>1. Single(n) /\ Head(todo).end # "text"
    BY <1>2, <1>6
  <2>2. IsSpace(n) => DataAccess(n, n, isRead, << >>) \in DataAccessSet(Nodes)
    BY <1>2 DEF DataAccess, DataAccessSet, IInv, TreeOK, IsSpace
  <2>3. accesses' \in Seq(DataAccessSet(Nodes))
    BY <1>6, <2>2
  <2>4. FramesOK' /\ SubAccessesMade'
    BY <1>1, <1>3, <1>6, <2>1 DEF FramesOK, SubAccessesMade
  <2> QED
    BY <1>1, <1>3, <1>6, <2>1, <2>3, <2>4, GoesOn
<1> QED
  BY <1>5, <1>6 DEF Start

LEMMA MakeDataAccessKeeps ==
  ASSUME IInv, MakeDataAccess
  PROVE  IInv'
<1> DEFINE n == Len(Below)
           a == DataAccess(Top.base, Top.expr, Top.isRead, Top.indexes)
<1>1. /\ Making /\ Top.at = 0 /\ Top.info = << >> /\ accesses' = Append(accesses, a)
      /\ UNCHANGED <<tree, todo, results, unprinted>>
  BY DEF MakeDataAccess
<1>2. /\ Len(frames) \in Nat \ {0} /\ frames \in Seq(Activations) /\ Top \in Activations
      /\ Below \in Seq(Activations) /\ n = Len(frames) - 1 /\ n \in Nat /\ todo # << >>
      /\ \A m \in 1 .. n : Below[m] = frames[m]
  BY <1>1, AtFrame
<1>3. AllFound(Top.indexes, accesses)
  BY <1>2 DEF IInv, SubAccessesMade, Top
<1>4. a \in DataAccessSet(Nodes) /\ a.sourceId = Top.expr /\ a.indexes = Top.indexes
  <2>1. Top \in FrameSet /\ IsKind(Top.base, "ref")
    BY <1>1, <1>2 DEF Activations
  <2>2. Top.base \in Nodes
    BY <2>1 DEF FrameSet
  <2>3. ast[Top.base].name \in Names
    BY <2>1, <2>2 DEF IInv, TreeOK
  <2> QED
    BY <2>1, <2>3 DEF DataAccess, DataAccessSet, FrameSet
<1> HIDE DEF a
<1>5. /\ accesses' \in Seq(DataAccessSet(Nodes)) /\ accesses' # << >>
      /\ Len(accesses) \in Nat /\ Len(accesses') = Len(accesses) + 1
      /\ accesses'[Len(accesses) + 1] = a
      /\ \A i \in 1 .. Len(accesses) : accesses'[i] = accesses[i]
  <2>1. accesses \in Seq(DataAccessSet(Nodes))
    BY DEF IInv, TypeOK
  <2> QED
    BY <1>1, <1>4, <2>1, AppendProperties
<1>6. UNCHANGED ast
  BY <1>1 DEF tree
<1>7. (\A k : FoundIn(k, accesses) => FoundIn(k, accesses')) /\ FoundIn(Top.expr, accesses')
  BY <1>4, <1>5 DEF FoundIn
<1>8. \A s : AllFound(s, accesses) => AllFound(s, accesses')
  BY <1>7 DEF AllFound
<1>9. Activations' = Activations
  BY <1>6 DEF Activations, FrameSet, Nodes, IsArray, IsKind
<1>10. Head(todo).end = "text" =>
         \A i \in 1 .. Len(accesses') : AllFound(accesses'[i].indexes, accesses')
  <2> SUFFICES ASSUME Head(todo).end = "text", NEW i \in 1 .. Len(accesses')
               PROVE  AllFound(accesses'[i].indexes, accesses)
    BY <1>8
  <2>1. CASE i = Len(accesses) + 1
    BY <1>3, <1>4, <1>5, <2>1
  <2>2. CASE i # Len(accesses) + 1
    <3>1. i \in 1 .. Len(accesses)
      BY <1>5, <2>2
    <3> QED
      BY <1>1, <1>5, <3>1 DEF IInv, SubAccessesMade, Making
  <2> QED
    BY <2>1, <2>2
<1>11. CASE n = 0
  <2>1. frames' = << >> /\ status' = "made"
    BY <1>11 DEF MakeDataAccess
  <2>2. FramesOK'
    BY <2>1 DEF FramesOK
  <2>3. SubAccessesMade'
    BY <1>1, <1>6, <1>10, <2>1, SubAccessesStayMade
  <2> QED
    BY <1>1, <1>2, <1>5, <2>1, <2>2, <2>3, GoesOn
<1>12. CASE n # 0
  <2> DEFINE f == Below[n]
             g == Taken(f)
  <2>1. /\ frames' = [Below EXCEPT ![n] = g] /\ status = "making" /\ status' = "making"
    BY <1>1, <1>12 DEF MakeDataAccess, Making
  <2>2. n \in 1 .. n /\ n \in 1 .. Len(frames) /\ n < Len(frames) /\ n + 1 = Len(frames)
    BY <1>2, <1>12
  <2>3. f \in Activations /\ f = frames[n]
    BY <1>2, <2>2
  <2>4. Calls(f, Top)
    BY <2>2, <2>3 DEF IInv, FramesOK, Top
  <2>5. AllFound(f.indexes, accesses)
    BY <2>2, <2>3 DEF IInv, SubAccessesMade
  <2>6. g \in Activations /\ g.expr = f.expr /\ AllFound(g.indexes, accesses')
    <3>1. f.at = 0 /\ f.info # << >> /\ AllFound(f.indexes, accesses')
      BY <1>8, <2>4, <2>5 DEF Calls
    <3>2. FoundIn(f.info[Len(f.info)], accesses')
      BY <1>7, <2>4 DEF Calls
    <3> QED
      BY <2>3, <3>1, <3>2, TakenKeeps
  <2> HIDE DEF f, g
  <2>7. /\ frames' \in Seq(Activations) /\ Len(frames') = n /\ frames' # << >>
        /\ frames'[n] = g /\ \A m \in 1 .. n : m # n => frames'[m] = frames[m]
    BY <1>2, <2>1, <2>2, <2>6, ExceptSeq
  <2>8. FramesOK'
    <3>1. ASSUME NEW m \in 1 .. n, m < n
          PROVE  Calls(frames'[m], frames'[m + 1])
      <4>1. m \in 1 .. Len(frames) /\ m < Len(frames) /\ m # n /\ m + 1 \in 1 .. n
        <5>1. n \in Nat /\ n < Len(frames) /\ Len(frames) \in Nat
          BY <1>2, <2>2
        <5> QED
          BY <3>1, <5>1
      <4>4. FramesOK
        BY DEF IInv
      <4>6. Calls(frames[m], frames[m + 1])
        BY <4>1, <4>4 DEF FramesOK
      <4>7. frames'[m] = frames[m]
        BY <2>7, <4>1
      <4>2. CASE m + 1 = n
        BY <2>3, <2>6, <2>7, <4>1, <4>6, <4>7, <4>2 DEF Calls
      <4>3. CASE m + 1 # n
        BY <2>7, <4>1, <4>6, <4>7, <4>3
      <4> QED
        BY <4>2, <4>3
    <3> QED
      BY <1>9, <2>7, <3>1 DEF FramesOK, Calls
  <2>9. SubAccessesMade'
    <3>1. ASSUME NEW m \in 1 .. n
          PROVE  AllFound(frames'[m].indexes, accesses')
      <4>1. CASE m = n
        BY <2>6, <2>7, <4>1
      <4>2. CASE m # n
        <5>1. AllFound(frames[m].indexes, accesses)
          BY <1>2 DEF IInv, SubAccessesMade
        <5>2. frames'[m] = frames[m]
          BY <2>7, <4>2
        <5> QED
          BY <1>8, <5>1, <5>2
      <4> QED
        BY <4>1, <4>2
    <3> QED
      BY <1>1, <1>6, <1>10, <2>1, <2>7, <3>1, SubAccessesStayMade
  <2> QED
    BY <1>1, <1>2, <1>5, <2>1, <2>7, <2>8, <2>9, GoesOn
<1> QED
  BY <1>11, <1>12

-------------------------------------------------------------------------------
(* What is done with the accesses. *)
LEMMA RecordKeeps ==
  ASSUME IInv, Record
  PROVE  IInv'
<1>1. /\ status = "made" /\ Head(todo).end \in {"read", "write"} /\ accesses # << >>
      /\ accesses' = Tail(accesses)
      /\ stmtDataAccesses' = IF Head(accesses).name \in Iterators THEN stmtDataAccesses
                             ELSE Append(stmtDataAccesses, Head(accesses))
      /\ UNCHANGED <<ast, roots, use, todo, frames, described, newInvariants, printed,
                     replacementVarNumber, unprinted, status>>
  BY DEF Record, Made, tree
<1>2. TypeOK /\ TreeOK /\ StageOK /\ TasksOK /\ FramesOK /\ frames = << >>
  BY <1>1 DEF IInv, StageOK
<1>3. Nodes' = Nodes /\ NodeSet' = NodeSet
  BY <1>1 DEF Nodes, NodeSet, Leaves
<1>4. accesses \in Seq(DataAccessSet(Nodes))
  BY <1>2 DEF TypeOK
<1>5. Head(accesses) \in DataAccessSet(Nodes) /\ accesses' \in Seq(DataAccessSet(Nodes))
  BY <1>1, <1>4, HeadTailProperties
<1>6. Head(accesses) \in DataAccessSet(Nodes \cup {0})
  BY <1>5 DEF DataAccessSet
<1>7. /\ stmtDataAccesses' \in Seq(DataAccessSet(Nodes \cup {0}))
      /\ described' \in 0 .. Len(stmtDataAccesses')
  BY <1>1, <1>6, ResultsTyped, AppendProperties
<1>8. TypeOK'
  BY <1>1, <1>2, <1>3, <1>5, <1>7 DEF TypeOK, DataAccessSet
<1>9. TreeOK' /\ TasksOK' /\ FramesOK'
  <2>1. TreeOK'
    BY <1>1, <1>2, <1>3 DEF TreeOK, IsArray, IsKind
  <2>2. TasksOK'
    BY <1>1, <1>2, <1>3 DEF TasksOK, Tasks, TaskSet, IsArray, IsKind, Single
  <2>3. FramesOK'
    BY <1>1, <1>2 DEF FramesOK
  <2> QED
    BY <2>1, <2>2, <2>3
<1>10. StageOK' /\ SubAccessesMade' /\ StringifyNeverFails'
  BY <1>1, <1>2 DEF StageOK, SubAccessesMade, StringifyNeverFails
<1> QED
  BY <1>8, <1>9, <1>10 DEF IInv

(* A step of toString. *)
LEMMA Printing ==
  ASSUME IInv, status \in {"made", "printing"}, status' = "printing",
         Head(todo).end = "text", todo # << >>,
         UNCHANGED <<tree, todo, frames, accesses, stmtDataAccesses, described,
                     newInvariants, replacementVarNumber>>,
         unprinted' \in Seq(Nodes), AllFound(unprinted', accesses),
         printed' \subseteq Nodes
  PROVE  IInv'
<1>1. TypeOK /\ TreeOK /\ StageOK /\ TasksOK /\ frames = << >>
  BY DEF IInv, StageOK
<1>2. UNCHANGED <<ast, roots, use, todo, frames, accesses>>
  BY DEF tree
<1>3. Nodes' = Nodes /\ NodeSet' = NodeSet
  BY <1>2 DEF Nodes, NodeSet, Leaves
<1>4. TypeOK'
  BY <1>1, <1>2, <1>3 DEF TypeOK, DataAccessSet
<1>5. TreeOK' /\ TasksOK' /\ FramesOK'
  <2>1. TreeOK'
    BY <1>1, <1>2, <1>3 DEF TreeOK, IsArray, IsKind
  <2>2. TasksOK'
    BY <1>1, <1>2, <1>3 DEF TasksOK, Tasks, TaskSet, IsArray, IsKind, Single
  <2>3. FramesOK'
    BY <1>1, <1>2 DEF FramesOK
  <2> QED
    BY <2>1, <2>2, <2>3
<1>6. SubAccessesMade'
  <2>1. \A i \in 1 .. Len(accesses) : AllFound(accesses[i].indexes, accesses)
    BY DEF IInv, SubAccessesMade
  <2> QED
    BY <1>1, <1>2, <2>1, SubAccessesStayMade
<1>7. StageOK' /\ StringifyNeverFails'
  BY <1>1, <1>2 DEF StageOK, StringifyNeverFails
<1> QED
  BY <1>4, <1>5, <1>6, <1>7 DEF IInv

LEMMA BeginToStringKeeps ==
  ASSUME IInv, BeginToString
  PROVE  IInv'
<1> DEFINE n == Len(accesses)
           id == accesses[n].sourceId
<1>1. /\ status = "made" /\ Head(todo).end = "text" /\ status' = "printing"
      /\ unprinted' = << id >>
      /\ UNCHANGED <<tree, todo, frames, accesses, results>>
  BY DEF BeginToString, Made
<1>2. accesses # << >> /\ accesses \in Seq(DataAccessSet(Nodes)) /\ todo # << >>
  BY <1>1 DEF IInv, TypeOK, StageOK
<1>3. n \in 1 .. Len(accesses) /\ accesses[n] \in DataAccessSet(Nodes)
  BY <1>2
<1>4. id \in Nodes /\ FoundIn(id, accesses)
  BY <1>3 DEF DataAccessSet, FoundIn
<1> HIDE DEF id
<1>5. unprinted' \in Seq(Nodes) /\ AllFound(unprinted', accesses)
  BY <1>1, <1>4 DEF AllFound
<1>6. printed' \subseteq Nodes
  BY <1>1, ResultsTyped DEF results
<1> QED
  BY <1>1, <1>2, <1>5, <1>6, Printing DEF results

LEMMA AllFoundConcat ==
  ASSUME NEW S, NEW a \in Seq(S), NEW b \in Seq(S), NEW made,
         AllFound(a, made), AllFound(b, made)
  PROVE  AllFound(a \o b, made)
<1>1. /\ Len(a) \in Nat /\ Len(b) \in Nat /\ Len(a \o b) = Len(a) + Len(b)
      /\ \A j \in 1 .. Len(a) + Len(b) :
           (a \o b)[j] = IF j <= Len(a) THEN a[j] ELSE b[j - Len(a)]
  BY ConcatProperties
<1>2. ASSUME NEW j \in 1 .. Len(a) + Len(b), IsArray((a \o b)[j])
      PROVE  FoundIn((a \o b)[j], made)
  <2>1. CASE j <= Len(a)
    <3>1. j \in 1 .. Len(a) /\ (a \o b)[j] = a[j]
      BY <1>1, <2>1
    <3> QED
      BY <1>2, <3>1 DEF AllFound
  <2>2. CASE ~(j <= Len(a))
    <3>1. j - Len(a) \in 1 .. Len(b) /\ (a \o b)[j] = b[j - Len(a)]
      BY <1>1, <2>2
    <3> QED
      BY <1>2, <3>1 DEF AllFound
  <2> QED
    BY <2>1, <2>2
<1> QED
  BY <1>1, <1>2 DEF AllFound

LEMMA StringifyKeeps ==
  ASSUME IInv, Stringify
  PROVE  IInv'
<1> DEFINE n == Head(unprinted)
<1>1. status = "printing" /\ unprinted # << >>
  BY DEF Stringify
<1>2. /\ unprinted \in Seq(Nodes) /\ accesses \in Seq(DataAccessSet(Nodes))
      /\ Head(todo).end = "text" /\ todo # << >> /\ printed \subseteq Nodes
      /\ AllFound(unprinted, accesses)
      /\ \A i \in 1 .. Len(accesses) : AllFound(accesses[i].indexes, accesses)
  BY <1>1 DEF IInv, TypeOK, StageOK, SubAccessesMade
<1>3. /\ n \in Nodes /\ Tail(unprinted) \in Seq(Nodes) /\ AllFound(Tail(unprinted), accesses)
      /\ IsArray(n) => Found(n)
  <2>1. /\ n \in Nodes /\ n = unprinted[1] /\ 1 \in 1 .. Len(unprinted)
        /\ Tail(unprinted) \in Seq(Nodes) /\ Len(Tail(unprinted)) = Len(unprinted) - 1
        /\ \A j \in 1 .. Len(Tail(unprinted)) : Tail(unprinted)[j] = unprinted[j + 1]
        /\ Len(unprinted) \in Nat
    BY <1>1, <1>2, HeadTailProperties
  <2>2. \A j \in 1 .. Len(Tail(unprinted)) : j + 1 \in 1 .. Len(unprinted)
    BY <2>1
  <2> QED
    BY <1>2, <2>1, <2>2 DEF AllFound, FoundIn, Found
<1>4. CASE ~IsArray(n)
  <2>1. /\ unprinted' = << >> \o Tail(unprinted) /\ UNCHANGED status
        /\ UNCHANGED <<tree, todo, frames, accesses, results>>
    BY <1>3, <1>4, Zenon DEF Stringify
  <2>2. unprinted' = Tail(unprinted)
    BY <1>3, <2>1, ConcatEmptySeq
  <2>3. printed' \subseteq Nodes
    BY <1>2, <2>1 DEF results
  <2> QED
    BY <1>1, <1>2, <1>3, <2>1, <2>2, <2>3, Printing DEF results
<1>5. CASE IsArray(n)
  <2>1. /\ unprinted' = Access(n).indexes \o Tail(unprinted) /\ UNCHANGED status
        /\ printed' = printed \cup {n}
        /\ UNCHANGED <<tree, todo, frames, accesses, stmtDataAccesses, described,
                       newInvariants, replacementVarNumber>>
    BY <1>3, <1>5, Zenon DEF Stringify
  <2>2. PICK i \in 1 .. Len(accesses) : Access(n) = accesses[i]
    BY <1>3, <1>5 DEF Access, Found
  <2>3. accesses[i] \in DataAccessSet(Nodes)
    BY <1>2
  <2>4. Access(n).indexes \in Seq(Nodes) /\ AllFound(Access(n).indexes, accesses)
    BY <1>2, <2>2, <2>3 DEF DataAccessSet
  <2>5. unprinted' \in Seq(Nodes) /\ AllFound(unprinted', accesses)
    BY <1>3, <2>1, <2>4, AllFoundConcat, ConcatProperties
  <2>6. printed' \subseteq Nodes
    BY <1>2, <1>3, <2>1
  <2> QED
    BY <1>1, <1>2, <2>1, <2>5, <2>6, Printing
<1> QED
  BY <1>4, <1>5

-------------------------------------------------------------------------------
LEMMA StutterKeeps ==
  ASSUME IInv, UNCHANGED vars
  PROVE  IInv'
<1>1. UNCHANGED <<ast, roots, use, todo, frames, accesses, stmtDataAccesses, described,
                  newInvariants, printed, replacementVarNumber, unprinted, status>>
  BY DEF vars, tree, results
<1>2. Nodes' = Nodes /\ NodeSet' = NodeSet
  BY <1>1 DEF Nodes, NodeSet, Leaves
<1>3. TypeOK /\ TreeOK /\ StageOK /\ TasksOK /\ FramesOK /\ SubAccessesMade /\ StringifyNeverFails
  BY DEF IInv
<1>4. TypeOK'
  BY <1>1, <1>2, <1>3 DEF TypeOK, DataAccessSet
<1>5. TreeOK' /\ TasksOK' /\ FramesOK'
  <2>1. TreeOK'
    BY <1>1, <1>2, <1>3 DEF TreeOK, IsArray, IsKind
  <2>2. TasksOK'
    BY <1>1, <1>2, <1>3 DEF TasksOK, Tasks, TaskSet, IsArray, IsKind, Single
  <2>3. FramesOK'
    BY <1>1, <1>2, <1>3 DEF FramesOK, Activations, FrameSet, Calls, IsArray, IsKind
  <2> QED
    BY <2>1, <2>2, <2>3
<1>6. StageOK' /\ SubAccessesMade' /\ StringifyNeverFails'
  BY <1>1, <1>3 DEF StageOK, SubAccessesMade, AllFound, FoundIn, IsArray, IsKind,
                    StringifyNeverFails
<1> QED
  BY <1>4, <1>5, <1>6 DEF IInv

LEMMA NextKeeps ==
  ASSUME IInv, [Next]_vars
  PROVE  IInv'
<1>1. CASE \E leaf \in Leaves : ParseLeaf(leaf)
  BY <1>1, ParseLeafKeeps
<1>2. CASE \E kind \in {"binary", "array"} : ParseInner(kind)
  BY <1>2, ParseInnerKeeps
<1>3. CASE \E what \in {"assign", "declare", "condition"} : Begin(what)
  BY <1>3, BeginKeeps
<1>4. CASE Collect \/ Start
  BY <1>4, CollectKeeps, StartKeeps
<1>5. CASE GetArrayExprInfo \/ TakeIndex \/ MakeDataAccess
  BY <1>5, GetArrayExprInfoKeeps, TakeIndexKeeps, MakeDataAccessKeeps
<1>6. CASE Record \/ EndRecord \/ RecordDeclared \/ AddInvariants
  BY <1>6, RecordKeeps, EndRecordKeeps, RecordDeclaredKeeps, AddInvariantsKeeps
<1>7. CASE BeginToString \/ Stringify \/ EndToString
  BY <1>7, BeginToStringKeeps, StringifyKeeps, EndToStringKeeps
<1>8. CASE Describe
  BY <1>8, DescribeKeeps
<1>9. CASE Finish
  <2>1. frames = << >> /\ Stop("done")
    BY <1>9 DEF Finish, IInv, StageOK
  <2> QED
    BY <2>1, StopKeeps
<1>10. CASE Terminated \/ UNCHANGED vars
  BY <1>10, StutterKeeps DEF Terminated
<1> QED
  BY <1>1, <1>2, <1>3, <1>4, <1>5, <1>6, <1>7, <1>8, <1>9, <1>10 DEF Next

LEMMA Invariance == Spec => []IInv
<1>1. Init => IInv
  BY InitKeeps
<1>2. IInv /\ [Next]_vars => IInv'
  BY NextKeeps
<1> QED
  BY <1>1, <1>2, PTL DEF Spec

(* Whatever the expressions, the handler's state is of its type: every ID  *)
(* in it is a node's, and no more accesses are described than recorded.    *)
THEOREM TypeCorrect == Spec => []TypeOK
<1>1. IInv => TypeOK
  BY DEF IInv
<1> QED
  BY <1>1, Invariance, PTL

(* toString never comes to the error it calls unreachable: every array     *)
(* access among the indexes it prints has been made, before the access it  *)
(* is an index of (DataAccessHandler.cpp, DataAccess::toString).           *)
THEOREM SubAccessesFound == Spec => []StringifyNeverFails
<1>1. IInv => StringifyNeverFails
  BY DEF IInv
<1> QED
  BY <1>1, Invariance, PTL
===============================================================================
