-------------------------- MODULE ComputationBuilder --------------------------
(***************************************************************************)
(* class ComputationBuilder: a build of the entry function, the builders   *)
(* nested in it for the functions it calls, and the static members they    *)
(* share, positionContext and subComputations.                             *)
(*                                                                         *)
(* Source[f] is the set of statements function f may be made of: each step *)
(* of a builder takes one of them, or a for, an if or the end of a body,   *)
(* so a behaviour is the build of one program.  A statement is a record    *)
(* with a kind and                                                         *)
(*   "decl"             decls, a sequence of [name, init, value]           *)
(*   "assign", "update" target and value (=, and +=, *= and the like)      *)
(*   "expr"             value, a binary operation that assigns nothing     *)
(*   "return"           value, empty or one component                      *)
(*   "call"             value, one call                                    *)
(*   "other"            nothing; processSingleStmt looks no further into   *)
(*                      it: x++, (x = 3), an empty statement               *)
(*   "unsupported"      nothing; it is refused                             *)
(* The value is the sequence of the components of the expression, left to  *)
(* right: "ref" to a variable, "array" access with the arrays that are     *)
(* subscripts in it, "lit", "call" with its arguments, or "opaque"         *)
(* (anything collectComponentsFromCompoundExpr refuses).  A target may     *)
(* be opaque too, like s.x, or a name or array in parentheses, "paren".  Of *)
(* every statement, unseen has the names it changes where the code does    *)
(* not look: n in y = n = 0 (the components of the value are n and 0), in  *)
(* (n) = 3 and in n++.                                                     *)
(***************************************************************************)
EXTENDS OpenStructures, FiniteSets

CONSTANTS
  Fns, Entry,      \* the functions with a definition; the one built first
  Params,          \* their parameters' names
  Source,          \* their statements
  Reserved,        \* reservedFuncNames
  AllowEmptyBody, MaxDepth,   \* as in FunctionWalk
  MaxStarts,       \* bound on the statements and calls of each function
  KeyFirst         \* the order the compiler evaluates an assignment in (below)

ASSUME KeyFirstAssumption == KeyFirst \in BOOLEAN

Components ==
  LET simple == [kind : {"ref", "lit"}, name : STRING]
      opaque == [kind : {"opaque"}]
  IN simple \cup opaque \cup
     [kind : {"array"}, name : STRING, subs : Seq(STRING)] \cup
     [kind : {"call"}, callee : STRING, args : Seq(simple \cup opaque)]

Plain(c) == c.kind \in {"ref", "array"}
Targets ==
  {c \in Components : Plain(c) \/ c.kind = "opaque"} \cup
  [kind : {"paren"}, of : {c \in Components : Plain(c)}]

Statements ==
  [kind : {"decl"},
   decls : Seq([name : STRING, init : BOOLEAN, value : Seq(Components)]),
   unseen : SUBSET STRING] \cup
  [kind : {"assign", "update"}, target : Targets, value : Seq(Components),
   unseen : SUBSET STRING] \cup
  [kind : {"expr", "call", "return"}, value : Seq(Components), unseen : SUBSET STRING] \cup
  [kind : {"other", "unsupported"}, unseen : SUBSET STRING]

IsAssignment(s) == s.kind \in {"assign", "update"}

ASSUME ParamsAssumption == Entry \in Fns /\ \A f \in Fns : Params[f] \in Seq(STRING)

ASSUME StatementsAssumption ==
  /\ IsFiniteSet(Fns)
  /\ \A f \in Fns : \A s \in Source[f] :
       /\ s \in Statements
       /\ s.kind = "call" => Len(s.value) = 1 /\ s.value[1].kind = "call"
       /\ s.kind = "return" => Len(s.value) <= 1
       /\ IsAssignment(s) /\ s.target.kind = "paren" => s.target.of.name \in s.unseen

ValuesIn(s) ==
  CASE s.kind = "decl" -> {s.decls[i].value : i \in 1 .. Len(s.decls)}
    [] s.kind \in {"other", "unsupported"} -> {}
    [] OTHER -> {s.value}

VARIABLES
  frames,           \* the builders at work, the entry function's first
  positionContext,  \* *positionContext
  subComputations,  \* the Computations of the callees built so far
  renamings,        \* how many blocks the library has renamed
  status            \* "running", "exit", "uncaught", "crash" or "done"

vars == <<frames, positionContext, subComputations, renamings, status>>

-------------------------------------------------------------------------------
(* A data space: a name of the source, behind a prefix for every inlining  *)
(* it has been through.                                                    *)
DataSpace(name) == [prefixes |-> << >>, name |-> name]
Rename(n, d) == [d EXCEPT !.prefixes = <<n>> \o @]

NewComputation(f) ==
  [dataSpaces |-> {DataSpace(Params[f][i]) : i \in 1 .. Len(Params[f])},
   stmts |-> << >>, returnValues |-> << >>]

NoStmt == [kind |-> "none"]

(* A new builder: its members, the place it has reached in the source, the *)
(* components of the statement still to process, and, of the call it is    *)
(* inlining, whether the callee has been built for it and the oldContext.  *)
Builder(f) ==
  [fn |-> f, computation |-> NewComputation(f), haveFoundAReturn |-> FALSE,
   varDecls |-> << >>, dataAccesses |-> {},
   open |-> << >>, stmt |-> NoStmt, todo |-> << >>, started |-> 0,
   building |-> FALSE, oldContext |-> EmptyContext]

Init ==
  /\ frames = <<Builder(Entry)>>
  /\ positionContext = EmptyContext
  /\ subComputations = << >>
  /\ renamings = 0
  /\ status = "running"

Top == Back(frames)

(* The builder at work becomes b, at the position it has or at another. *)
Move(c, b) ==
  /\ positionContext' = c
  /\ frames' = [frames EXCEPT ![Len(frames)] = b]
  /\ UNCHANGED <<subComputations, renamings, status>>
Stay(b) == Move(positionContext, b)

(* Utils::printErrorAndExit, an exception nobody catches, a null pointer. *)
Stop(how) ==
  /\ status' = how
  /\ UNCHANGED <<frames, positionContext, subComputations, renamings>>
Exit == Stop("exit")

-------------------------------------------------------------------------------
(* What processSingleStmt has to do for a statement before addStmt: the    *)
(* accesses, declarations and calls in the order it comes to them.         *)

(* processComplexExpr: the components one after the other. *)
ExprWork(value, processReads) ==
  IF \E i \in 1 .. Len(value) : value[i].kind = "opaque"
    THEN <<[do |-> "fail"]>>
    ELSE [i \in 1 .. Len(value) |->
            [do |-> IF value[i].kind = "call" THEN "call" ELSE "component",
             expr |-> value[i], reads |-> processReads]]

Write(c) == [do |-> "write", expr |-> c]
Ref(name) == [kind |-> "ref", name |-> name]

Unparen(c) == IF c.kind = "paren" THEN c.of ELSE c

Initialise(d) ==
  IF d.init THEN Append(ExprWork(d.value, TRUE), Write(Ref(d.name))) ELSE << >>

Work(s) ==
  CASE s.kind = "decl" ->
         [i \in 1 .. Len(s.decls) |-> [do |-> "declare", decl |-> s.decls[i]]]
    [] IsAssignment(s) ->
         <<Write(s.target)>> \o
         (IF s.kind = "update" THEN ExprWork(<<Unparen(s.target)>>, TRUE) ELSE << >>) \o
         ExprWork(s.value, TRUE)
    [] s.kind \in {"expr", "call"} -> ExprWork(s.value, FALSE)
    [] OTHER -> << >>

(* The data accesses of a name or an array: the arrays in its subscripts   *)
(* are read as well, iterators are not accesses.                           *)
IsIterator(d) == d.prefixes = << >> /\ IsIteratorName(positionContext, d.name)

Accesses(c, isRead) ==
  LET all == {[name |-> DataSpace(c.name), isRead |-> isRead]} \cup
             (IF c.kind = "array"
                THEN {[name |-> DataSpace(x), isRead |-> TRUE] : x \in NamesIn(c.subs)}
                ELSE {})
  IN {a \in all : ~IsIterator(a.name)}

-------------------------------------------------------------------------------
(* One step of the builder at work. *)
Running == status = "running"
BetweenStmts == Running /\ Top.stmt.kind = "none"
Working(do) == Running /\ Top.todo # << >> /\ Head(Top.todo).do = do

(* What C guarantees of a statement the builder is given: the names in it  *)
(* are declared, and a name is declared twice only in different scopes     *)
(* (here, the second time at the beginning of a loop's body).              *)
Mentions(c) ==
  CASE c.kind = "ref" -> {c.name}
    [] c.kind = "array" -> {c.name} \cup NamesIn(c.subs)
    [] c.kind = "call" -> {c.args[i].name : i \in {j \in 1 .. Len(c.args) : c.args[j].kind = "ref"}}
    [] c.kind = "paren" -> {c.of.name}
    [] OTHER -> {}

Declared ==
  NamesIn(Params[Top.fn]) \cup NamesIn(Top.varDecls) \cup NamesIn(positionContext.iterators)

IsLegal(s) ==
  LET mentioned(v) == UNION {Mentions(v[i]) : i \in 1 .. Len(v)}
      declares == IF s.kind = "decl" THEN {s.decls[i].name : i \in 1 .. Len(s.decls)} ELSE {}
  IN /\ s.unseen \cup UNION {mentioned(v) : v \in ValuesIn(s)} \subseteq Declared \cup declares
     /\ IsAssignment(s) => Mentions(s.target) \subseteq Declared
     /\ \/ declares \cap Declared = {}
        \/ /\ Top.open # << >>
           /\ Back(Top.open).kind = "for"
           /\ Back(positionContext.schedule).valueIsVar

CanStart == BetweenStmts /\ Top.started < MaxStarts[Top.fn]
Started == [Top EXCEPT !.started = @ + 1, !.dataAccesses = {}]

BeginStmt(s) ==
  /\ CanStart
  /\ IsLegal(s)
  /\ IF s.kind = "unsupported"
       THEN Exit
       ELSE Move(Advance(positionContext),
                 [Started EXCEPT !.stmt = s, !.todo = Work(s)])

(* A name already registered as a data space may not be declared again;    *)
(* varDecls keeps the first declaration of a name.                         *)
Declare ==
  /\ Working("declare")
  /\ LET d == Head(Top.todo).decl IN
       IF DataSpace(d.name) \in Top.computation.dataSpaces
         THEN Exit
         ELSE Stay([Top EXCEPT !.varDecls = Append(@, d.name),
                               !.todo = Initialise(d) \o Tail(@)])

Accessed(accesses) ==
  Stay([Top EXCEPT !.dataAccesses = @ \cup accesses, !.todo = Tail(@)])

AccessComponent ==
  /\ Working("component")
  /\ LET c == Head(Top.todo).expr IN
       Accessed(IF Head(Top.todo).reads /\ Plain(c) THEN Accesses(c, TRUE) ELSE {})

(* A target that is neither a name nor an array is no access. *)
AccessTarget ==
  /\ Working("write")
  /\ LET c == Head(Top.todo).expr IN
       Accessed(IF Plain(c) THEN Accesses(c, FALSE) ELSE {})

FailExpr == Working("fail") /\ Exit

-------------------------------------------------------------------------------
(* inlineFunctionCall. *)

Call == Head(Top.todo).expr
SimpleArgs == \A i \in 1 .. Len(Call.args) : Call.args[i].kind \in {"ref", "lit"}

(* The end of a call: a bare call is the whole statement, of any other     *)
(* call processComplexExpr records the value it returned.                  *)
AfterCall(b, read) ==
  LET c == [b EXCEPT !.todo = Tail(@), !.dataAccesses = @ \cup read, !.building = FALSE] IN
    IF c.stmt.kind = "call" THEN [c EXCEPT !.stmt = NoStmt] ELSE c

(* Arguments are too complex or the callee has no definition. *)
CallFails ==
  /\ Working("call")
  /\ ~SimpleArgs \/ Call.callee \notin Fns \cup Reserved
  /\ Exit

CallReserved ==
  /\ Working("call")
  /\ SimpleArgs
  /\ Call.callee \in Reserved
  /\ LET spaces == {i \in 1 .. Len(Call.args) :
                     /\ Call.args[i].kind = "ref"
                     /\ DataSpace(Call.args[i].name) \in Top.computation.dataSpaces}
     IN Stay(AfterCall(Top, UNION {Accesses(Call.args[i], TRUE) : i \in spaces}))

(* subComputations has a key for every callee built and, where the         *)
(* compiler evaluates the left side of                                     *)
(*   subComputations[calleeName] = builder->buildComputationFromFunction() *)
(* before the right one, for those being built, with a null pointer: C++14 *)
(* leaves the order open.                                                  *)
HasKey(f) ==
  \/ f \in DOMAIN subComputations
  \/ KeyFirst /\ \E k \in 2 .. Len(frames) : frames[k].fn = f

(* There is no key for the callee: a new builder starts on it, with a      *)
(* context of its own in place of the caller's.                            *)
BuildCallee ==
  /\ Working("call")
  /\ SimpleArgs
  /\ Call.callee \in Fns \ Reserved
  /\ ~Top.building
  /\ ~HasKey(Call.callee)
  /\ frames' = Append([frames EXCEPT ![Len(frames)].oldContext = positionContext,
                                     ![Len(frames)].building = TRUE],
                      Builder(Call.callee))
  /\ positionContext' = EmptyContext
  /\ UNCHANGED <<subComputations, renamings, status>>

(* (A mistake: the callee's context stays.)                                *)
CalleeContext == positionContext
CallerContext == Back(PopBack(frames)).oldContext

(* (A mistake: what was built is not kept.)                                *)
KeepNothing(f, computation) == subComputations
Keep(f, computation) ==
  [g \in DOMAIN subComputations \cup {f} |-> IF g = f THEN computation
                                                     ELSE subComputations[g]]

(* The callee's builder is done: its Computation is kept and the caller's  *)
(* context put back.                                                       *)
FinishCallee ==
  /\ BetweenStmts
  /\ Top.open = << >>
  /\ Len(frames) > 1
  /\ subComputations' = Keep(Top.fn, Top.computation)
  /\ LET caller == PopBack(frames) IN
       /\ positionContext' = CallerContext
       /\ frames' = [caller EXCEPT ![Len(caller)].oldContext = EmptyContext]
  /\ UNCHANGED <<renamings, status>>

Schedules(computation) ==
  [i \in 1 .. Len(computation.stmts) |-> computation.stmts[i].schedule]

(* Computation::appendComputation: an assignment for each parameter, then  *)
(* the statements of the callee, all data spaces renamed.                  *)
Block(f, computation) ==
  LET n == Len(Params[f]) IN
    [i \in 1 .. n |-> <<Num(i - 1)>>] \o Place(<<Num(n)>>, Schedules(computation))

AppendComputation(into, f, callee, t, args, n) ==
  LET block == Block(f, callee)
      schedules == Place(t, block)
      params == Params[f]
      renamed(names) == {Rename(n, d) : d \in names}
      assign(i) ==
        [schedule |-> schedules[i],
         reads |-> IF args[i].kind = "ref"
                     THEN {DataSpace(args[i].name)} \cap into.dataSpaces ELSE {},
         writes |-> {Rename(n, DataSpace(params[i]))}]
      body(i) ==
        [schedule |-> schedules[Len(params) + i],
         reads |-> renamed(callee.stmts[i].reads),
         writes |-> renamed(callee.stmts[i].writes)]
  IN [into EXCEPT
        !.dataSpaces = @ \cup renamed(callee.dataSpaces),
        !.stmts = @ \o [i \in 1 .. Len(params) |-> assign(i)]
                    \o [i \in 1 .. Len(callee.stmts) |-> body(i)]]

(* The values the call returns, under the names they have in the caller. *)
Returned(callee, n) ==
  [i \in 1 .. Len(callee.returnValues) |->
     LET v == callee.returnValues[i] IN
       IF v \in callee.dataSpaces THEN Rename(n, v) ELSE v]

(* The value processComplexExpr takes for the call's, the last.            *)
(* (A mistake: under the name it has in the callee.)                       *)
NameInCallee(callee, n) == Back(callee.returnValues)
ReturnedValue(callee, n) == Back(Returned(callee, n))

(* The position after the last one the block uses.                         *)
(* (A mistake: advanceSchedule is not called.)                             *)
OntoBlock(last) == SkipTo(positionContext, last)
PastBlock(last) == Advance(SkipTo(positionContext, last))

InlineCall ==
  /\ Working("call")
  /\ SimpleArgs
  /\ Call.callee \in DOMAIN subComputations \ Reserved
  /\ LET f == Call.callee
         callee == subComputations[f]
         t == positionContext.schedule
         values == callee.returnValues
         value == ReturnedValue(callee, renamings)
         read == IF values # << >> /\ Head(Top.todo).reads /\ ~IsIterator(value)
                   THEN {[name |-> value, isRead |-> TRUE]} ELSE {}
     IN IF HasIterSpaceString(positionContext) /\ CanSkip(t) /\ Len(values) <= 1
          THEN /\ frames' = [frames EXCEPT ![Len(frames)] =
                      AfterCall([Top EXCEPT !.started = @ + 1, !.computation =
                        AppendComputation(@, f, callee, t, Call.args, renamings)], read)]
               /\ \E last \in TuplePositions(t, Block(f, callee)) :
                    positionContext' = PastBlock(last)
               /\ renamings' = renamings + 1
               /\ UNCHANGED <<subComputations, status>>
          ELSE Exit

(* What subComputations has for the callee is the null pointer; its        *)
(* argument getIterSpaceString is evaluated before it is used.             *)
AppendNull ==
  /\ Working("call")
  /\ SimpleArgs
  /\ Call.callee \in Fns \ (Reserved \cup DOMAIN subComputations)
  /\ Top.building \/ HasKey(Call.callee)
  /\ Stop(IF HasIterSpaceString(positionContext) THEN "crash" ELSE "exit")

-------------------------------------------------------------------------------
(* addStmt. *)

NamesAccessed(isRead) == {a.name : a \in {b \in Top.dataAccesses : b.isRead = isRead}}

Invariants(c) == UNION NamesIn(c.invariants)

(* What the statement brings to the Computation's data spaces.             *)
NewDataSpaces(reads, writes) == (reads \cup writes) \ Top.computation.dataSpaces

AddStmt ==
  /\ Running
  /\ Top.stmt.kind \notin {"none", "return"}
  /\ Top.todo = << >>
  /\ LET reads == NamesAccessed(TRUE)
         writes == NamesAccessed(FALSE)
         new == NewDataSpaces(reads, writes)
         stmt == [schedule |-> positionContext.schedule, reads |-> reads,
                  writes |-> writes]
     IN CASE \/ Top.haveFoundAReturn
             \/ ~HasIterSpaceString(positionContext)
             \/ \E x \in Invariants(positionContext) : DataSpace(x) \in writes
               -> Exit
          [] ~(new \subseteq {DataSpace(x) : x \in NamesIn(Top.varDecls)})
               -> Stop("uncaught")
          [] OTHER
               -> Stay([Top EXCEPT !.computation.dataSpaces = @ \cup new,
                                   !.computation.stmts = Append(@, stmt),
                                   !.stmt = NoStmt])

(* processReturnStmt. *)
AddReturn ==
  /\ Running
  /\ Top.stmt.kind = "return"
  /\ LET value == Top.stmt.value IN
       IF \/ Top.haveFoundAReturn
          \/ positionContext.nestLevel # 0
          \/ value # << >> /\ value[1].kind \notin {"ref", "lit"}
         THEN Exit
         ELSE Stay([Top EXCEPT !.haveFoundAReturn = TRUE, !.stmt = NoStmt,
                !.computation.returnValues =
                  @ \o [i \in 1 .. Len(value) |-> DataSpace(value[i].name)]])

-------------------------------------------------------------------------------
(* The structures, as in FunctionWalk. *)
CanOpen == CanStart /\ Len(Top.open) < MaxDepth
Enter(c, open) == Move(c, [Started EXCEPT !.open = open])
Leave(c) == Move(c, [Top EXCEPT !.open = PopBack(@)])

OpenFor(h) ==
  /\ CanOpen
  /\ (h.scalars \cup h.arrays \cup h.inner) \ {h.iter} \subseteq Declared
  /\ LET at == Advance(positionContext) IN
       IF ForError(h) = "none"
         THEN Enter(EnterFor(at, h), Append(Top.open, Scope("for", h, at)))
         ELSE Exit

EndOfBody(kinds) ==
  BetweenStmts /\ Top.open # << >> /\ Back(Top.open).kind \in kinds

CloseFor ==
  /\ EndOfBody({"for"})
  /\ AllowEmptyBody \/ ~Back(positionContext.schedule).valueIsVar
  /\ Leave(ExitFor(positionContext))

OpenIf(c) ==
  /\ CanOpen
  /\ IF IfError(c)
       THEN Exit
       ELSE Enter(EnterIf(positionContext, c),
                  Append(Top.open, Scope("then", c, positionContext)))

CloseIf ==
  /\ EndOfBody({"then", "else"})
  /\ Leave(ExitIf(positionContext))

ElseBranch ==
  /\ EndOfBody({"then"})
  /\ LET at == ExitIf(positionContext) IN
       \E op \in Negations(Back(Top.open).node.op) :
         LET c == [Back(Top.open).node EXCEPT !.op = op] IN
           IF IfError(c)
             THEN Exit
             ELSE Move(EnterIf(at, c), [Top EXCEPT !.open =
                                          Append(PopBack(@), Scope("else", c, at))])

(* A program that would leave a loop without a body is followed no further *)
(* unless AllowEmptyBody.                                                  *)
Abandon ==
  /\ EndOfBody({"for"})
  /\ ~AllowEmptyBody
  /\ Back(positionContext.schedule).valueIsVar
  /\ Exit

(* The end of the entry function. *)
Finish ==
  /\ BetweenStmts
  /\ Top.open = << >>
  /\ Len(frames) = 1
  /\ Stop("done")

Terminated == status # "running" /\ UNCHANGED vars

Next ==
  \/ \E s \in Source[Top.fn] : BeginStmt(s)
  \/ Declare \/ AccessComponent \/ AccessTarget \/ FailExpr
  \/ CallFails \/ CallReserved \/ BuildCallee \/ FinishCallee
  \/ InlineCall \/ AppendNull
  \/ AddStmt \/ AddReturn
  \/ \E h \in Headers : OpenFor(h)
  \/ CloseFor
  \/ \E c \in Conds : OpenIf(c)
  \/ ElseBranch
  \/ CloseIf
  \/ Abandon
  \/ Finish
  \/ Terminated

Spec == Init /\ [][Next]_vars

-------------------------------------------------------------------------------
(***************************************************************************)
(* Properties.                                                             *)
(***************************************************************************)
Computations ==
  {frames[k].computation : k \in 1 .. Len(frames)} \cup
  {subComputations[f] : f \in DOMAIN subComputations}

(* The type invariant of the build. *)
TypeOK ==
  /\ Len(frames) \in 1 .. Cardinality(Fns)
  /\ \A k \in 1 .. Len(frames) :
       /\ frames[k].fn \in Fns
       /\ frames[k].haveFoundAReturn \in BOOLEAN
       /\ frames[k].building \in BOOLEAN
       /\ frames[k].started \in Nat
       /\ frames[k].oldContext \in ContextSet(Iterators)
       /\ frames[k].stmt.kind = "none" => frames[k].todo = << >>
  /\ positionContext \in ContextSet(Iterators)
  /\ DOMAIN subComputations \subseteq Fns
  /\ renamings \in Nat
  /\ status \in {"running", "exit", "uncaught", "crash", "done"}

(* What an inlined function contributes is what FunctionWalk assumes of a  *)
(* block: its statements are in order, each behind a position of the       *)
(* function's body, and it returns at most one value, whatever it has      *)
(* inlined itself.                                                         *)
CalleesAreBlocks ==
  \A f \in DOMAIN subComputations :
    LET ts == Schedules(subComputations[f]) IN
      /\ InScheduleOrder(ts)
      /\ \A i \in 1 .. Len(ts) : ts[i] # << >> /\ ~ts[i][1].valueIsVar
      /\ Len(subComputations[f].returnValues) <= 1

(* A data space of an inlined function is read only behind a write to it:  *)
(* the assignment of the parameter, or a statement of the function.  The   *)
(* schedules, the renaming and the value a call returns must agree for it. *)
(* (It supposes that the functions initialise their variables.)            *)
InlinedReadsFollowWrites ==
  \A c \in Computations :
    \A i \in 1 .. Len(c.stmts) :
      \A d \in {r \in c.stmts[i].reads : r.prefixes # << >>} :
        \E j \in 1 .. Len(c.stmts) :
          /\ d \in c.stmts[j].writes
          /\ Before(c.stmts[j].schedule, c.stmts[i].schedule)

(* No assignment or declaration the builder accepts within a loop, however *)
(* deep, writes what enterFor collected from the condition of the loop,    *)
(* the iterators of the loops apart: addStmt's "Code may not modify        *)
(* loop-invariant data space" (ComputationBuilder.cpp).                    *)
Assigned(s) ==
  CASE s.kind = "decl" -> {s.decls[i].name : i \in {j \in 1 .. Len(s.decls) : s.decls[j].init}}
    [] IsAssignment(s) -> IF Plain(s.target) THEN {s.target.name} ELSE {}
    [] OTHER -> {}

Collected(h) == h.scalars \cup h.arrays

ForsAmong(o) == {k \in 1 .. Len(o) : o[k].kind = "for"}
IteratorsOf(o) == {o[k].node.iter : k \in ForsAmong(o)}

StmtEnds == Top.stmt.kind # "none" /\ frames'[Len(frames)].stmt.kind = "none"

AssignmentsKeepLoops ==
  [][ StmtEnds => \A k \in ForsAmong(Top.open) :
        (Assigned(Top.stmt) \ IteratorsOf(Top.open))
          \cap Collected(Top.open[k].node) = {} ]_vars

(* What the message promises: nothing accepted within a loop, a statement  *)
(* or the initializer of a loop nested in it, changes any name the loop's  *)
(* condition refers to, its iterator included.                             *)
Changes(s) == Assigned(s) \cup s.unseen

Refers(h) == Collected(h) \cup h.inner

ForOpens ==
  /\ Len(frames') = Len(frames) /\ Len(Back(frames').open) > Len(Top.open)
  /\ Back(Back(frames').open).kind = "for"

AssignedFirst(h) == IF h.init = "assign" THEN {h.iter} ELSE {}

LoopsStayInvariant ==
  [][ \A k \in ForsAmong(Top.open) :
        LET names == Refers(Top.open[k].node) IN
          /\ StmtEnds => Changes(Top.stmt) \cap names = {}
          /\ ForOpens => AssignedFirst(Back(Back(frames').open).node) \cap names = {} ]_vars

(* A Computation that is appended has been built: "build Computation from  *)
(* calleeDefinition, if we haven't done so already"                        *)
(* (ComputationBuilder.cpp).  (It supposes that no function calls itself,  *)
(* which nothing in the code makes sure of.)                               *)
AppendedAreBuilt == status # "crash"

(* A call's value can be used: the name processComplexExpr gets for it is  *)
(* one the caller's Computation has, whatever was inlined, and addStmt's   *)
(* varDecls.at throws nothing.  (It supposes that functions initialise     *)
(* their variables, and that they return no number, though "Return value   *)
(* is too complex, must be data space or number literal"                   *)
(* (ComputationBuilder.cpp) allows it.)                                    *)
NoUncaughtException == status # "uncaught"
===============================================================================
