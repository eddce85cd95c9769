# SPF-IE: models, checks and proofs

SPF-IE walks the Clang AST of one C function and builds from it a *Computation* of the
Sparse Polyhedral Framework (IEGenLib): for every statement an iteration space, an execution
schedule, and the data spaces it reads and writes. This directory models how that is done,
checks it with TLC and proves part of it with TLAPS.

The program is sequential: no threads, no messages, nothing persisted. What makes it hard is
the bookkeeping. One mutable, *static* `PositionContext` is pushed and popped, by fixed counts,
along the recursion over the AST; the build of a called function replaces it in the middle of
a statement; checks consult lists collected earlier. Every mistake shows far from its cause, in
the schedule or the scope of a later statement.

## Inventory

| Component | State | Operations | Interacts with |
|---|---|---|---|
| `ExecSchedule` | `scheduleTuple`: numbers and iterators | `pushValue`, `popValue`, `advanceSchedule`, `skipToPosition` | held by the context |
| `PositionContext` | iterators, constraints, schedule, nestLevel, invariants | `enterFor`, `exitFor`, `enterIf`, `exitIf`, `isIteratorName`, printing | asks `DataAccessHandler` for the accesses of a loop's condition |
| `ComputationBuilder` | `computation`, `haveFoundAReturn`, `varDecls`, `dataAccesses`, replacements; static: `positionContext`, `subComputations` | `processBody`, `processSingleStmt`, `addStmt`, `processReturnStmt`, `inlineFunctionCall`, `processComplexExpr` | nests builders for callees, calls `appendComputation` |
| `DataAccessHandler` | accesses and data spaces of one statement; during a call the stack of indexes of each array at work | `processExprAsRead/Write`, `process{Read,Write}ToScalarName`, `makeDataAccessesFromExpr`, `getArrayExprInfo`, `toString` | asks the static context for iterators; `enterFor` and the printing use its static functions |
| `Utils` | `replacementVarNumber` | printing, `collectComponentsFromCompoundExpr`, `printErrorAndExit` | everyone |
| `Driver` | one builder per translation unit; the static `subComputations` outlives it | `HandleTranslationUnit` | builds the entry function of every file |
| IEGenLib (external) | the Computation | `appendComputation`, `addStmt`, code generation | called by the builder |

What makes each correct: *ExecSchedule* and *PositionContext* - after any sequence of structures
the context is that of the structures still open, and schedules number siblings without reuse.
*ComputationBuilder* - the emitted statements are in the order of the source, callees included;
what is inlined has been built, and its data is ready where it is; what a loop's condition
depends on does not change in the loop; a program is either refused with a message or built.
*DataAccessHandler* - the accesses recorded are those the expression makes, in the order of
evaluation, and what is later looked up among them is there; what a constraint calls is printed as
a call. *Driver* - what is printed for a file, or refused, does not depend on another's.

PROJECT.json lists the hazards at their lines with the property that watches each, or the
reason why none does.

## Modules

| Module | What it is |
|---|---|
| `ExecSchedule` | The schedule tuple as a value, its operations as functions; `Before`, what a schedule means; where `appendComputation` puts a block (`Place`, `TuplePositions`, external). |
| `PositionContext` | The context as a record, `EnterFor` ... `ExitIf` as functions on it, the refusals `ForError` and `IfError`. |
| `OpenStructures` | What the two machines share: the fors and ifs a builder is in, how its context relates to them (`Balanced`), and what a block of schedules is. |
| `FunctionWalk` | The abstract machine: one builder walking one function. A callee is the block of its schedules, an expression the calls in it. |
| `ComputationBuilder` | The detailed machine: a stack of nested builders sharing `positionContext` and `subComputations`, with statements, expressions, accesses, declarations and returned values. |
| `NonRecursive` | The programs in which no function calls itself (`AcyclicCalls`), which the refinement and the proofs suppose. |
| `BuilderRefinement` | The refinement mapping from `ComputationBuilder` to `FunctionWalk`. |
| `DataAccessHandler` | What becomes of the expressions of one statement or condition: components, accesses with their sub-accesses, invariants, the indexes `toString` comes to; and what is refused. |
| `ExpressionAccesses` | The accesses an expression makes, by recursion over its tree, and the properties that compare the two. |
| `SafeArrays` | The text of a condition: which of its arrays the textual replacements leave as calls. |
| `Driver` | One process and many files: `HandleTranslationUnit`, builders, the Computations kept; and what a file means alone. |
| `MCFunctionWalk`, `MCComputationBuilder`, `MCBuilderRefinement`, `MCDriver` | The instances TLC checks. |
| `OpenStructuresProofs` | Lemmas about schedules and contexts, and about the open structures and blocks. |
| `FunctionWalkProofs`, `ComputationBuilderProofs`, `BuilderWalkProofs`, `BuilderRefinementProofs`, `DataAccessHandlerProofs`, `ExpressionAccessesProofs`, `DriverProofs` | The theorems and their lemmas. |

### How a walk is modelled

The function being built is not fixed. Each step takes the next statement from a small set, or
ends the innermost body, so a behaviour is the build of one program and the behaviours are the
builds of all programs within the bounds. `open` is the recursion of `processSingleStmt`: one
entry per structure, with its node and (history only) the context it was entered in.

`FunctionWalk`'s actions are the pieces of `processSingleStmt`: `BeginStmt` (advanceSchedule
before a simple statement, call or return), `InlineCall`, `ReservedCall`, `AddStmt`, `AddReturn`,
`OpenFor`, `CloseFor`, `OpenIf`, `ElseBranch`, `CloseIf`, `Finish`, and `Reject`, any
`printErrorAndExit` that depends on what the machine abstracts.

`ComputationBuilder` refines this. A statement leaves a work list of declarations, accesses and
calls, in the order the code comes to them (`Work`); `Declare` (which puts the initial value's
work in front), `AccessComponent`, `AccessTarget`, `CallReserved`, `BuildCallee`, `FinishCallee`,
`InlineCall`, `AppendNull` consume it and `AddStmt` ends it. The accesses of a statement are a
set: `addStmt` asks only which there are. A name of the library's renaming is the original name
behind the numbers of the inlinings it has been through.

A call is straight-line code, and so it is here: `BuildCallee` sets the caller's context aside
(`oldContext`), notes in the caller that it is `building` and pushes a new builder; `FinishCallee`
keeps its Computation in `subComputations` and puts the context back; then the call is not tested
again: what `subComputations` has for the callee is appended (`InlineCall`), or the null pointer is
(`AppendNull`, status "crash"). Whether a function that is still being built has a key there
depends on which side of `subComputations[calleeName] = ...` the compiler evaluates first, which
C++14 leaves open: the constant `KeyFirst` (`HasKey`). So recursion, which the code does not
detect, is in the machine: it ends in the null pointer, or builds the function for ever.

What a statement changes behind the code's back is recorded with it: `unseen` has the n of
`y = n = 0` (whose value's components are n and 0, both reads), of `(n) = 3` (a target that is
neither a name nor an array is no access) and of `n++` (no accesses at all). A header has
what `enterFor` collects of its condition, `scalars` and `arrays`, apart from the names it misses,
`inner`: those within the subscripts of its arrays that are no arrays themselves.

What C and Clang guarantee of a program (names declared before use, one declaration per scope)
is in `IsLegal` and in the guard of `OpenFor`, so that no counterexample is a program Clang
would have refused.

IEGenLib is not in the repository. `Place`, `TuplePositions`, `Block`, `AppendComputation`,
`Returned` and `Rename` are what the builder relies on, read off its use and off the expected
Computations of `ComputationBuilderTest.cpp` (`basic_nesting`, `nesting_with_args_and_return`):
one assignment per parameter, the callee's statements behind them at the caller's position,
every data space renamed, `tuplePosition` the last position used. For a callee with nothing to
append the position returned is left open between two values.

### How expressions are modelled

`DataAccessHandler` first takes the parser's part: a tree comes bottom up, as the sequence of its
nodes, and a node's place is its ID (Clang's, which the code keeps as a string). `Begin` makes
the two expressions an assignment, a declaration or a loop's condition, and leaves a list of
tasks in the code's order. From there every step is one of the code's. `Collect` is
`collectComponentsFromCompoundExpr`. The recursion of `doBuildArrayAccessWork` is a stack
(`frames`): `GetArrayExprInfo` pushes one subscript, `TakeIndex` takes the index on top or calls
itself on it, `MakeDataAccess` returns. `Record`, `AddInvariants` and `BeginToString`,
`Stringify` are the three uses of the accesses: the statement's, `enterFor`'s and the text's.
`Describe` is the part of `getDataAccessString` that replaces indexes by variables. An expression
of a kind the code has no case for is an "other" node, and is refused where
`collectComponentsFromCompoundExpr` comes to it (`RefusedAs`); as a subscript, or as the target
of an assignment, nothing looks at it.

The reference in `ExpressionAccesses` knows nothing of stacks, nor of where the code searches:
`AccessesIn` has every variable and array that an expression reads, those within
subscripts included. The code records those of data spaces but for what is within a
subscript that is no array itself (`InSubscripts`), and `AccessesAreOfTheTree` says that it leaves out
exactly these; that its comment promises them too is run `subaccesses`.

`SafeArrays` is `exprToStringWithSafeArrays` on the text. A text is the tree with the set of
array nodes that have become calls. For each component that is an array, in turn, its text is replaced
wherever it is found (`ReplaceInString`, IEGenLib's): where a node has the same text, and nothing
within it has been replaced before. An occurrence that is no node (a piece of an identifier or of
a differently bracketed sum) is not modelled.

### How several files are modelled

In `Driver` a function body is a sequence of statements, returns and calls: what the builders of
two files, or two functions, could disturb in each other. `HandleTranslationUnit` takes any next
file; `BuildCallee`, `FinishCallee` and `InlineCall` are `inlineFunctionCall`, with
`subComputations` kept by name. The specification is the file alone: `Meaning(F, f, k, returned)`
is the statements of `f` from its k-th item with calls replaced by what they mean in `F`, or a
refusal. It is a constant that satisfies the equations of `MeaningOf`, so that proofs can use it;
`MCDriver` gives it by recursion and TLC evaluates the equations.

## Runs

| Run | Question | Bounds |
|---|---|---|
| `scopes` | Are schedules unique and in source order; do the lists of a context stay in step with the structures; does a for give its context back? | 6 statements and calls, nested 3 deep, 2 loops, every refusal of `enterFor`, comparison, "==" (whose else is refused), "!=" and `&&`, callees of no statement, of two, of a statement and a loop; 3.0 million states |
| `accesses` | Does any assignment or declaration that is accepted write what the condition of a loop around it was collected to have? | 4 statements of 21 kinds, chained, opaque, parenthesised and iterator targets among them, 2 deep, conditions on scalars and arrays; 158 thousand states |
| `walk` | Does the detailed machine implement the abstract one; do inlined functions keep order, are values written before they are read; is what is appended built, and the value of a call a data space of the caller? | main calls f and g, f calls g; main 4 statements, callees 2, loops and branches 1 deep, g declares a variable and may return it, every block they can contribute; 242 thousand states |
| `subscripts` | Are the accesses recorded those of the tree, the arrays called among the invariants collected, and is the dimension limit exact? | every two expressions of together 8 nodes, two data spaces and an iterator, `MAX_ARRAY_DIM` 2; 9.0 million states |
| `driver` | Is a file's output, or its refusal, its own, as long as the files agree on the functions they call? | two files, functions main, f and g each with 3 or 4 bodies or missing; 14 thousand states |

Eight nodes are enough for an array within a subscript within a subscript, an array of three
dimensions (one too many), a compound subscript with an array in it, and a second expression next to them.
Two files are what one stale Computation or builder needs; the theorems take any number.

Three siblings nested three deep cover every way a structure can precede, follow or contain
another; a mistake in a pop shows in the sibling after it. Three functions in a chain cover a
callee that was itself built by inlining, first use and reuse of a Computation. Each property
has a mutant of the code - a pop too few or too many, a position not taken over, a context not
put back, a Computation not kept, a value under its old name, invariants without arrays - that
makes it fail under the same bounds.

The runs that expect a violation check one property each, a sentence of the code's own comments
or messages that the code does not keep:

| Run | Property | What happens |
|---|---|---|
| `empty_body` | `EmittedInOrder` | after a loop whose body takes no position a schedule is reused |
| `after_return` | `NothingAfterReturn` | a bare call after a return is inlined |
| `literal_return` | `NoUncaughtException` | the value of a function returning 3 ends in `std::out_of_range` |
| `increments` | `LoopsStayInvariant` | `n++` in a loop bounded by n |
| `subaccesses` | `AllAccessesMade` | m in `x[m]`, or A in `x[A[i] + 1]`, is no access of the statement, nor an invariant of the loop in a condition |
| `replacement` | `ComponentsAreCalls` | `A[i] + A[A[i]]` is printed `A(i) + A[A(i)]` |
| `same_name` | `CalleesAreTheirs` | two files define different functions g; the second is printed with the first one's |

What a loop may not change is stated twice. `AssignmentsKeepLoops`, which holds and is proved, is
about what the code looks at: the targets of assignments and declarations, and what `enterFor`
collected. `LoopsStayInvariant` is what the message of `addStmt` promises, on all that a statement or
a nested loop's initializer changes and all that a condition refers to. It fails on what the
code does not see: `n++`, `y = n = 0`, `(n) = 3`, `for (n = 0; ...)`, the n of `i < A[n]`, and a
write to the iterator, which is among the invariants, but skipped (`DataAccessHandler.cpp:93`).

`NoUncaughtException` is in a passing run and in one that expects a violation: it holds, at every
depth of inlining, of functions that initialise their variables and return no number.
`AppendedAreBuilt` holds of functions that do not call themselves. Run `accesses` has one that
does: it comes to `AppendNull` there.

`ComponentsAreCalls` is about the arrays `exprToStringWithSafeArrays` goes through. An array
within another subscript, the inner one of `A[i + A[i]]`, keeps its brackets always, since
`toString` copies such a subscript as it is.

### Bounds, deadlock and fairness

`MaxStarts` bounds the statements and calls of a function in `ComputationBuilder`, and `Starts`
in `FunctionWalk`: there it is the set of numbers of statements after which there may be one more,
`0 .. 5` or fewer in the runs and `Nat`, no bound, in the refinement. `MaxDepth` bounds the nesting. With
`AllowEmptyBody = FALSE` a loop may end only once its body has taken a position; the program that
would leave it without one is followed no further (in `ComputationBuilder`, action `Abandon`).
Run `scopes` has no empty bodies; `ScheduleShape` and `BalancedScopes` hold with them too, by the
theorems below. `MaxNodes` bounds the trees, `MaxFiles` the files. Deadlock is checked in every run.

No specification states fairness, and there is no liveness property. The tool is one thread that
nothing blocks, and its loops go over a finite AST; that it comes to an end could fail only by
recursion in the C program, and there it does: with `KeyFirst` FALSE the build never ends, with
TRUE it ends in the null pointer. A liveness property that supposes
`AcyclicCalls` would say no more than that the AST is finite.

## Proofs

For every set of iterator names, headers, conditions and well-formed blocks, every length and
every depth (`SourceAssumption`, `BlocksAssumption`):

- `TypeCorrect`, `SchedulesWellFormed`, `ScopesBalanced`: `Spec => []TypeOK`, `[]ScheduleShape`,
  `[]BalancedScopes`. Their conjunction `IInv` is inductive; no part is by itself. `exitFor` pops
  two entries, and that these are the body's last position and the iterator, or the iterator and
  the loop's position, follows only from the shape; that the iterator is the loop's, from the balance.
  The shape survives an empty body (the tuple has 2n or 2n+1 entries for n iterators), which
  is why these hold with `AllowEmptyBody` too.
- `StatementsInOrder`: with `AllowEmptyBody = FALSE`, `Spec => []EmittedInOrder`. The invariant
  `OrderInv` adds where the builder stands: every schedule emitted is *passed*, that is, they agree
  up to an entry, a number in both, where the statement's is smaller, or equal in the builder's
  last entry; while the builder is at a statement the former holds. `advanceSchedule` turns the
  second into the first, `exitFor` the first into the second one level up, and a placed block
  lies between what was passed and the position after it. The empty body is exactly the case in which
  `exitFor` loses it, as run `empty_body` shows.
- `ForsAreRestored`: with `AllowEmptyBody = FALSE`, `Spec => ExitForRestores`. `exitFor` pops two
  entries of the schedule without looking at them. `ForSchedules`, inductive together with `IInv`,
  says that the schedule each open for was entered in is still the beginning of the schedule, up
  to the loop's position, and that the structures inside it lie strictly deeper, so that no step
  within the loop comes near it.

For any functions, parameters, statements and bounds (`ParamsAssumption`: parameters are named;
`StatementsAssumption`: finitely many functions, made of statements as the module's comment
describes them; `AcyclicCalls`, in `NonRecursive`: no function calls itself; `KeyFirstAssumption`:
`KeyFirst` is a truth value, so the theorems hold for either order of evaluation):

- `BuildTypes` and `InlinedFunctionsAreBlocks` (`BuilderWalkProofs`): `Spec => []TypeOK`, and with
  `AllowEmptyBody = FALSE` `Spec => []CalleesAreBlocks`. `WalkInv` says of every builder on the
  stack what `IInv` and `OrderInv` say of `FunctionWalk`'s, each at its own place: the one at work
  at the shared `positionContext`, a caller at the `oldContext` it set aside (`ContextOf`,
  `FrameOK`). The caller's half is what `BuildCallee` leaves behind and `FinishCallee` needs. That
  what is inlined is a block, and that the caller is behind it afterwards, follow from each other:
  a callee's Computation is a block because its builder was behind all it had emitted, blocks
  included (`SchedulesInlined`, `BlockOK`). The depth of the stack is bounded by ranks: callers
  are of greater rank than their callees (`RankOK`, `AcyclicCalls`).
- `ConditionsAreInvariant` (`BuilderWalkProofs`): `Spec => AssignmentsKeepLoops`, with no further
  hypothesis. `LoopInv` says of every builder that what was collected from an open for's condition
  is among the invariants of the context, at every structure within the for, or an iterator
  (`ConditionsHeld`), and that the write to each target of the statement is among the
  accesses recorded, or in the work left to do, however many calls are built in between
  (`WritesRecorded`). `addStmt` then compares the two lists, and accepts the statement only if
  they are disjoint. `enterFor` and `exitFor` push and pop the invariants by counts, so the first
  rests on the balance that `WalkInv` says of nested builders.
- `AppendedComputations` (`BuilderWalkProofs`): `Spec => []AppendedAreBuilt`. `CallsInv` says that each
  builder that waits is at its call of the one above it, still `building`, that ranks go down the
  stack, and that a builder at work that is `building` finds its callee kept: so a callee whose
  key is found in `subComputations` is none of the callers, whose pointers may be null, and what is
  looked up a second time is what `FinishCallee` has stored.
- `ReadsFollowWrites` (`BuilderWalkProofs`): `Spec => []InlinedReadsFollowWrites`, if
  `AllowEmptyBody = FALSE` and `VariablesAreInitialised`. That data is ready where a call is inlined
  rests on three things no one place of the code sees to: a callee writes what it reads, its
  parameters apart, in an earlier statement of its own; the assignments the library adds for the
  parameters come first, and the renaming takes writes and reads along (`AppendedStmts`, `FlowAppended`); and
  what a call hands to the statement around it is a data space of the caller by then. `FlowInv`
  says it of every Computation, at work or kept, by the order of its statements (`ComputationFlow`):
  all of its data spaces, since a caller may come to read any that is returned, are parameters or
  written, and all it reads is so *before*. Of a builder at work it adds (`Initialising`) that its
  parameters are data spaces from the start, to which `appendComputation` writes under the names
  of the inlining long after; that what it has declared is a data space as soon as the statement is added, that no read recorded is of
  what the statement declares, that the write of a variable declared is recorded or left to do,
  and that a value returned where nothing is open is known. `InlinedFunctionsAreBlocks` then
  turns the order of the statements into that of their schedules.
  `VariablesAreInitialised` is about the functions that are called only: each declaration has an
  initial value, which names no variable of the same statement (`int a = x, b = a;` is one statement, whose
  accesses have no order among themselves), and no variable has the name of an iterator
  (`DataAccessHandler.cpp:93` skips its write) or the text of a number returned (which addStmt
  takes for a data space, run `literal_return`). Run `walk` satisfies it.
- `BuilderImplementsWalk` (`BuilderRefinementProofs`): `Spec => ImplementsWalk`, if
  `AllowEmptyBody = FALSE` and `Blocks` has every block there is. Every step maps to a step of
  `FunctionWalk` or to a stutter, one lemma for each action (`SimBeginStmt` ...). Steps of nested
  builders are stutters, since the entry function's context is the one set aside (`NestedStep`,
  `SimBuildCallee`, `SimFinishCallee`); an inlining is the walk's `InlineCall`, because of
  `InlinedFunctionsAreBlocks`. So the theorems about `FunctionWalk`, which need the same
  hypotheses, hold of the detailed machine for sources and call graphs of any size.

For any files and functions (`ItemsAssumption`: an item is one of three things;
`FilesAssumption`; `MeaningAssumption`: the equations of the meaning), and any number of files:

- `FilesIndependent`: `Spec => []FilesAreIndependent`. If the files agree on every function that
  two of them call, each output is what its file means alone. That agreement is needed is the
  hazard itself: `subComputations` takes the name for the definition. The invariant says what
  holds in the middle of a build: what each builder on the stack has collected, followed by the
  meaning of what it has before it, is its function (`BuildersCollect`), and every Computation
  kept is the function's in some file that calls it (`SubComputationsAreSomeFiles`).
- `RefusalsHaveACause`: `Spec => []RefusedForACause`, whether the files agree or not. A refusal
  of what any builder has before it is a refusal of the entry function (`RefusalsReachEntry`),
  as every builder was started by a call that the one below it stands at (`AtTheirCalls`).

For any expressions and any `MAX_ARRAY_DIM` (`DataAccessHandlerProofs`):

- `SubAccessesFound`: `Spec => []StringifyNeverFails`, `toString` never comes to the error its code
  calls unreachable. An index is looked up long after it was taken from a stack that several
  activations used; `SubAccessesMade` says that whatever arrays are among the indexes an activation
  has taken, their accesses have been made. That needs `FramesOK` (an activation that has called
  another is at the index handled there), `TasksOK` and `TreeOK` (only arrays have subscripts and
  are printed).
- `TypeCorrect` of both modules, part of the same inductions.
- `TreeAccesses`, `DimensionsLimited`, `CalledAreInvariant` (`ExpressionAccessesProofs`): `Spec`
  implies `[]AccessesAreOfTheTree`, `[]DimensionLimit`, `[]CalledArraysAreInvariant`. What the
  walks with stacks make of a tree is what the definitions by recursion over its nodes say, in
  two steps: the walks find what there is in the places the code searches (`Searched`: the
  components, and the arrays that are subscripts of one another), and that is what the expression
  accesses but for `InSubscripts`.
  That these recursive functions exist, and what they are at each kind of node, is proved by the
  least counterexample: the operands of a node come before it, so a least node where an equation
  fails has none among its operands. (The library's induction theorems are not needed for that.)
  The order is more than the parser's guard says: `TreeShape`, that the nodes of a right operand
  all come after the left one, so that what is met later has the greater ID (`ArraysAbove`,
  `SubscriptsInOrder`).
  The invariant `AInv` then says at every step what is made *and what is left*. Of an activation,
  that what it has on its stack, at the array it is at and taken is the subscripts of its array
  (`SoFar`), which gives the dimension limit. Of the stack of activations, that the accesses made
  and those each has `Remaining` are the array's, all of an inner one before all of an outer one
  (`MakingOK`). Of the statement, the same of the accesses recorded and those each task is `Due`
  (`RecordedOK`); of the text, of the arrays printed and those still to come (`PrintedOK`); of a
  condition, that each array's name is collected or a task for it is left (`InvariantsOK`). When nothing
  is left, these are the properties (`DoneOK`). An exit is at an array of too many dimensions, or at a
  node of a kind that is refused (`ExitOK`).

The lemmas of `OpenStructuresProofs` are about the operators alone:
what `advanceSchedule` does to the order, that `exitFor` undoes `enterFor`, where a placed block
lies, what `EnterFor` ... `ExitIf` make of a context that is balanced and well formed (`Good`).
Both machines' proofs use them.

The hypothesis `AllowEmptyBody = FALSE` is not for convenience: run `empty_body` shows the order
lost without it. With it, the machines follow no program that leaves a loop without a position.

Only model-checked, of the properties in passing runs, is `NoUncaughtException`: it needs besides
what `ReadsFollowWrites` does that functions return no number, and that every name a statement
accesses is declared in its function, and not in `varDecls` too late.

## Not modelled

- Text: the printing of sets and relations, apart from what `SafeArrays` has; the replacement of
  calls in a statement's text (`stmtSourceCodeReplacements`); the names of replacement variables;
  types of data spaces. Matches of a text that are no node of the tree.
- Of `Driver`: the command line, Clang's errors, printing against code generation; C++ overloads
  and namespaces, which the tool takes for one name. Functions that call themselves are in
  `ComputationBuilder` only; `MCDriver` has none.
- Trees in `ComputationBuilder`: the arrays of a subscript are a list there, the trees are in
  `DataAccessHandler`, where statements stand alone and the loops around them are the constant `Iterators`.
- The meaning of aliasing: a callee that writes through an array parameter; `*p = 3`.
- Code generation and everything else in IEGenLib.

## Plan

1. *Done:* schedule, context, walk, builder with inlining, refinement, the order theorem.
2. *Done:* `DataAccessHandler` on trees against a reference; `Driver` with several files; the
   text of conditions; their theorems.
3. *Done:* proofs of `ExitForRestores`, `TypeOK`, `CalleesAreBlocks`, `AssignmentsKeepLoops`,
   `AppendedAreBuilt`, of the refinement of `FunctionWalk`, of the comparison of `DataAccessHandler`
   with its reference, and of `InlinedReadsFollowWrites`, with a hypothesis that says what
   "initialised" is.
4. An execution of a Computation in schedule order compared with the execution of the program:
   branches whose condition changes before the else, reads within compound subscripts, aliasing.
5. A proof of `NoUncaughtException`.
