-------------------------------- MODULE Driver --------------------------------
(***************************************************************************)
(* A run of the tool: SPFConsumer::HandleTranslationUnit for one file      *)
(* after the other, in one process.  Each file has a builder of its own;   *)
(* the Computations of the functions inlined, in the static map            *)
(* subComputations under their names, outlive it.                          *)
(*                                                                         *)
(* A file gives the functions it defines their bodies, and C lets it       *)
(* define a name once.  Of a body only what the builders of different      *)
(* files can disturb is kept: an item is a statement, a return or a call,  *)
(* which is the name of the function called.  FunctionWalk and             *)
(* ComputationBuilder have the rest.                                       *)
(***************************************************************************)
EXTENDS Integers, Sequences

CONSTANTS
  Functions,     \* the names of functions,
  EntryPoint,    \* the one --entry-point names, if any
  Stmts,         \* statements
  Return,        \* a return
  Files,         \* the files the tool may be given
  MaxFiles,      \* bound on how many it is given
  Meaning(_, _, _, _)

Items == Stmts \cup {Return} \cup Functions

ASSUME ItemsAssumption ==
  Stmts \cap Functions = {} /\ Return \notin Stmts \cup Functions
ASSUME FilesAssumption ==
  \A F \in Files : DOMAIN F \subseteq Functions /\ \A f \in DOMAIN F : F[f] \in Seq(Items)

-------------------------------------------------------------------------------
(* What a file means by itself: Meaning(F, f, k, returned) is what the     *)
(* body of f is from its k-th item on, after a return or not, with the     *)
(* statements of the functions called in place of the calls.               *)
Refused == [ok |-> FALSE, stmts |-> << >>]
Accepted(stmts) == [ok |-> TRUE, stmts |-> stmts]
Then(a, b) == IF a.ok /\ b.ok THEN Accepted(a.stmts \o b.stmts) ELSE Refused

MeaningOf(F, f, k, returned) ==
  LET rest(r) == Meaning(F, f, k + 1, r)
      item == F[f][k]
  IN IF k > Len(F[f]) THEN Accepted(<< >>)
     ELSE IF item \in Functions
       THEN IF item \in DOMAIN F THEN Then(Meaning(F, item, 1, FALSE), rest(returned))
                                 ELSE Refused
     ELSE IF returned THEN Refused
     ELSE IF item = Return THEN rest(TRUE)
     ELSE Then(Accepted(<<item>>), rest(FALSE))

Meanings == {m \in [ok : BOOLEAN, stmts : Seq(Stmts)] : ~m.ok => m = Refused}

ASSUME MeaningAssumption ==
  \A F \in Files : \A f \in DOMAIN F :
    \A k \in 1 .. Len(F[f]) + 1 : \A returned \in BOOLEAN :
      /\ Meaning(F, f, k, returned) \in Meanings
      /\ Meaning(F, f, k, returned) = MeaningOf(F, f, k, returned)

Alone(F, f) == IF f \in DOMAIN F THEN Meaning(F, f, 1, FALSE) ELSE Refused

-------------------------------------------------------------------------------
VARIABLES
  files,            \* the files the tool has come to
  frames,           \* the builders at work on the last of them
  subComputations,  \* the Computations of callees, by name
  outputs,          \* what was printed for each file
  status            \* "running", "done" or "exit"

vars == <<files, frames, subComputations, outputs, status>>

Init ==
  /\ files = << >> /\ frames = << >> /\ subComputations = << >>
  /\ outputs = << >>
  /\ status = "running"

File == files[Len(files)]
Running == status = "running"
Exit == status' = "exit" /\ UNCHANGED <<frames, subComputations, outputs>>

(* A new builder on f: it has come to the first item, and no return.       *)
(* (Mistakes: the builder of the file before is used again, so that a      *)
(* return found there still counts; its Computation is not renewed.)       *)
NewBuilder(f) == [fn |-> f, next |-> 1, stmts |-> << >>, haveFoundAReturn |-> FALSE]
OldBuilder(f) == [NewBuilder(f) EXCEPT !.haveFoundAReturn = outputs # << >>]
OldComputation(f) ==
  [NewBuilder(f) EXCEPT !.stmts = IF outputs = << >> THEN @ ELSE outputs[Len(outputs)]]
Builder(f) == NewBuilder(f)

(* The next file: EntryPoint has a definition in it or the tool exits.     *)
HandleTranslationUnit(F) ==
  /\ Running
  /\ frames = << >>
  /\ Len(files) < MaxFiles
  /\ files' = Append(files, F)
  /\ IF EntryPoint \in DOMAIN F
       THEN frames' = <<Builder(EntryPoint)>> /\ UNCHANGED <<subComputations, outputs, status>>
       ELSE Exit

Top == frames[Len(frames)]
Callers == SubSeq(frames, 1, Len(frames) - 1)
Body == File[Top.fn]
AtItem(S) ==
  /\ Running
  /\ frames # << >>
  /\ Top.next <= Len(Body)
  /\ Body[Top.next] \in S
AtEnd == Running /\ frames # << >> /\ Top.next > Len(Body)
Item == Body[Top.next]

Became(b) ==
  /\ frames' = [frames EXCEPT ![Len(frames)] = [b EXCEPT !.next = @ + 1]]
  /\ UNCHANGED <<subComputations, outputs, status>>

(* addStmt and processReturnStmt: neither is allowed behind a return. *)
AddStmt ==
  /\ AtItem(Stmts)
  /\ IF Top.haveFoundAReturn THEN Exit
                             ELSE Became([Top EXCEPT !.stmts = Append(@, Item)])
  /\ UNCHANGED files

AddReturn ==
  /\ AtItem({Return})
  /\ IF Top.haveFoundAReturn THEN Exit
                             ELSE Became([Top EXCEPT !.haveFoundAReturn = TRUE])
  /\ UNCHANGED files

(* inlineFunctionCall: the definition is the file's own, but it is built   *)
(* only when no function of that name has been.                            *)
CallFails ==
  /\ AtItem(Functions \ DOMAIN File)
  /\ Exit
  /\ UNCHANGED files

BuildCallee ==
  /\ AtItem(DOMAIN File \ DOMAIN subComputations)
  /\ frames' = Append(frames, NewBuilder(Item))
  /\ UNCHANGED <<files, subComputations, outputs, status>>

(* appendComputation, as far as it matters here: the statements of the     *)
(* callee, in the place of the call.                                       *)
Inlined(b, stmts) == [b EXCEPT !.stmts = @ \o stmts, !.next = @ + 1]

Keep(f, stmts) ==
  [g \in DOMAIN subComputations \cup {f} |-> IF g = f THEN stmts ELSE subComputations[g]]

(* What was built is kept and appended. *)
FinishCallee ==
  /\ AtEnd
  /\ Len(frames) > 1
  /\ subComputations' = Keep(Top.fn, Top.stmts)
  /\ frames' = [Callers EXCEPT ![Len(Callers)] = Inlined(@, subComputations'[Top.fn])]
  /\ UNCHANGED <<files, outputs, status>>

InlineCall ==
  /\ AtItem(DOMAIN File \cap DOMAIN subComputations)
  /\ frames' = [frames EXCEPT ![Len(frames)] = Inlined(@, subComputations[Item])]
  /\ UNCHANGED <<files, subComputations, outputs, status>>

(* The Computation of the entry point is printed and deleted. *)
FinishFile ==
  /\ AtEnd
  /\ Len(frames) = 1
  /\ outputs' = Append(outputs, Top.stmts)
  /\ frames' = << >>
  /\ UNCHANGED <<files, subComputations, status>>

(* main returns: there is no other file. *)
Finish ==
  /\ Running
  /\ frames = << >>
  /\ files # << >>
  /\ status' = "done"
  /\ UNCHANGED <<files, frames, subComputations, outputs>>

Terminated == ~Running /\ UNCHANGED vars

Next ==
  \/ \E F \in Files : HandleTranslationUnit(F)
  \/ AddStmt \/ AddReturn
  \/ CallFails \/ BuildCallee \/ FinishCallee \/ InlineCall
  \/ FinishFile \/ Finish
  \/ Terminated

Spec == Init /\ [][Next]_vars

-------------------------------------------------------------------------------
(***************************************************************************)
(* Properties.                                                             *)
(***************************************************************************)

(* The type invariant. *)
TypeOK ==
  /\ files \in Seq(Files)
  /\ frames \in Seq([fn : Functions, next : Nat \ {0}, stmts : Seq(Stmts),
                     haveFoundAReturn : BOOLEAN])
  /\ DOMAIN subComputations \subseteq Functions
  /\ \A f \in DOMAIN subComputations : subComputations[f] \in Seq(Stmts)
  /\ outputs \in Seq(Seq(Stmts))
  /\ status \in {"running", "done", "exit"}

(* What is printed for a file is what the tool would print for it alone:   *)
(* "build Computation from calleeDefinition, if we haven't done so         *)
(* already" (ComputationBuilder.cpp) takes the name for the definition.    *)
OutputIsAlone(i) == Accepted(outputs[i]) = Alone(files[i], EntryPoint)

CalleesAreTheirs == \A i \in 1 .. Len(outputs) : OutputIsAlone(i)

(* It is only as long as the files agree on the functions they both call,  *)
(* with those these call in turn: subComputations is shared by all files.  *)
(* Nothing else of one file gets into what is printed for another.         *)
Callees(F) == {f \in DOMAIN F : \E g \in DOMAIN F : \E k \in 1 .. Len(F[g]) : F[g][k] = f}

FilesAgree ==
  \A i, j \in 1 .. Len(files) :
    \A f \in Callees(files[i]) \cap Callees(files[j]) :
      Alone(files[i], f) = Alone(files[j], f)

FilesAreIndependent == FilesAgree => CalleesAreTheirs

(* The tool exits only at a file it would refuse alone, whatever files     *)
(* came before and whether they agree with it: no return found in another  *)
(* file or another function counts.                                        *)
RefusedForACause == status = "exit" => ~Alone(File, EntryPoint).ok
===============================================================================
