----------------------------- MODULE DriverProofs -----------------------------
(***************************************************************************)
(* For any files: the tool prints for each what it means alone, if the     *)
(* files agree on the functions they call, and refuses none for the sake   *)
(* of another.                                                             *)
(***************************************************************************)
EXTENDS Driver, SequenceTheorems, TLAPS

-------------------------------------------------------------------------------
(* The meanings. *)

(* What was collected before what is to come, and one item more of it.     *)
LEMMA ThenIsAssociative ==
  ASSUME NEW a \in Seq(Stmts), NEW b \in Seq(Stmts), NEW R \in Meanings
  PROVE  Then(Accepted(a \o b), R) = Then(Accepted(a), Then(Accepted(b), R))
<1>1. R.stmts \in Seq(Stmts)
  BY DEF Meanings
<1>2. \A c \in Seq(Stmts) : (a \o b) \o c = a \o (b \o c)
  BY ConcatAssociative
<1> QED
  BY <1>1, <1>2 DEF Then, Accepted, Refused

LEMMA RefusedIsNot == ~Refused.ok
  BY DEF Refused

LEMMA ThenRefused ==
  ASSUME NEW a, NEW b, ~a.ok
  PROVE  ~Then(a, b).ok
  BY RefusedIsNot DEF Then

LEMMA NothingThen ==
  ASSUME NEW R \in Meanings
  PROVE  Then(Accepted(<< >>), R) = R
<1>1. R.stmts \in Seq(Stmts) /\ R = [ok |-> R.ok, stmts |-> R.stmts] /\ R.ok \in BOOLEAN
  BY DEF Meanings
<1>2. << >> \o R.stmts = R.stmts
  BY <1>1, ConcatEmptySeq
<1>3. CASE R.ok = TRUE
  BY <1>1, <1>2, <1>3 DEF Then, Accepted
<1>4. CASE R.ok = FALSE
  <2>1. R = Refused
    BY <1>4 DEF Meanings
  <2> QED
    BY <1>4, <2>1 DEF Then, Accepted
<1> QED
  BY <1>1, <1>3, <1>4

LEMMA ThenNothing ==
  ASSUME NEW a \in Seq(Stmts)
  PROVE  Then(Accepted(a), Accepted(<< >>)) = Accepted(a)
<1>1. a \o << >> = a
  BY ConcatEmptySeq
<1> QED
  BY <1>1 DEF Then, Accepted

(* The meaning from an item on, for each kind of item. *)
LEMMA MeaningIs ==
  ASSUME NEW F \in Files, NEW f \in DOMAIN F, NEW returned \in BOOLEAN,
         NEW k \in 1 .. Len(F[f]) + 1
  PROVE  /\ Meaning(F, f, k, returned) \in Meanings
         /\ k > Len(F[f]) => Meaning(F, f, k, returned) = Accepted(<< >>)
         /\ k <= Len(F[f]) /\ F[f][k] \in Functions \ DOMAIN F =>
              Meaning(F, f, k, returned) = Refused
         /\ k <= Len(F[f]) /\ F[f][k] \in DOMAIN F =>
              Meaning(F, f, k, returned) =
                Then(Alone(F, F[f][k]), Meaning(F, f, k + 1, returned))
         /\ k <= Len(F[f]) /\ F[f][k] = Return =>
              Meaning(F, f, k, returned) =
                IF returned THEN Refused ELSE Meaning(F, f, k + 1, TRUE)
         /\ k <= Len(F[f]) /\ F[f][k] \in Stmts =>
              Meaning(F, f, k, returned) =
                IF returned THEN Refused
                ELSE Then(Accepted(<<F[f][k]>>), Meaning(F, f, k + 1, FALSE))
<1>1. /\ Meaning(F, f, k, returned) \in Meanings
      /\ Meaning(F, f, k, returned) = MeaningOf(F, f, k, returned)
  BY MeaningAssumption
<1>2. DOMAIN F \subseteq Functions /\ F[f] \in Seq(Items) /\ Len(F[f]) \in Nat
  BY FilesAssumption
<1>3. CASE k > Len(F[f])
  <2>1. ~(k <= Len(F[f]))
    BY <1>2, <1>3
  <2>2. MeaningOf(F, f, k, returned) = Accepted(<< >>)
    BY <1>3 DEF MeaningOf
  <2> QED
    BY <1>1, <2>1, <2>2
<1>4. CASE ~(k > Len(F[f]))
  <2>1. F[f][k] \in Items
    BY <1>2, <1>4
  <2>2. CASE F[f][k] \in Functions
    <3>1. F[f][k] # Return /\ F[f][k] \notin Stmts
      BY <2>2, ItemsAssumption
    <3>2. MeaningOf(F, f, k, returned) =
            IF F[f][k] \in DOMAIN F
              THEN Then(Meaning(F, F[f][k], 1, FALSE), Meaning(F, f, k + 1, returned))
              ELSE Refused
      BY <1>4, <2>2 DEF MeaningOf
    <3> QED
      BY <1>1, <1>2, <1>4, <2>2, <3>1, <3>2 DEF Alone
  <2>3. CASE F[f][k] = Return
    <3>1. F[f][k] \notin Functions /\ F[f][k] \notin Stmts
      BY <2>3, ItemsAssumption
    <3>2. MeaningOf(F, f, k, returned) =
            IF returned THEN Refused ELSE Meaning(F, f, k + 1, TRUE)
      BY <1>4, <2>3, <3>1 DEF MeaningOf
    <3> QED
      BY <1>1, <1>2, <1>4, <2>3, <3>1, <3>2
  <2>4. CASE F[f][k] \in Stmts
    <3>1. F[f][k] \notin Functions /\ F[f][k] # Return
      BY <2>4, ItemsAssumption
    <3>2. MeaningOf(F, f, k, returned) =
            IF returned THEN Refused
            ELSE Then(Accepted(<<F[f][k]>>), Meaning(F, f, k + 1, FALSE))
      BY <1>4, <3>1 DEF MeaningOf
    <3> QED
      BY <1>1, <1>2, <1>4, <2>4, <3>1, <3>2
  <2> QED
    BY <2>1, <2>2, <2>3, <2>4 DEF Items
<1> QED
  BY <1>3, <1>4

-------------------------------------------------------------------------------
(* The inductive invariant.  The builders at work: the first is on the     *)
(* entry point, every other on the function the one before has come to a   *)
(* call of.                                                                *)
BuilderSet == [fn : DOMAIN File, next : Nat \ {0}, stmts : Seq(Stmts),
               haveFoundAReturn : BOOLEAN]

BuildersOK ==
  frames # << >> =>
    /\ files # << >>
    /\ frames \in Seq(BuilderSet)
    /\ frames[1].fn = EntryPoint
    /\ \A m \in 1 .. Len(frames) :
         /\ frames[m].next <= Len(File[frames[m].fn]) + 1
         /\ m > 1 => frames[m].fn \in Callees(File)

(* Every builder but the one at work waits at its call of the next.        *)
AtTheirCalls ==
  \A m \in 1 .. Len(frames) - 1 :
    /\ frames[m].next <= Len(File[frames[m].fn])
    /\ File[frames[m].fn][frames[m].next] = frames[m + 1].fn

(* There is an output for every file but the one at work or refused. *)
OneOutputEach ==
  /\ Len(outputs) = IF frames = << >> /\ status # "exit" THEN Len(files) ELSE Len(files) - 1
  /\ status = "exit" => files # << >>

(* What a builder has before it. *)
Rest(b) == Meaning(File, b.fn, b.next, b.haveFoundAReturn)

(* If that is refused, the file is, for a refusal is one of the callers.   *)
RefusalsReachEntry ==
  \A m \in 1 .. Len(frames) : ~Rest(frames[m]).ok => ~Alone(File, EntryPoint).ok

(* What it has collected and what it has before it make its function.      *)
BuildersCollect ==
  \A m \in 1 .. Len(frames) :
    Then(Accepted(frames[m].stmts), Rest(frames[m])) = Alone(File, frames[m].fn)

(* A Computation kept is the function's in some file that calls it.        *)
SubComputationsAreSomeFiles ==
  \A f \in DOMAIN subComputations :
    \E i \in 1 .. Len(files) :
      f \in Callees(files[i]) /\ Accepted(subComputations[f]) = Alone(files[i], f)

Content == BuildersCollect /\ SubComputationsAreSomeFiles /\ CalleesAreTheirs

IInv ==
  /\ TypeOK
  /\ BuildersOK
  /\ AtTheirCalls
  /\ OneOutputEach
  /\ RefusalsReachEntry
  /\ RefusedForACause
  /\ FilesAgree => Content

-------------------------------------------------------------------------------
(* The builder at work and the file it works on. *)
LEMMA AtWork ==
  ASSUME IInv, frames # << >>
  PROVE  /\ Len(frames) \in Nat \ {0} /\ Len(files) \in Nat \ {0}
         /\ File \in Files
         /\ Top \in BuilderSet
         /\ Body \in Seq(Items) /\ Len(Body) \in Nat
         /\ Top.next \in 1 .. Len(Body) + 1
         /\ Len(frames) > 1 => Top.fn \in Callees(File)
         /\ EntryPoint \in DOMAIN File
<1>1. files # << >> /\ files \in Seq(Files) /\ frames \in Seq(BuilderSet)
  BY DEF IInv, BuildersOK, TypeOK
<1>2. Len(frames) \in Nat \ {0} /\ Len(files) \in Nat \ {0}
  BY <1>1
<1>3. File \in Files
  BY <1>1, <1>2 DEF File
<1>4. /\ Top \in BuilderSet /\ frames[1] \in BuilderSet
      /\ Top.next <= Len(Body) + 1
      /\ Len(frames) > 1 => Top.fn \in Callees(File)
      /\ frames[1].fn = EntryPoint
  BY <1>1, <1>2 DEF Top, Body, IInv, BuildersOK
<1>5. Top.fn \in DOMAIN File /\ Top.next \in Nat \ {0} /\ EntryPoint \in DOMAIN File
  BY <1>4 DEF BuilderSet
<1>6. Body \in Seq(Items) /\ Len(Body) \in Nat
  BY <1>3, <1>5, FilesAssumption DEF Body
<1> QED
  BY <1>2, <1>3, <1>4, <1>5, <1>6

(* The builder at work goes on behind an item: nothing is lost if it       *)
(* keeps what the item means.                                              *)
LEMMA BuilderGoesOn ==
  ASSUME IInv, Running, frames # << >>, Top.next <= Len(Body),
         NEW stmts \in Seq(Stmts), NEW returned \in BOOLEAN,
         frames' = [frames EXCEPT ![Len(frames)] =
                      [fn |-> Top.fn, next |-> Top.next + 1, stmts |-> stmts,
                       haveFoundAReturn |-> returned]],
         UNCHANGED <<files, subComputations, outputs, status>>,
         ~Meaning(File, Top.fn, Top.next + 1, returned).ok => ~Rest(Top).ok,
         FilesAgree =>
           Then(Accepted(stmts), Meaning(File, Top.fn, Top.next + 1, returned))
             = Then(Accepted(Top.stmts), Rest(Top))
  PROVE  IInv'
<1> DEFINE n == Len(frames)
           b == [fn |-> Top.fn, next |-> Top.next + 1, stmts |-> stmts,
                 haveFoundAReturn |-> returned]
<1>1. /\ n \in Nat \ {0} /\ File \in Files /\ Top \in BuilderSet
      /\ Len(Body) \in Nat /\ Top.next \in 1 .. Len(Body) + 1
  BY AtWork
<1>2. b \in BuilderSet
  BY <1>1 DEF BuilderSet
<1>3. /\ frames \in Seq(BuilderSet) /\ files # << >> /\ frames[1].fn = EntryPoint
      /\ \A m \in 1 .. n :
           /\ frames[m].next <= Len(File[frames[m].fn]) + 1
           /\ m > 1 => frames[m].fn \in Callees(File)
  BY DEF IInv, BuildersOK
<1>4. /\ frames' \in Seq(BuilderSet) /\ Len(frames') = n /\ frames' # << >>
      /\ frames'[n] = b
      /\ \A m \in 1 .. n : m # n => frames'[m] = frames[m]
  BY <1>1, <1>2, <1>3
<1>5. b.fn = Top.fn /\ b.next = Top.next + 1 /\ b.stmts = stmts /\ b.haveFoundAReturn = returned
  OBVIOUS
<1>6. File' = File /\ (FilesAgree)' = FilesAgree
  BY DEF File, FilesAgree
<1> HIDE DEF b
<1>7. TypeOK'
  <2>1. DOMAIN File \subseteq Functions
    BY <1>1, FilesAssumption
  <2>2. BuilderSet \subseteq [fn : Functions, next : Nat \ {0}, stmts : Seq(Stmts),
                             haveFoundAReturn : BOOLEAN]
    BY <2>1 DEF BuilderSet
  <2>3. frames \in Seq([fn : Functions, next : Nat \ {0}, stmts : Seq(Stmts),
                       haveFoundAReturn : BOOLEAN]) /\ TypeOK
    BY DEF IInv, TypeOK
  <2>4. frames' \in Seq([fn : Functions, next : Nat \ {0}, stmts : Seq(Stmts),
                        haveFoundAReturn : BOOLEAN])
    BY <1>1, <1>2, <2>2, <2>3 DEF b
  <2> QED
    BY <2>3, <2>4 DEF TypeOK
<1>8. BuildersOK'
  <2>1. frames'[1].fn = EntryPoint
    <3>1. CASE n = 1
      BY <1>3, <1>4, <1>5, <3>1 DEF Top
    <3>2. CASE n # 1
      <4>1. 1 \in 1 .. n
        BY <1>1
      <4>2. frames'[1] = frames[1]
        BY <1>4, <3>2, <4>1
      <4> QED
        BY <1>3, <4>2
    <3> QED
      BY <3>1, <3>2
  <2>2. ASSUME NEW m \in 1 .. n
        PROVE  /\ frames'[m].next <= Len(File[frames'[m].fn]) + 1
               /\ m > 1 => frames'[m].fn \in Callees(File)
    <3>1. CASE m = n
      <4>1. n > 1 => Top.fn \in Callees(File)
        BY AtWork
      <4>2. b.next <= Len(File[b.fn]) + 1
        BY <1>1, <1>5 DEF Body
      <4> QED
        BY <1>1, <1>4, <1>5, <3>1, <4>1, <4>2
    <3>2. CASE m # n
      <4>1. frames'[m] = frames[m]
        BY <1>4, <3>2
      <4> QED
        BY <1>3, <4>1
    <3> QED
      BY <3>1, <3>2
  <2>3. BuilderSet' = BuilderSet
    BY <1>6 DEF BuilderSet
  <2> QED
    BY <1>3, <1>4, <1>6, <2>1, <2>2, <2>3 DEF BuildersOK
<1>a. AtTheirCalls'
  <2>1. ASSUME NEW m \in 1 .. n - 1
        PROVE  frames'[m] = frames[m] /\ frames'[m + 1].fn = frames[m + 1].fn
    <3>1. m \in 1 .. n /\ m # n /\ m + 1 \in 1 .. n
      BY <1>1
    <3>2. CASE m + 1 = n
      BY <1>4, <1>5, <3>1, <3>2 DEF Top
    <3>3. CASE m + 1 # n
      BY <1>4, <3>1, <3>3
    <3> QED
      BY <1>4, <3>1, <3>2, <3>3
  <2> QED
    BY <1>4, <1>6, <2>1 DEF IInv, AtTheirCalls
<1>9. OneOutputEach'
  BY <1>1, <1>4 DEF IInv, OneOutputEach, Running
<1>10. RefusalsReachEntry'
  <2>1. ASSUME NEW m \in 1 .. n, ~Meaning(File, frames'[m].fn, frames'[m].next,
                                          frames'[m].haveFoundAReturn).ok
        PROVE  ~Alone(File, EntryPoint).ok
    <3>1. CASE m = n
      <4>1. ~Rest(frames[n]).ok
        BY <1>4, <1>5, <2>1, <3>1 DEF Top
      <4> QED
        BY <4>1, <1>1 DEF IInv, RefusalsReachEntry
    <3>2. CASE m # n
      BY <1>4, <2>1, <3>2 DEF IInv, RefusalsReachEntry, Rest
    <3> QED
      BY <3>1, <3>2
  <2> QED
    BY <1>4, <1>6, <2>1 DEF RefusalsReachEntry, Rest
<1>11. RefusedForACause'
  BY DEF RefusedForACause, Running
<1>12. ASSUME FilesAgree
       PROVE  Content'
  <2>1. ASSUME NEW m \in 1 .. n
        PROVE  Then(Accepted(frames'[m].stmts),
                    Meaning(File, frames'[m].fn, frames'[m].next, frames'[m].haveFoundAReturn))
                 = Alone(File, frames'[m].fn)
    <3>1. Then(Accepted(frames[m].stmts), Rest(frames[m])) = Alone(File, frames[m].fn)
      BY <1>12 DEF IInv, Content, BuildersCollect
    <3>2. CASE m = n
      BY <1>4, <1>5, <1>12, <3>1, <3>2 DEF Top
    <3>3. CASE m # n
      BY <1>4, <3>1, <3>3 DEF Rest
    <3> QED
      BY <3>2, <3>3
  <2>2. BuildersCollect'
    BY <1>4, <1>6, <2>1 DEF BuildersCollect, Rest
  <2>3. SubComputationsAreSomeFiles' /\ CalleesAreTheirs'
    BY <1>12 DEF IInv, Content, SubComputationsAreSomeFiles, CalleesAreTheirs, OutputIsAlone
  <2> QED
    BY <2>2, <2>3 DEF Content
<1> QED
  BY <1>6, <1>7, <1>8, <1>9, <1>10, <1>11, <1>12, <1>a DEF IInv

(* It exits for what its function may not have. *)
LEMMA BuilderExits ==
  ASSUME IInv, Running, frames # << >>, ~Rest(Top).ok, Exit, UNCHANGED files
  PROVE  IInv'
<1>1. Len(frames) \in Nat \ {0} /\ Len(files) \in Nat \ {0}
  BY AtWork
<1>2. ~Alone(File, EntryPoint).ok
  BY <1>1 DEF IInv, RefusalsReachEntry, Top
<1>3. File' = File /\ (FilesAgree)' = FilesAgree
  BY DEF File, FilesAgree
<1>4. TypeOK' /\ BuildersOK' /\ AtTheirCalls'
  BY DEF IInv, Exit, TypeOK, BuildersOK, AtTheirCalls, BuilderSet, File
<1>5. OneOutputEach'
  BY <1>1 DEF IInv, Exit, OneOutputEach
<1>6. RefusalsReachEntry' /\ RefusedForACause'
  BY <1>2, <1>3 DEF IInv, Exit, RefusalsReachEntry, RefusedForACause, Rest
<1>7. FilesAgree => Content'
  BY <1>3 DEF IInv, Exit, Content, BuildersCollect, Rest, SubComputationsAreSomeFiles,
              CalleesAreTheirs, OutputIsAlone
<1> QED
  BY <1>3, <1>4, <1>5, <1>6, <1>7 DEF IInv

-------------------------------------------------------------------------------
(* Every action keeps the invariant. *)
LEMMA InitKeeps == Init => IInv
  BY DEF Init, IInv, TypeOK, BuildersOK, AtTheirCalls, OneOutputEach, RefusalsReachEntry,
         RefusedForACause, Content, BuildersCollect, SubComputationsAreSomeFiles, CalleesAreTheirs

(* The meaning of the item a builder has come to. *)
LEMMA ItemMeaning ==
  ASSUME IInv, Running, frames # << >>, Top.next <= Len(Body)
  PROVE  /\ File \in Files /\ Top \in BuilderSet /\ Top.fn \in DOMAIN File
         /\ Top.stmts \in Seq(Stmts) /\ Top.haveFoundAReturn \in BOOLEAN
         /\ Meaning(File, Top.fn, Top.next + 1, Top.haveFoundAReturn) \in Meanings
         /\ Item \in Functions \ DOMAIN File => Rest(Top) = Refused
         /\ Item \in DOMAIN File =>
              Rest(Top) = Then(Alone(File, Item),
                               Meaning(File, Top.fn, Top.next + 1, Top.haveFoundAReturn))
         /\ Item = Return =>
              Rest(Top) = IF Top.haveFoundAReturn THEN Refused
                          ELSE Meaning(File, Top.fn, Top.next + 1, TRUE)
         /\ Item \in Stmts =>
              Rest(Top) = IF Top.haveFoundAReturn THEN Refused
                          ELSE Then(Accepted(<<Item>>),
                                    Meaning(File, Top.fn, Top.next + 1, FALSE))
<1>1. /\ File \in Files /\ Top \in BuilderSet
      /\ Len(Body) \in Nat /\ Top.next \in 1 .. Len(Body) + 1
  BY AtWork
<1>2. /\ Top.fn \in DOMAIN File /\ Top.stmts \in Seq(Stmts)
      /\ Top.haveFoundAReturn \in BOOLEAN
  BY <1>1 DEF BuilderSet
<1>3. Top.next + 1 \in 1 .. Len(Body) + 1
  BY <1>1
<1>4. Meaning(File, Top.fn, Top.next + 1, Top.haveFoundAReturn) \in Meanings
  BY <1>1, <1>2, <1>3, MeaningIs DEF Body
<1> QED
  BY <1>1, <1>2, <1>4, MeaningIs DEF Body, Item, Rest

LEMMA AddStmtKeeps ==
  ASSUME IInv, AddStmt
  PROVE  IInv'
<1>1. /\ Running /\ frames # << >> /\ Top.next <= Len(Body)
      /\ Item \in Stmts /\ UNCHANGED files
  BY DEF AddStmt, AtItem, Item
<1>2. CASE Top.haveFoundAReturn
  <2>1. ~Rest(Top).ok
    BY <1>1, <1>2, ItemMeaning, RefusedIsNot
  <2>2. Exit
    BY <1>2 DEF AddStmt
  <2> QED
    BY <1>1, <2>1, <2>2, BuilderExits
<1>3. CASE ~Top.haveFoundAReturn
  <2> DEFINE rest == Meaning(File, Top.fn, Top.next + 1, FALSE)
  <2>1. /\ Top \in BuilderSet /\ Top.stmts \in Seq(Stmts) /\ rest \in Meanings
        /\ Rest(Top) = Then(Accepted(<<Item>>), rest)
        /\ Top.haveFoundAReturn = FALSE
    BY <1>1, <1>3, ItemMeaning
  <2>2. frames' = [frames EXCEPT ![Len(frames)] =
                     [fn |-> Top.fn, next |-> Top.next + 1,
                      stmts |-> Append(Top.stmts, Item), haveFoundAReturn |-> FALSE]]
        /\ UNCHANGED <<files, subComputations, outputs, status>>
    BY <1>3, <2>1 DEF AddStmt, Became, BuilderSet
  <2>3. Append(Top.stmts, Item) \in Seq(Stmts) /\ <<Item>> \in Seq(Stmts)
    BY <1>1, <2>1
  <2>4. Append(Top.stmts, Item) = Top.stmts \o <<Item>>
    BY <1>1, <2>1, AppendIsConcat
  <2>5. Then(Accepted(Append(Top.stmts, Item)), rest) = Then(Accepted(Top.stmts), Rest(Top))
    <3>1. Then(Accepted(Top.stmts \o <<Item>>), rest)
            = Then(Accepted(Top.stmts), Then(Accepted(<<Item>>), rest))
      BY <2>1, <2>3, ThenIsAssociative
    <3> QED
      BY <2>1, <2>4, <3>1
  <2>6. ~rest.ok => ~Rest(Top).ok
    BY <2>1 DEF Then, Accepted, Refused
  <2> QED
    BY <1>1, <2>2, <2>3, <2>5, <2>6, BuilderGoesOn
<1> QED
  BY <1>2, <1>3

LEMMA AddReturnKeeps ==
  ASSUME IInv, AddReturn
  PROVE  IInv'
<1>1. /\ Running /\ frames # << >> /\ Top.next <= Len(Body)
      /\ Item = Return /\ UNCHANGED files
  BY DEF AddReturn, AtItem, Item
<1>2. CASE Top.haveFoundAReturn
  <2>1. ~Rest(Top).ok
    BY <1>1, <1>2, ItemMeaning, RefusedIsNot
  <2>2. Exit
    BY <1>2 DEF AddReturn
  <2> QED
    BY <1>1, <2>1, <2>2, BuilderExits
<1>3. CASE ~Top.haveFoundAReturn
  <2>1. /\ Top \in BuilderSet /\ Top.stmts \in Seq(Stmts)
        /\ Rest(Top) = Meaning(File, Top.fn, Top.next + 1, TRUE)
    BY <1>1, <1>3, ItemMeaning
  <2>2. frames' = [frames EXCEPT ![Len(frames)] =
                     [fn |-> Top.fn, next |-> Top.next + 1,
                      stmts |-> Top.stmts, haveFoundAReturn |-> TRUE]]
        /\ UNCHANGED <<files, subComputations, outputs, status>>
    BY <1>1, <1>3, <2>1 DEF AddReturn, Became, BuilderSet
  <2> QED
    BY <1>1, <2>1, <2>2, BuilderGoesOn
<1> QED
  BY <1>2, <1>3

LEMMA CallFailsKeeps ==
  ASSUME IInv, CallFails
  PROVE  IInv'
<1>1. /\ Running /\ frames # << >> /\ Top.next <= Len(Body)
      /\ Item \in Functions \ DOMAIN File /\ Exit /\ UNCHANGED files
  BY DEF CallFails, AtItem, Item
<1>2. ~Rest(Top).ok
  BY <1>1, ItemMeaning, RefusedIsNot
<1> QED
  BY <1>1, <1>2, BuilderExits

(* A function called is one of the callees of the file. *)
LEMMA CalledIsCallee ==
  ASSUME IInv, frames # << >>, Top.next <= Len(Body), Item \in DOMAIN File
  PROVE  Item \in Callees(File)
<1>1. /\ Len(Body) \in Nat /\ Top.next \in 1 .. Len(Body) + 1 /\ Top.fn \in DOMAIN File
  BY AtWork DEF BuilderSet
<1>2. Top.next \in 1 .. Len(File[Top.fn]) /\ Item = File[Top.fn][Top.next]
  BY <1>1 DEF Body, Item
<1> QED
  BY <1>1, <1>2 DEF Callees

LEMMA BuilderBehind ==
  ASSUME NEW b \in BuilderSet, NEW stmts
  PROVE  Inlined(b, stmts) =
           [fn |-> b.fn, next |-> b.next + 1, stmts |-> b.stmts \o stmts,
            haveFoundAReturn |-> b.haveFoundAReturn]
<1>1. b = [fn |-> b.fn, next |-> b.next, stmts |-> b.stmts,
           haveFoundAReturn |-> b.haveFoundAReturn]
  BY DEF BuilderSet
<1> DEFINE all == b.stmts \o stmts
           c == [b EXCEPT !.stmts = all]
<1>2. Inlined(b, stmts) = [c EXCEPT !.next = c.next + 1]
  BY DEF Inlined
<1> HIDE DEF all
<1>3. c = [fn |-> b.fn, next |-> b.next, stmts |-> all,
           haveFoundAReturn |-> b.haveFoundAReturn]
  BY <1>1
<1> HIDE DEF c
<1>4. [c EXCEPT !.next = c.next + 1] =
        [fn |-> b.fn, next |-> b.next + 1, stmts |-> all,
         haveFoundAReturn |-> b.haveFoundAReturn]
  BY <1>3
<1> QED
  BY <1>2, <1>4 DEF all

LEMMA InlineCallKeeps ==
  ASSUME IInv, InlineCall
  PROVE  IInv'
<1>1. /\ Running /\ frames # << >> /\ Top.next <= Len(Body)
      /\ Item \in DOMAIN File \cap DOMAIN subComputations /\ UNCHANGED files
  BY DEF InlineCall, AtItem, Item
<1> DEFINE callee == subComputations[Item]
           rest == Meaning(File, Top.fn, Top.next + 1, Top.haveFoundAReturn)
<1>2. /\ Top \in BuilderSet /\ Top.stmts \in Seq(Stmts) /\ Top.haveFoundAReturn \in BOOLEAN
      /\ rest \in Meanings
      /\ Rest(Top) = Then(Alone(File, Item), rest)
  BY <1>1, ItemMeaning
<1>3. callee \in Seq(Stmts)
  BY <1>1 DEF IInv, TypeOK
<1>4. frames' = [frames EXCEPT ![Len(frames)] =
                   [fn |-> Top.fn, next |-> Top.next + 1, stmts |-> Top.stmts \o callee,
                    haveFoundAReturn |-> Top.haveFoundAReturn]]
      /\ UNCHANGED <<files, subComputations, outputs, status>>
  <2>1. Inlined(Top, callee) =
          [fn |-> Top.fn, next |-> Top.next + 1, stmts |-> Top.stmts \o callee,
           haveFoundAReturn |-> Top.haveFoundAReturn]
    BY <1>2, BuilderBehind
  <2>2. /\ frames' = [frames EXCEPT ![Len(frames)] = Inlined(Top, callee)]
        /\ UNCHANGED <<files, subComputations, outputs, status>>
    BY DEF InlineCall, Top
  <2> QED
    BY <2>1, <2>2
<1>5. Top.stmts \o callee \in Seq(Stmts)
  BY <1>2, <1>3
<1>6. ~rest.ok => ~Rest(Top).ok
  BY <1>2 DEF Then, Accepted, Refused
<1>7. ASSUME FilesAgree
      PROVE  Then(Accepted(Top.stmts \o callee), rest) = Then(Accepted(Top.stmts), Rest(Top))
  <2>1. PICK i \in 1 .. Len(files) :
          Item \in Callees(files[i]) /\ Accepted(callee) = Alone(files[i], Item)
    BY <1>1, <1>7 DEF IInv, Content, SubComputationsAreSomeFiles
  <2>2. Item \in Callees(File) /\ Len(files) \in Nat \ {0}
    BY <1>1, CalledIsCallee, AtWork
  <2>3. Alone(files[i], Item) = Alone(File, Item)
    BY <1>7, <2>1, <2>2 DEF FilesAgree, File
  <2>4. Rest(Top) = Then(Accepted(callee), rest)
    BY <1>2, <2>1, <2>3
  <2> QED
    BY <1>2, <1>3, <2>4, ThenIsAssociative
<1> QED
  BY <1>1, <1>2, <1>4, <1>5, <1>6, <1>7, BuilderGoesOn

(* A callee's builder begins with all of the function before it. *)
LEMMA BuildCalleeKeeps ==
  ASSUME IInv, BuildCallee
  PROVE  IInv'
<1>1. /\ Running /\ frames # << >> /\ Top.next <= Len(Body)
      /\ Item \in DOMAIN File
      /\ frames' = Append(frames, NewBuilder(Item))
      /\ UNCHANGED <<files, subComputations, outputs, status>>
  BY DEF BuildCallee, AtItem, Item
<1> DEFINE n == Len(frames)
           b == NewBuilder(Item)
<1>2. /\ n \in Nat \ {0} /\ File \in Files /\ EntryPoint \in DOMAIN File
  BY <1>1, AtWork
<1>3. /\ b.fn = Item /\ b.next = 1 /\ b.stmts = << >> /\ b.haveFoundAReturn = FALSE
      /\ b \in BuilderSet
  BY <1>1 DEF NewBuilder, BuilderSet
<1>4. frames \in Seq(BuilderSet) /\ files # << >>
  BY <1>1 DEF IInv, BuildersOK
<1> HIDE DEF b
<1>5. /\ frames' \in Seq(BuilderSet) /\ Len(frames') = n + 1 /\ frames' # << >>
      /\ frames'[n + 1] = b
      /\ \A m \in 1 .. n : frames'[m] = frames[m]
  BY <1>1, <1>3, <1>4 DEF b
<1>6. File' = File /\ (FilesAgree)' = FilesAgree
  BY <1>1 DEF File, FilesAgree
<1>7. Len(File[Item]) \in Nat /\ Meaning(File, Item, 1, FALSE) \in Meanings
      /\ DOMAIN File \subseteq Functions
  <2>1. File[Item] \in Seq(Items) /\ DOMAIN File \subseteq Functions
    BY <1>1, <1>2, FilesAssumption
  <2>2. Len(File[Item]) \in Nat /\ 1 \in 1 .. Len(File[Item]) + 1
    BY <2>1
  <2> QED
    BY <1>1, <1>2, <2>1, <2>2, MeaningIs
<1>8. TypeOK'
  <2>1. b \in [fn : Functions, next : Nat \ {0}, stmts : Seq(Stmts), haveFoundAReturn : BOOLEAN]
    BY <1>3, <1>7 DEF BuilderSet
  <2>2. TypeOK
    BY DEF IInv
  <2> QED
    BY <1>1, <2>1, <2>2 DEF TypeOK, b
<1>9. BuildersOK'
  <2>1. frames'[1].fn = EntryPoint
    BY <1>1, <1>2, <1>5 DEF IInv, BuildersOK
  <2>2. ASSUME NEW m \in 1 .. n + 1
        PROVE  /\ frames'[m].next <= Len(File[frames'[m].fn]) + 1
               /\ m > 1 => frames'[m].fn \in Callees(File)
    <3>1. CASE m = n + 1
      BY <1>1, <1>3, <1>5, <1>7, <3>1, CalledIsCallee
    <3>2. CASE m # n + 1
      <4>1. m \in 1 .. n /\ frames'[m] = frames[m]
        BY <1>2, <1>5, <3>2
      <4> QED
        BY <1>1, <4>1 DEF IInv, BuildersOK
    <3> QED
      BY <3>1, <3>2
  <2>3. BuilderSet' = BuilderSet
    BY <1>6 DEF BuilderSet
  <2> QED
    BY <1>1, <1>4, <1>5, <1>6, <2>1, <2>2, <2>3 DEF BuildersOK
<1>a. AtTheirCalls'
  <2>1. ASSUME NEW m \in 1 .. n
        PROVE  /\ frames[m].next <= Len(File[frames[m].fn])
               /\ File[frames[m].fn][frames[m].next] = frames'[m + 1].fn
    <3>1. CASE m = n
      BY <1>1, <1>3, <1>5, <3>1 DEF Top, Item, Body
    <3>2. CASE m # n
      <4>1. m \in 1 .. n - 1 /\ m + 1 \in 1 .. n
        BY <1>2, <3>2
      <4> QED
        BY <1>5, <4>1 DEF IInv, AtTheirCalls
    <3> QED
      BY <3>1, <3>2
  <2>2. n + 1 - 1 = n
    BY <1>2
  <2> QED
    BY <1>5, <1>6, <2>1, <2>2 DEF AtTheirCalls
<1>10. OneOutputEach'
  BY <1>1, <1>5 DEF IInv, OneOutputEach, Running
<1>11. RefusalsReachEntry'
  <2>1. ASSUME NEW m \in 1 .. n + 1, ~Meaning(File, frames'[m].fn, frames'[m].next,
                                              frames'[m].haveFoundAReturn).ok
        PROVE  ~Alone(File, EntryPoint).ok
    <3>1. CASE m = n + 1
      <4>1. ~Alone(File, Item).ok
        BY <1>1, <1>3, <1>5, <2>1, <3>1 DEF Alone
      <4>2. ~Rest(Top).ok
        BY <1>1, <4>1, ItemMeaning, ThenRefused
      <4> QED
        BY <1>2, <4>2 DEF IInv, RefusalsReachEntry, Top
    <3>2. CASE m # n + 1
      <4>1. m \in 1 .. n /\ frames'[m] = frames[m]
        BY <1>2, <1>5, <3>2
      <4> QED
        BY <2>1, <4>1 DEF IInv, RefusalsReachEntry, Rest
    <3> QED
      BY <3>1, <3>2
  <2> QED
    BY <1>5, <1>6, <2>1 DEF RefusalsReachEntry, Rest
<1>12. RefusedForACause'
  BY <1>1 DEF RefusedForACause, Running
<1>13. ASSUME FilesAgree
       PROVE  Content'
  <2>1. ASSUME NEW m \in 1 .. n + 1
        PROVE  Then(Accepted(frames'[m].stmts),
                    Meaning(File, frames'[m].fn, frames'[m].next, frames'[m].haveFoundAReturn))
                 = Alone(File, frames'[m].fn)
    <3>1. CASE m = n + 1
      <4>1. Then(Accepted(<< >>), Meaning(File, Item, 1, FALSE)) = Meaning(File, Item, 1, FALSE)
        BY <1>7, NothingThen
      <4> QED
        BY <1>1, <1>3, <1>5, <3>1, <4>1 DEF Alone
    <3>2. CASE m # n + 1
      <4>1. m \in 1 .. n /\ frames'[m] = frames[m]
        BY <1>2, <1>5, <3>2
      <4> QED
        BY <1>13, <4>1 DEF IInv, Content, BuildersCollect, Rest
    <3> QED
      BY <3>1, <3>2
  <2>2. BuildersCollect'
    BY <1>5, <1>6, <2>1 DEF BuildersCollect, Rest
  <2>3. SubComputationsAreSomeFiles' /\ CalleesAreTheirs'
    BY <1>1, <1>13 DEF IInv, Content, SubComputationsAreSomeFiles, CalleesAreTheirs, OutputIsAlone
  <2> QED
    BY <2>2, <2>3 DEF Content
<1> QED
  BY <1>6, <1>8, <1>9, <1>10, <1>11, <1>12, <1>13, <1>a DEF IInv

LEMMA CallersKept ==
  ASSUME NEW S, frames \in Seq(S), Len(frames) > 1
  PROVE  /\ Callers \in Seq(S) /\ Len(Callers) = Len(frames) - 1
         /\ \A m \in 1 .. Len(frames) - 1 : Callers[m] = frames[m]
<1>1. Len(frames) \in Nat /\ \A m \in 1 .. Len(frames) - 1 : frames[m] \in S
  OBVIOUS
<1> QED
  BY <1>1, SubSeqProperties DEF Callers

(* Nothing is left at the end of a body. *)
LEMMA EndMeaning ==
  ASSUME IInv, frames # << >>, Top.next > Len(Body)
  PROVE  Rest(Top) = Accepted(<< >>)
<1>1. /\ File \in Files /\ Len(Body) \in Nat /\ Top.next \in 1 .. Len(Body) + 1
      /\ Top \in BuilderSet
  BY AtWork
<1>2. Top.fn \in DOMAIN File /\ Top.haveFoundAReturn \in BOOLEAN
  BY <1>1 DEF BuilderSet
<1> QED
  BY <1>1, <1>2, MeaningIs DEF Rest, Body

(* A callee's builder ends with all of the function behind it, which is    *)
(* kept; the caller, which waits at the call, goes on behind it with all   *)
(* of the function as well.                                                *)
LEMMA FinishCalleeKeeps ==
  ASSUME IInv, FinishCallee
  PROVE  IInv'
<1> DEFINE n == Len(frames) - 1
           caller == frames[n]
           rest == Meaning(File, caller.fn, caller.next + 1, caller.haveFoundAReturn)
           b == [fn |-> caller.fn, next |-> caller.next + 1, stmts |-> caller.stmts \o Top.stmts,
                 haveFoundAReturn |-> caller.haveFoundAReturn]
<1>1. /\ Running /\ frames # << >> /\ Top.next > Len(Body) /\ Len(frames) > 1
      /\ subComputations' = [g \in DOMAIN subComputations \cup {Top.fn} |->
                               IF g = Top.fn THEN Top.stmts ELSE subComputations[g]]
      /\ subComputations'[Top.fn] = Top.stmts
      /\ frames' = [Callers EXCEPT ![Len(Callers)] = Inlined(Callers[Len(Callers)], Top.stmts)]
      /\ UNCHANGED <<files, outputs, status>>
  <2>1. Keep(Top.fn, Top.stmts)[Top.fn] = Top.stmts
    BY DEF Keep
  <2> QED
    BY <2>1 DEF FinishCallee, AtEnd, Keep
<1>2. /\ n \in Nat \ {0} /\ Len(files) \in Nat \ {0} /\ File \in Files
      /\ Top \in BuilderSet /\ Top.fn \in Callees(File)
  <2>1. Len(frames) \in Nat \ {0} /\ Len(files) \in Nat \ {0} /\ File \in Files
        /\ Top \in BuilderSet
    BY <1>1, AtWork
  <2>2. Len(frames) > 1
    BY <1>1
  <2>3. Top.fn \in Callees(File)
    BY <1>1, AtWork
  <2>4. \A k \in Nat \ {0} : k > 1 => k - 1 \in Nat \ {0}
    OBVIOUS
  <2>5. n \in Nat \ {0}
    BY <2>1, <2>2, <2>4
  <2> QED
    BY <2>1, <2>3, <2>5
<1>3. Top.fn \in DOMAIN File /\ Top.stmts \in Seq(Stmts) /\ DOMAIN File \subseteq Functions
  BY <1>2, FilesAssumption DEF BuilderSet
<1>4. /\ frames \in Seq(BuilderSet) /\ files # << >>
      /\ \A m \in 1 .. n + 1 :
           /\ frames[m].next <= Len(File[frames[m].fn]) + 1
           /\ m > 1 => frames[m].fn \in Callees(File)
      /\ \A m \in 1 .. n :
           /\ frames[m].next <= Len(File[frames[m].fn])
           /\ File[frames[m].fn][frames[m].next] = frames[m + 1].fn
  BY <1>1, <1>2 DEF IInv, BuildersOK, AtTheirCalls
<1>a. /\ n \in 1 .. n /\ n \in 1 .. n + 1 /\ 1 \in 1 .. n /\ n + 1 = Len(frames)
      /\ Len(frames) \in 1 .. Len(frames) /\ n \in 1 .. Len(frames)
  BY <1>1, <1>2
<1>b. /\ caller \in BuilderSet /\ caller.fn \in DOMAIN File /\ caller.next \in Nat \ {0}
      /\ caller.stmts \in Seq(Stmts) /\ caller.haveFoundAReturn \in BOOLEAN
      /\ caller.next <= Len(File[caller.fn])
      /\ File[caller.fn][caller.next] = Top.fn
      /\ Len(File[caller.fn]) \in Nat
  <2>1. caller \in BuilderSet
    BY <1>4, <1>a
  <2>2. caller.fn \in DOMAIN File
    BY <2>1 DEF BuilderSet
  <2>3. Len(File[caller.fn]) \in Nat
    BY <1>2, <2>2, FilesAssumption
  <2> QED
    BY <1>4, <1>a, <2>1, <2>3 DEF BuilderSet, Top
<1>c. /\ rest \in Meanings
      /\ Rest(caller) = Then(Alone(File, Top.fn), rest)
  <2>1. /\ caller.next \in 1 .. Len(File[caller.fn]) + 1
        /\ caller.next + 1 \in 1 .. Len(File[caller.fn]) + 1
    BY <1>b
  <2> HIDE DEF caller
  <2>2. rest \in Meanings
    BY <1>2, <1>b, <2>1, MeaningIs
  <2>3. Meaning(File, caller.fn, caller.next, caller.haveFoundAReturn)
          = Then(Alone(File, Top.fn), rest)
    <3>1. ASSUME NEW f \in DOMAIN File, NEW returned \in BOOLEAN,
                 NEW k \in 1 .. Len(File[f]) + 1, k <= Len(File[f]),
                 File[f][k] \in DOMAIN File
          PROVE  Meaning(File, f, k, returned)
                   = Then(Alone(File, File[f][k]), Meaning(File, f, k + 1, returned))
      BY <1>2, <3>1, MeaningIs
    <3>2. Meaning(File, caller.fn, caller.next, caller.haveFoundAReturn)
            = Then(Alone(File, File[caller.fn][caller.next]), rest)
      BY <1>3, <1>b, <2>1, <3>1
    <3> QED
      BY <1>b, <3>2
  <2> QED
    BY <2>2, <2>3 DEF Rest
<1>d. /\ b.fn = caller.fn /\ b.next = caller.next + 1 /\ b.stmts = caller.stmts \o Top.stmts
      /\ b.haveFoundAReturn = caller.haveFoundAReturn
      /\ b \in BuilderSet
  <2>1. caller.stmts \o Top.stmts \in Seq(Stmts) /\ caller.next + 1 \in Nat \ {0}
    BY <1>3, <1>b
  <2> QED
    BY <1>b, <2>1 DEF BuilderSet
<1>5. /\ frames' \in Seq(BuilderSet) /\ Len(frames') = n /\ frames' # << >>
      /\ \A m \in 1 .. n : frames'[m] = IF m = n THEN b ELSE frames[m]
  <2>1. /\ Callers \in Seq(BuilderSet) /\ Len(Callers) = n
        /\ \A m \in 1 .. n : Callers[m] = frames[m]
    BY <1>1, <1>4, CallersKept
  <2>2. Inlined(caller, Top.stmts) = b
    BY <1>b, BuilderBehind
  <2>3. frames' = [Callers EXCEPT ![n] = b]
    BY <1>1, <1>a, <2>1, <2>2
  <2> HIDE DEF b, n
  <2> QED
    BY <1>2, <1>d, <2>1, <2>3
<1> HIDE DEF b, rest, caller
<1>6. File' = File /\ (FilesAgree)' = FilesAgree
  BY <1>1 DEF File, FilesAgree
<1>7. TypeOK'
  <2>1. TypeOK
    BY DEF IInv
  <2>2. frames' \in Seq([fn : Functions, next : Nat \ {0}, stmts : Seq(Stmts),
                        haveFoundAReturn : BOOLEAN])
    <3> DEFINE S == [fn : Functions, next : Nat \ {0}, stmts : Seq(Stmts),
                     haveFoundAReturn : BOOLEAN]
    <3>1. BuilderSet \subseteq S
      BY <1>3 DEF BuilderSet
    <3> HIDE DEF S
    <3>2. frames' \in Seq(S)
      BY <1>5, <3>1
    <3> QED
      BY <3>2 DEF S
  <2> QED
    <3>1. DOMAIN subComputations' \subseteq Functions
      BY <1>1, <1>3, <2>1 DEF TypeOK
    <3>2. \A f \in DOMAIN subComputations' : subComputations'[f] \in Seq(Stmts)
      BY <1>1, <1>3, <2>1 DEF TypeOK
    <3>3. UNCHANGED <<files, outputs, status>>
      BY <1>1
    <3> QED
      BY <2>1, <2>2, <3>1, <3>2, <3>3 DEF TypeOK
<1>8. BuildersOK'
  <2>1. 1 \in 1 .. n
    <3>1. \A k \in Nat \ {0} : 1 \in 1 .. k
      OBVIOUS
    <3> QED
      BY <1>2, <3>1
  <2>2. frames'[1].fn = EntryPoint
    BY <1>1, <1>5, <1>d, <2>1 DEF IInv, BuildersOK, caller
  <2>3. ASSUME NEW m \in 1 .. n
        PROVE  /\ frames'[m].next <= Len(File[frames'[m].fn]) + 1
               /\ m > 1 => frames'[m].fn \in Callees(File)
    <3>1. CASE m = n
      BY <1>4, <1>5, <1>a, <1>b, <1>d, <3>1 DEF caller
    <3>2. CASE m # n
      <4>1. m \in 1 .. n + 1 /\ frames'[m] = frames[m]
        BY <1>2, <1>5, <3>2
      <4> QED
        BY <1>4, <4>1
    <3> QED
      BY <3>1, <3>2
  <2>4. BuilderSet' = BuilderSet
    BY <1>6 DEF BuilderSet
  <2> QED
    BY <1>1, <1>4, <1>5, <1>6, <2>2, <2>3, <2>4 DEF BuildersOK
<1>e. AtTheirCalls'
  <2>1. ASSUME NEW m \in 1 .. n - 1
        PROVE  /\ frames'[m].next <= Len(File[frames'[m].fn])
               /\ File[frames'[m].fn][frames'[m].next] = frames'[m + 1].fn
    <3>1. m \in 1 .. n /\ m # n /\ m + 1 \in 1 .. n
      BY <1>2
    <3>2. frames'[m] = frames[m] /\ frames'[m + 1].fn = frames[m + 1].fn
      BY <1>5, <1>d, <3>1 DEF caller
    <3> QED
      BY <1>4, <3>1, <3>2
  <2> QED
    BY <1>5, <1>6, <2>1 DEF AtTheirCalls
<1>9. OneOutputEach'
  BY <1>1, <1>5 DEF IInv, OneOutputEach, Running
<1>10. RefusalsReachEntry'
  <2>1. ASSUME NEW m \in 1 .. n, ~Meaning(File, frames'[m].fn, frames'[m].next,
                                          frames'[m].haveFoundAReturn).ok
        PROVE  ~Alone(File, EntryPoint).ok
    <3>1. CASE m = n
      <4>1. ~rest.ok
        BY <1>5, <1>d, <2>1, <3>1 DEF rest
      <4>2. ~Rest(caller).ok
        BY <1>c, <4>1, RefusedIsNot DEF Then
      <4> QED
        BY <1>a, <4>2 DEF IInv, RefusalsReachEntry, caller
    <3>2. CASE m # n
      <4>1. m \in 1 .. Len(frames) /\ frames'[m] = frames[m]
        BY <1>2, <1>5, <1>a, <3>2
      <4> QED
        BY <2>1, <4>1 DEF IInv, RefusalsReachEntry, Rest
    <3> QED
      BY <3>1, <3>2
  <2> QED
    BY <1>5, <1>6, <2>1 DEF RefusalsReachEntry, Rest
<1>11. RefusedForACause'
  BY <1>1 DEF RefusedForACause, Running
<1>12. ASSUME FilesAgree
       PROVE  Content'
  <2>2. Accepted(Top.stmts) = Alone(File, Top.fn)
    <3>1. Then(Accepted(Top.stmts), Rest(Top)) = Alone(File, Top.fn)
      <4> DEFINE k == Len(frames)
      <4>1. k \in 1 .. k
        BY <1>a
      <4>2. Then(Accepted(frames[k].stmts), Rest(frames[k])) = Alone(File, frames[k].fn)
        BY <1>12, <4>1 DEF IInv, Content, BuildersCollect
      <4> QED
        BY <4>2 DEF Top
    <3>2. Rest(Top) = Accepted(<< >>)
      BY <1>1, EndMeaning
    <3> QED
      BY <1>3, <3>1, <3>2, ThenNothing
  <2>1. BuildersCollect'
    <3>1. ASSUME NEW m \in 1 .. n
          PROVE  Then(Accepted(frames'[m].stmts),
                      Meaning(File, frames'[m].fn, frames'[m].next, frames'[m].haveFoundAReturn))
                   = Alone(File, frames'[m].fn)
      <4>1. m \in 1 .. Len(frames)
        BY <1>2, <1>a
      <4>2. Then(Accepted(frames[m].stmts), Rest(frames[m])) = Alone(File, frames[m].fn)
        BY <1>12, <4>1 DEF IInv, Content, BuildersCollect
      <4>3. CASE m = n
        <5>1. Then(Accepted(caller.stmts \o Top.stmts), rest)
                = Then(Accepted(caller.stmts), Then(Accepted(Top.stmts), rest))
          BY <1>3, <1>b, <1>c, ThenIsAssociative
        <5>2. Then(Accepted(caller.stmts \o Top.stmts), rest) = Alone(File, caller.fn)
          BY <1>c, <2>2, <4>2, <4>3, <5>1 DEF caller
        <5> QED
          BY <1>5, <1>d, <4>3, <5>2 DEF rest
      <4>4. CASE m # n
        BY <1>5, <4>2, <4>4 DEF Rest
      <4> QED
        BY <4>3, <4>4
    <3> QED
      BY <1>5, <1>6, <3>1 DEF BuildersCollect, Rest
  <2>3. SubComputationsAreSomeFiles'
    <3>1. ASSUME NEW f \in DOMAIN subComputations'
          PROVE  \E i \in 1 .. Len(files) :
                   f \in Callees(files[i]) /\ Accepted(subComputations'[f]) = Alone(files[i], f)
      <4>1. CASE f = Top.fn
        <5>1. subComputations'[f] = Top.stmts
          BY <1>1, <4>1
        <5>2. Len(files) \in 1 .. Len(files)
          BY <1>2
        <5> QED
          BY <1>2, <2>2, <4>1, <5>1, <5>2 DEF File
      <4>2. CASE f # Top.fn
        <5>1. f \in DOMAIN subComputations /\ subComputations'[f] = subComputations[f]
          BY <1>1, <3>1, <4>2
        <5> QED
          BY <1>12, <5>1 DEF IInv, Content, SubComputationsAreSomeFiles
      <4> QED
        BY <4>1, <4>2
    <3> QED
      BY <1>1, <3>1 DEF SubComputationsAreSomeFiles
  <2>4. CalleesAreTheirs'
    BY <1>1, <1>12 DEF IInv, Content, CalleesAreTheirs, OutputIsAlone
  <2> QED
    BY <2>1, <2>3, <2>4 DEF Content
<1> QED
  BY <1>6, <1>7, <1>8, <1>9, <1>10, <1>11, <1>12, <1>e DEF IInv

(* The entry point's builder ends: what it has is what the file means.     *)
LEMMA FinishFileKeeps ==
  ASSUME IInv, FinishFile
  PROVE  IInv'
<1>1. /\ Running /\ frames # << >> /\ Top.next > Len(Body) /\ Len(frames) = 1
      /\ outputs' = Append(outputs, Top.stmts) /\ frames' = << >>
      /\ UNCHANGED <<files, subComputations, status>>
  BY DEF FinishFile, AtEnd
<1> DEFINE n == Len(files)
<1>2. n \in Nat \ {0} /\ File \in Files /\ Top \in BuilderSet
  BY <1>1, AtWork
<1>3. /\ Top.fn = EntryPoint /\ Top.fn \in DOMAIN File /\ Top.stmts \in Seq(Stmts)
  BY <1>1, <1>2 DEF IInv, BuildersOK, Top, BuilderSet
<1>4. TypeOK /\ outputs \in Seq(Seq(Stmts)) /\ Len(outputs) = n - 1
  BY <1>1 DEF IInv, TypeOK, OneOutputEach, Running
<1>5. /\ Len(outputs') = n /\ outputs'[n] = Top.stmts /\ outputs' \in Seq(Seq(Stmts))
      /\ \A i \in 1 .. n - 1 : outputs'[i] = outputs[i]
  BY <1>1, <1>2, <1>3, <1>4
<1>6. (FilesAgree)' = FilesAgree
  BY <1>1 DEF FilesAgree
<1>7. TypeOK' /\ BuildersOK' /\ AtTheirCalls'
  <2>1. Len(<< >>) = 0
    OBVIOUS
  <2> QED
    BY <1>1, <1>4, <1>5, <2>1 DEF TypeOK, BuildersOK, AtTheirCalls
<1>8. OneOutputEach'
  BY <1>1, <1>5 DEF IInv, OneOutputEach, Running
<1>9. RefusalsReachEntry' /\ RefusedForACause'
  BY <1>1 DEF RefusalsReachEntry, RefusedForACause, Running
<1>10. ASSUME FilesAgree
       PROVE  Content'
  <2>1. Accepted(Top.stmts) = Alone(File, EntryPoint)
    <3>1. Then(Accepted(Top.stmts), Rest(Top)) = Alone(File, Top.fn)
      BY <1>1, <1>10 DEF IInv, Content, BuildersCollect, Top
    <3>2. Rest(Top) = Accepted(<< >>)
      BY <1>1, EndMeaning
    <3> QED
      BY <1>3, <3>1, <3>2, ThenNothing
  <2>2. ASSUME NEW i \in 1 .. n
        PROVE  Accepted(outputs'[i]) = Alone(files[i], EntryPoint)
    <3>1. CASE i = n
      BY <1>5, <2>1, <3>1 DEF File
    <3>2. CASE i # n
      <4>1. i \in 1 .. n - 1
        BY <1>2, <3>2
      <4> QED
        BY <1>4, <1>5, <1>10, <4>1 DEF IInv, Content, CalleesAreTheirs, OutputIsAlone
    <3> QED
      BY <3>1, <3>2
  <2>3. BuildersCollect' /\ SubComputationsAreSomeFiles'
    BY <1>1, <1>10 DEF IInv, Content, BuildersCollect, SubComputationsAreSomeFiles
  <2> QED
    BY <1>1, <1>5, <2>2, <2>3 DEF Content, CalleesAreTheirs, OutputIsAlone
<1> QED
  BY <1>6, <1>7, <1>8, <1>9, <1>10 DEF IInv

(* The next file: what was kept and printed before stays that of its file. *)
LEMMA HandleTranslationUnitKeeps ==
  ASSUME IInv, NEW F \in Files, HandleTranslationUnit(F)
  PROVE  IInv'
<1> DEFINE n == Len(files)
           b == NewBuilder(EntryPoint)
<1>1. Running /\ frames = << >> /\ files' = Append(files, F)
      /\ UNCHANGED <<subComputations, outputs>>
  BY DEF HandleTranslationUnit, Exit
<1>2. TypeOK /\ files \in Seq(Files) /\ n \in Nat /\ Len(outputs) = n
      /\ outputs \in Seq(Seq(Stmts))
  BY <1>1 DEF IInv, TypeOK, OneOutputEach, Running
<1>3. /\ files' \in Seq(Files) /\ Len(files') = n + 1 /\ files' # << >>
      /\ files'[n + 1] = F
      /\ \A i \in 1 .. n : files'[i] = files[i]
  <2>1. Len(Append(files, F)) = n + 1 /\ Append(files, F)[n + 1] = F
        /\ Append(files, F) \in Seq(Files)
        /\ \A i \in 1 .. n : Append(files, F)[i] = files[i]
    BY <1>2, AppendProperties
  <2>2. Append(files, F) # << >>
    BY <1>2, AppendProperties
  <2> QED
    BY <1>1, <2>1, <2>2
<1>4. File' = F
  BY <1>3 DEF File
<1>5. ASSUME (FilesAgree)'
      PROVE  FilesAgree
  <2>1. \A i \in 1 .. n : i \in 1 .. n + 1
    BY <1>2
  <2> QED
    BY <1>3, <1>5, <2>1 DEF FilesAgree
<1>6. ASSUME (FilesAgree)'
      PROVE  SubComputationsAreSomeFiles' /\ CalleesAreTheirs'
  <2>1. SubComputationsAreSomeFiles /\ CalleesAreTheirs
    BY <1>5, <1>6 DEF IInv, Content
  <2>2. \A i \in 1 .. n : i \in 1 .. n + 1
    BY <1>2
  <2>3. SubComputationsAreSomeFiles'
    <3>1. ASSUME NEW f \in DOMAIN subComputations
          PROVE  \E i \in 1 .. n + 1 :
                   f \in Callees(files'[i]) /\ Accepted(subComputations[f]) = Alone(files'[i], f)
      <4>1. PICK i \in 1 .. n :
              f \in Callees(files[i]) /\ Accepted(subComputations[f]) = Alone(files[i], f)
        BY <2>1 DEF SubComputationsAreSomeFiles
      <4>2. i \in 1 .. n + 1 /\ files'[i] = files[i]
        BY <1>3, <2>2
      <4> QED
        BY <4>1, <4>2
    <3> QED
      BY <1>1, <1>3, <3>1 DEF SubComputationsAreSomeFiles
  <2>4. CalleesAreTheirs'
    BY <1>1, <1>2, <1>3, <2>1 DEF CalleesAreTheirs, OutputIsAlone
  <2> QED
    BY <2>3, <2>4
<1>7. CASE EntryPoint \in DOMAIN F
  <2>1. frames' = <<b>> /\ status' = status
    BY <1>7 DEF HandleTranslationUnit, Builder
  <2>2. /\ b.fn = EntryPoint /\ b.next = 1 /\ b.stmts = << >> /\ b.haveFoundAReturn = FALSE
        /\ b = [fn |-> EntryPoint, next |-> 1, stmts |-> << >>, haveFoundAReturn |-> FALSE]
    BY DEF NewBuilder
  <2> HIDE DEF b
  <2>3. Len(frames') = 1 /\ frames'[1] = b /\ frames' # << >>
    BY <2>1
  <2>4. /\ DOMAIN F \subseteq Functions /\ Len(F[EntryPoint]) \in Nat
        /\ Meaning(F, EntryPoint, 1, FALSE) \in Meanings
    <3>1. DOMAIN F \subseteq Functions /\ F[EntryPoint] \in Seq(Items)
      BY <1>7, FilesAssumption
    <3>2. Len(F[EntryPoint]) \in Nat /\ 1 \in 1 .. Len(F[EntryPoint]) + 1
      BY <3>1
    <3> QED
      BY <1>7, <3>1, <3>2, MeaningIs
  <2>5. b \in [fn : DOMAIN F, next : Nat \ {0}, stmts : Seq(Stmts), haveFoundAReturn : BOOLEAN]
    BY <1>7, <2>2
  <2>6. TypeOK'
    <3>1. b \in [fn : Functions, next : Nat \ {0}, stmts : Seq(Stmts),
                 haveFoundAReturn : BOOLEAN]
      BY <1>7, <2>2, <2>4
    <3> QED
      BY <1>1, <1>2, <1>3, <2>1, <3>1 DEF TypeOK
  <2>7. BuildersOK'
    <3>1. frames' \in Seq(BuilderSet')
      BY <1>4, <2>1, <2>5 DEF BuilderSet
    <3>2. \A m \in 1 .. 1 : m = 1
      OBVIOUS
    <3>3. b.next <= Len(F[b.fn]) + 1
      BY <2>2, <2>4
    <3> QED
      BY <1>3, <1>4, <2>2, <2>3, <3>1, <3>2, <3>3 DEF BuildersOK
  <2>8. OneOutputEach' /\ RefusedForACause' /\ AtTheirCalls'
    BY <1>1, <1>2, <1>3, <2>1, <2>3 DEF OneOutputEach, RefusedForACause, AtTheirCalls, Running
  <2>9. Rest(b)' = Alone(F, EntryPoint)
    BY <1>4, <1>7, <2>2 DEF Rest, Alone
  <2>10. RefusalsReachEntry'
    <3>1. \A m \in 1 .. 1 : m = 1
      OBVIOUS
    <3> QED
      BY <1>4, <2>3, <2>9, <3>1 DEF RefusalsReachEntry, Rest
  <2>11. BuildersCollect'
    <3>1. \A m \in 1 .. 1 : m = 1
      OBVIOUS
    <3>2. Then(Accepted(<< >>), Alone(F, EntryPoint)) = Alone(F, EntryPoint)
      BY <1>7, <2>4, NothingThen DEF Alone
    <3> QED
      BY <1>4, <2>2, <2>3, <2>9, <3>1, <3>2 DEF BuildersCollect, Rest
  <2> QED
    BY <1>6, <2>6, <2>7, <2>8, <2>10, <2>11 DEF IInv, Content
<1>8. CASE EntryPoint \notin DOMAIN F
  <2>1. frames' = << >> /\ status' = "exit"
    BY <1>1, <1>8 DEF HandleTranslationUnit, Exit
  <2>2. TypeOK' /\ BuildersOK' /\ AtTheirCalls'
    BY <1>1, <1>2, <1>3, <2>1 DEF TypeOK, BuildersOK, AtTheirCalls
  <2>3. OneOutputEach'
    BY <1>1, <1>2, <1>3, <2>1 DEF OneOutputEach
  <2>4. RefusedForACause'
    BY <1>4, <1>8, RefusedIsNot DEF RefusedForACause, Alone
  <2>5. RefusalsReachEntry' /\ BuildersCollect'
    BY <2>1 DEF RefusalsReachEntry, BuildersCollect
  <2> QED
    BY <1>6, <2>2, <2>3, <2>4, <2>5 DEF IInv, Content
<1> QED
  BY <1>7, <1>8

LEMMA FinishKeeps ==
  ASSUME IInv, Finish
  PROVE  IInv'
<1>1. /\ Running /\ frames = << >> /\ status' = "done"
      /\ UNCHANGED <<files, frames, subComputations, outputs>>
  BY DEF Finish
<1>2. (FilesAgree)' = FilesAgree
  BY <1>1 DEF FilesAgree
<1>3. TypeOK' /\ BuildersOK' /\ AtTheirCalls'
  BY <1>1 DEF IInv, TypeOK, BuildersOK, AtTheirCalls
<1>4. OneOutputEach' /\ RefusalsReachEntry' /\ RefusedForACause'
  BY <1>1 DEF IInv, OneOutputEach, RefusalsReachEntry, RefusedForACause, Running
<1>5. FilesAgree => Content'
  BY <1>1 DEF IInv, Content, BuildersCollect, SubComputationsAreSomeFiles, CalleesAreTheirs,
              OutputIsAlone
<1> QED
  BY <1>2, <1>3, <1>4, <1>5 DEF IInv

LEMMA StutterKeeps ==
  ASSUME IInv, UNCHANGED vars
  PROVE  IInv'
<1>1. File' = File /\ BuilderSet' = BuilderSet /\ (FilesAgree)' = FilesAgree
  BY DEF vars, File, BuilderSet, FilesAgree
<1> QED
  BY <1>1 DEF vars, IInv, TypeOK, BuildersOK, AtTheirCalls, OneOutputEach, RefusalsReachEntry,
              RefusedForACause, Content, BuildersCollect, SubComputationsAreSomeFiles,
              CalleesAreTheirs, OutputIsAlone, Rest

-------------------------------------------------------------------------------
LEMMA Invariance == Spec => []IInv
<1>1. Init => IInv
  BY InitKeeps
<1>2. IInv /\ [Next]_vars => IInv'
  <2> SUFFICES ASSUME IInv, [Next]_vars PROVE IInv'
    OBVIOUS
  <2>1. ASSUME NEW F \in Files, HandleTranslationUnit(F) PROVE IInv'
    BY <2>1, HandleTranslationUnitKeeps
  <2>2. CASE AddStmt
    BY <2>2, AddStmtKeeps
  <2>3. CASE AddReturn
    BY <2>3, AddReturnKeeps
  <2>4. CASE CallFails
    BY <2>4, CallFailsKeeps
  <2>5. CASE BuildCallee
    BY <2>5, BuildCalleeKeeps
  <2>6. CASE FinishCallee
    BY <2>6, FinishCalleeKeeps
  <2>7. CASE InlineCall
    BY <2>7, InlineCallKeeps
  <2>8. CASE FinishFile
    BY <2>8, FinishFileKeeps
  <2>9. CASE Finish
    BY <2>9, FinishKeeps
  <2>10. CASE UNCHANGED vars
    BY <2>10, StutterKeeps
  <2> QED
    BY <2>1, <2>2, <2>3, <2>4, <2>5, <2>6, <2>7, <2>8, <2>9, <2>10 DEF Next, Terminated
<1> QED
  BY <1>1, <1>2, PTL DEF Spec

(* The state of a run has its type. *)
THEOREM TypeCorrect == Spec => []TypeOK
<1>1. IInv => TypeOK
  BY DEF IInv
<1> QED
  BY <1>1, Invariance, PTL

(* However many files there are, in whatever order: if they agree on the   *)
(* functions they call, what is printed for each is what it means alone,   *)
(* though subComputations (ComputationBuilder.cpp) is never cleared.       *)
THEOREM FilesIndependent == Spec => []FilesAreIndependent
<1>1. IInv => FilesAreIndependent
  BY DEF IInv, Content, FilesAreIndependent
<1> QED
  BY <1>1, Invariance, PTL

(* No file is refused for what the builders of another, or of a caller,    *)
(* have found (haveFoundAReturn in ComputationBuilder.cpp).                *)
THEOREM RefusalsHaveACause == Spec => []RefusedForACause
<1>1. IInv => RefusedForACause
  BY DEF IInv
<1> QED
  BY <1>1, Invariance, PTL
===============================================================================
