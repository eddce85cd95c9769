------------------------- MODULE MCComputationBuilder -------------------------
(***************************************************************************)
(* ComputationBuilder on three functions: main calls f and g, f calls g.   *)
(***************************************************************************)
EXTENDS ComputationBuilder

Lit(text) == [kind |-> "lit", name |-> text]
Array(name, subs) == [kind |-> "array", name |-> name, subs |-> subs]
CallOf(callee, args) == [kind |-> "call", callee |-> callee, args |-> args]
Opaque == [kind |-> "opaque"]

Declaration(name) == [name |-> name, init |-> FALSE, value |-> << >>]
Initialised(name, value) == [name |-> name, init |-> TRUE, value |-> value]
Paren(c) == [kind |-> "paren", of |-> c]
Chained(s, names) == [s EXCEPT !.unseen = names]
Decl(decls) == [kind |-> "decl", decls |-> decls, unseen |-> {}]
Assign(target, value) ==
  [kind |-> "assign", target |-> target, value |-> value, unseen |-> {}]
Update(target, value) == [Assign(target, value) EXCEPT !.kind = "update"]
Return(value) == [kind |-> "return", value |-> value, unseen |-> {}]
CallStmt(c) == [kind |-> "call", value |-> <<c>>, unseen |-> {}]
Expr(value) == [kind |-> "expr", value |-> value, unseen |-> {}]
Other(unseen) == [kind |-> "other", unseen |-> unseen]
Unsupported == [kind |-> "unsupported", unseen |-> {}]

Header(iter, scalars, arrays, inner) ==
  [init |-> "decl", iter |-> iter, from |-> "0", cond |-> "binary",
   lhs |-> iter, op |-> "<", rhs |-> "bound", scalars |-> {iter} \cup scalars,
   arrays |-> arrays, inner |-> inner, inc |-> [form |-> "++", var |-> iter, base |-> iter, by |-> 1]]
UpToN == Header("i", {"n"}, {}, {})
UpToArray == Header("j", {"i"}, {"A"}, {"n"})     \* j < i + A[n]
UpTo3 == Header("k", {}, {}, {})
NotEqual == [UpTo3 EXCEPT !.op = "!="]
Cond(op) == [form |-> "binary", lhs |-> "c", op |-> op, rhs |-> "3"]

MCFns == {"main", "f", "g"}
MCParams == [main |-> <<"n", "A">>, f |-> <<"x">>, g |-> <<"p">>]
MCReserved == {"sqrt"}
Starts(main, callees) == [f \in MCFns |-> IF f = "main" THEN main ELSE callees]

(* Inlining: every way a call reaches inlineFunctionCall, callees with     *)
(* calls of their own, functions called twice.                             *)
InliningSource ==
  [main |-> { Assign(Ref("n"), <<CallOf("f", <<Ref("n")>>)>>),
              Expr(<<CallOf("g", <<Lit("3")>>)>>),
              CallStmt(CallOf("f", <<Ref("i")>>)),
              CallStmt(CallOf("sqrt", <<Ref("n")>>)),
              Return(<<Ref("n")>>) },
   f |-> { Update(Ref("x"), <<CallOf("g", <<Ref("x")>>)>>),
           CallStmt(CallOf("g", <<Lit("1")>>)),
           Return(<<Ref("x")>>) },
   g |-> { Decl(<<Initialised("q", <<Ref("p")>>)>>), Update(Ref("p"), <<Lit("2")>>),
           Return(<<Ref("p")>>), Return(<<Ref("q")>>) }]
InliningHeaders == {UpToN, UpTo3}
InliningConds == {Cond("<")}
InliningStarts == Starts(3, 3)

(* Accesses: every kind of statement and expression, and what is refused.  *)
AccessSource ==
  [main |-> { Decl(<<Declaration("y")>>),
              Decl(<<Initialised("y", <<Ref("n")>>), Initialised("z", <<Ref("y"), Lit("1")>>)>>),
              Assign(Ref("y"), <<CallOf("g", <<Ref("y")>>), CallOf("g", <<Ref("n")>>)>>),
              Assign(Ref("n"), <<Array("A", <<"B">>)>>),
              Update(Array("A", <<>>), <<Ref("i"), Ref("n")>>),
              Assign(Ref("y"), <<Opaque>>),
              CallStmt(CallOf("f", <<Opaque>>)),
              CallStmt(CallOf("unknown", <<>>)),
              Assign(Ref("y"), <<CallOf("sqrt", <<Ref("n")>>)>>),
              Expr(<<Ref("n")>>),
              Chained(Assign(Ref("y"), <<Ref("n"), Lit("0")>>), {"n"}),  \* y = n = 0
              Chained(Update(Paren(Ref("n")), <<Lit("1")>>), {"n"}),
              Assign(Opaque, <<Ref("n")>>), Update(Opaque, <<Lit("1")>>),
              Update(Ref("i"), <<Lit("2")>>),
              CallStmt(CallOf("f", <<Ref("n")>>)),
              Other({"n"}), Unsupported,
              Return(<<Opaque>>), Return(<<Ref("y")>>), Return(<<>>) },
   f |-> { CallStmt(CallOf("f", <<Ref("x")>>)) },
   g |-> { Update(Ref("p"), <<Ref("p")>>), Return(<<Ref("p")>>) }]
AccessParams == [MCParams EXCEPT !.main = <<"n", "A", "B">>]
AccessHeaders == {UpToN, UpToArray, NotEqual}
AccessConds == {Cond("<"), Cond("=="), Cond("!=")}
AccessStarts == Starts(4, 2)

(* Smaller sources, one for each disagreement with the code's messages.    *)
Only(main, g) == [main |-> main, f |-> {}, g |-> g]
OneCall == Assign(Ref("n"), <<CallOf("g", <<Ref("n")>>)>>)
LiteralReturn == Only({OneCall}, {Return(<<Lit("3")>>)})
Increments == Only({Other({"n"}), OneCall}, {Return(<<Ref("p")>>)})
===============================================================================
