------------------------------ MODULE NonRecursive ------------------------------
(***************************************************************************)
(* Programs in which no function calls itself, through others or not.  The *)
(* code does not detect recursion: it appends a null pointer or, where the *)
(* compiler evaluates the right side of the assignment first (KeyFirst),   *)
(* builds the function for ever.                                           *)
(***************************************************************************)
EXTENDS ComputationBuilder

CallsIn(s) ==
  UNION {{v[i].callee : i \in {j \in 1 .. Len(v) : v[j].kind = "call"}} : v \in ValuesIn(s)}

Callees(f) == (UNION {CallsIn(s) : s \in Source[f]}) \cap Fns

ASSUME AcyclicCalls ==
  \E rank \in [Fns -> 1 .. Cardinality(Fns)] :
    \A f \in Fns : \A g \in Callees(f) : rank[g] < rank[f]
===============================================================================
