------------------------------- MODULE MCDriver -------------------------------
(* Files for the tool: a static helper "g" with two bodies, a function "f" *)
(* between it and the entry point, returns in all three, and functions     *)
(* that are missing.                                                       *)
EXTENDS Driver

MCFunctions == {"main", "f", "g"}

Bodies ==
  [main |-> {<<"f">>, <<"s", "f", "g">>, <<"g", "return", "g">>, <<"s", "return", "s">>},
   f |-> {<<"g", "s">>, <<"return">>, <<"s", "g", "return">>, <<"return", "g", "t">>},
   g |-> {<<"s">>, <<"t", "return">>, << >>}]

(* No function calls itself (see NonRecursive). *)
MCFiles == UNION {{F \in [D -> UNION {Bodies[f] : f \in D}] :
                     \A f \in D : F[f] \in Bodies[f]} : D \in SUBSET MCFunctions}

RECURSIVE MCMeaning(_, _, _, _)
MCMeaning(F, f, k, returned) ==
  IF k > Len(F[f]) THEN Accepted(<< >>)
  ELSE LET item == F[f][k] IN
    CASE item \in Functions ->
           IF item \in DOMAIN F
             THEN Then(MCMeaning(F, item, 1, FALSE), MCMeaning(F, f, k + 1, returned))
             ELSE Refused
      [] item = Return ->
           IF returned THEN Refused ELSE MCMeaning(F, f, k + 1, TRUE)
      [] OTHER ->
           IF returned THEN Refused
                       ELSE Then(Accepted(<<item>>), MCMeaning(F, f, k + 1, returned))
===============================================================================
