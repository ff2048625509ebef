--------------------------- MODULE MCToolPipeline ---------------------------
(***************************************************************************)
(* A small instance of ToolPipeline: one call of a tool with a middleware  *)
(* of its own and a retry, and two calls, possibly made by its handler, of *)
(* a tool with two sets of arguments whose results live for one instant    *)
(* and whose limit leaves room for one entry.                              *)
(***************************************************************************)
EXTENDS ToolPipeline, TLC

CONSTANTS c1, c2, c3, t1, t2, k1, k2, k3, m

MCToolOf == (k1 :> t1) @@ (k2 :> t1) @@ (k3 :> t2)
MCTtl == (t1 :> 0) @@ (t2 :> 1)
MCMaxSize == (t1 :> 1) @@ (t2 :> 2)
MCLoad ==
    [c \in {c1, c2, c3} |->
        IF c = c1 THEN [key : {k3}, caller : {None}, bypass : {FALSE}]
                  ELSE [key : {k1, k2}, caller : {None}, bypass : {FALSE}]
                       \cup [key : {k1, k2}, caller : {t2}, bypass : {TRUE}]]
MCAttempts == (t1 :> 1) @@ (t2 :> 2)
MCFilter == m :> {t2}
MCOwn == (t1 :> <<>>) @@ (t2 :> <<m>>)

Symmetry == Permutations({c2, c3}) \cup Permutations({k1, k2})
=============================================================================
