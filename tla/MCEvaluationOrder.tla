--------------------------- MODULE MCEvaluationOrder ---------------------------
(* Same-cycle dependency graphs on four equations: every graph of plain    *)
(* equations in which only the last may read itself, and nodes with a      *)
(* two-output call whose name "a" an earlier equation also defines.  "in"  *)
(* is an input: read by equations, defined by none.                        *)
EXTENDS EvaluationOrder

MCNames == {"a", "b", "c", "d", "in"}

OneEach == <<{"a"}, {"b"}, {"c"}, {"d"}>>
DefinedTwice == <<{"a"}, {"b"}, {"a", "c"}, {"d"}>>

MCNodes ==
    {[lhs |-> OneEach, reads |-> r] :
        r \in {f \in [1 .. 4 -> SUBSET {"a", "b", "c", "d"}] :
                 \A e \in 1 .. 3 : OneEach[e] \cap f[e] = {}}}
    \cup [lhs : {DefinedTwice}, reads : [1 .. 4 -> SUBSET {"a", "c", "in"}]]
===============================================================================
