----------------------------- MODULE ClockInference -----------------------------
(***************************************************************************)
(* Clock inference, ol_ir/clocks.rs: natural clocks by a fixpoint over the *)
(* equations, then a top-down check of each of them.  A node is its set of *)
(* inputs and outputs `io` and the sequence `eqs` of its equations.  A     *)
(* natural clock is an option: the empty set, or a set of one clock.       *)
(***************************************************************************)
EXTENDS Expressions

Known(vc, x) == IF x \in DOMAIN vc THEN {vc[x]} ELSE {}

FirstClock(clocks) ==
    LET found == {j \in DOMAIN clocks : clocks[j] # {}}
    IN  IF found = {} THEN {} ELSE clocks[Min(found)]

(* A merge on an unknown clock variable: a branch, one sampling level up.  *)
MergeClock(clocks) ==
    {Up(ck) : ck \in FirstClock([j \in DOMAIN clocks |-> clocks[j] \ {Base}])}

(* The clock of e, whose operands have these.                              *)
ClockOver(e, clocks, vc) ==
    CASE e.op = "var" -> Known(vc, e.name)
      [] e.op = "when" ->
            LET first == FirstClock(clocks)
                parent == IF first # {} THEN first ELSE Known(vc, e.name)
            IN  {Append(ck, <<e.name, e.val>>) : ck \in IF parent = {} THEN {Base} ELSE parent}
      [] e.op = "merge" -> IF e.name \in DOMAIN vc THEN Known(vc, e.name) ELSE MergeClock(clocks)
      [] OTHER -> FirstClock(clocks)

RECURSIVE NaturalClock(_, _)
NaturalClock(e, vc) == ClockOver(e, [j \in DOMAIN e.args |-> NaturalClock(e.args[j], vc)], vc)

Clocked(vc, x, clock, node) ==
    IF x \in node.io \/ clock = {} THEN vc ELSE (x :> The(clock)) @@ vc

(* A round of the loop: each equation gives its variable its clock.        *)
Round(vc, node) ==
    FoldLeft(LAMBDA acc, eq : Clocked(acc, eq.lhs, NaturalClock(eq.rhs, acc), node), vc, node.eqs)

(* At most one round more than there are equations; a node whose clocks    *)
(* keep growing is caught by the check.                                    *)
RECURSIVE Fixpoint(_, _, _, _)
Fixpoint(before, vc, node, rounds) ==
    IF rounds = 0 \/ vc = before THEN vc ELSE Fixpoint(vc, Round(vc, node), node, rounds - 1)

Unclocked(node) == [x \in node.io |-> Base]
VarClocks(node) == Fixpoint(Unclocked(node), Round(Unclocked(node), node), node, Len(node.eqs))

EquationClock(eq, vc) ==
    LET ck == NaturalClock(eq.rhs, vc)
    IN  IF ck = {} THEN Base ELSE CHOOSE c \in ck : TRUE

\* Mutant: the operands of a merge are not checked on its two sides.
RECURSIVE WellClockedFlatMerge(_, _, _)
WellClockedFlatMerge(e, ck, vc) ==
    CASE e.op = "var" -> Known(vc, e.name) \subseteq {ck}
      [] e.op = "when" ->
            /\ ck # Base /\ Last(ck) = <<e.name, e.val>>
            /\ Known(vc, e.name) \subseteq {Up(ck)}
            /\ WellClockedFlatMerge(e.args[1], Up(ck), vc)
      [] e.op = "merge" -> Known(vc, e.name) \subseteq {ck}
      [] OTHER -> \A j \in DOMAIN e.args : WellClockedFlatMerge(e.args[j], ck, vc)

(* check_expr without an error: e runs on ck.  A name without a clock is   *)
(* polymorphic and fits anywhere.                                          *)
RECURSIVE WellClocked(_, _, _)
WellClocked(e, ck, vc) ==
    CASE e.op = "var" -> Known(vc, e.name) \subseteq {ck}
      [] e.op = "when" ->
            /\ ck # Base /\ Last(ck) = <<e.name, e.val>>
            /\ Known(vc, e.name) \subseteq {Up(ck)}
            /\ WellClocked(e.args[1], Up(ck), vc)
      [] e.op = "merge" ->
            /\ Known(vc, e.name) \subseteq {ck}
            /\ WellClocked(e.args[1], Append(ck, <<e.name, 1>>), vc)
            /\ WellClocked(e.args[2], Append(ck, <<e.name, 0>>), vc)
      [] OTHER -> \A j \in DOMAIN e.args : WellClocked(e.args[j], ck, vc)

EquationAccepted(eq, ck, vc) ==
    Known(vc, eq.lhs) \subseteq {ck} /\ WellClocked(eq.rhs, ck, vc)

(* infer_clocks reports no error, where it has found these clocks.         *)
ClocksAccepted(node, vc) ==
    \A j \in DOMAIN node.eqs :
        EquationAccepted(node.eqs[j], EquationClock(node.eqs[j], vc), vc)

EquationClocks(node, vc) == [j \in DOMAIN node.eqs |-> EquationClock(node.eqs[j], vc)]
===============================================================================
