------------------------------- MODULE MCBackends -------------------------------
(* A node that uses every clock feature, declared in reverse of its        *)
(* evaluation order:                                                       *)
(*   node nested(a, b: bool; x: int) returns (y, z: int)                   *)
(*     z = merge(c, w, q when not c);                                      *)
(*     y = merge(c, m, (0 -> pre y) when not c);                           *)
(*     q = 1 / (a + 2 - x);                                                *)
(*     w = u -> pre m;                                    on c             *)
(*     m = merge(d, n, u when not d);                     on c             *)
(*     n = 0 -> pre n + (u when d);                       on c, d          *)
(*     u = x when c;  d = b when c;  c = a;                                *)
(* a counts as 1 when true, so the division fails on a = 0, x = 2.         *)
EXTENDS Backends, PassOrder

MCInputs == {"a", "b", "x"}
MCOutputs == {"y", "z"}
Declared == <<"z", "y", "q", "w", "m", "n", "u", "d", "c">>
MCVars == {Declared[k] : k \in DOMAIN Declared}
MCVal == 0 .. 2
MCRows == {r \in [MCInputs -> 0 .. 2] : r["a"] \in 0 .. 1 /\ r["b"] \in 0 .. 1}

OnC == << <<"c", 1>> >>
OnCD == << <<"c", 1>>, <<"d", 1>> >>
NotC == << <<"c", 0>> >>
MCChains == {<< >>, OnC, OnCD, NotC}
MCClockOf == [v \in MCVars |-> CASE v \in {"w", "m", "u", "d"} -> OnC
                                 [] v = "n" -> OnCD
                                 [] OTHER -> << >>]
MCReads == [v \in MCVars |->
    CASE v = "z" -> {"c", "w", "q"}  [] v = "y" -> {"c", "m"}
      [] v = "q" -> {"a", "x"}       [] v = "w" -> {"u"}
      [] v = "m" -> {"d", "n", "u"}  [] v = "n" -> {"u", "d"}
      [] v = "u" -> {"x", "c"}       [] v = "d" -> {"b", "c"}
      [] v = "c" -> {"a"}]
MCPres == [v \in MCVars |-> CASE v = "y" -> {"y"} [] v = "w" -> {"m"}
                              [] v = "n" -> {"n"} [] OTHER -> {}]
MCSites == [v \in MCVars |-> CASE v = "y" -> {NotC} [] v = "w" -> {OnC}
                               [] v = "n" -> {OnCD} [] OTHER -> {}]

Quotient(a, x) == IF x >= a + 2 THEN 0 ELSE 1 \div (a + 2 - x)
MCFails(v, cur, first) == v = "q" /\ cur["a"] + 2 - cur["x"] = 0
MCApply(v, cur, prv, first) ==
    CASE v = "z" -> IF cur["c"] = 1 THEN cur["w"] ELSE cur["q"]
      [] v = "y" -> IF cur["c"] = 1 THEN cur["m"]
                    ELSE IF first[NotC] THEN 0 ELSE prv["y"]
      [] v = "q" -> Quotient(cur["a"], cur["x"])
      [] v = "w" -> IF first[OnC] THEN cur["u"] ELSE prv["m"]
      [] v = "m" -> IF cur["d"] = 1 THEN cur["n"] ELSE cur["u"]
      [] v = "n" -> IF first[OnCD] THEN 0 ELSE (prv["n"] + cur["u"]) % 3
      [] v = "u" -> cur["x"]
      [] v = "d" -> cur["b"]
      [] v = "c" -> cur["a"]

(* evaluation_order on the declaration, with the given reads.              *)
OrderBy(declared, reads) ==
    LET deps == [k \in DOMAIN declared |->
                    {j \in DOMAIN declared : declared[j] \in reads[declared[k]]}]
    IN  [k \in DOMAIN declared |-> declared[OrderOf(deps)[k]]]
FlatReadsOf(reads, clockOf) == [v \in DOMAIN reads |->
    reads[v] \cup {clockOf[v][j][1] : j \in DOMAIN clockOf[v]}]

MCOrder == <<"q", "c", "u", "d", "w", "n", "z", "m", "y">>
MCFlatOrder == <<"q", "c", "u", "d", "w", "n", "z", "m", "y">>
ASSUME OrdersAreTheCodes ==
    /\ MCOrder = OrderBy(Declared, MCReads)
    /\ MCFlatOrder = OrderBy(Declared, FlatReadsOf(MCReads, MCClockOf))
-------------------------------------------------------------------------------
(* A node the checker accepts in which an equation's clock comes only      *)
(* through a pre, so that no same-cycle read orders it after its clock:    *)
(*   node late(tick: bool; i: int) returns (o: int)                        *)
(*     y = 0 -> pre x;                       on c, the clock of x          *)
(*     x = i when c;  c = tick;                                            *)
(*     o = merge(c, y, 0 when not c);                                      *)
LateDeclared == <<"y", "x", "c", "o">>
LateInputs == {"tick", "i"}
LateOutputs == {"o"}
LateVars == {"y", "x", "c", "o"}
LateVal == 0 .. 1
LateRows == [LateInputs -> 0 .. 1]
LateChains == {<< >>, OnC}
LateClockOf == [v \in LateVars |-> IF v \in {"y", "x"} THEN OnC ELSE << >>]
LateReads == [v \in LateVars |-> CASE v = "y" -> {}
                               [] v = "x" -> {"i", "c"}
                               [] v = "c" -> {"tick"}
                               [] v = "o" -> {"c", "y"}]
LatePres == [v \in LateVars |-> IF v = "y" THEN {"x"} ELSE {}]
LateSites == [v \in LateVars |-> IF v = "y" THEN {OnC} ELSE {}]
LateFails(v, cur, first) == FALSE
LateApply(v, cur, prv, first) ==
    CASE v = "y" -> IF first[OnC] THEN 0 ELSE prv["x"]
      [] v = "x" -> cur["i"]
      [] v = "c" -> cur["tick"]
      [] v = "o" -> IF cur["c"] = 1 THEN cur["y"] ELSE 0

\* <<"y", "c", "o", "x">> and <<"c", "y", "x", "o">>.
LateOrder == OrderBy(LateDeclared, LateReads)
LateFlatOrder == OrderBy(LateDeclared, FlatReadsOf(LateReads, LateClockOf))
===============================================================================
