----------------------------- MODULE ContractCheck -----------------------------
(***************************************************************************)
(* Well-formedness of contracts, ol_contract_check, and the observer node  *)
(* of a contract (ol_contract_ir): its ghosts are locals, and every clause *)
(* a boolean output.                                                       *)
(***************************************************************************)
EXTENDS Slicing

ObserverName(c) == <<"observer", c.name>>

Observer(c) ==
    LET modes(part, tag) == FlattenSeq([m \in DOMAIN c.modes |->
            LET clauses == IF part = "requires" THEN c.modes[m].requires ELSE c.modes[m].ensures
            IN  [k \in DOMAIN clauses |-> <<<<tag, m, k>>, clauses[k]>>]])
        signals == [k \in DOMAIN c.assumes |-> <<<<"ol_a", k>>, c.assumes[k]>>]
                       \o [k \in DOMAIN c.guarantees |-> <<<<"ol_g", k>>, c.guarantees[k]>>]
                       \o modes("requires", "ol_r") \o modes("ensures", "ol_e")
    IN  [name |-> ObserverName(c), kind |-> "operator", ins |-> c.ins \o c.outs,
         outs |-> [k \in DOMAIN signals |-> [name |-> signals[k][1], type |-> BoolType]],
         locals |-> [g \in DOMAIN c.ghosts |-> [name |-> c.ghosts[g].name, type |-> c.ghosts[g].type]],
         eqs |-> [g \in DOMAIN c.ghosts |-> [lhs |-> <<c.ghosts[g].name>>, rhs |-> c.ghosts[g].def]]
                     \o [k \in DOMAIN signals |-> [lhs |-> <<signals[k][1]>>, rhs |-> signals[k][2]]],
         contract |-> << >>, probes |-> << >>]

(* check_expression_types: the errors of the observers, each under its own *)
(* contract, among the nodes of the project.                               *)
ObserverErrors(p, tables) ==
    FlattenSeq([j \in DOMAIN p.contracts |->
        At(ObserverName(p.contracts[j]), CheckNode(Observer(p.contracts[j]), tables))])

ClauseErrors(p) ==
    ObserverErrors(p, Tables([p EXCEPT !.nodes =
        @ \o [j \in DOMAIN p.contracts |-> Observer(p.contracts[j])]]))

(* is_temporal_reference: every occurrence of x in e is under a pre.       *)
RECURSIVE OnlyUnderPre(_, _)
OnlyUnderPre(e, x) ==
    CASE e.op = "pre" -> TRUE
      [] e.op = "var" -> e.name # x
      [] OTHER -> \A j \in DOMAIN e.args : OnlyUnderPre(e.args[j], x)

(* An assumption speaks of the outputs of earlier cycles only.             *)
AssumptionErrors(c, k) ==
    LET e == c.assumes[k]
        current == {x \in FreeVars(e) \cap Fields(c.outs) : ~OnlyUnderPre(e, x)}
    IN  SetToSeq({Error("C0020", <<x>>, << >>) : x \in current})

(* An import maps each port of the contract it imports, and no other.      *)
ImportErrors(c, imp, contracts) ==
    LET target == Named(contracts, imp.contract)
        differ(mapped, ports) == (mapped \ Fields(ports)) \cup (Fields(ports) \ mapped)
    IN  IF imp.contract \notin Fields(contracts) THEN <<Error("C0070", <<imp.contract>>, << >>)>>
        ELSE SetToSeq({Error("C0071", <<x>>, << >>) : x \in differ(imp.ins, target.ins)})
                 \o SetToSeq({Error("C0072", <<x>>, << >>) : x \in differ(imp.outs, target.outs)})

(* verify_contract_matches_node: the same ports, in the same order.        *)
InterfaceErrors(n, c) ==
    LET pair(ports, wanted, number, each) ==
            IF Len(ports) # Len(wanted) THEN <<Error(number, << >>, << >>)>>
            ELSE FlattenSeq([j \in DOMAIN ports |->
                     Complain(ports[j] # wanted[j], each, <<ports[j].name, wanted[j].name>>,
                              <<ports[j].type, wanted[j].type>>)])
    IN  pair(n.ins, c.ins, "C0050", "C0051") \o pair(n.outs, c.outs, "C0052", "C0053")

(* check_project, its errors (the warnings are below).                     *)
CheckContracts(p) ==
    LET own(c) == FlattenSeq([k \in DOMAIN c.assumes |-> AssumptionErrors(c, k)])
                      \o FlattenSeq([i \in DOMAIN c.imports |-> ImportErrors(c, c.imports[i], p.contracts)])
        attached(n) == CASE n.contract = << >> -> << >>
                         [] n.contract \in Fields(p.contracts) ->
                               InterfaceErrors(n, Named(p.contracts, n.contract))
                         [] OTHER -> <<Error("C0010", <<n.name, n.contract>>, << >>)>>
    IN  FlattenSeq([j \in DOMAIN p.contracts |-> At(p.contracts[j].name, own(p.contracts[j]))])
            \o FlattenSeq([j \in DOMAIN p.nodes |-> At(p.nodes[j].name, attached(p.nodes[j]))])
            \o ClauseErrors(p)
-------------------------------------------------------------------------------
(* static_truth: a set of the value that e has whatever its variables, or  *)
(* the empty set where none is found.                                      *)
RECURSIVE StaticTruth(_)
StaticTruth(e) ==
    LET l == StaticTruth(e.args[1])
        r == StaticTruth(e.args[2])
        both(P(_, _)) == {P(x, y) : x \in l, y \in r}
    IN  CASE e.op = "bool" -> {e.val = 1}
          [] e.op = "not" -> {~b : b \in l}
          [] e.op = "and" ->
                IF FALSE \in l \cup r THEN {FALSE} ELSE both(LAMBDA x, y : x /\ y)
          [] e.op = "or" ->
                IF TRUE \in l \cup r THEN {TRUE} ELSE both(LAMBDA x, y : x \/ y)
          [] e.op = "implies" ->
                IF FALSE \in l \/ TRUE \in r THEN {TRUE} ELSE both(LAMBDA x, y : x => y)
          [] e.op = "eq" ->
                IF e.args[1] = e.args[2] THEN {TRUE} ELSE both(LAMBDA x, y : x = y)
          [] e.op = "neq" ->
                IF e.args[1] = e.args[2] THEN {FALSE} ELSE both(LAMBDA x, y : x # y)
          [] OTHER -> {}

IsNegationOf(a, b) == a = Not(b) \/ b = Not(a)

IsTautology(e) ==
    \/ e.op = "or" /\ IsNegationOf(e.args[1], e.args[2])
    \/ e.op \in {"implies", "eq"} /\ e.args[1] = e.args[2]

(* What the checker calls vacuous (C0061, C0062), a contract that cannot   *)
(* be entered (C0063), a mode that is unreachable (C0060) and two modes    *)
(* that are active together (C0064).                                       *)
Vacuous(e) == StaticTruth(e) = {TRUE} \/ IsTautology(e)
NeverHolds(e) == StaticTruth(e) = {FALSE}
Unreachable(requires) ==
    \/ \E i \in DOMAIN requires : NeverHolds(requires[i])
    \/ \E i, j \in DOMAIN requires : i < j /\ IsNegationOf(requires[i], requires[j])
===============================================================================
