-------------------------------- MODULE Slicing --------------------------------
(***************************************************************************)
(* Selective generation, ol_ir/slice.rs: a lowered project cut down to a   *)
(* root operator and what it uses.  A contract has its ports, its ghost    *)
(* variables (name, type, def), sequences of assumptions and guarantees,   *)
(* modes (requires, ensures) and imports (of a contract, with the ports    *)
(* that are mapped).                                                       *)
(***************************************************************************)
EXTENDS TypeCheck

\* Mutant: iterators are not seen to call their function.
CalleesOfCalls(e) == {x.name : x \in {x \in ToSet(Subexpressions(e)) : x.op = "call"}}

Callees(e) ==
    {x.name : x \in {x \in ToSet(Subexpressions(e)) : x.op \in {"call"} \cup Iterators}}

Bodies(n) == {n.eqs[j].rhs : j \in DOMAIN n.eqs}

(* contract_exprs.                                                         *)
Clauses(c) ==
    ToSet(c.assumes) \cup ToSet(c.guarantees)
        \cup UNION {ToSet(c.modes[m].requires) \cup ToSet(c.modes[m].ensures) : m \in DOMAIN c.modes}
        \cup {c.ghosts[g].def : g \in DOMAIN c.ghosts}

(* One round of the loop: what the kept nodes, contracts and constants     *)
(* call, attach, import and read.  A contract that is imported, not        *)
(* attached, keeps nothing of what it calls.                               *)
Grown(p, k) ==
    LET nodes == {n \in ToSet(p.nodes) : n.name \in k.nodes}
        contracts == {c \in ToSet(p.contracts) : c.name \in k.contracts}
        attached == {c \in ToSet(p.contracts) : c.name \in {n.contract : n \in nodes}}
        consts == {c \in ToSet(p.consts) : c.name \in k.consts}
        bodies == UNION {Bodies(n) : n \in nodes}
        values == {c.value : c \in consts}
    IN  [nodes |-> k.nodes \cup UNION {Callees(e) :
                       e \in bodies \cup values \cup UNION {Clauses(c) : c \in attached}},
         contracts |-> k.contracts \cup ({n.contract : n \in nodes} \ {<< >>})
                           \cup UNION {{c.imports[i].contract : i \in DOMAIN c.imports} : c \in contracts},
         reads |-> UNION {FreeVars(e) : e \in bodies \cup values \cup UNION {Clauses(c) : c \in contracts}},
         consts |-> {c.name : c \in {c \in ToSet(p.consts) : c.name \in k.reads}}]

RECURSIVE Closed(_, _)
Closed(p, k) == LET more == Grown(p, k) IN IF more = k THEN k ELSE Closed(p, more)

(* The types of what is kept, and of the variants it reads.                *)
UsedTypes(p, k) ==
    LET nodes == {n \in ToSet(p.nodes) : n.name \in k.nodes}
        ports == UNION {ToSet(n.ins \o n.outs \o n.locals) : n \in nodes}
        ghosts == UNION {ToSet(c.ghosts) : c \in {c \in ToSet(p.contracts) : c.name \in k.contracts}}
        consts == {c \in ToSet(p.consts) : c.name \in k.consts}
    IN  {x.type.base : x \in ports} \cup {x.type.base : x \in ghosts} \cup {x.type.base : x \in consts}
            \cup {d.name : d \in {d \in ToSet(p.types) :
                                     d.kind = "enum" /\ ToSet(d.variants) \cap k.reads # {}}}

RECURSIVE TypeClosure(_, _)
TypeClosure(p, bases) ==
    LET reached(d) == CASE d.kind = "record" -> {d.fields[j].type.base : j \in DOMAIN d.fields}
                        [] d.kind = "alias" -> {d.target.base}
                        [] OTHER -> {}
        more == bases \cup UNION {reached(d) : d \in {d \in ToSet(p.types) : d.name \in bases}}
    IN  IF more = bases THEN bases ELSE TypeClosure(p, more)

(* slice_for_root, for a root that is a node.                              *)
Slice(p, root) ==
    LET k == Closed(p, [nodes |-> {root}, contracts |-> {}, reads |-> {}, consts |-> {}])
        bases == TypeClosure(p, UsedTypes(p, k))
        keep(defs, names) == SelectSeq(defs, LAMBDA d : d.name \in names)
    IN  [p EXCEPT !.nodes = keep(@, k.nodes), !.types = keep(@, bases),
                  !.consts = keep(@, k.consts), !.contracts = keep(@, k.contracts)]
===============================================================================
