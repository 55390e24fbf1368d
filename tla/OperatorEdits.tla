------------------------------ MODULE OperatorEdits ------------------------------
(***************************************************************************)
(* The Studio server's edits of operators, their ports, equations, probes  *)
(* and canvas (studio_server.rs), each a function from the model file and  *)
(* a request to the model file saved: an action, whose guard is what the   *)
(* handler refuses.  A request is a record; a name in it is an identifier  *)
(* and an expression parses, as the handlers demand.                       *)
(*                                                                         *)
(* Equations are numbered from 1.  An equation keeps, as its tag, the edit *)
(* that made it, and `pos`, the layout, gives a tag to what it places: an  *)
(* equation by its number, <<"eq", i>>, and a variable by its name.        *)
(***************************************************************************)
EXTENDS Projects

CONSTANTS   \* what the edits call, by recursion over expressions (WorkbenchChecks)
    RenameVar(_, _),            \* an expression with its variables renamed
    RenameInStates(_, _, _),    \* the states of a machine likewise
    CanLower(_)                 \* a project's machines and activations lower

VARIABLES
    model,      \* the model file
    typesFile,  \* the types file it includes
    left        \* the edits still to come (a bound on their number)

Full == [model EXCEPT !.types = @ \o typesFile.types, !.consts = @ \o typesFile.consts]
Loads == CanLower(Full)

IsNode(x) == x \in Fields(model.nodes)
NodeOf(r) == Named(model.nodes, r.node)
Port(x, type) == [name |-> x, type |-> type]
EqKey(i) == <<"eq", i>>
Tag(k) == <<left, k>>

\* The definitions but those called x.
Without(defs, x) ==
    LET kept[j \in 0 .. Len(defs)] ==
            IF j = 0 THEN << >>
            ELSE IF defs[j].name = x THEN kept[j - 1] ELSE Append(kept[j - 1], defs[j])
    IN  kept[Len(defs)]

Saved(m) == model' = m /\ UNCHANGED typesFile
Edited(n) == Saved(WithNode(model, n))
Renaming(old, new) == old :> new
-------------------------------------------------------------------------------
\* Mutant: the contract keeps the interface it had.
SyncNothing(m, x, old, new) == m

(* sync_attached_contract: the contract of the operator x follows its      *)
(* interface, and a renaming, unless it is another operator's too.         *)
SyncAttachedContract(m, x, old, new) ==
    LET n == Named(m.nodes, x)
        users == {j \in DOMAIN m.nodes : m.nodes[j].contract = n.contract}
        e(clause) == IF old = new THEN clause ELSE RenameVar(clause, Renaming(old, new))
        all(clauses) == [k \in DOMAIN clauses |-> e(clauses[k])]
        ghost(g) == [g EXCEPT !.def = e(@)]
        mode(k) == [k EXCEPT !.requires = all(@), !.ensures = all(@)]
        follow(c) == [c EXCEPT
            !.ins = n.ins, !.outs = n.outs,
            !.ghosts = [g \in DOMAIN @ |-> ghost(@[g])],
            !.assumes = all(@), !.guarantees = all(@),
            !.modes = [k \in DOMAIN @ |-> mode(@[k])]]
    IN  IF n.contract = << >> \/ Cardinality(users) # 1 THEN m
        ELSE [m EXCEPT !.contracts = [j \in DOMAIN @ |->
                 IF @[j].name = n.contract THEN follow(@[j]) ELSE @[j]]]

EmptyNode(name, kind) ==
    [name |-> name, kind |-> kind, ins |-> << >>, outs |-> << >>, locals |-> << >>,
     eqs |-> << >>, contract |-> << >>, probes |-> << >>, pos |-> << >>]

AddNode(r) ==
    /\ ~IsNode(r.node)
    /\ Saved([model EXCEPT !.nodes = Append(@, EmptyNode(r.node, r.kind))])

AddPort(r) ==
    /\ IsNode(r.node) /\ r.name \notin Vars(NodeOf(r))
    /\ LET n == NodeOf(r)
           port == Port(r.name, r.type)
           with == IF r.side = "input" THEN [n EXCEPT !.ins = Append(@, port)]
                   ELSE [n EXCEPT !.outs = Append(@, port)]
       IN  Saved(SyncAttachedContract(WithNode(model, with), r.node, r.name, r.name))

AddLocal(r) ==
    /\ IsNode(r.node) /\ r.name \notin Vars(NodeOf(r))
    /\ Edited([NodeOf(r) EXCEPT !.locals = Append(@, Port(r.name, r.type))])

AddEquation(r) ==
    /\ IsNode(r.node)
    /\ Edited([NodeOf(r) EXCEPT !.eqs = Append(@, [lhs |-> r.lhs, rhs |-> r.rhs, tag |-> Tag(0)])])

UpdateEquation(r) ==
    /\ IsNode(r.node) /\ r.index \in DOMAIN NodeOf(r).eqs
    /\ Edited([NodeOf(r) EXCEPT !.eqs[r.index].lhs = r.lhs, !.eqs[r.index].rhs = r.rhs])

SetMain(r) ==
    /\ IsNode(r.node) \/ r.node \in {<<m>> : m \in MachineNames(model)}
    /\ Saved([model EXCEPT !.main = r.node])
-------------------------------------------------------------------------------
\* Mutant: the layout keeps the numbers the equations had.
KeyedAsBefore(pos, index) == [k \in DOMAIN pos \ {EqKey(index)} |-> pos[k]]

(* The layout without equation `index`: those behind it move up by one.    *)
Rekeyed(pos, index) ==
    LET behind(k) == Len(k) = 2 /\ k[1] = "eq" /\ k[2] > index
        to(k) == IF behind(k) THEN EqKey(k[2] - 1) ELSE k
        kept == DOMAIN pos \ {EqKey(index)}
    IN  [k \in {to(k) : k \in kept} |-> pos[CHOOSE old \in kept : to(old) = k]]

RemoveEquation(r) ==
    /\ IsNode(r.node) /\ r.index \in DOMAIN NodeOf(r).eqs
    /\ Edited([NodeOf(r) EXCEPT !.eqs = RemoveAt(@, r.index), !.pos = Rekeyed(@, r.index)])

(* The browser sends the positions of all it shows.                        *)
SetLayout(r) ==
    /\ IsNode(r.node)
    /\ LET n == NodeOf(r)
           keys == {EqKey(i) : i \in DOMAIN n.eqs} \cup Vars(n)
           place(k) == IF k \in Vars(n) THEN Tag(0) ELSE n.eqs[k[2]].tag
       IN  Edited([n EXCEPT !.pos = [k \in keys |-> place(k)]])
-------------------------------------------------------------------------------
RoleOf(n, x) ==
    IF x \in Fields(n.ins) THEN "input" ELSE IF x \in Fields(n.outs) THEN "output" ELSE "local"

\* The operator's own part of a renaming of its variable old.
RenamedIn(n, old, new) ==
    LET to(x) == IF x = old THEN new ELSE x
        port(ps) == [j \in DOMAIN ps |-> [ps[j] EXCEPT !.name = to(@)]]
        eq(q) == [q EXCEPT !.lhs = [k \in DOMAIN @ |-> to(@[k])],
                           !.rhs = RenameVar(@, Renaming(old, new))]
        moved == {to(k) : k \in DOMAIN n.pos}
    IN  [n EXCEPT
            !.ins = port(@), !.outs = port(@), !.locals = port(@),
            !.eqs = [j \in DOMAIN @ |-> eq(@[j])],
            !.pos = [k \in moved |-> @[IF k = new THEN old ELSE k]]]

Retyped(n, x, type) ==
    LET port(ps) == [j \in DOMAIN ps |-> IF ps[j].name = x THEN Port(x, type) ELSE ps[j]]
    IN  [n EXCEPT !.ins = port(@), !.outs = port(@), !.locals = port(@)]

\* The variable moves to the end of the list of its new role.
InRole(n, x, role) ==
    LET port == PortNamed(n.ins \o n.outs \o n.locals, x)
        list(ps, r) == IF r = role THEN Append(Without(ps, x), port) ELSE Without(ps, x)
    IN  IF RoleOf(n, x) = role THEN n
        ELSE [n EXCEPT !.ins = list(@, "input"), !.outs = list(@, "output"),
                       !.locals = list(@, "local")]

(* What an activation refers to by name, and the type of an output of it.  *)
RenamedActivation(act, old, new, retyped) ==
    LET to(x) == IF x = old THEN new ELSE x
        e(x) == RenameVar(x, Renaming(old, new))
        eqs(s) == [j \in DOMAIN s |-> Equation(to(s[j].lhs), e(s[j].rhs))]
        outputs == {to(o) : o \in act.outputs}
        type(o) == IF o = new /\ retyped # {} THEN The(retyped)
                   ELSE act.types[IF o = new /\ old \in act.outputs THEN old ELSE o]
        branch(b) == [b EXCEPT !.cond = e(@), !.eqs = eqs(@)]
    IN  [act EXCEPT
            !.outputs = outputs, !.types = [o \in outputs |-> type(o)],
            !.otherwise = eqs(@),
            !.branches = [k \in DOMAIN @ |-> branch(@[k])]]

\* Mutant: the constructs keep the old name and type.
PropagateNothing(m, owner, old, new, retyped) == m

(* propagate_port_change: the owner's machine and activations follow.      *)
PropagatePortChange(m, owner, old, new, retyped) ==
    LET renamed(sm) == [sm EXCEPT !.outputs = {IF o = old THEN new ELSE o : o \in @},
                                  !.states = RenameInStates(@, old, new)]
    IN  [m EXCEPT
            !.machines = [j \in DOMAIN @ |-> IF @[j].owner # owner THEN @[j] ELSE renamed(@[j])],
            !.acts = [j \in DOMAIN @ |->
                         IF @[j].owner # owner THEN @[j]
                         ELSE RenamedActivation(@[j], old, new, retyped)]]

(* edit_update_port: rename, then retype, then change of role; r.type is   *)
(* an option.                                                              *)
UpdatePort(r) ==
    /\ IsNode(r.node) /\ r.name \in Vars(NodeOf(r))
    /\ r.to = r.name \/ r.to \notin Vars(NodeOf(r))
    /\ LET n == NodeOf(r)
           named == IF r.to = r.name THEN n ELSE RenamedIn(n, r.name, r.to)
           typed == IF r.type = {} THEN named ELSE Retyped(named, r.to, The(r.type))
           m == WithNode(model, InRole(typed, r.to, r.role))
       IN  Saved(SyncAttachedContract(PropagatePortChange(m, r.node, r.name, r.to, r.type),
                                      r.node, r.name, r.to))

RemovePort(r) ==
    /\ IsNode(r.node) /\ r.name \in Vars(NodeOf(r))
    /\ LET n == [NodeOf(r) EXCEPT !.ins = Without(@, r.name), !.outs = Without(@, r.name),
                                  !.locals = Without(@, r.name),
                                  !.pos = [k \in DOMAIN @ \ {r.name} |-> @[k]]]
       IN  Saved(SyncAttachedContract(WithNode(model, n), r.node, r.name, r.name))
-------------------------------------------------------------------------------
AddProbe(r) ==
    /\ IsNode(r.node) /\ r.name \in Vars(NodeOf(r))
    /\ Edited([NodeOf(r) EXCEPT !.probes = Append(@, r.name)])

RemoveProbe(r) ==
    /\ IsNode(r.node) /\ r.index \in DOMAIN NodeOf(r).probes
    /\ Edited([NodeOf(r) EXCEPT !.probes = RemoveAt(@, r.index)])
===============================================================================
