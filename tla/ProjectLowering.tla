----------------------------- MODULE ProjectLowering -----------------------------
(***************************************************************************)
(* What a loaded project is to every tool behind the editor: the machines  *)
(* and activations of its operators lowered into their bodies              *)
(* (Project::lower_state_machines, then lower_activations).                *)
(*                                                                         *)
(* A machine has an owner besides what StateMachineLowering looks at, and  *)
(* an activation an owner and the types of its outputs.  The enumerations  *)
(* of a machine's regions are one type here, named after the machine.      *)
(***************************************************************************)
EXTENDS ContractCheck

SM(named) == INSTANCE StateMachineLowering WITH MachineByName <- named
AL == INSTANCE ActivationLowering

\* A state, where an equation names it, is a variant of an enumeration.
RECURSIVE Plain(_)
Plain(e) ==
    IF e.op = "enum" THEN Var(e.name) ELSE [e EXCEPT !.args = [j \in DOMAIN @ |-> Plain(@[j])]]

(* n with lowered equations added, and locals for those of their variables *)
(* that have one of these types: the others are outputs.                   *)
Extended(n, eqs, types) ==
    LET own == SelectSeq(eqs, LAMBDA eq : eq.lhs \in DOMAIN types)
    IN  [n EXCEPT
            !.locals = @ \o [j \in DOMAIN own |-> [name |-> own[j].lhs, type |-> types[own[j].lhs]]],
            !.eqs = @ \o [j \in DOMAIN eqs |-> [lhs |-> <<eqs[j].lhs>>, rhs |-> Plain(eqs[j].rhs), tag |-> << >>]]]
-------------------------------------------------------------------------------
(* A machine's own enumeration, of the names of its states.                *)
StateEnum(sm, named) ==
    [kind |-> "enum", name |-> sm.name, target |-> BoolType, fields |-> << >>,
     variants |-> SM(named)!StateNames(SM(named)!Resolved(sm.states))]

MachineLowers(p, sm) == SM(ByName(p))!ValidMachine(sm) /\ sm.owner \in Fields(p.nodes)

(* A machine drives its owner's outputs from locals for its states.        *)
MachineTypes(sm, eqs) ==
    [x \in {eqs[j].lhs : j \in DOMAIN eqs} \ sm.outputs |->
        IF x[1] = "active" THEN BoolType ELSE Scalar(sm.name)]

WithMachineEquations(p, sm, eqs) ==
    WithNode(p, Extended(Named(p.nodes, sm.owner), eqs, MachineTypes(sm, eqs)))

WithMachine(p, sm) ==
    [WithMachineEquations(p, sm, SM(ByName(p))!LowerMachine(sm))
        EXCEPT !.types = Append(@, StateEnum(sm, ByName(p)))]

WithMachines(p) == FoldLeft(LAMBDA acc, sm : WithMachine(acc, sm), p, p.machines)
-------------------------------------------------------------------------------
(* What an activation's locals are typed after: the owner's variables, and *)
(* its own outputs.                                                        *)
ActivationTypes(act, n) ==
    Environment(n) @@ [o \in act.outputs |-> act.types[o]]

ActivationLowers(p, act) ==
    /\ act.owner \in Fields(p.nodes)
    /\ AL!ValidActivation(act)
    /\ \A l \in AL!Lasts(act) :
          l.name \in DOMAIN ActivationTypes(act, Named(p.nodes, act.owner))

(* The type of the local called x, where the variables have these.         *)
ActivationLocal(act, x, types) ==
    CASE x[1] \in {"b", "n", "g"} -> BoolType
      [] x[1] = "last" -> types[x[3]]
      [] x[1] = "s" -> types[IF x[4] \in DOMAIN types THEN x[4] ELSE x[4][3]]
      [] x[1] = "x" -> IF x[4] \in act.outputs THEN act.types[x[4]]
                       ELSE IF x[4] \in DOMAIN types THEN types[x[4]] ELSE BoolType

WithActivationEquations(p, act, n, eqs, types) ==
    WithNode(p, Extended(n, eqs,
        [x \in {eqs[j].lhs : j \in DOMAIN eqs} \ act.outputs |-> ActivationLocal(act, x, types)]))

ActivationOf(p, act, n) ==
    WithActivationEquations(p, act, n, AL!LowerActivation(act, Vars(n)), ActivationTypes(act, n))

WithActivation(p, act) == ActivationOf(p, act, Named(p.nodes, act.owner))
WithActivations(p) == FoldLeft(LAMBDA acc, act : WithActivation(acc, act), p, p.acts)
-------------------------------------------------------------------------------
ActivationsLower(p) == \A j \in DOMAIN p.acts : ActivationLowers(p, p.acts[j])

(* The project does not load when a machine or an activation does not      *)
(* lower.                                                                  *)
Lowers(p) ==
    /\ \A j \in DOMAIN p.machines : MachineLowers(p, p.machines[j])
    /\ ActivationsLower(WithMachines(p))

Lowered(p) == [WithActivations(WithMachines(p)) EXCEPT !.machines = << >>, !.acts = << >>]
===============================================================================
