----------------------------- MODULE ConstructEdits -----------------------------
(***************************************************************************)
(* The Studio server's edits of what operators own: state machines,        *)
(* activations and contracts.  Each is first made on a copy of the         *)
(* project, which is lowered and checked, and is refused if it introduces  *)
(* an error.                                                               *)
(***************************************************************************)
EXTENDS BlockDrops

CONSTANTS   \* the errors (WorkbenchChecks), each in a sequence
    OwnerErrors(_, _),      \* of the slice for an operator, of a project that lowers
    ContractErrors(_)       \* of the contracts, likewise

Replaced(defs, d) == [j \in DOMAIN defs |-> IF defs[j].name = d.name THEN d ELSE defs[j]]
AllNames(p) ==
    Fields(p.nodes) \cup {<<m>> : m \in MachineNames(p) \cup {p.acts[j].name : j \in DOMAIN p.acts}}

\* The model file as it is while an edit of it is tried on p.
OfFile(p) == [p EXCEPT !.types = model.types, !.consts = model.consts]

\* The errors in s that are not, as many times, in t.
NotIn(s, t) ==
    LET count(u, e) == Cardinality({j \in DOMAIN u : u[j] = e})
    IN  {e \in ToSet(s) : count(s, e) > count(t, e)}
-------------------------------------------------------------------------------
\* Mutant: what the construct breaks is not looked at.
IntroducesNothing(p, candidate, owner) == CanLower(candidate)

(* introduced_errors is empty: the candidate lowers, and its owner's slice *)
(* has no error that it did not have, as many times, in p.                 *)
IntroducesNone(p, candidate, owner) ==
    /\ CanLower(candidate) /\ owner \in Fields(candidate.nodes)
    /\ NotIn(OwnerErrors(candidate, owner),
             IF CanLower(p) THEN OwnerErrors(p, owner) ELSE << >>) = {}

WithMachineDef(p, sm) == [p EXCEPT !.machines = Append(Without(@, sm.name), sm)]
WithActivationDef(p, act) == [p EXCEPT !.acts = Append(Without(@, act.name), act)]

(* validate_state_machine, validate_activation: the machine or activation  *)
(* of r, tried in place of the one of its name.                            *)
Validated(r) ==
    LET sm == "machine" \in DOMAIN r
    IN  IntroducesNone(Full,
                       IF sm THEN WithMachineDef(Full, r.machine) ELSE WithActivationDef(Full, r.act),
                       IF sm THEN r.machine.owner ELSE r.act.owner)

\* A machine is laid out by `layout`, the states that have a position.
AddStateMachine(r) ==
    /\ <<r.machine.name>> \notin Fields(model.nodes) \cup {<<m>> : m \in MachineNames(model)}
    /\ IsNode(r.machine.owner)
    /\ r.machine.owner \notin {model.machines[j].owner : j \in DOMAIN model.machines}
    /\ Saved([model EXCEPT !.machines = Append(@, r.machine)])

UpdateStateMachine(r) ==
    /\ r.machine.name \in MachineNames(model)
    /\ LET sm == [r.machine EXCEPT !.layout =
                     ByName(model)[r.machine.name].layout \cap Fields(r.machine.states)]
       IN  Saved([model EXCEPT !.machines = Replaced(@, sm)])

AddActivation(r) ==
    /\ <<r.act.name>> \notin AllNames(model) /\ IsNode(r.act.owner)
    /\ Saved([model EXCEPT !.acts = Append(@, r.act)])

UpdateActivation(r) ==
    /\ r.act.name \in {model.acts[j].name : j \in DOMAIN model.acts}
    /\ Saved([model EXCEPT !.acts = Replaced(@, r.act)])

(* A machine or an activation is saved as it was sent once it is valid.    *)
SaveConstruct(r) ==
    /\ \/ r.edit = "add machine" /\ AddStateMachine(r)
       \/ r.edit = "update machine" /\ UpdateStateMachine(r)
       \/ r.edit = "add activation" /\ AddActivation(r)
       \/ r.edit = "update activation" /\ UpdateActivation(r)
    /\ Validated(r)
-------------------------------------------------------------------------------
SetFsmLayout(r) ==
    /\ r.machine \in MachineNames(model)
    /\ r.placed \subseteq Fields(ByName(model)[r.machine].states)
    /\ Saved([model EXCEPT !.machines =
                 Replaced(@, [ByName(model)[r.machine] EXCEPT !.layout = r.placed])])

RemoveStateMachine(r) ==
    /\ r.machine \in MachineNames(model)
    /\ Saved([model EXCEPT !.machines = Without(@, r.machine)])
RemoveActivation(r) ==
    /\ r.act \in {model.acts[j].name : j \in DOMAIN model.acts}
    /\ Saved([model EXCEPT !.acts = Without(@, r.act)])
-------------------------------------------------------------------------------
(* parse_contract_req: the interface is the operator's.                    *)
ParseContract(r) ==
    LET n == NodeOf(r)
        c == r.contract
    IN  [name |-> c.name, ins |-> n.ins, outs |-> n.outs, imports |-> << >>, ghosts |-> c.ghosts,
         assumes |-> c.assumes, guarantees |-> c.guarantees, modes |-> c.modes]

(* with_contract: in place of the one of its name, of which it keeps the   *)
(* imports, or at the end; and attached to the operator.                   *)
WithContract(p, c, operator) ==
    LET old == {j \in DOMAIN p.contracts : p.contracts[j].name = c.name}
        kept == [c EXCEPT !.imports = p.contracts[Min(old)].imports]
        attached == WithNode(p, [Named(p.nodes, operator) EXCEPT !.contract = c.name])
    IN  [attached EXCEPT !.contracts =
            IF old = {} THEN Append(@, c) ELSE Replaced(@, kept)]

(* check_contract_edit introduces no error.                                *)
ContractAccepted(p, candidate) ==
    /\ CanLower(candidate)
    /\ NotIn(ContractErrors(candidate),
             IF CanLower(p) THEN ContractErrors(p) ELSE << >>) = {}

SaveContract(r) ==
    LET candidate == WithContract(Full, ParseContract(r), r.node)
    IN  ContractAccepted(Full, candidate) /\ Saved(OfFile(candidate))

AddContract(r) ==
    /\ r.contract.name \notin Fields(model.contracts) \cup Fields(model.nodes)
    /\ NodeOf(r).contract = << >>

UpdateContract(r) ==
    /\ r.contract.name \in Fields(model.contracts)
    /\ NodeOf(r).contract \in {<< >>, r.contract.name}

EditContract(r) ==
    /\ IsNode(r.node)
    /\ IF r.edit = "add contract" THEN AddContract(r) ELSE UpdateContract(r)
    /\ SaveContract(r)

RemoveContract(r) ==
    /\ r.name \in Fields(model.contracts)
    /\ LET detached(n) == IF n.contract = r.name THEN [n EXCEPT !.contract = << >>] ELSE n
       IN  Saved([model EXCEPT !.contracts = Without(@, r.name),
                               !.nodes = [j \in DOMAIN @ |-> detached(@[j])]])
-------------------------------------------------------------------------------
\* The types of the project once it is lowered: a machine adds its states'.
LoadedTypes(p) == Fields(p.types) \cup MachineNames(p)

(* Types and constants go to the types file.  A removal looks there first, *)
(* then in the model file.                                                 *)
AddType(r) ==
    /\ Loads /\ r.type.name \notin LoadedTypes(Full)
    /\ typesFile' = [typesFile EXCEPT !.types = Append(@, r.type)]
    /\ UNCHANGED model

RemoveType(r) ==
    \/ /\ r.type \in Fields(typesFile.types)
       /\ typesFile' = [typesFile EXCEPT !.types = Without(@, r.type)]
       /\ UNCHANGED model
    \/ /\ r.type \notin Fields(typesFile.types) /\ r.type \in Fields(model.types)
       /\ Saved([model EXCEPT !.types = Without(@, r.type)])

AddConstant(r) ==
    /\ Loads
    /\ r.const.name \notin Fields(Full.consts) \cup Fields(Full.nodes)
    /\ typesFile' = [typesFile EXCEPT !.consts = Append(@, r.const)]
    /\ UNCHANGED model

RemoveConstant(r) ==
    \/ /\ r.name \in Fields(typesFile.consts)
       /\ typesFile' = [typesFile EXCEPT !.consts = Without(@, r.name)]
       /\ UNCHANGED model
    \/ /\ r.name \notin Fields(typesFile.consts) /\ r.name \in Fields(model.consts)
       /\ Saved([model EXCEPT !.consts = Without(@, r.name)])

\* Mutant: the names that are taken are not looked for.
ImportLustreUnchecked(r) ==
    /\ model' = [model EXCEPT !.nodes = @ \o r.nodes]
    /\ typesFile' = [types |-> typesFile.types \o r.types, consts |-> typesFile.consts \o r.consts]

(* import_lustre_response: operators to the model file, types and constants*)
(* to the types file, all if none of their names is taken.                 *)
ImportLustre(r) ==
    /\ Loads
    /\ Fields(r.nodes) \cap Fields(Full.nodes) = {}
    /\ Fields(r.types) \cap LoadedTypes(Full) = {}
    /\ Fields(r.consts) \cap Fields(Full.consts) = {}
    /\ model' = [model EXCEPT !.nodes = @ \o r.nodes]
    /\ typesFile' = [types |-> typesFile.types \o r.types, consts |-> typesFile.consts \o r.consts]
===============================================================================
