-------------------------------- MODULE Workbench --------------------------------
(***************************************************************************)
(* A model being edited in the Studio: one request after the other, on a   *)
(* model file and the types file it includes.  (What becomes of requests   *)
(* that run at the same time is StudioServer's.)  A request that a handler *)
(* refuses changes nothing, and is no step.                                *)
(***************************************************************************)
EXTENDS ConstructEdits

CONSTANTS
    Sessions,   \* each a model file, its types file and the requests that are made
    MaxEdits    \* bound on the edits of a session

Kinds == {"operator", "function"}
Roles == {"input", "output", "local"}

IsSeq(s) == Len(s) \in Nat /\ s = [k \in 1 .. Len(s) |-> s[k]]
IsName(x) == IsSeq(x) /\ x # << >>
IsTable(defs) == IsSeq(defs) /\ \A j \in DOMAIN defs : "name" \in DOMAIN defs[j]
IsPorts(ps) == IsTable(ps) /\ \A j \in DOMAIN ps : IsName(ps[j].name)

IsNodeDef(n) ==
    /\ DOMAIN n = DOMAIN EmptyNode(n.name, n.kind)
    /\ IsName(n.name) /\ n.kind \in Kinds
    /\ IsPorts(n.ins) /\ IsPorts(n.outs) /\ IsPorts(n.locals)
    /\ IsSeq(n.eqs) /\ \A j \in DOMAIN n.eqs : {"lhs", "rhs", "tag"} \subseteq DOMAIN n.eqs[j]
IsNodes(nodes) == IsTable(nodes) /\ \A j \in DOMAIN nodes : IsNodeDef(nodes[j])

IsTypeDef(d) ==
    /\ d.kind \in {"record", "enum", "alias"}
    /\ d.kind = "record" => IsPorts(d.fields)
    /\ d.kind = "alias" => IsSeq(d.target.dims) /\ \A j \in DOMAIN d.target.dims : d.target.dims[j] \in Nat
IsTypes(types) == IsTable(types) /\ \A j \in DOMAIN types : IsTypeDef(types[j])

IsContracts(contracts) ==
    /\ IsTable(contracts)
    /\ \A k \in DOMAIN contracts :
          contracts[k].name # << >> /\ {"ins", "outs", "imports"} \subseteq DOMAIN contracts[k]

IsModel(m) ==
    /\ DOMAIN m = {"nodes", "types", "consts", "contracts", "machines", "acts", "main"}
    /\ IsNodes(m.nodes) /\ IsTypes(m.types) /\ IsTable(m.consts) /\ IsContracts(m.contracts)
    /\ IsTable(m.machines) /\ IsTable(m.acts)
IsTypesFile(t) == DOMAIN t = {"types", "consts"} /\ IsTypes(t.types) /\ IsTable(t.consts)

\* What is imported has neither a contract nor a layout.
Bare(n) == n.contract = << >> /\ n.pos = << >>

IsRequest(r) ==
    /\ r.edit = "add node" => IsName(r.node) /\ r.kind \in Kinds
    /\ r.edit \in {"add port", "add local"} => IsName(r.name)
    /\ r.edit = "update port" => IsName(r.to) /\ r.role \in Roles
    /\ r.edit \in {"add machine", "update machine"} => "name" \in DOMAIN r.machine
    /\ r.edit \in {"add activation", "update activation"} => "name" \in DOMAIN r.act
    /\ r.edit \in {"add contract", "update contract"} => r.contract.name # << >>
    /\ r.edit = "add type" => IsTypes(<<r.type>>)
    /\ r.edit = "add constant" => "name" \in DOMAIN r.const
    /\ r.edit = "import lustre" =>
          /\ IsNodes(r.nodes) /\ IsTypes(r.types) /\ IsTable(r.consts)
          /\ \A j \in DOMAIN r.nodes : Bare(r.nodes[j])

ASSUME SessionsAssumption ==
    /\ MaxEdits \in Nat
    /\ \A s \in Sessions :
          /\ IsModel(s.model) /\ IsTypesFile(s.typesFile)
          /\ \A j \in DOMAIN s.requests : IsRequest(s.requests[j])
-------------------------------------------------------------------------------
VARIABLES
    requests,
    last,       \* the number of the request last granted, 0 when none is
    was         \* the project before it
vars == <<model, typesFile, left, requests, last, was>>

Init ==
    \E s \in Sessions :
        /\ model = s.model /\ typesFile = s.typesFile /\ requests = s.requests
        /\ left = MaxEdits /\ last = 0 /\ was = Full

Asked(edit) == {j \in DOMAIN requests : requests[j].edit = edit}
Granted(j) == left > 0 /\ left' = left - 1 /\ last' = j /\ was' = Full /\ UNCHANGED requests

EditOperators ==
    \/ \E j \in Asked("add node") : Granted(j) /\ AddNode(requests[j])
    \/ \E j \in Asked("add port") : Granted(j) /\ AddPort(requests[j])
    \/ \E j \in Asked("add local") : Granted(j) /\ AddLocal(requests[j])
    \/ \E j \in Asked("update port") : Granted(j) /\ UpdatePort(requests[j])
    \/ \E j \in Asked("remove port") : Granted(j) /\ RemovePort(requests[j])
    \/ \E j \in Asked("add equation") : Granted(j) /\ AddEquation(requests[j])
    \/ \E j \in Asked("update equation") : Granted(j) /\ UpdateEquation(requests[j])
    \/ \E j \in Asked("remove equation") : Granted(j) /\ RemoveEquation(requests[j])
    \/ \E j \in Asked("set layout") : Granted(j) /\ SetLayout(requests[j])
    \/ \E j \in Asked("add probe") : Granted(j) /\ AddProbe(requests[j])
    \/ \E j \in Asked("remove probe") : Granted(j) /\ RemoveProbe(requests[j])
    \/ \E j \in Asked("set main") : Granted(j) /\ SetMain(requests[j])

DropBlocks ==
    \/ \E j \in Asked("add block call") : Granted(j) /\ AddBlockCall(requests[j])
    \/ \E j \in Asked("add operation") : Granted(j) /\ AddOperation(requests[j])
    \/ \E j \in Asked("add iterator") : Granted(j) /\ AddIterator(requests[j])
    \/ \E j \in Asked("add type op") : Granted(j) /\ AddTypeOp(requests[j])
    \/ \E j \in Asked("add expression") : Granted(j) /\ AddExpression(requests[j])
    \/ \E j \in Asked("set operation inputs") : Granted(j) /\ SetOperationInputs(requests[j])

Construct == {"add machine", "update machine", "add activation", "update activation"}

EditConstructs ==
    \/ \E j \in UNION {Asked(edit) : edit \in Construct} : Granted(j) /\ SaveConstruct(requests[j])
    \/ \E j \in Asked("set fsm layout") : Granted(j) /\ SetFsmLayout(requests[j])
    \/ \E j \in Asked("remove machine") : Granted(j) /\ RemoveStateMachine(requests[j])
    \/ \E j \in Asked("remove activation") : Granted(j) /\ RemoveActivation(requests[j])
    \/ \E j \in Asked("add contract") \cup Asked("update contract") : Granted(j) /\ EditContract(requests[j])
    \/ \E j \in Asked("remove contract") : Granted(j) /\ RemoveContract(requests[j])

EditTypes ==
    \/ \E j \in Asked("add type") : Granted(j) /\ AddType(requests[j])
    \/ \E j \in Asked("remove type") : Granted(j) /\ RemoveType(requests[j])
    \/ \E j \in Asked("add constant") : Granted(j) /\ AddConstant(requests[j])
    \/ \E j \in Asked("remove constant") : Granted(j) /\ RemoveConstant(requests[j])
    \/ \E j \in Asked("import lustre") : Granted(j) /\ ImportLustre(requests[j])

Next == EditOperators \/ DropBlocks \/ EditConstructs \/ EditTypes
Spec == Init /\ [][Next]_vars
-------------------------------------------------------------------------------
\* No two variables of an operator, and no two definitions, have one name.
VarsOnce(n) == Distinct(n.ins \o n.outs \o n.locals)
Once(m, t) ==
    /\ Distinct(m.nodes) /\ \A j \in DOMAIN m.nodes : VarsOnce(m.nodes[j])
    /\ Distinct(m.types \o t.types) /\ Distinct(m.consts \o t.consts)
    /\ Distinct(m.contracts) /\ Distinct(m.machines) /\ Distinct(m.acts)

(* Type invariant: both files are well formed, and of the two together no  *)
(* two operators, types, constants, contracts, machines or activations     *)
(* have the same name (nor two variables of an operator).                  *)
TypeOK ==
    /\ left \in 0 .. MaxEdits
    /\ IsModel(model) /\ IsTypesFile(typesFile)
    /\ Once(model, typesFile)

(* What an operator's layout places is there, and is what was placed: no   *)
(* sequence of edits moves an equation's box to another equation or leaves *)
(* a box of something removed (edit_remove_equation re-keys, renames and   *)
(* removals of variables follow).                                          *)
Follows(n) ==
    \A k \in DOMAIN n.pos :
        \/ k \in Vars(n)
        \/ \E i \in DOMAIN n.eqs : k = EqKey(i) /\ n.pos[k] = n.eqs[i].tag

LayoutFollows == \A n \in ToSet(model.nodes) : Follows(n)

(* A contract that is attached to one operator has that operator's inputs  *)
(* and outputs, whatever was done to either (sync_attached_contract).      *)
InStep(m) ==
    \A c \in ToSet(m.contracts) :
        LET users == {n \in ToSet(m.nodes) : n.contract = c.name}
        IN  Cardinality(users) = 1 => \A n \in users : c.ins = n.ins /\ c.outs = n.outs

ContractInStep == InStep(model)
-------------------------------------------------------------------------------
(* What a session has to begin with for these to hold.                     *)
RequestOnce(r) ==
    r.edit = "import lustre" =>
        /\ Distinct(r.nodes) /\ \A k \in DOMAIN r.nodes : VarsOnce(r.nodes[k])
        /\ Distinct(r.types) /\ Distinct(r.consts)

NamesGivenOnce ==
    \A s \in Sessions :
        /\ Once(s.model, s.typesFile)
        /\ \A j \in DOMAIN s.requests : RequestOnce(s.requests[j])

LayoutsGiven == \A s \in Sessions : \A j \in DOMAIN s.model.nodes : Follows(s.model.nodes[j])
ContractsGiven == \A s \in Sessions : InStep(s.model)

\* No name that a variable may get is the key of an equation in a layout.
NoKey(x) == ~(Len(x) = 2 /\ x[1] = "eq")
NoKeys(ports) == \A j \in DOMAIN ports : NoKey(ports[j].name)
VarsApart(n) == NoKeys(n.ins) /\ NoKeys(n.outs) /\ NoKeys(n.locals)
FieldsApart(types) == \A k \in DOMAIN types : types[k].kind = "record" => NoKeys(types[k].fields)

RequestApart(r) ==
    /\ r.edit \in {"add port", "add local"} => NoKey(r.name)
    /\ r.edit = "update port" => NoKey(r.to)
    /\ r.edit = "add type" => FieldsApart(<<r.type>>)
    /\ r.edit = "import lustre" =>
          FieldsApart(r.types) /\ \A k \in DOMAIN r.nodes : VarsApart(r.nodes[k])

KeysApart ==
    \A s \in Sessions :
        /\ \A j \in DOMAIN s.model.nodes : VarsApart(s.model.nodes[j])
        /\ FieldsApart(s.model.types) /\ FieldsApart(s.typesFile.types)
        /\ \A j \in DOMAIN s.requests : RequestApart(s.requests[j])
===============================================================================
