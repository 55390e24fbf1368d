----------------------------- MODULE WorkbenchChecks -----------------------------
(***************************************************************************)
(* A model being edited, before the type and the contract checkers: what   *)
(* Workbench leaves to its constants, which are recursive over expressions *)
(* and over what a project is lowered to, and the properties of the edits  *)
(* that are about the checkers' verdicts.                                  *)
(***************************************************************************)
EXTENDS Workbench, ProjectLowering

\* The states of a machine, where the variable old is called new.
RECURSIVE RenamedStates(_, _, _)
RenamedStates(states, old, new) ==
    LET e(x) == Renamed(x, Renaming(old, new))
        eqs(s) == [j \in DOMAIN s |->
                      Equation(IF s[j].lhs = old THEN new ELSE s[j].lhs, e(s[j].rhs))]
    IN  [j \in DOMAIN states |-> [states[j] EXCEPT
            !.eqs = eqs(@),
            !.trans = [t \in DOMAIN @ |-> [@[t] EXCEPT !.guard = e(@)]],
            !.regions = [r \in DOMAIN @ |->
                            [@[r] EXCEPT !.states = RenamedStates(@, old, new)]]]]


(* The operands of what add_operation_response chains (operation_inputs). *)
RECURSIVE FlatOperands(_, _)
FlatOperands(e, op) ==
    IF e.op # op THEN <<e>> ELSE FlatOperands(e.args[1], op) \o FlatOperands(e.args[2], op)

(* The type an expression has in the operator x of the loaded project.     *)
TypeInHost(p, host, rhs) ==
    Infer(rhs, {}, Tables(p) @@ [env |-> Environment(host), kind |-> host.kind]).ty
TypeInNode(p, x, rhs) == LET l == Lowered(p) IN TypeInHost(l, Named(l.nodes, x), rhs)

(* owner_type_errors, of a project that lowers, and check_contracts.       *)
OwnerTypeErrors(p, owner) == CheckProject(Slice(Lowered(p), owner))
ContractErrorsOf(p) == CheckContracts(Lowered(p))
-------------------------------------------------------------------------------
Errors(p) == CheckProject(p) \o CheckContracts(p)

(* Slicing for an operator changes no verdict on what it keeps: the type   *)
(* checker and the contract checker say of an operator, a constant and an  *)
(* attached contract what they say of it in the whole project.  (Struct    *)
(* literals apart: see the README.)                                        *)
OfKept(errors, s) ==
    LET attached == {n.contract : n \in ToSet(s.nodes)} \ {<< >>}
        kept == Fields(s.nodes) \cup Fields(s.consts) \cup attached
                    \cup {<<"observer", x>> : x \in attached}
    IN  SelectSeq(errors, LAMBDA e : e.at \in kept)

KeepsVerdicts(s, errors) == OfKept(Errors(s), s) = OfKept(errors, s)
SlicesKeepVerdicts(p, errors) == \A n \in ToSet(p.nodes) : KeepsVerdicts(Slice(p, n.name), errors)
SlicesOf(p) == SlicesKeepVerdicts(p, Errors(p))

SliceClosed == Loads => SlicesOf(Lowered(Full))
-------------------------------------------------------------------------------
LastWas(edit) == last # 0 /\ requests[last].edit = edit

\* How many errors of each kind there are at each place, probes apart.
Verdict(errors) ==
    LET errs == SelectSeq(errors, LAMBDA e : e.code # "E0150")
        kinds == {<<e.code, e.at>> : e \in ToSet(errs)}
    IN  [k \in kinds |-> Cardinality({j \in DOMAIN errs : <<errs[j].code, errs[j].at>> = k})]

\* All the names that the operator n of p, or its contract, speaks of.
Mentioned(p, n) ==
    LET contracts == {k \in ToSet(p.contracts) : k.name = n.contract}
    IN  Vars(n) \cup UNION {FreeVars(e) : e \in Bodies(n) \cup UNION {Clauses(k) : k \in contracts}}
            \cup UNION {Fields(k.ghosts) : k \in contracts}

\* r only renamed a variable, of an operator that shares no contract and has
\* no machine that refines another's, to a name nothing in it spoke of.
RenamedPurely(r) ==
    LET n == Named(was.nodes, r.node)
    IN  /\ r.type = {} /\ r.role = RoleOf(n, r.name) /\ r.to # r.name
        /\ r.to \notin Mentioned(Lowered(was), Named(Lowered(was).nodes, r.node))
        /\ n.contract = << >> \/ \A k \in ToSet(was.nodes) : k.contract = n.contract => k = n
        /\ \A sm \in ToSet(was.machines) :
              sm.owner = r.node => \A st \in ToSet(sm.states) : st.refines = "none"

(* A renaming of a variable to an unused name leaves every verdict of the  *)
(* checkers as it was: the operator's equations, its machine, activations  *)
(* and contract follow (propagate_port_change, sync_attached_contract).    *)
RenameKeepsVerdict ==
    LastWas("update port") /\ Lowers(was) /\ RenamedPurely(requests[last]) =>
        Loads /\ Verdict(Errors(Lowered(Full))) = Verdict(Errors(Lowered(was)))

RefinedElsewhere(sm) ==
    \E other \in ToSet(model.machines) :
        other.owner # sm.owner /\ \E st \in ToSet(other.states) : st.refines = sm.name

(* A machine or an activation that is accepted introduces no error in any  *)
(* operator, although only its owner's slice was checked; the machines     *)
(* that refine it are the exception, and a state named like another        *)
(* machine's is an error of the project and not of an operator.            *)
EditsStayLocal ==
    /\ \E edit \in {"add machine", "update machine", "add activation", "update activation"} : LastWas(edit)
    /\ Lowers(was)
    /\ LastWas("update machine") => ~RefinedElsewhere(requests[last].machine)
    => \A e \in NotIn(Errors(Lowered(Full)), Errors(Lowered(was))) : e.at = <<"types">>

(* A drop is well formed but for its pins: what the checkers then find that *)
(* they did not before is a pin that is not wired (operation_body, the      *)
(* templates of add_type_op_response, resolve_iterator_drop).  The pins     *)
(* that an operation gets later are bound to nothing that is there, neither *)
(* to a variable nor to a pin of another block (edit_set_operation_inputs): *)
(* whatever was declared, dropped and removed before, they are as many new  *)
(* names as inputs were asked for.                                          *)
IsPin(x) == Len(x) = 3 /\ x[1] = "p"

AddedPins(r) ==
    FreeVars(Named(model.nodes, r.node).eqs[r.index].rhs)
        \ FreeVars(Named(was.nodes, r.node).eqs[r.index].rhs)

AddsFreePins(r) ==
    LET n == Named(was.nodes, r.node)
        before == Len(FlatOperands(n.eqs[r.index].rhs, n.eqs[r.index].rhs.op))
    IN  /\ Cardinality(AddedPins(r)) = Max({0, r.inputs - before})
        /\ \A x \in AddedPins(r) :
              x \notin Vars(n) /\ \A j \in DOMAIN n.eqs : x \notin FreeVars(n.eqs[j].rhs)

DropsMissOnlyPins ==
    /\ (\E edit \in {"add operation", "add iterator", "add type op"} : LastWas(edit)) /\ Lowers(was)
        => \A e \in NotIn(Errors(Lowered(Full)), Errors(Lowered(was))) : e.code = "E0080" /\ IsPin(e.names[1])
    /\ LastWas("set operation inputs") => AddsFreePins(requests[last])
===============================================================================
