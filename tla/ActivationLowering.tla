--------------------------- MODULE ActivationLowering ---------------------------
(***************************************************************************)
(* Lowering of an "activate if" to clocked equations, ol_ir/activation.rs. *)
(* An activation is its name, its outputs, its branches (a name, a         *)
(* condition, equations) and the equations of its else.  Branch k of n is  *)
(* scope k, and the else is scope n + 1.                                   *)
(***************************************************************************)
EXTENDS Expressions

BranchFlag(a, k) == <<"b", a, k>>    \* branch k is the one selected
NoneUpTo(a, k) == <<"n", a, k>>      \* no branch up to k is
Guard(a, k) == <<"g", a, k>>         \* the flag, where the earlier ones failed
LastHolder(a, x) == <<"last", a, x>>
Sample(a, k, x) == <<"s", a, k, x>>
ScopeValue(a, k, o) == <<"x", a, k, o>>

Scopes(act) == Append([k \in DOMAIN act.branches |-> act.branches[k].eqs], act.otherwise)
ScopeExprs(act, k) == {Scopes(act)[k][j].rhs : j \in DOMAIN Scopes(act)[k]}
Assigns(eqs, o) == \E j \in DOMAIN eqs : eqs[j].lhs = o

\* (A `last` is of a variable of the owner.)
ValidActivation(act) ==
    /\ act.branches # << >> /\ act.outputs # {}
    /\ \A j, k \in DOMAIN act.branches : act.branches[j].name = act.branches[k].name => j = k
    /\ \A o \in act.outputs : \A k \in DOMAIN Scopes(act) : Assigns(Scopes(act)[k], o)
-------------------------------------------------------------------------------
(* `last(x)` and `last(x, init)`, in an expression and in the activation.  *)
RECURSIVE LastsIn(_)
LastsIn(e) == IF e.op = "last" THEN {e} ELSE UNION {LastsIn(e.args[j]) : j \in DOMAIN e.args}

Lasts(act) ==
    UNION {LastsIn(act.branches[k].cond) : k \in DOMAIN act.branches}
        \cup UNION {LastsIn(e) : e \in UNION {ScopeExprs(act, k) : k \in DOMAIN Scopes(act)}}

RECURSIVE HeldLast(_, _)
HeldLast(e, a) ==
    IF e.op = "last" THEN Var(LastHolder(a, e.name))
    ELSE WithArgs(e, [j \in DOMAIN e.args |-> HeldLast(e.args[j], a)])

(* One holder per variable, started by the explicit init if there is one,  *)
(* by the default of its type otherwise.                                   *)
Holder(act, x) ==
    LET inits == {l.args[1] : l \in {l \in Lasts(act) : l.name = x /\ l.args # << >>}}
        init == IF inits = {} THEN Const(0) ELSE CHOOSE i \in inits : TRUE
    IN  Equation(LastHolder(act.name, x), Arrow(init, Pre(x)))
-------------------------------------------------------------------------------
ClockVar(a, k) == IF k = 1 THEN BranchFlag(a, 1) ELSE Guard(a, k)

(* e sampled where branches 1 .. k all failed, and onto scope k's clock.   *)
Under(a, k, e) ==
    FoldLeft(LAMBDA acc, j : When(acc, ClockVar(a, j), 0), e, [j \in 1 .. k |-> j])
Onto(act, k, e) ==
    LET n == Len(act.branches)
    IN  IF k <= n THEN When(Under(act.name, k - 1, e), ClockVar(act.name, k), 1)
        ELSE Under(act.name, n, e)

\* Mutant: a scope equation without reads keeps its constants off its clock.
PinnedNone(e, act, k) == e

RECURSIVE HasConst(_)
HasConst(e) == e.op \in {"const", "bool"} \/ \E j \in DOMAIN e.args : HasConst(e.args[j])

RECURSIVE Pinned(_, _, _)
Pinned(e, act, k) ==
    IF e.op \in {"const", "bool"} THEN Onto(act, k, e)
    ELSE WithArgs(e, [j \in DOMAIN e.args |-> Pinned(e.args[j], act, k)])

Condition(act, k) == HeldLast(act.branches[k].cond, act.name)

(* The chain of flags: n_k says that no branch up to k was taken.          *)
FlagEquations(act) ==
    LET a == act.name
        n == Len(act.branches)
        after(k, e) == IF k = 1 THEN e ELSE And(Var(NoneUpTo(a, k - 1)), e)
        flag(k) == Equation(BranchFlag(a, k), after(k, Condition(act, k)))
        none(k) == Equation(NoneUpTo(a, k), after(k, Not(Condition(act, k))))
        guard(k) == Equation(Guard(a, k), Under(a, k - 1, Var(BranchFlag(a, k))))
    IN  [k \in 1 .. n |-> flag(k)] \o [k \in 1 .. n - 1 |-> none(k)]
            \o [k \in 1 .. n - 1 |-> guard(k + 1)]

(* A scope's equations over copies of what they read, sampled onto its     *)
(* clock; an equation that reads nothing has its constants sampled, or all *)
(* of it when it has none.                                                 *)
ScopeEquations(act, k, vars) ==
    LET a == act.name
        known == vars \cup {LastHolder(a, l.name) : l \in Lasts(act)}
        held(e) == HeldLast(e, a)
        reads(e) == FreeVars(held(e)) \cap known
        all == UNION {reads(e) : e \in ScopeExprs(act, k)}
        copy == [x \in all |-> Sample(a, k, x)]
        body(e) == IF reads(e) # {} THEN Renamed(held(e), copy)
                   ELSE IF HasConst(e) THEN Pinned(held(e), act, k)
                   ELSE Onto(act, k, held(e))
        eqs == Scopes(act)[k]
    IN  SetToSeq({Equation(copy[x], Onto(act, k, Var(x))) : x \in all})
            \o [j \in DOMAIN eqs |-> Equation(ScopeValue(a, k, eqs[j].lhs), body(eqs[j].rhs))]

\* Mutant: the flags themselves are merged on.
OutputEquationOfFlags(act, o) ==
    LET a == act.name
        n == Len(act.branches)
    IN  Equation(o, FoldRight(LAMBDA k, rest :
                        Merge(BranchFlag(a, k), Var(ScopeValue(a, k, o)), rest),
                    [k \in 1 .. n |-> k], Var(ScopeValue(a, n + 1, o))))

(* Each output merges the scopes back to the base clock.                   *)
OutputEquation(act, o) ==
    LET a == act.name
        n == Len(act.branches)
    IN  Equation(o, FoldRight(LAMBDA k, rest :
                        Merge(ClockVar(a, k), Var(ScopeValue(a, k, o)), rest),
                    [k \in 1 .. n |-> k], Var(ScopeValue(a, n + 1, o))))

(* lower: vars are the variables of the owner.                             *)
LowerActivation(act, vars) ==
    SetToSeq({Holder(act, l.name) : l \in Lasts(act)})
        \o FlagEquations(act)
        \o FlattenSeq([k \in DOMAIN Scopes(act) |-> ScopeEquations(act, k, vars \cup act.outputs)])
        \o SetToSeq({OutputEquation(act, o) : o \in act.outputs})
===============================================================================
