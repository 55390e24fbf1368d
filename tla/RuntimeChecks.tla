----------------------------- MODULE RuntimeChecks -----------------------------
(***************************************************************************)
(* The runtime-error checks of the Kind 2 view (ol_cocospec_emit: rte.rs,  *)
(* and kind2.rs for the view they are made in), beside a run of the        *)
(* simulator and of the C on the same inputs.  The view computes with      *)
(* unbounded integers, and the checks are to say where that differs.       *)
(*                                                                         *)
(* Programs have no clocks, reals, characters or bit operations; iterators *)
(* run over names; casts are to named types; arrays are not chosen between *)
(* (nor can they be in C).  A check's conditions guard it as implications. *)
(* An option is the empty set or a set of one element, an interval <<lo,   *)
(* hi>>, and a call's val its call site, a sequence.                       *)
(***************************************************************************)
EXTENDS Execution

CONSTANTS Projects,   \* a set of them, each with its root
          MaxCycles   \* bound: cycles run

Implies(a, b) == Tree("implies", << >>, 0, <<a, b>>)
Compare(op, a, b) == Tree(op, << >>, 0, <<a, b>>)
Quotient(a, b) == Tree("div", << >>, 0, <<a, b>>)
First == Arrow(Bool(1), Bool(0))
Literal(n) == IF n < 0 THEN Tree("neg", << >>, 0, <<Const(-n)>>) ELSE Const(n)
IsLiteral(e) == e.op = "const" \/ (e.op = "neg" /\ e.args[1].op = "const")
-------------------------------------------------------------------------------
(* Phase::Unroll: map becomes an array of calls, fold calls in one another.*)
Element(a, i) == Tree("index", << >>, 0, <<a, Const(i - 1)>>)
Applying(e, i, args) == Tree("call", e.name, e.val \o <<i>>, args)

LengthOf(a, cx) == The(Infer(a, {}, cx).ty).dims[1]

Folded(e, n) ==
    LET upTo[i \in 0 .. n] ==
            IF i = 0 THEN e.args[1] ELSE Applying(e, i, <<upTo[i - 1], Element(e.args[2], i)>>)
    IN  upTo[n]

Unrolled(e, cx) ==
    CASE e.op = "map" ->
            Tree("array", << >>, 0,
                 Computed([i \in 1 .. LengthOf(e.args[1], cx) |->
                     Applying(e, i, Computed([j \in DOMAIN e.args |-> Element(e.args[j], i)]))]))
      [] e.op = "fold" -> Folded(e, LengthOf(e.args[2], cx))
      [] OTHER -> e

UnrolledNode(n, cx) ==
    [n EXCEPT !.eqs = Computed([j \in DOMAIN n.eqs |-> [n.eqs[j] EXCEPT !.rhs = Unrolled(n.eqs[j].rhs, cx)]])]
-------------------------------------------------------------------------------
TypeOf(e, cx) == {Resolve(t, cx) : t \in Infer(e, {}, cx).ty}
IntType(e, cx) == {t \in TypeOf(e, cx) : IsInteger(t)}
IsNarrow(t) == t.base \in Narrow

Limits(base) == <<Min(IntegerValues[base]), Max(IntegerValues[base])>>
Inside(a, b) == b[1] <= a[1] /\ a[2] <= b[2]
Hull(S) == <<Min(S), Max(S)>>
Larger(n, m) == IF n > m THEN n ELSE m
Smaller(n, m) == IF n < m THEN n ELSE m
Greatest(a) == Larger(Absolute(a[1]), Absolute(a[2]))

Corners(op, a, b) == Hull({Calculated(op, x, y) : x \in ToSet(a), y \in ToSet(b)})
OneSigned(b) == b[1] > 0 \/ b[2] < 0

(* The remainder has the sign of the dividend, and is less than |divisor|. *)
Remainders(a, b) ==
    LET m == Smaller(Greatest(a), Larger(Greatest(b) - 1, 0))
    IN  <<IF a[1] < 0 THEN -m ELSE 0, IF a[2] > 0 THEN m ELSE 0>>

OfInterval(op, a, b) ==
    CASE op = "mod" -> Remainders(a, b)
      [] op = "div" /\ ~OneSigned(b) -> <<-Greatest(a), Greatest(a)>>
      [] OTHER -> Corners(op, a, b)

Constant(e, cx) == e.op = "var" /\ e.name \notin DOMAIN cx.env /\ e.name \in DOMAIN cx.values
Met(raw, types) ==
    IF raw = {} \/ types = {} THEN raw \cup types
    ELSE {<<Larger(a[1], b[1]), Smaller(a[2], b[2])>> : a \in raw, b \in types}

RECURSIVE Interval(_, _)
(* Of two operands that both have an interval; else that of the type.      *)
Joint(e, of, types) ==
    LET bound(a, b) == IF e.op \in Arithmetic THEN OfInterval(e.op, a, b) ELSE Hull(ToSet(a) \cup ToSet(b))
    IN  IF of[1] = {} \/ of[2] = {} THEN types ELSE {bound(a, b) : a \in of[1], b \in of[2]}

(* raw_interval: before e's own check; `types` are the limits of its type. *)
RawOf(e, types, cx) ==
    CASE e.op = "const" -> {<<e.val, e.val>>}
      [] e.op = "neg" -> {<<-a[2], -a[1]>> : a \in Interval(e.args[1], cx)}
      [] e.op \in Arithmetic \cup {"if", "arrow"} ->
            Joint(e, [j \in 1 .. 2 |-> Interval(e.args[Len(e.args) - 2 + j], cx)], types)
      [] Constant(e, cx) -> {<<cx.values[e.name], cx.values[e.name]>>}
      [] OTHER -> types

(* interval: what the users of e see.  An operation is checked to fit the  *)
(* type that C computes it in.                                             *)
IntervalOf(e, ty, cx) ==
    IF e.op \notin Arithmetic \cup {"neg"} THEN RawOf(e, {Limits(t.base) : t \in ty}, cx)
    ELSE Met(RawOf(e, {Limits(t.base) : t \in ty}, cx), {Limits(PromotedBase(t.base)) : t \in ty})

Interval(e, cx) == IntervalOf(e, IntType(e, cx), cx)

Fits(e, limits, cx) == \E a \in Interval(e, cx) : Inside(a, limits)
-------------------------------------------------------------------------------
Within(e, limits) ==
    And(Compare("le", Literal(limits[1]), e), Compare("le", e, Literal(limits[2])))

Guarded(guards, cond) == FoldRight(Implies, guards, cond)
CheckIf(wanted, guards, cond) == IF wanted THEN <<Guarded(guards, cond)>> ELSE << >>

\* Mutants: the right of `and` and `or` is checked only where C looks at it;
\* the side that is not taken is checked too.
GuardsOfShortCircuit(e, j, guards) ==
    CASE e.op = "pre" -> << >>
      [] e.op = "if" /\ j > 1 -> Append(guards, IF j = 2 THEN e.args[1] ELSE Not(e.args[1]))
      [] e.op = "arrow" -> Append(guards, IF j = 1 THEN First ELSE Not(First))
      [] e.op = "and" /\ j = 2 -> Append(guards, e.args[1])
      [] e.op = "or" /\ j = 2 -> Append(guards, Not(e.args[1]))
      [] OTHER -> guards
GuardsOfBoth(e, j, guards) ==
    CASE e.op = "pre" -> << >>
      [] e.op = "arrow" -> Append(guards, IF j = 1 THEN First ELSE Not(First))
      [] OTHER -> guards

(* What its j-th operand is evaluated under, where e is under guards.      *)
GuardsOf(e, j, guards) ==
    CASE e.op = "pre" -> << >>
      [] e.op = "if" /\ j > 1 -> Append(guards, IF j = 2 THEN e.args[1] ELSE Not(e.args[1]))
      [] e.op = "arrow" -> Append(guards, IF j = 1 THEN First ELSE Not(First))
      [] OTHER -> guards

(* store: e, in the variable or element `subject`, fits its narrow type.   *)
StoreFits(e, subject, narrow, guards, cx) ==
    IF narrow = {} THEN << >>
    ELSE CheckIf(~Fits(e, Limits(The(narrow).base), cx), guards, Within(subject, Limits(The(narrow).base)))

StoreCheck(e, subject, guards, cx) ==
    StoreFits(e, subject, {t \in IntType(e, cx) : IsNarrow(t)}, guards, cx)

(* Division is by something but zero; the result fits.  (a % b overflows   *)
(* when a / b does.)                                                       *)
NonZero(e) == Compare("neq", e.args[2], Const(0))
Subject(e) == IF e.op = "mod" THEN Quotient(e.args[1], e.args[2]) ELSE e
MayBeZero(e, cx) == e.op \in {"div", "mod"} /\ ~\E b \in Interval(e.args[2], cx) : OneSigned(b)

Overflow(subject, raw, limits, guards) ==
    CheckIf(~\E a \in raw : Inside(a, limits), guards, Within(subject, limits))

ResultChecks(e, ty, mayBeZero, guards, cx) ==
    IF ty = {} THEN << >>
    ELSE CheckIf(mayBeZero, guards, NonZero(e))
             \o Overflow(Subject(e), RawOf(Subject(e), {Limits(t.base) : t \in ty}, cx),
                         Limits(PromotedBase(The(ty).base)),
                         IF mayBeZero THEN Append(guards, NonZero(e)) ELSE guards)

IndexCheck(e, ty, guards, cx) ==
    LET last == The(ty).dims[1] - 1
    IN  IF ty = {} THEN << >>
        ELSE CheckIf(~Fits(e.args[2], <<0, last>>, cx), guards, Within(e.args[2], <<0, last>>))

OwnChecks(e, guards, cx) ==
    CASE e.op \in Arithmetic \cup {"neg"} -> ResultChecks(e, IntType(e, cx), MayBeZero(e, cx), guards, cx)
      [] e.op = "index" -> IndexCheck(e, TypeOf(e.args[1], cx), guards, cx)
      [] e.op \in {"array", "struct", "call", "pre"} ->
            FlattenSeq([j \in DOMAIN e.args |-> StoreCheck(e.args[j], e.args[j], GuardsOf(e, j, guards), cx)])
      [] OTHER -> << >>

(* walk: the checks of e and of what is in it.                             *)
RECURSIVE Walk(_, _, _)
Walk(e, guards, cx) ==
    OwnChecks(e, guards, cx)
        \o FlattenSeq([j \in DOMAIN e.args |-> Walk(e.args[j], GuardsOf(e, j, guards), cx)])

EquationChecks(eq, cx) ==
    Walk(eq.rhs, << >>, cx)
        \o (IF Len(eq.lhs) = 1 THEN StoreCheck(eq.rhs, Var(eq.lhs[1]), << >>, cx) ELSE << >>)
-------------------------------------------------------------------------------
Port(x, t) == [name |-> x, type |-> t]

(* Phase 1 of run: a call in a larger expression gets its own equation.    *)
AfterHoisting(eqs, h) ==
    [j \in DOMAIN eqs |-> [eqs[j] EXCEPT !.rhs = h[j].e]] \o FlattenSeq([j \in DOMAIN eqs |-> h[j].eqs])
HoistedEquations(n) ==
    AfterHoisting(n.eqs, Computed([j \in DOMAIN n.eqs |-> Hoisted(n.eqs[j].rhs, TRUE, <<"__rtc">>)]))

WithCalls(n, eqs, sigs) ==
    LET added == SubSeq(eqs, Len(n.eqs) + 1, Len(eqs))
    IN  [n EXCEPT !.eqs = eqs,
                  !.locals = @ \o [j \in DOMAIN added |-> Port(added[j].lhs[1], OutputType(sigs[added[j].rhs.name]))]]

CheckName(k) == <<"__rte", k>>
WithChecks(n, checks) ==
    [node |-> [n EXCEPT !.locals = @ \o [k \in DOMAIN checks |-> Port(CheckName(k), BoolType)],
                        !.eqs = @ \o [k \in DOMAIN checks |-> [lhs |-> <<CheckName(k)>>, rhs |-> checks[k]]]],
     checks |-> [k \in DOMAIN checks |-> CheckName(k)]]

ChecksOf(n, cx) == FlattenSeq([j \in DOMAIN n.eqs |-> EquationChecks(n.eqs[j], cx)])
Checked(n, tables) == WithChecks(n, ChecksOf(n, Scope(n, tables)))

(* instrument: the node with its checks as equations, and their names.     *)
Instrumented(n, tables) == Checked(WithCalls(n, HoistedEquations(n), tables.sigs), tables)

(* Phase::CSemantics, which gives C's division and a cast that wraps where *)
(* the operand's type is not within the target's.  (Calculated has C's     *)
(* division.)                                                              *)
RECURSIVE Semantic(_, _)
Semantic(e, cx) ==
    IF e.op # "cast" THEN WithArgs(e, [j \in DOMAIN e.args |-> Semantic(e.args[j], cx)])
    ELSE IF \E t \in IntType(e.args[1], cx) : ~Inside(Limits(t.base), Limits(e.name[1]))
    THEN Tree("wrap", e.name, 0, <<Semantic(e.args[1], cx)>>)
    ELSE Semantic(e.args[1], cx)

SemanticNode(n, cx) ==
    [n EXCEPT !.eqs = Computed([j \in DOMAIN n.eqs |-> [n.eqs[j] EXCEPT !.rhs = Semantic(n.eqs[j].rhs, cx)]])]

InC(i, tables) == [i EXCEPT !.node = SemanticNode(i.node, Scope(i.node, tables))]
Viewed(n, tables) == InC(Instrumented(UnrolledNode(n, Scope(n, tables)), tables), tables)
-------------------------------------------------------------------------------
(* propagate: what the checks of the callee are called in the j-th equation*)
(* of the caller.                                                          *)
Passed(eq, j, raised) ==
    IF eq.rhs.op # "call" THEN << >>
    ELSE [k \in DOMAIN raised[eq.rhs.name].checks |-> <<"__rtp", j, k>>]

WithPending(n, mine, isRoot) ==
    LET ports == [k \in DOMAIN mine |-> Port(mine[k], BoolType)]
        own == SelectSeq(n.locals, LAMBDA l : l.name \notin ToSet(mine))
    IN  [checks |-> mine,
         node |-> IF isRoot THEN [n EXCEPT !.locals = own \o ports]
                  ELSE [n EXCEPT !.locals = own, !.outs = @ \o ports]]

WithPassed(v, passed, isRoot) ==
    WithPending([v.node EXCEPT !.eqs = Computed([j \in DOMAIN @ |-> [@[j] EXCEPT !.lhs = @ \o passed[j]]])],
                v.checks \o FlattenSeq(passed), isRoot)

RaisedBy(v, raised, isRoot) ==
    WithPassed(v, Computed([j \in DOMAIN v.node.eqs |-> Passed(v.node.eqs[j], j, raised)]), isRoot)

Callees(n) == UNION {{e.name : e \in {x \in ToSet(Subexpressions(n.eqs[j].rhs)) : x.op = "call"}} : j \in DOMAIN n.eqs}

(* The nodes that `f` reaches, with the checks of their callees as outputs.*)
RECURSIVE Raised(_, _, _)
Raised(f, views, root) ==
    RaisedBy(views[f], Tabulated([g \in Callees(views[f].node) |-> Raised(g, views, root)]), f = root)

RECURSIVE Reaches(_, _)
Reaches(f, views) == {f} \cup UNION {Reaches(g, views) : g \in Callees(views[f].node)}

ValueTables(p) == Tables(p) @@ [values |-> Constants(p)]

(* The program the prover is given, and the root's checks.                 *)
InputOf(p, raised, tables) ==
    [checks |-> ToSet(raised[p.root].checks),
     program |-> [by |-> "view", cx |-> tables, consts |-> Constants(p),
                  nodes |-> Tabulated([f \in DOMAIN raised |-> Compiled(raised[f].node, "view", tables)])]]

InputFrom(p, views, tables) ==
    InputOf(p, Tabulated([f \in Reaches(p.root, views) |-> Raised(f, views, p.root)]), tables)

Input(p, tables) ==
    InputFrom(p, Tabulated([f \in Fields(p.nodes) |-> Viewed(PortNamed(p.nodes, f), tables)]), tables)

(* input_ranges: the values the root's inputs are assumed to have.         *)
RECURSIVE ValuesOf(_, _)
ValuesOf(t, cx) ==
    LET r == Resolve(t, cx)
    IN  CASE IsArray(r) -> [1 .. r.dims[1] -> ValuesOf(Type(r.base, Tail(r.dims)), cx)]
          [] IsInteger(r) -> IntegerValues[r.base]
          [] IsBool(r) -> 0 .. 1

RECURSIVE Rows(_, _)
Rows(ports, cx) ==
    IF ports = << >> THEN {<< >>}
    ELSE {<<v>> \o row : v \in ValuesOf(ports[1].type, cx), row \in Rows(Tail(ports), cx)}
-------------------------------------------------------------------------------
(* Where hint-less typing (type_of) sees what C computes and what is       *)
(* stored: without this a check may be missing.                            *)
OperandsAlike(e, cx) ==
    LET wide == {PromotedBase(CType(e.args[j], cx)) : j \in {j \in DOMAIN e.args : ~IsLiteral(e.args[j])}}
    IN  Cardinality(wide) <= 1

OfCType(e, ty, cx) == {PromotedBase(t.base) : t \in ty} = {CType(e, cx)}

KnowsOperation(e, cx) ==
    /\ e.op \in Arithmetic \cup {"neg"} /\ ~IsLiteral(e) => OfCType(e, IntType(e, cx), cx)
    /\ e.op \in Arithmetic \cup Equality \cup Ordering => OperandsAlike(e, cx)
    /\ e.op = "cast" => \A t \in IntType(e.args[1], cx) : Fits(e.args[1], Limits(t.base), cx)

\* The elements of an array are stored one by one.
KnowsStored(e, t, cx) ==
    LET parts == IF e.op = "array" THEN ToSet(e.args) ELSE {e}
        type == IF e.op = "array" THEN Scalar(t.base) ELSE t
    IN  \A x \in parts : IsLiteral(x) \/ TypeOf(x, cx) = {Resolve(type, cx)}

KnowsArguments(e, cx) ==
    CASE e.op \in {"call"} \cup Iterators ->
            \A j \in DOMAIN e.args : e.op = "map" \/ KnowsStored(e.args[j], cx.sigs[e.name].ins[j].type, cx)
                                        \/ (e.op = "fold" /\ j = 2)
      [] e.op = "struct" ->
            \A j \in DOMAIN e.args :
                KnowsStored(e.args[j], PortNamed(cx.records[e.name[1]], <<e.name[j + 1]>>).type, cx)
      [] OTHER -> TRUE

KnowsEquation(eq, cx) ==
    /\ \A e \in ToSet(Subexpressions(eq.rhs)) : KnowsOperation(e, cx) /\ KnowsArguments(e, cx)
    /\ Len(eq.lhs) = 1 => KnowsStored(eq.rhs, cx.env[eq.lhs[1]], cx)

KnowsTypes(p, tables) ==
    \A n \in ToSet(p.nodes) : \A eq \in ToSet(n.eqs) : KnowsEquation(eq, Scope(n, tables))
-------------------------------------------------------------------------------
(* A project as the three programs.                                        *)
PrepareWith(p, tables) ==
    [root |-> p.root, main |-> PortNamed(p.nodes, p.root), known |-> KnowsTypes(p, tables),
     tables |-> tables, sim |-> Program(p, "sim", tables), c |-> Program(p, "c", tables),
     input |-> Input(p, tables)]
Prepare(p) == PrepareWith(p, ValueTables(p))

VARIABLES project, sim, c, view, cycles
vars == <<project, sim, c, view, cycles>>

Nothing == [ok |-> TRUE, exact |-> TRUE, outs |-> << >>, mem |-> Fresh]

Init ==
    /\ project \in {Prepare(p) : p \in Projects}
    /\ sim = Nothing /\ c = Nothing /\ view = Nothing @@ [held |-> TRUE]
    /\ cycles = 0

\* One cycle of a program after state s.
Stepped(s, program, row) == Step(program.nodes[project.root], row, s.mem, program)
Outcome(s) == [ok |-> s.ok, exact |-> s.exact, outs |-> s.outs, mem |-> s.mem]
AndChecks(s) == Outcome(s) @@ [held |-> \A x \in project.input.checks : s.env[x] = 1]

(* A cycle of all three on the same inputs, as long as nothing went wrong. *)
Cycle(row) ==
    /\ cycles < MaxCycles /\ view.held /\ sim.ok /\ c.ok
    /\ sim' = Outcome(Stepped(sim, project.sim, row))
    /\ c' = Outcome(Stepped(c, project.c, row))
    /\ view' = AndChecks(Stepped(view, project.input.program, row))
    /\ cycles' = cycles + 1
    /\ UNCHANGED project

Next == \E row \in Rows(project.main.ins, project.tables) : Cycle(row)
Spec == Init /\ [][Next]_vars
-------------------------------------------------------------------------------
InRange(ports, outs, cx) ==
    \A j \in DOMAIN outs : outs[j] \in ValuesOf(ports[j].type, cx)

(* An output is a value of its type, in the simulator, which calculates    *)
(* with wider integers, and in C.                                          *)
TypeOK ==
    /\ cycles \in 0 .. MaxCycles
    /\ InRange(project.main.outs, sim.outs, project.tables)
    /\ InRange(project.main.outs, c.outs, project.tables)

(* What the checks prove (rte.rs:4-9): as long as each of them holds, no   *)
(* integer leaves its C type, nothing is undefined or an error, and the    *)
(* view computes what the simulator and the C do.                          *)
ChecksCoverFaults ==
    project.known /\ view.held =>
        /\ sim.ok /\ sim.exact /\ c.ok /\ c.exact
        /\ sim.outs = view.outs /\ c.outs = view.outs

(* A check that fails is no false alarm: something did go wrong in this    *)
(* cycle, in the simulator or in C.                                        *)
ChecksNameFaults == ~view.held => ~(sim.ok /\ sim.exact /\ c.ok /\ c.exact)
===============================================================================
