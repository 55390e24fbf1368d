------------------------------- MODULE TypeCheck -------------------------------
(***************************************************************************)
(* The type checker, ol_typecheck.  A project has nodes, types, constants  *)
(* and contracts, each in a sequence; a node its kind, its ports and       *)
(* locals (a name and a type), its equations (names on the left, an        *)
(* expression) and its probes.  Floats and characters are left out, and of *)
(* a type expression's nesting its bound of 64.  An error is its code, the *)
(* names and types its message has, and the node or constant it is in.     *)
(* What is computed once is a parameter of the operator that goes on with  *)
(* it.                                                                     *)
(***************************************************************************)
EXTENDS ClockInference

Error(code, names, types) == [code |-> code, names |-> names, types |-> types]
Complain(wrong, code, names, types) == IF wrong THEN <<Error(code, names, types)>> ELSE << >>

RECURSIVE Ops(_)
Ops(e) == {e.op} \cup UNION {Ops(e.args[j]) : j \in DOMAIN e.args}

(* visit: all the subexpressions, in order.                                *)
RECURSIVE Subexpressions(_)
Subexpressions(e) == <<e>> \o FlattenSeq([j \in DOMAIN e.args |-> Subexpressions(e.args[j])])
-------------------------------------------------------------------------------
(* TypeContext::from_project: of two definitions of a name the later one   *)
(* is kept.                                                                *)
LastNamed(defs, kind, x) ==
    defs[Max({j \in DOMAIN defs : defs[j].kind = kind /\ defs[j].name = x})]
NamesOf(defs, kind) == {defs[j].name : j \in {j \in DOMAIN defs : defs[j].kind = kind}}

TypeContext(p) ==
    LET kept(kind) == [x \in NamesOf(p.types, kind) |-> LastNamed(p.types, kind, x)]
        enums == {j \in DOMAIN p.types : p.types[j].kind = "enum"}
        variants == UNION {ToSet(p.types[j].variants) : j \in enums}
    IN  [aliases |-> Tabulated([x \in NamesOf(p.types, "alias") |-> kept("alias")[x].target]),
         records |-> Tabulated([x \in NamesOf(p.types, "record") |-> kept("record")[x].fields]),
         enumOf |-> Tabulated([v \in variants |->
             p.types[Max({j \in enums : v \in ToSet(p.types[j].variants)})].name]),
         consts |-> Tabulated([x \in Fields(p.consts) |->
             p.consts[Max({j \in DOMAIN p.consts : p.consts[j].name = x})].type])]

(* try_resolve: no type for an alias that leads back to itself.            *)
RECURSIVE TryResolve(_, _, _)
TryResolve(t, aliases, seen) ==
    IF t.base \notin DOMAIN aliases THEN {t}
    ELSE IF t.base \in seen THEN {}
    ELSE {Type(r.base, t.dims \o r.dims) :
             r \in TryResolve(aliases[t.base], aliases, seen \cup {t.base})}

Resolve(t, cx) ==
    LET r == TryResolve(t, cx.aliases, {}) IN IF r = {} THEN t ELSE The(r)

Compatible(a, b, cx) == Resolve(a, cx) = Resolve(b, cx)
Compatible2(ts, cx) == Compatible(ts[1], ts[2], cx)

Signatures(p) ==
    Tabulated([f \in Fields(p.nodes) |->
        LET n == p.nodes[Max({j \in DOMAIN p.nodes : p.nodes[j].name = f})]
        IN  [ins |-> n.ins, outs |-> n.outs, kind |-> n.kind]])

-------------------------------------------------------------------------------
IntegerLiteralType(n, hint, cx) ==
    LET adopted == {t \in {Resolve(h, cx) : h \in hint} : FitsInInteger(n, t)}
    IN  IF adopted # {} THEN The(adopted) ELSE Int32

OrElse(hint, t) == IF hint # {} THEN hint ELSE {t}

(* The type an operand is expected to have, given those of the operands    *)
(* before it.                                                              *)
OperandHint(e, j, hint, before, cx) ==
    CASE e.op \in Binary ->
            IF j = 2 /\ IsInteger(before[1]) THEN {before[1]}
            ELSE IF e.op \in Arithmetic \cup Bitwise THEN hint ELSE {}
      [] e.op = "if" -> IF j = 1 THEN {BoolType} ELSE IF j = 2 THEN hint ELSE OrElse(hint, before[2])
      [] e.op \in {"arrow", "merge"} -> IF j = 1 THEN hint ELSE OrElse(hint, before[1])
      [] e.op = "index" -> IF j = 2 THEN {Int32} ELSE {}
      [] e.op = "array" -> {Type(r.base, Tail(r.dims)) :
                               r \in {r \in {Resolve(h, cx) : h \in hint} : IsArray(r)}}
      [] e.op \in {"field", "cast"} -> {}
      [] OTHER -> hint  \* not, neg, pre, when

(* What is wrong with the types of the operands of e, and its type when    *)
(* nothing is.                                                             *)
OperandsAgree(e, ts, cx) ==
    LET is(j, P(_)) == P(Resolve(ts[j], cx))
        first == Resolve(ts[1], cx)
        wrong(bad, code) == Complain(bad, code, << >>, ts)
    IN  CASE e.op \in Logical -> wrong(~(is(1, IsBool) /\ is(2, IsBool)), "E0083")
          [] e.op \in Equality -> wrong(~Compatible2(ts, cx), "E0084")
          [] e.op \in Ordering -> wrong(~(is(1, IsNumeric) /\ Compatible2(ts, cx)), "E0085")
          [] e.op \in Arithmetic -> wrong(~(is(1, IsNumeric) /\ Compatible2(ts, cx)), "E0086")
          [] e.op \in Bitwise -> wrong(~(is(1, IsInteger) /\ Compatible2(ts, cx)), "E0087")
          [] e.op = "not" -> wrong(~is(1, IsBool), "E0081")
          [] e.op = "neg" -> wrong(~is(1, IsNumeric), "E0082")
          [] e.op = "cast" ->
                IF ~is(1, IsNumeric) THEN wrong(TRUE, "E0093")
                ELSE Complain(~IsNumeric(Scalar(e.name[1])), "E0094", <<e.name>>, << >>)
          [] e.op = "if" -> wrong(~Compatible(ts[2], ts[3], cx), "E0091")
          [] e.op = "arrow" -> wrong(~Compatible2(ts, cx), "E0092")
          [] e.op = "merge" -> wrong(~Compatible2(ts, cx), "E0131")
          [] e.op = "field" ->
                IF IsArray(first) \/ first.base \in {"bool"} \cup DOMAIN IntegerValues
                THEN Complain(TRUE, "E0122", <<e.name>>, <<first>>)
                ELSE IF first.base \notin DOMAIN cx.records
                THEN Complain(TRUE, "E0121", <<e.name>>, <<first>>)
                ELSE Complain(e.name \notin Fields(cx.records[first.base]), "E0120",
                              <<e.name>>, <<first>>)
          [] e.op = "index" -> Complain(~IsArray(first), "E0110", << >>, <<first>>)
          [] OTHER -> << >>  \* pre, when, array

ResultType(e, ts, cx) ==
    CASE e.op \in Logical \cup Equality \cup Ordering \cup {"not"} -> BoolType
      [] e.op = "cast" -> Scalar(e.name[1])
      [] e.op = "if" -> ts[2]
      [] e.op = "field" -> PortNamed(cx.records[Resolve(ts[1], cx).base], e.name).type
      [] e.op = "index" -> LET r == Resolve(ts[1], cx) IN Type(r.base, Tail(r.dims))
      [] e.op = "array" -> Type(ts[1].base, <<Len(ts)>> \o ts[1].dims)
      [] OTHER -> ts[1]

(* An operand refused in the middle: what comes after it is not looked at. *)
MiddleErrors(e, j, ts, cx) ==
    CASE e.op = "if" /\ j = 1 ->
            Complain(~IsBool(Resolve(ts[1], cx)), "E0090", << >>, ts)
      [] e.op = "array" /\ j > 1 ->
            Complain(~Compatible(ts[1], ts[j], cx), "E0124", << >>, <<ts[1], ts[j]>>)
      [] OTHER -> << >>

ClockErrors(e, cx) ==
    IF e.op \notin {"when", "merge"} THEN << >>
    ELSE IF e.name \notin DOMAIN cx.env THEN <<Error("E0080", <<e.name>>, << >>)>>
    ELSE Complain(~IsBool(Resolve(cx.env[e.name], cx)), "E0130", <<e.name>>, <<cx.env[e.name]>>)
-------------------------------------------------------------------------------
RECURSIVE Infer(_, _, _)
Typed(t, errs) == [ty |-> {t}, errs |-> errs]
Untyped(errs) == [ty |-> {}, errs |-> errs]

(* Operands typed in order, each on the hint its predecessors give, up to  *)
(* the first without a type or refused: their types, what was reported.    *)
OperandRefused(e, j, r, tys, cx) == IF r.ty = {} THEN << >> ELSE MiddleErrors(e, j, tys, cx)

Joined(acc, r, tys, refused) ==
    [tys |-> IF refused = << >> THEN tys ELSE acc.tys, errs |-> acc.errs \o r.errs \o refused]

OperandTyped(e, j, acc, r, tys, cx) == Joined(acc, r, tys, OperandRefused(e, j, r, tys, cx))

NextOperand(e, j, acc, r, cx) == OperandTyped(e, j, acc, r, acc.tys \o SetToSeq(r.ty), cx)

Operands(e, hint, cx) ==
    FoldLeft(LAMBDA acc, j :
                 IF Len(acc.tys) < j - 1 THEN acc
                 ELSE NextOperand(e, j, acc, Infer(e.args[j], OperandHint(e, j, hint, acc.tys, cx), cx), cx),
             [tys |-> << >>, errs |-> << >>], [j \in DOMAIN e.args |-> j])

\* What is wrong with expression a where port p is given its value.
Compared(r, type, code, names, cx) ==
    r.errs \o Complain(\E t \in r.ty : ~Compatible(type, t, cx), code, names,
                       Append(SetToSeq(r.ty), type))

Misfit(a, p, code, names, cx) == Compared(Infer(a, {p.type}, cx), p.type, code, names, cx)

OutputType(sig) ==
    CASE Len(sig.outs) = 0 -> UnitType [] Len(sig.outs) = 1 -> sig.outs[1].type [] OTHER -> TupleType

CallErrors(e, sig, cx) ==
    FlattenSeq([j \in DOMAIN e.args |->
        Misfit(e.args[j], sig.ins[j], "E0103", <<e.name, sig.ins[j].name>>, cx)])

CallType(e, cx) ==
    LET sig == cx.sigs[e.name]
        stateful == Complain(cx.kind = "function" /\ sig.kind = "operator", "E0101", <<e.name>>, << >>)
    IN  IF e.name \notin DOMAIN cx.sigs THEN Untyped(<<Error("E0100", <<e.name>>, << >>)>>)
        ELSE IF Len(e.args) # Len(sig.ins)
        THEN Untyped(Append(stateful, Error("E0102", <<e.name>>, << >>)))
        ELSE Typed(OutputType(sig), stateful \o CallErrors(e, sig, cx))

(* A literal gives every field of the record rec, of this schema, a value, *)
(* and no other.                                                           *)
FieldErrors(x, value, rec, schema, cx) ==
    IF x \notin Fields(schema) THEN <<Error("E0126", <<x>>, <<rec>>)>>
    ELSE Misfit(value, PortNamed(schema, x), "E0127", <<x>>, cx)

LiteralErrors(e, rec, schema, cx) ==
    LET given == [j \in DOMAIN e.args |-> <<e.name[j + 1]>>]
        missing(x) == Complain(x \notin ToSet(given), "E0128", <<x>>, <<rec>>)
    IN  FlattenSeq([j \in DOMAIN e.args |->
                       FieldErrors(<<e.name[j + 1]>>, e.args[j], rec, schema, cx)])
            \o FlattenSeq([k \in DOMAIN schema |-> missing(schema[k].name)])

StructType(e, cx) ==
    LET named == Scalar(e.name[1])
        target == Resolve(named, cx)
        rec == IF IsArray(target) THEN named ELSE target
    IN  IF rec.base \notin DOMAIN cx.records THEN Untyped(<<Error("E0125", << >>, <<rec>>)>>)
        ELSE Typed(rec, LiteralErrors(e, rec, cx.records[rec.base], cx))

(* map(f, a1 .. an) and fold(f, seed, a), of the function sig of one      *)
(* output; the arrays are typed all, of these types.                       *)
Iterated(e, sig, all, of, seed, cx) ==
    LET elem(j) == Type(of[j].base, Tail(of[j].dims))
        misfit(port, t) == ~Compatible(sig.ins[port].type, t, cx)
        out == sig.outs[1].type
        wrong(errs, code) == Untyped(errs \o <<Error(code, <<e.name>>, of)>>)
    IN  IF \E t \in ToSet(of) : ~IsArray(t) THEN wrong(all.errs, "E0143")
        ELSE IF \E t \in ToSet(of) : t.dims[1] # of[1].dims[1] THEN wrong(all.errs, "E0144")
        ELSE IF Len(sig.ins) # Len(e.args) THEN wrong(all.errs, "E0145")
        ELSE IF e.op = "map"
        THEN IF \E j \in DOMAIN of : misfit(j, elem(j)) THEN wrong(all.errs, "E0145")
             ELSE Typed(Type(out.base, <<of[1].dims[1]>> \o out.dims), all.errs)
        ELSE IF misfit(1, out) THEN wrong(all.errs, "E0145")
        ELSE IF \E t \in seed.ty : misfit(1, t) THEN wrong(seed.errs, "E0145")
        ELSE IF misfit(2, elem(1)) THEN wrong(all.errs, "E0145")
        ELSE Typed(out, all.errs \o seed.errs)

ArraysTyped(e, sig, all, arrays, cx) ==
    IF Len(all.tys) < Len(arrays) THEN Untyped(all.errs)
    ELSE Iterated(e, sig, all, [j \in DOMAIN all.tys |-> Resolve(all.tys[j], cx)],
                  Infer(e.args[1], {sig.ins[1].type}, cx), cx)

IteratedOver(e, sig, arrays, cx) ==
    ArraysTyped(e, sig, Operands(Tree("tuple", << >>, 0, arrays), {}, cx), arrays, cx)

IteratorType(e, cx) ==
    LET sig == cx.sigs[e.name]
    IN  IF e.name \notin DOMAIN cx.sigs THEN Untyped(<<Error("E0140", <<e.name>>, << >>)>>)
        ELSE IF sig.kind # "function" THEN Untyped(<<Error("E0141", <<e.name>>, << >>)>>)
        ELSE IF Len(sig.outs) # 1 THEN Untyped(<<Error("E0142", <<e.name>>, << >>)>>)
        ELSE IteratedOver(e, sig, IF e.op = "map" THEN e.args ELSE Tail(e.args), cx)

(* An empty array literal has the type it is expected to have.             *)
EmptyArrayType(hint, cx) ==
    LET arrays == {t \in {Resolve(h, cx) : h \in hint} : IsArray(t)}
    IN  IF arrays = {} THEN Untyped(<<Error("E0123", << >>, << >>)>>)
        ELSE Typed(LET t == The(arrays) IN Type(t.base, <<0>> \o Tail(t.dims)), << >>)

(* A local hides a constant, and a constant a variant of an enum.          *)
NameType(x, cx) ==
    CASE x \in DOMAIN cx.env -> Typed(cx.env[x], << >>)
      [] x \in DOMAIN cx.consts \ DOMAIN cx.env -> Typed(cx.consts[x], << >>)
      [] x \in DOMAIN cx.enumOf \ (DOMAIN cx.env \cup DOMAIN cx.consts) ->
            Typed(Scalar(cx.enumOf[x]), << >>)
      [] OTHER -> Untyped(<<Error("E0080", <<x>>, << >>)>>)

Agreed(e, tys, errs, wrong, cx) ==
    IF wrong # << >> THEN Untyped(errs \o wrong) ELSE Typed(ResultType(e, tys, cx), errs)

OperandsTyped(e, all, errs, cx) ==
    IF Len(all.tys) < Len(e.args) THEN Untyped(errs)
    ELSE Agreed(e, all.tys, errs, OperandsAgree(e, all.tys, cx), cx)

(* An index that is not an integer is reported, and the typing goes on.    *)
IndexErrors(e, tys, cx) ==
    Complain(e.op = "index" /\ Len(tys) = 2 /\ ~IsInteger(Resolve(tys[2], cx)), "E0111", << >>, <<tys[2]>>)

OfOperands(e, all, cx) ==
    OperandsTyped(e, all, ClockErrors(e, cx) \o all.errs \o IndexErrors(e, all.tys, cx), cx)
OperatorType(e, hint, cx) == OfOperands(e, Operands(e, hint, cx), cx)

(* infer_expr_type: the type of e, if it has one, and what was reported on *)
(* the way to it, where its context expects hint.                          *)
Infer(e, hint, cx) ==
    CASE e.op = "bool" -> Typed(BoolType, << >>)
      [] e.op = "enum" -> Typed(Scalar("state"), << >>)
      [] e.op = "const" -> Typed(IntegerLiteralType(e.val, hint, cx), << >>)
      [] e.op = "var" -> NameType(e.name, cx)
      [] e.op = "tuple" -> Typed(TupleType, << >>)
      [] e.op = "call" -> CallType(e, cx)
      [] e.op = "struct" -> StructType(e, cx)
      [] e.op \in Iterators -> IteratorType(e, cx)
      [] e.op = "array" /\ e.args = << >> -> EmptyArrayType(hint, cx)
      [] e.op = "neg" /\ e.args[1].op = "const" ->
            Typed(IntegerLiteralType(-e.args[1].val, hint, cx), << >>)
      [] OTHER -> OperatorType(e, hint, cx)
-------------------------------------------------------------------------------
(* check_pre_initialization: every pre is somewhere on the right of an ->, *)
(* with no other pre in between.                                           *)
RECURSIVE PreErrors(_, _)
PreErrors(e, underArrow) ==
    LET below(j) == e.op # "pre" /\ (underArrow \/ (e.op = "arrow" /\ j = 2))
    IN  Complain(e.op = "pre" /\ ~underArrow, "E0070", << >>, << >>)
            \o FlattenSeq([j \in DOMAIN e.args |-> PreErrors(e.args[j], below(j))])

\* check_iterator_placement: an iterator is the whole right-hand side.
NestedIterators(e) ==
    LET nested == SelectSeq(Tail(Subexpressions(e)), LAMBDA x : x.op \in Iterators)
    IN  [j \in DOMAIN nested |-> Error("E0146", << >>, << >>)]

(* collect_immediate_deps: the body of an -> counts as a later cycle, even *)
(* when it has no pre.                                                     *)
RECURSIVE ImmediateDeps(_)
ImmediateDeps(e) ==
    CASE e.op = "pre" -> {}
      [] e.op = "arrow" -> ImmediateDeps(e.args[1])
      [] OTHER -> (IF e.op \in {"var", "when", "merge"} THEN {e.name} ELSE {})
                      \cup UNION {ImmediateDeps(e.args[j]) : j \in DOMAIN e.args}

RECURSIVE Reached(_, _)
Reached(xs, deps) ==
    LET more == xs \cup UNION {deps[x] : x \in xs \cap DOMAIN deps}
    IN  IF more = xs THEN xs ELSE Reached(more, deps)

\* detect_combinational_cycle, on the equations eqs.
HasCycle(eqs) ==
    LET deps == [x \in UNION {ToSet(eqs[j].lhs) : j \in DOMAIN eqs} |->
                    UNION {ImmediateDeps(eqs[j].rhs) : j \in {j \in DOMAIN eqs : x \in ToSet(eqs[j].lhs)}}]
    IN  \E x \in DOMAIN deps : x \in Reached(deps[x], deps)
-------------------------------------------------------------------------------
\* The node as clock inference sees it: one equation per name defined.
ClockView(n) ==
    [io |-> Fields(n.ins) \cup Fields(n.outs),
     eqs |-> FlattenSeq([j \in DOMAIN n.eqs |->
                [k \in DOMAIN n.eqs[j].lhs |-> Equation(n.eqs[j].lhs[k], n.eqs[j].rhs)]])]

UsesClocks(n) == \E j \in DOMAIN n.eqs : Ops(n.eqs[j].rhs) \cap {"when", "merge"} # {}

(* The clock discipline of equation eq, on this clock: nothing is held in  *)
(* a function, nor an array; a stateful callee is on the equation's clock. *)
HeldErrors(eq, clock, cx) ==
    LET arrays == SelectSeq(eq.lhs, LAMBDA x : x \in DOMAIN cx.env /\ IsArray(Resolve(cx.env[x], cx)))
        finer == {c \in Calls(eq.rhs, clock) :
                     c.clock # clock /\ c.site \in DOMAIN cx.sigs /\ cx.sigs[c.site].kind = "operator"}
    IN  (IF clock = Base THEN << >>
         ELSE Complain(cx.kind = "function", "E0134", << >>, << >>)
                  \o [k \in DOMAIN arrays |-> Error("E0135", <<arrays[k]>>, << >>)])
            \o Complain(finer # {}, "E0133", << >>, << >>)

\* What an equation gets wrong about clocks is one error.
ClockedErrors(n, vc, cx) ==
    FlattenSeq([j \in DOMAIN n.eqs |->
        Complain(~ClocksAccepted(ClockView([n EXCEPT !.eqs = <<n.eqs[j]>>]), vc), "E0132", << >>, << >>)])
        \o FlattenSeq([j \in DOMAIN n.eqs |->
               HeldErrors(n.eqs[j], EquationClock([rhs |-> n.eqs[j].rhs], vc), cx)])

ClockDiscipline(n, cx) ==
    IF UsesClocks(n) THEN ClockedErrors(n, VarClocks(ClockView(n)), cx) ELSE << >>
-------------------------------------------------------------------------------
\* One complaint for each port or local whose name an earlier one has.
Repeats(earlier, ports, code) ==
    LET before(j) == Fields(earlier) \cup {ports[k].name : k \in 1 .. j - 1}
    IN  FlattenSeq([j \in DOMAIN ports |->
            Complain(ports[j].name \in before(j), code, <<ports[j].name>>, << >>)])

Environment(n) ==
    LET all == n.ins \o n.outs \o n.locals
    IN  Tabulated([x \in Fields(all) |-> all[Max({j \in DOMAIN all : all[j].name = x})].type])

(* The names an equation defines: known, not inputs, defined only here.    *)
DefinitionErrors(n, j, env) ==
    LET lhs == n.eqs[j].lhs
        before(k) == UNION {ToSet(n.eqs[i].lhs) : i \in 1 .. j - 1} \cup {lhs[i] : i \in 1 .. k - 1}
        of(k) == Complain(lhs[k] \notin DOMAIN env, "E0020", <<lhs[k]>>, << >>)
                     \o Complain(lhs[k] \in Fields(n.ins), "E0022", <<lhs[k]>>, << >>)
                     \o Complain(lhs[k] \in before(k), "E0021", <<lhs[k]>>, << >>)
    IN  FlattenSeq([k \in DOMAIN lhs |-> of(k)])

(* The right-hand side, typed where its one name's type is expected, and   *)
(* compared with it; a tuple may be bound to any number of names.          *)
Bound(eq, r, expected, cx) ==
    LET plain == {t \in r.ty : t # TupleType}
        clash(t) == \E x \in expected : ~Compatible(x, t, cx)
    IN  r.errs \o Complain(\E t \in plain : clash(t), "E0040", eq.lhs, SetToSeq(r.ty))
               \o Complain(Len(eq.lhs) # 1 /\ plain # {}, "E0041", << >>, << >>)

BoundTo(eq, expected, cx) == Bound(eq, Infer(eq.rhs, expected, cx), expected, cx)

EquationErrors(eq, cx) ==
    Complain(cx.kind = "function" /\ Ops(eq.rhs) \cap Temporal # {}, "E0030", << >>, << >>)
        \o PreErrors(eq.rhs, FALSE) \o NestedIterators(eq.rhs)
        \o BoundTo(eq, IF Len(eq.lhs) = 1 /\ eq.lhs[1] \in DOMAIN cx.env THEN {cx.env[eq.lhs[1]]} ELSE {}, cx)

(* check_node, in the context of its project and its own variables.        *)
NodeErrors(n, env, cx) ==
    LET assigned == UNION {ToSet(n.eqs[j].lhs) : j \in DOMAIN n.eqs}
        unassigned == SelectSeq(n.outs, LAMBDA o : o.name \notin assigned)
        unknown == SelectSeq(n.probes, LAMBDA x : x \notin DOMAIN env)
    IN  Repeats(<< >>, n.ins, "E0010") \o Repeats(n.ins, n.outs, "E0011")
            \o Repeats(n.ins \o n.outs, n.locals, "E0012")
            \o FlattenSeq([j \in DOMAIN n.eqs |->
                   DefinitionErrors(n, j, env) \o EquationErrors(n.eqs[j], cx)])
            \o [j \in DOMAIN unassigned |-> Error("E0050", <<unassigned[j].name>>, << >>)]
            \o Complain(n.kind # "function" /\ HasCycle(n.eqs), "E0060", << >>, << >>)
            \o [j \in DOMAIN unknown |-> Error("E0150", <<unknown[j]>>, << >>)]
            \o ClockDiscipline(n, cx)

InEnvironment(n, env, tables) == NodeErrors(n, env, tables @@ [env |-> env, kind |-> n.kind])

CheckNode(n, tables) ==
    IF n.kind = "imported" THEN Complain(n.eqs # << >>, "E0002", << >>, << >>)
    ELSE InEnvironment(n, Environment(n), tables)

At(where, errs) == [j \in DOMAIN errs |-> errs[j] @@ [at |-> where]]

(* check_constants: a constant with the name of an earlier one is not      *)
(* looked at.                                                              *)
ConstantErrors(c, cx) ==
    Complain(Ops(c.value) \cap Temporal # {}, "E0004", << >>, << >>)
        \o Compared(Infer(c.value, {c.type}, cx), c.type, "E0005", <<c.name>>, cx)

CheckConstant(p, j, tables) ==
    IF p.consts[j].name \in {p.consts[i].name : i \in 1 .. j - 1}
    THEN <<Error("E0003", <<p.consts[j].name>>, << >>)>>
    ELSE ConstantErrors(p.consts[j], tables @@ [env |-> << >>, kind |-> "function"])

(* Names of types and of variants are those of the whole project, and an   *)
(* alias leads to a type.                                                  *)
CheckTypes(p, tables) ==
    LET enums == SelectSeq(p.types, LAMBDA d : d.kind = "enum")
        variants == FlattenSeq([j \in DOMAIN enums |-> enums[j].variants])
        again(s, j) == s[j] \in {s[i] : i \in 1 .. j - 1}
        bases == [j \in DOMAIN p.types |-> p.types[j].name]
        circular == {x \in DOMAIN tables.aliases : TryResolve(Scalar(x), tables.aliases, {}) = {}}
    IN  FlattenSeq([j \in DOMAIN bases |->
                       Complain(again(bases, j), "E0006", << >>, <<Scalar(bases[j])>>)])
            \o FlattenSeq([j \in DOMAIN variants |->
                       Complain(again(variants, j), "E0007", <<variants[j]>>, << >>)])
            \o SetToSeq({Error("E0008", << >>, <<Scalar(x)>>) : x \in circular})

(* check_project: its errors, in the order they are reported.              *)
Tables(p) == TypeContext(p) @@ [sigs |-> Signatures(p)]

CheckWith(p, tables) ==
    LET again(j) == p.nodes[j].name \in {p.nodes[i].name : i \in 1 .. j - 1}
    IN  At(<<"types">>, CheckTypes(p, tables))
            \o At(<<"nodes">>, FlattenSeq([j \in DOMAIN p.nodes |->
                  Complain(again(j), "E0001", <<p.nodes[j].name>>, << >>)]))
            \o FlattenSeq([j \in DOMAIN p.consts |-> At(p.consts[j].name, CheckConstant(p, j, tables))])
            \o FlattenSeq([j \in DOMAIN p.nodes |-> At(p.nodes[j].name, CheckNode(p.nodes[j], tables))])

CheckProject(p) == CheckWith(p, Tables(p))
===============================================================================
