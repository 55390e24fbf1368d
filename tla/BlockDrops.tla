------------------------------- MODULE BlockDrops -------------------------------
(***************************************************************************)
(* What the Studio drops on an operator's canvas: a call of an operator, a *)
(* predefined operation, an action of a type, an expression.  Each adds    *)
(* equations that define fresh, typed locals, and leaves what is to be     *)
(* wired as pins, variables that nothing declares.                         *)
(***************************************************************************)
EXTENDS OperatorEdits

CONSTANTS   \* what the drops ask about expressions (WorkbenchChecks)
    FreeVarsOf(_),          \* their variables
    OperandsOf(_, _),       \* the operands of a chain of one operator
    InferInNode(_, _, _)    \* their type in an operator of a loaded project, an option

Pin(i, k) == <<"p", i, k>>      \* pin k of what equation i was dropped as
Pins(i, n) == [k \in 1 .. n |-> Var(Pin(i, k))]

\* base, or base followed by the first number from 2 on that is free.
Numbered(base, i) == base \o <<"_", i>>
Fresh(base, known) ==
    LET free == {i \in 2 .. Cardinality(known) + 2 : Numbered(base, i) \notin known}
    IN  IF base \notin known THEN base ELSE Numbered(base, Min(free))

\* A fresh name for each base in turn.
FreshNames(bases, known) ==
    LET names[k \in 0 .. Len(bases)] ==
            IF k = 0 THEN << >>
            ELSE LET before == names[k - 1]
                 IN  Append(before, Fresh(bases[k], known \cup ToSet(before)))
    IN  names[Len(bases)]

\* n with more equations, over fresh locals, placed where they were dropped.
Dropped(n, names, types, eqs) ==
    LET count == Len(n.eqs)
        placed == {EqKey(count + k) : k \in DOMAIN eqs} \cup ToSet(names)
        place(key) == IF key \in ToSet(names) THEN Tag(0) ELSE eqs[key[2] - count].tag
    IN  [n EXCEPT !.locals = @ \o [k \in DOMAIN names |-> Port(names[k], types[k])],
                  !.eqs = @ \o eqs,
                  !.pos = [key \in placed \cup DOMAIN @ |->
                              IF key \in placed THEN place(key) ELSE @[key]]]

\* One equation more, of one local.
DroppedOne(n, base, type, rhs) ==
    LET x == Fresh(base, Vars(n))
    IN  Dropped(n, <<x>>, <<type>>, <<[lhs |-> <<x>>, rhs |-> rhs, tag |-> Tag(0)]>>)

(* add_block_call_response: the pins have the names of the callee's        *)
(* inputs, and so are bound to the variables of these names.               *)
AddBlockCall(r) ==
    /\ r.node # r.callee /\ Loads
    /\ r.callee \in Fields(Full.nodes) /\ IsNode(r.node)
    /\ LET callee == Named(Full.nodes, r.callee)
           n == NodeOf(r)
           bases == [k \in DOMAIN callee.outs |-> r.callee \o <<"_">> \o callee.outs[k].name]
           names == FreshNames(bases, Vars(n))
           args == [j \in DOMAIN callee.ins |-> Var(callee.ins[j].name)]
       IN  Edited(Dropped(n, names, [k \in DOMAIN callee.outs |-> callee.outs[k].type],
                          <<[lhs |-> names, rhs |-> Tree("call", r.callee, 0, args), tag |-> Tag(0)]>>))
-------------------------------------------------------------------------------
MinInputs == 2
MaxInputs == 12

\* The operations of any number of inputs, and their operators.
Variadic == [plus |-> "add", multiply |-> "mul", and |-> "and", or |-> "or", xor |-> "xor",
             bit_and |-> "bitand", bit_or |-> "bitor", bit_xor |-> "bitxor"]

\* Those of two, of one expression each.
Dyadic == [minus |-> "sub", divide |-> "div", modulo |-> "mod", equal |-> "eq",
           not_equal |-> "neq", greater_than |-> "gt", greater_equal |-> "ge",
           less_than |-> "lt", less_equal |-> "le", implies |-> "implies",
           arrow |-> "arrow", shift_left |-> "shl", shift_right |-> "shr"]

\* Those of powers of one pin, and the others.
Powers == [squared |-> 2, cubed |-> 3]
Operations ==
    DOMAIN Variadic \cup DOMAIN Dyadic \cup DOMAIN Powers
        \cup {"constant", "numeric_cast", "not", "record_field", "array_index", "to_nth_power",
              "init_pre", "when", "when_not", "merge", "if_then_else"}

Chain(op, operands) ==
    FoldLeft(LAMBDA acc, e : Tree(op, << >>, 0, <<acc, e>>), Head(operands), Tail(operands))

\* The pins the toolbox gives an operation that is not variadic.
PinCount(op) ==
    CASE op = "constant" -> 0
      [] op \in DOMAIN Powers \cup {"numeric_cast", "not", "record_field", "array_index", "to_nth_power"} -> 1
      [] op \in {"merge", "if_then_else"} -> 3
      [] OTHER -> 2

(* operation_body, with the type of the local that gets it: r.param is     *)
(* what the toolbox asks for.                                              *)
OperationBody(r, pins) ==
    LET a == pins[1]
        b == pins[2]
        int(e) == [rhs |-> e, type |-> Int32]
        bool(e) == [rhs |-> e, type |-> BoolType]
        binary == Tree(Dyadic[r.op], << >>, 0, <<a, b>>)
    IN  CASE r.op = "constant" -> [rhs |-> r.param, type |-> IF r.param.op = "bool" THEN BoolType ELSE Int32]
          [] r.op \in {"and", "or", "xor"} -> bool(Chain(Variadic[r.op], pins))
          [] r.op \in DOMAIN Variadic \ {"and", "or", "xor"} -> int(Chain(Variadic[r.op], pins))
          [] r.op \in DOMAIN Powers -> int(Chain("mul", [k \in 1 .. Powers[r.op] |-> a]))
          [] r.op = "to_nth_power" -> int(Chain("mul", [k \in 1 .. r.param |-> a]))
          [] r.op = "numeric_cast" -> [rhs |-> Tree("cast", <<r.param>>, 0, <<a>>), type |-> Scalar(r.param)]
          [] r.op \in DOMAIN Dyadic ->
                IF Dyadic[r.op] \in Equality \cup Ordering \cup Logical THEN bool(binary) ELSE int(binary)
          [] r.op = "not" -> bool(Not(a))
          [] r.op = "record_field" -> int(Tree("field", <<r.param>>, 0, <<a>>))
          [] r.op = "array_index" -> int(Tree("index", << >>, 0, <<a, Const(r.param)>>))
          [] r.op = "init_pre" -> int(Arrow(a, Pre(b.name)))
          [] r.op \in {"when", "when_not"} -> int(When(a, b.name, Truth(r.op = "when")))
          [] r.op = "merge" -> int(Merge(a.name, b, pins[3]))
          [] r.op = "if_then_else" -> int(If(a, b, pins[3]))

(* A known operation; the inputs asked for, where it is variadic; a power  *)
(* from 2 to 8; a numeric type to cast to.                                 *)
OperationAccepted(r) ==
    /\ r.op \in Operations
    /\ IF r.op \in DOMAIN Variadic THEN r.inputs \in MinInputs .. MaxInputs
       ELSE r.inputs = PinCount(r.op)
    /\ r.op = "to_nth_power" => r.param \in 2 .. 8
    /\ r.op = "numeric_cast" => IsNumeric(Scalar(r.param))

AddOperation(r) ==
    /\ r.op \notin Iterators /\ OperationAccepted(r) /\ IsNode(r.node)
    /\ LET n == NodeOf(r)
           i == Len(n.eqs) + 1
           body == OperationBody(r, Pins(i, r.inputs))
       IN  Edited(DroppedOne(n, <<r.op, i>>, body.type, body.rhs))

(* resolve_iterator_drop: of a function of the model file, with one output;*)
(* r.length is the length of the arrays of a map.                          *)
AddIterator(r) ==
    /\ r.op \in Iterators /\ IsNode(r.node) /\ IsNode(r.function)
    /\ LET n == NodeOf(r)
           f == Named(model.nodes, r.function)
           i == Len(n.eqs) + 1
           out == f.outs[1].type
           type == IF r.op = "map" THEN Type(out.base, <<r.length>> \o out.dims) ELSE out
           rhs == Tree(r.op, r.function, 0, Pins(i, Len(f.ins)))
       IN  /\ f.kind = "function" /\ Len(f.outs) = 1
           /\ IF r.op = "map" THEN Len(f.ins) > 0 ELSE Len(f.ins) = 2
           /\ Edited(DroppedOne(n, <<r.op, i>>, type, rhs))
-------------------------------------------------------------------------------
\* Mutant: the pins of the other blocks are forgotten.
Declared(n) == Vars(n)

\* The names that a new pin of n must not have.
Visible(n) ==
    Vars(n) \cup UNION {ToSet(n.eqs[j].lhs) \cup FreeVarsOf(n.eqs[j].rhs) : j \in DOMAIN n.eqs}

\* count new pins of equation i, of the first free numbers from k on.
NewPins(i, k, count, used) ==
    LET free == {j \in k .. k + Cardinality(used) + count : Pin(i, j) \notin used}
        nth(m) == CHOOSE j \in free : Cardinality({f \in free : f <= j}) = m
    IN  [m \in 1 .. count |-> Var(Pin(i, nth(m)))]

(* edit_set_operation_inputs: more inputs are new pins, fewer are the first*)
SetOperationInputs(r) ==
    /\ r.inputs \in MinInputs .. MaxInputs
    /\ IsNode(r.node) /\ r.index \in DOMAIN NodeOf(r).eqs
    /\ LET n == NodeOf(r)
           rhs == n.eqs[r.index].rhs
           old == OperandsOf(rhs, rhs.op)
           more == NewPins(r.index, Len(old) + 1, r.inputs - Len(old), Visible(n))
       IN  /\ rhs.op \in {Variadic[op] : op \in DOMAIN Variadic}
           /\ Edited([n EXCEPT !.eqs[r.index].rhs = Chain(rhs.op,
                         IF r.inputs <= Len(old) THEN SubSeq(old, 1, r.inputs) ELSE old \o more)])
-------------------------------------------------------------------------------
\* A template of an action of a type: what it reads are its pins and, in all
\* but the first, the local that the first one defines.
Template(base, type, rhs) == [base |-> base, type |-> type, rhs |-> rhs]
Hole(k) == Var(<<"PIN", k>>)
Source == <<"SRC">>

RecordActions(d) ==
    LET self == Scalar(d.name)
        names == [k \in DOMAIN d.fields |-> d.fields[k].name[1]]
        holes == [k \in DOMAIN d.fields |-> Hole(k)]
    IN  [make |-> <<Template(<<"make">>, self, Tree("struct", <<d.name>> \o names, 0, holes))>>,
         flatten |-> <<Template(<<d.name, "_", "in">>, self, Hole(1))>>
             \o [k \in DOMAIN d.fields |->
                    Template(d.fields[k].name, d.fields[k].type,
                         Tree("field", d.fields[k].name, 0, <<Var(Source)>>))]]

\* The elements a slice starts from and how many: r.param, within the array.
ArrayActions(d, r) ==
    LET len == d.target.dims[1]
        elem == Type(d.target.base, Tail(d.target.dims))
        array(n) == Type(elem.base, <<n>> \o elem.dims)
        nth(e, k) == Tree("index", << >>, 0, <<e, Const(k)>>)
        of(es) == Tree("array", << >>, 0, es)
    IN  [make |-> <<Template(<<"make">>, array(len), of([k \in 1 .. len |-> Hole(k)]))>>,
         flatten |-> <<Template(<<d.name, "_", "in">>, array(len), Hole(1))>>
             \o [k \in 1 .. len |-> Template(<<"elem", k>>, elem, nth(Var(Source), k - 1))],
         slice |-> IF r.param[2] = 0 \/ r.param[1] + r.param[2] > len THEN << >>
                   ELSE <<Template(<<"slice">>, array(r.param[2]),
                               of([k \in 1 .. r.param[2] |-> nth(Hole(1), r.param[1] + k - 1)]))>>]

\* r.param is a variant, or the type of what a match yields.
EnumActions(d, r) ==
    LET n == Len(d.variants)
        known == r.param \in ToSet(d.variants)
        one(spec) == IF known THEN <<spec>> ELSE << >>
        cases == FoldRight(LAMBDA k, rest : If(Is(Hole(1), Var(d.variants[k])), Hole(k + 1), rest),
                           [k \in 1 .. n - 1 |-> k], Hole(n + 1))
    IN  [variant |-> one(Template(<<"variant">>, Scalar(d.name), Var(r.param))),
         compare |-> one(Template(<<"is">>, BoolType, Is(Hole(1), Var(r.param)))),
         match |-> <<Template(<<"match">>, Scalar(r.result), cases)>>]

TypeActions(d, r) ==
    CASE d.kind = "record" -> RecordActions(d)
      [] d.kind = "enum" -> EnumActions(d, r)
      [] d.kind = "alias" -> IF IsArray(d.target) THEN ArrayActions(d, r) ELSE << >>

Filled(i, spec, lhs, src) ==
    RenameVar(spec.rhs, [x \in {<<"PIN", k>> : k \in 1 .. MaxInputs} \cup {Source} |->
                            IF x = Source THEN src ELSE Pin(i, x[2])])

AddTypeOp(r) ==
    /\ Loads /\ IsNode(r.node) /\ r.type \in Fields(Full.types)
    /\ LET actions == TypeActions(Named(Full.types, r.type), r)
           specs == actions[r.action]
           n == NodeOf(r)
           names == FreshNames([k \in DOMAIN specs |-> specs[k].base], Vars(n))
           eq(k) == [lhs |-> <<names[k]>>, tag |-> Tag(k),
                     rhs |-> Filled(Len(n.eqs) + k, specs[k], names[k], names[1])]
       IN  /\ r.action \in DOMAIN actions /\ specs # << >>
           /\ Edited(Dropped(n, names, [k \in DOMAIN specs |-> specs[k].type],
                             [k \in DOMAIN specs |-> eq(k)]))
-------------------------------------------------------------------------------
(* add_expression_response: an expression with a type in the operator as   *)
(* the loaded project has it.                                              *)
AddExpression(r) ==
    /\ Loads /\ IsNode(r.node)
    /\ LET type == InferInNode(Full, r.node, r.rhs)
       IN  type # {} /\ Edited(DroppedOne(NodeOf(r), <<"expr">>, The(type), r.rhs))
===============================================================================
