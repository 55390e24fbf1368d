------------------------------- MODULE Execution -------------------------------
(***************************************************************************)
(* A cycle of an operator without clocks, computed by three: the simulator *)
(* (ol_sim), the C that ol_clite_emit generates, and the view that the     *)
(* prover is given, which computes with the integers of mathematics.       *)
(*                                                                         *)
(* A program has who runs it (by), its nodes as code, its types and its    *)
(* constants.  Booleans are 0 and 1, an array is the sequence of its       *)
(* elements, a record the function of its fields.  A result is whether     *)
(* there is one (ok): not after an error of the simulator, and not where   *)
(* C's behaviour is undefined; whether no integer left its C type on the   *)
(* way (exact); and the value.  A call tree's val is its call site.        *)
(***************************************************************************)
EXTENDS TypeCheck, PassOrder

Signed(base) == Min(IntegerValues[base]) < 0
Size(base) == Cardinality(IntegerValues[base])

\* Mutant: a stored value keeps the carrier's.
FitToCarrier(t, v, cx) == v

(* narrow_int: to the width of the type, two's complement.                 *)
Wrapped(base, n) == ((n - Min(IntegerValues[base])) % Size(base)) + Min(IntegerValues[base])

(* fit_to: v as a variable of type t holds it.                             *)
RECURSIVE FitTo(_, _, _)
FitTo(t, v, cx) ==
    LET r == Resolve(t, cx)
    IN  CASE IsArray(r) -> Computed([k \in DOMAIN v |-> FitTo(Type(r.base, Tail(r.dims)), v[k], cx)])
          [] IsInteger(r) -> Wrapped(r.base, v)
          [] ~IsArray(r) /\ r.base \in DOMAIN cx.records ->
                Tabulated([x \in DOMAIN v |-> FitTo(PortNamed(cx.records[r.base], x).type, v[x], cx)])
          [] OTHER -> v

Absolute(n) == IF n < 0 THEN -n ELSE n

(* C's division and remainder (the view's __ol_div and __ol_mod), with some*)
(* value where there is none.                                              *)
TruncDiv(a, b) ==
    LET q == Absolute(a) \div Absolute(b)
    IN  IF b = 0 THEN 0 ELSE IF (a >= 0) = (b >= 0) THEN q ELSE -q
TruncMod(a, b) == a - b * TruncDiv(a, b)

Calculated(op, a, b) ==
    CASE op = "add" -> a + b [] op = "sub" -> a - b [] op = "mul" -> a * b
      [] op = "div" -> TruncDiv(a, b) [] op = "mod" -> TruncMod(a, b)

Connected(op, a, b) ==
    CASE op = "and" -> a * b
      [] op = "or" -> Truth(a + b > 0)
      [] op = "xor" -> Truth(a # b)
      [] op = "implies" -> Truth(a <= b)

Related(op, a, b) ==
    CASE op = "eq" -> Truth(a = b) [] op = "neq" -> Truth(a # b)
      [] op = "lt" -> Truth(a < b) [] op = "le" -> Truth(a <= b)
      [] op = "gt" -> Truth(a > b) [] op = "ge" -> Truth(a >= b)
-------------------------------------------------------------------------------
Narrow == {"int8", "uint8"}
PromotedBase(base) == IF base \in Narrow THEN "int32" ELSE base

(* The usual arithmetic conversions, for values that are not integers too. *)
Common(a, b) ==
    IF {PromotedBase(a), PromotedBase(b)} = {"int32", "uint32"} THEN "uint32" ELSE PromotedBase(a)

(* The type e is computed in, in C (of a comparison, that of what it       *)
(* compares): a literal is an int, whatever the model says.                *)
RECURSIVE CType(_, _)
CType(e, cx) ==
    LET of(j) == IF e.args[j].op \in Equality \cup Ordering THEN "bool" ELSE CType(e.args[j], cx)
    IN  CASE e.op = "const" -> "int32"
          [] e.op = "neg" -> PromotedBase(of(1))
          [] e.op \in Arithmetic \cup Equality \cup Ordering \cup {"arrow"} -> Common(of(1), of(2))
          [] e.op = "if" -> Common(of(2), of(3))
          [] OTHER -> Resolve(The(Infer(e, {}, cx).ty), cx).base

(* e with that type as the name of each operation and choice.              *)
RECURSIVE WithCTypes(_, _)
WithCTypes(e, cx) ==
    WithArgs(IF e.op \in Arithmetic \cup Equality \cup Ordering \cup {"neg", "if", "arrow"}
             THEN [e EXCEPT !.name = <<CType(e, cx)>>] ELSE e,
             [j \in DOMAIN e.args |-> WithCTypes(e.args[j], cx)])
-------------------------------------------------------------------------------
Result(ok, exact, val) == [ok |-> ok, exact |-> exact, val |-> val]
Exactly(v) == Result(TRUE, TRUE, v)
Fault == Result(FALSE, TRUE, 0)

(* An operation of this C type has result n: in C signed overflow is       *)
(* undefined, and unsigned wraps; the simulator carries on with n.         *)
InType(base, n, by) ==
    CASE n \in IntegerValues[base] -> Exactly(n)
      [] n \notin IntegerValues[base] /\ by = "sim" -> Result(TRUE, FALSE, n)
      [] n \notin IntegerValues[base] /\ by = "c" ->
            IF Signed(base) THEN Fault ELSE Result(TRUE, FALSE, Wrapped(base, n))

(* a % b overflows when a / b does.                                        *)
ArithmeticResult(e, a, b, by) ==
    CASE by = "view" -> Exactly(Calculated(e.op, a, b))
      [] by # "view" /\ e.op \in {"div", "mod"} /\ b = 0 -> Fault
      [] by # "view" /\ e.op = "mod" /\ b # 0 ->
            [InType(e.name[1], TruncDiv(a, b), by) EXCEPT !.val = TruncMod(a, b)]
      [] OTHER -> InType(e.name[1], Calculated(e.op, a, b), by)

\* In C the operands are converted to their common type first.
Converted(e, vals, by) ==
    IF by = "c" /\ e.name # << >> /\ e.name[1] \in DOMAIN IntegerValues
    THEN Computed([k \in DOMAIN vals |-> Wrapped(e.name[1], vals[k])]) ELSE vals

Alike(r, exact) == [r EXCEPT !.exact = @ /\ exact]

IndexResult(array, i, by) ==
    CASE i + 1 \in DOMAIN array -> Exactly(array[i + 1])
      [] i + 1 \notin DOMAIN array /\ by = "view" -> Exactly(array[1])
      [] OTHER -> Fault

StructOf(e, vals) ==
    Tabulated([x \in {<<e.name[j]>> : j \in 2 .. Len(e.name)} |->
        vals[CHOOSE j \in DOMAIN vals : <<e.name[j + 1]>> = x]])

(* The result of e where its operands have these values.                   *)
Operation(e, given, pr) ==
    LET vals == Converted(e, given, pr.by)
        same == vals = given
    IN  CASE e.op \in Arithmetic -> Alike(ArithmeticResult(e, vals[1], vals[2], pr.by), same)
          [] e.op \in Equality \cup Ordering -> Alike(Exactly(Related(e.op, vals[1], vals[2])), same)
          [] e.op \in Logical -> Exactly(Connected(e.op, given[1], given[2]))
          [] e.op = "not" -> Exactly(1 - given[1])
          [] e.op = "neg" -> IF pr.by = "view" THEN Exactly(-given[1]) ELSE InType(e.name[1], -given[1], pr.by)
          [] e.op \in {"cast", "wrap"} -> Exactly(Wrapped(e.name[1], given[1]))
          [] e.op = "field" -> Exactly(given[1][e.name])
          [] e.op = "index" -> IndexResult(given[1], given[2], pr.by)
          [] e.op = "struct" ->
                LET v == StructOf(e, given)
                    fit == IF pr.by = "c" THEN FitTo(Scalar(e.name[1]), v, pr.cx) ELSE v
                IN  Result(TRUE, fit = v, fit)
          [] e.op \in {"array", "tuple"} -> Exactly(given)
-------------------------------------------------------------------------------
Fresh == [begun |-> FALSE, prev |-> << >>, inst |-> << >>]
Instance(site, inst) == IF site \in DOMAIN inst THEN inst[site] ELSE Fresh

RECURSIVE Evaluate(_, _)
RECURSIVE Step(_, _, _, _)

Followed(acc, r) ==
    [ok |-> r.ok, exact |-> acc.exact /\ r.exact, val |-> Append(acc.val, r.val), inst |-> r.inst]

(* Expressions in order, up to the first without a value.                  *)
Evaluated(es, fr) ==
    FoldLeft(LAMBDA acc, e : IF acc.ok THEN Followed(acc, Evaluate(e, [fr EXCEPT !.inst = acc.inst])) ELSE acc,
             [ok |-> TRUE, exact |-> TRUE, val |-> << >>, inst |-> fr.inst], es)

(* A call steps its instance, a function a fresh one; where the callee has *)
(* an error the instance is lost.                                          *)
Called(e, args, stepped) ==
    [ok |-> stepped.ok, exact |-> args.exact /\ stepped.exact,
     val |-> IF Len(stepped.outs) = 1 THEN stepped.outs[1] ELSE stepped.outs,
     inst |-> IF ~stepped.ok THEN [s \in DOMAIN args.inst \ {e.val} |-> args.inst[s]]
              ELSE IF stepped.mem = Fresh THEN args.inst
              ELSE (e.val :> stepped.mem) @@ args.inst]

Applied(acc, stepped) ==
    [acc EXCEPT !.ok = stepped.ok, !.exact = @ /\ stepped.exact, !.val = stepped.outs[1]]
AppliedNext(acc, stepped) ==
    [acc EXCEPT !.ok = stepped.ok, !.exact = @ /\ stepped.exact, !.val = Append(@, stepped.outs[1])]

(* map and fold: the function f on one element after the other.            *)
MapResult(f, args, pr) ==
    FoldLeft(LAMBDA acc, k :
                 IF acc.ok THEN AppliedNext(acc, Step(f, Computed([j \in DOMAIN args.val |-> args.val[j][k]]), Fresh, pr))
                 ELSE acc,
             [args EXCEPT !.val = << >>], [k \in DOMAIN args.val[1] |-> k])
FoldResult(f, args, pr) ==
    FoldLeft(LAMBDA acc, x : IF acc.ok THEN Applied(acc, Step(f, <<acc.val, x>>, Fresh, pr)) ELSE acc,
             [args EXCEPT !.val = @[1]], args.val[2])

OfArguments(e, args, fr) ==
    IF ~args.ok THEN args
    ELSE CASE e.op = "call" ->
                 Called(e, args, Step(fr.pr.nodes[e.name], args.val, Instance(e.val, args.inst), fr.pr))
           [] e.op = "map" -> MapResult(fr.pr.nodes[e.name], args, fr.pr)
           [] e.op = "fold" -> FoldResult(fr.pr.nodes[e.name], args, fr.pr)
           [] OTHER -> LET r == Operation(e, args.val, fr.pr)
                       IN  Alike(r, args.exact) @@ [inst |-> args.inst]

(* C stops at a left operand that decides.                                 *)
Decided(e, first) ==
    \/ e.op \in {"and", "implies"} /\ first.val = 0
    \/ e.op = "or" /\ first.val = 1

ShortCircuit(e, first, fr) ==
    IF first.ok /\ Decided(e, first) THEN [first EXCEPT !.val = IF e.op = "and" THEN 0 ELSE 1]
    ELSE OfArguments(e, Evaluated(e.args, fr), fr)

(* step_untaken: the simulator steps the calls of the side that is not     *)
(* taken.  (In C and in the view, calls are statements of their own.)      *)
Chosen(e, r, v, other, fr) ==
    [ok |-> TRUE, exact |-> r.exact /\ v = r.val, val |-> v,
     inst |-> IF "call" \in Ops(other) THEN Evaluate(other, [fr EXCEPT !.inst = r.inst]).inst ELSE r.inst]

Choice(e, r, other, fr) ==
    IF ~r.ok THEN r ELSE Chosen(e, r, Converted(e, <<r.val>>, fr.pr.by)[1], other, fr)

\* The first of these two sides is taken.
Side(e, sides, fr) == Choice(e, Evaluate(e.args[sides[1]], fr), e.args[sides[2]], fr)

Branched(e, cond, fr) ==
    IF ~cond.ok THEN cond
    ELSE Alike(Side(e, IF cond.val = 1 THEN <<2, 3>> ELSE <<3, 2>>, [fr EXCEPT !.inst = cond.inst]), cond.exact)

(* In C the memory of a pre starts at zero; the simulator refuses to read  *)
(* it, and in the view it is arbitrary.                                    *)
Previous(x, fr) ==
    CASE fr.begun -> Exactly(fr.prev[x])
      [] ~fr.begun /\ fr.pr.by = "sim" -> Fault
      [] ~fr.begun /\ fr.pr.by # "sim" -> Exactly(0)

(* The value of e in a frame: the program, the values of this cycle and of *)
(* the one before it, whether there was one, and the states of the calls.  *)
Evaluate(e, fr) ==
    CASE e.op \in {"const", "bool"} -> Exactly(e.val) @@ [inst |-> fr.inst]
      [] e.op = "var" -> Exactly(fr.env[e.name]) @@ [inst |-> fr.inst]
      [] e.op = "pre" -> Previous(e.args[1].name, fr) @@ [inst |-> fr.inst]
      [] e.op = "if" -> Branched(e, Evaluate(e.args[1], fr), fr)
      [] e.op = "arrow" -> Side(e, IF fr.begun THEN <<2, 1>> ELSE <<1, 2>>, fr)
      [] e.op \in {"and", "or", "implies"} /\ fr.pr.by = "c" ->
            ShortCircuit(e, Evaluate(e.args[1], fr), fr)
      [] OTHER -> OfArguments(e, Evaluated(e.args, fr), fr)
-------------------------------------------------------------------------------
Kept(t, v, pr) == IF pr.by = "view" THEN v ELSE FitTo(t, v, pr.cx)

Begun(n, args, ins, mem, pr) ==
    [ok |-> TRUE, exact |-> ins = args, inst |-> mem.inst,
     env |-> [x \in Fields(n.ins) |-> ins[CHOOSE j \in DOMAIN ins : n.ins[j].name = x]] @@ pr.consts]

(* bind_lhs: each name holds its value as its type does.                   *)
Assigned(acc, lhs, given, kept, r) ==
    [ok |-> TRUE, exact |-> acc.exact /\ r.exact /\ kept = given, inst |-> r.inst,
     env |-> [x \in ToSet(lhs) |-> kept[CHOOSE k \in DOMAIN lhs : lhs[k] = x]] @@ acc.env]

Stored(acc, n, lhs, given, r, pr) ==
    Assigned(acc, lhs, given,
             Computed([k \in DOMAIN given |->
                 IF lhs[k] \in DOMAIN n.types THEN Kept(n.types[lhs[k]], given[k], pr) ELSE given[k]]), r)

Bind(acc, n, eq, r, pr) ==
    IF ~r.ok THEN [acc EXCEPT !.ok = FALSE]
    ELSE Stored(acc, n, eq.lhs, IF Len(eq.lhs) = 1 THEN <<r.val>> ELSE r.val, r, pr)

Frame(acc, mem, pr) ==
    [pr |-> pr, env |-> acc.env, prev |-> mem.prev, begun |-> mem.begun, inst |-> acc.inst]

Ended(n, acc) ==
    IF ~acc.ok THEN [ok |-> FALSE, exact |-> acc.exact, outs |-> << >>, mem |-> Fresh, env |-> << >>]
    ELSE [ok |-> TRUE, exact |-> acc.exact, env |-> acc.env,
          outs |-> Computed([j \in DOMAIN n.outs |-> acc.env[n.outs[j].name]]),
          mem |-> IF n.kind = "function" THEN Fresh
                  ELSE [begun |-> TRUE, prev |-> Tabulated(Restrict(acc.env, n.held)), inst |-> acc.inst]]

(* step_instance, call_function_values and the C's <node>_step: a cycle of *)
(* node n on these arguments, with this memory.                            *)
Run(n, args, mem, pr) ==
    FoldLeft(LAMBDA acc, eq :
                 IF acc.ok THEN Bind(acc, n, eq, Evaluate(eq.rhs, Frame(acc, mem, pr)), pr) ELSE acc,
             Begun(n, args, Computed([j \in DOMAIN args |-> Kept(n.ins[j].type, args[j], pr)]), mem, pr), n.code)

Step(n, args, mem, pr) == Ended(n, Run(n, args, mem, pr))
-------------------------------------------------------------------------------
(* The calls of e that are not the whole right-hand side become equations  *)
(* of their own, of variables with this tag.                               *)
HoistedTo(x, before, rest) == [e |-> Var(x), eqs |-> Append(before, [lhs |-> <<x>>, rhs |-> rest])]
HoistedOver(e, whole, tag, args) ==
    LET before == FlattenSeq([j \in DOMAIN args |-> args[j].eqs])
        rest == WithArgs(e, [j \in DOMAIN args |-> args[j].e])
    IN  IF e.op = "call" /\ ~whole THEN HoistedTo(tag \o e.val, before, rest) ELSE [e |-> rest, eqs |-> before]

RECURSIVE Hoisted(_, _, _)
Hoisted(e, whole, tag) ==
    HoistedOver(e, whole, tag, Computed([j \in DOMAIN e.args |-> Hoisted(e.args[j], FALSE, tag)]))

Depends(eqs, reads) == {k \in DOMAIN eqs : ToSet(eqs[k].lhs) \cap reads # {}}
Taken(eqs, order) == [k \in DOMAIN order |-> eqs[order[k]]]
InOrder(eqs) ==
    Taken(eqs, OrderOf(Computed([j \in DOMAIN eqs |-> Depends(eqs, SameCycleReads(eqs[j].rhs))])))

(* An equation in C: the blocks of its calls, then its assignment.         *)
Statements(eq) ==
    LET h == Hoisted(eq.rhs, TRUE, <<"__out">>) IN Append(h.eqs, [lhs |-> eq.lhs, rhs |-> h.e])

WithTypes(eqs, cx) ==
    Computed([j \in DOMAIN eqs |-> [lhs |-> eqs[j].lhs, rhs |-> WithCTypes(eqs[j].rhs, cx)]])

Blocks(eqs) == FlattenSeq([j \in DOMAIN eqs |-> Statements(eqs[j])])
Code(n, by, cx) ==
    LET eqs == InOrder(IF by = "view" THEN n.eqs ELSE WithTypes(n.eqs, cx))
    IN  IF by = "c" THEN Blocks(eqs) ELSE eqs

Scope(n, tables) == tables @@ [env |-> Environment(n), kind |-> n.kind]

Held(n) ==
    UNION {FreeVars(e) : e \in UNION {{x \in ToSet(Subexpressions(n.eqs[j].rhs)) : x.op = "pre"} : j \in DOMAIN n.eqs}}

Compiled(n, by, tables) ==
    [kind |-> n.kind, ins |-> n.ins, outs |-> n.outs, types |-> Environment(n), held |-> Held(n),
     code |-> Computed(Code(n, by, Scope(n, tables)))]

(* integer_constants: a constant is a literal, or one negated.             *)
LiteralValue(e) == IF e.op = "neg" THEN -e.args[1].val ELSE e.val
Constants(p) == Tabulated([x \in Fields(p.consts) |-> LiteralValue(PortNamed(p.consts, x).value)])

\* Project p, run by the simulator, as C, or as the view.
Program(p, by, tables) ==
    [by |-> by, cx |-> tables, consts |-> Constants(p),
     nodes |-> Tabulated([f \in Fields(p.nodes) |-> Compiled(PortNamed(p.nodes, f), by, tables)])]
===============================================================================
