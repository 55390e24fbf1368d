-------------------------------- MODULE Projects --------------------------------
(***************************************************************************)
(* What a model consists of (ol_ir): expressions, types and definitions,   *)
(* each in a sequence, of which the name is a field.                       *)
(*                                                                         *)
(* An expression is a tree, cut down to what clocks, types and lowerings   *)
(* look at.  A name is a sequence, so that a generated name is the         *)
(* sequence of what it is made of.  A type is the name of its base and its *)
(* dimensions, outermost first.  Integers are scaled: int8 stands for the  *)
(* narrow types, int32 for the others.  An option is the empty set or a    *)
(* set of one element.                                                     *)
(***************************************************************************)
EXTENDS Integers, Sequences, FiniteSets, SequencesExt

The(option) == CHOOSE x \in option : TRUE

Tree(op, name, val, args) == [op |-> op, name |-> name, val |-> val, args |-> args]
Const(n) == Tree("const", << >>, n, << >>)
Bool(b) == Tree("bool", << >>, b, << >>)
Enum(s) == Tree("enum", s, 0, << >>)
Var(x) == Tree("var", x, 0, << >>)
Pre(x) == Tree("pre", << >>, 0, <<Var(x)>>)
Arrow(a, b) == Tree("arrow", << >>, 0, <<a, b>>)
When(e, c, on) == Tree("when", c, on, <<e>>)
Merge(c, t, f) == Tree("merge", c, 0, <<t, f>>)
If(c, t, f) == Tree("if", << >>, 0, <<c, t, f>>)
Not(a) == Tree("not", << >>, 0, <<a>>)
And(a, b) == Tree("and", << >>, 0, <<a, b>>)
Add(a, b) == Tree("add", << >>, 0, <<a, b>>)
Is(a, b) == Tree("eq", << >>, 0, <<a, b>>)
Call(site, a) == Tree("call", site, 0, <<a>>)  \* a call of a stateful node
LastOf(x, init) == Tree("last", x, 0, init)    \* init is << >> or one expression

Equation(x, e) == [lhs |-> x, rhs |-> e]

\* A clock is the sequence of its conditions from the base outward.
Base == << >>
Up(ck) == IF ck = Base THEN Base ELSE Front(ck)
Active(ck, env) == \A j \in DOMAIN ck : env[ck[j][1]] = ck[j][2]
Truth(b) == IF b THEN 1 ELSE 0
-------------------------------------------------------------------------------
Type(base, dims) == [base |-> base, dims |-> dims]
Scalar(base) == Type(base, << >>)
BoolType == Scalar("bool")
Int8 == Scalar("int8")
Int32 == Scalar("int32")
Uint8 == Scalar("uint8")
TupleType == Scalar("__tuple__")
UnitType == Scalar("__unit__")

IntegerValues == [int8 |-> -2 .. 1, uint8 |-> 0 .. 3, int32 |-> -8 .. 7, uint32 |-> 0 .. 15]

IsBool(t) == t = BoolType
IsInteger(t) == t.dims = << >> /\ t.base \in DOMAIN IntegerValues
IsNumeric(t) == IsInteger(t)
IsArray(t) == t.dims # << >>
FitsInInteger(n, t) == IsInteger(t) /\ n \in IntegerValues[t.base]

Temporal == {"pre", "arrow"}
Logical == {"and", "or", "xor", "implies"}
Equality == {"eq", "neq"}
Ordering == {"lt", "le", "gt", "ge"}
Arithmetic == {"add", "sub", "mul", "div", "mod"}
Bitwise == {"bitand", "bitor", "bitxor", "shl", "shr"}
Binary == Logical \cup Equality \cup Ordering \cup Arithmetic \cup Bitwise
Iterators == {"map", "fold"}
-------------------------------------------------------------------------------
Fields(ports) == {ports[j].name : j \in DOMAIN ports}
PortNamed(ports, x) == ports[CHOOSE j \in DOMAIN ports : ports[j].name = x]
Distinct(defs) == \A i, j \in DOMAIN defs : defs[i].name = defs[j].name => i = j
Named(defs, x) == defs[Min({j \in DOMAIN defs : defs[j].name = x})]

\* The variables of an operator, and a project with n in place of its namesake.
Vars(n) == Fields(n.ins \o n.outs \o n.locals)
WithNode(p, n) == [p EXCEPT !.nodes = [j \in DOMAIN @ |-> IF @[j].name = n.name THEN n ELSE @[j]]]

MachineNames(p) == {p.machines[j].name : j \in DOMAIN p.machines}
ByName(p) ==
    [m \in MachineNames(p) |-> p.machines[CHOOSE j \in DOMAIN p.machines : p.machines[j].name = m]]
===============================================================================
