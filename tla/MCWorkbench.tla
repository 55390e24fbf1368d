------------------------------ MODULE MCWorkbench ------------------------------
(* Small models being edited: two operators of which one calls the other,  *)
(* a function, a contract, a machine and an activation.                    *)
EXTENDS WorkbenchChecks

c == <<"c">>  d == <<"d">>  g == <<"g">>  h == <<"h">>  m == <<"m">>  o == <<"o">>  p == <<"p">>
q == <<"q">>  u == <<"u">>  v == <<"v">>  w == <<"w">>  x == <<"x">>  y == <<"y">>  z == <<"z">>
B == <<"B">>  D == <<"D">>  F == <<"F">>  G == <<"G">>  H == <<"H">>  K == <<"K">>  C == <<"C">>
Fast == <<"Fast">>  Slow == <<"Slow">>  On == <<"On">>  Off == <<"Off">>

Ints(names) == [j \in DOMAIN names |-> Port(names[j], Int32)]
Bools(names) == [j \in DOMAIN names |-> Port(names[j], BoolType)]
Invoke(f, args) == Tree("call", f, 0, args)
Op2(op, a, b) == Tree(op, << >>, 0, <<a, b>>)
Let(lhs, rhs) == [lhs |-> lhs, rhs |-> rhs]

\* The equations of an operator are numbered when the session begins.
Node(name, kind, ins, outs, locals, eqs) ==
    [EmptyNode(name, kind) EXCEPT !.ins = ins, !.outs = outs, !.locals = locals,
        !.eqs = [j \in DOMAIN eqs |-> eqs[j] @@ [tag |-> <<"given", j>>]]]
Attached(n, contract) == [n EXCEPT !.contract = contract, !.probes = <<o>>]

File(nodes, contracts, machines, acts) ==
    [nodes |-> nodes, types |-> << >>, consts |-> << >>, contracts |-> contracts,
     machines |-> machines, acts |-> acts, main |-> << >>]

Alias(name, type) == [kind |-> "alias", name |-> name, target |-> type, fields |-> << >>, variants |-> << >>]
Record(name, fields) == [Alias(name, BoolType) EXCEPT !.kind = "record", !.fields = fields]
EnumType(name, variants) == [Alias(name, BoolType) EXCEPT !.kind = "enum", !.variants = variants]
Constant(name, n) == [name |-> name, type |-> Int32, value |-> Const(n)]

Types == [types |-> <<Alias("Vec", Type("int32", <<2>>)), Record("Rec", Ints(<<x>>) \o Bools(<<c>>)),
                      EnumType("Mode", <<Fast, Slow>>)>>,
          consts |-> <<Constant(K, 1)>>]
-------------------------------------------------------------------------------
\* F adds, G delays what it adds and has the contract C, H calls G.
NodeF == Node(F, "function", Ints(<<x, y>>), Ints(<<z>>), << >>,
              <<Let(<<z>>, Add(Add(Var(x), Var(y)), Var(K)))>>)
NodeG == Node(G, "operator", Bools(<<c>>) \o Ints(<<x>>), Ints(<<o>>) \o Bools(<<q>>), Ints(<<w>>),
              <<Let(<<w>>, Arrow(Const(0), Pre(o))), Let(<<o>>, Invoke(F, <<Var(x), Var(w)>>)),
                Let(<<q>>, Op2("ge", Var(x), Var(w)))>>)
NodeH == Node(H, "operator", Bools(<<c>>) \o Ints(<<x>>), Ints(<<y>>), Bools(<<m>>),
              <<Let(<<y, m>>, Invoke(G, <<Var(c), Var(x)>>))>>)

Clause(op, a, b) == Tree(op, << >>, 0, <<a, b>>)
GhostG == <<[name |-> g, type |-> Int32, def |-> Arrow(Var(x), Pre(o))]>>
ContractG(guarantee) ==
    [name |-> C, ghosts |-> GhostG, assumes |-> <<Op2("ge", Var(x), Const(0))>>,
     guarantees |-> <<guarantee>>,
     modes |-> <<[requires |-> <<Var(c)>>, ensures |-> <<Op2("ge", Invoke(F, <<Var(o), Var(g)>>), Var(g))>>]>>]
ContractOfD(guarantee) ==
    [ContractG(guarantee) EXCEPT
        !.modes = <<[requires |-> <<Var(c), Not(Var(d))>>, ensures |-> <<Op2("ge", Var(p), Var(g))>>]>>]
Within(n, contract) == contract @@ [ins |-> n.ins, outs |-> n.outs, imports |-> << >>]
Promise == Op2("implies", Var(c), Op2("ge", Var(o), Var(g)))

Plainly == File(<<NodeF, Attached(NodeG, C), NodeH>>, <<Within(NodeG, ContractG(Promise))>>, << >>, << >>)
-------------------------------------------------------------------------------
WiringRequests ==
    <<[edit |-> "set layout", node |-> G],
      [edit |-> "remove equation", node |-> G, index |-> 1],
      [edit |-> "remove equation", node |-> G, index |-> 4],
      [edit |-> "update equation", node |-> G, index |-> 3, lhs |-> <<q>>, rhs |-> Op2("lt", Var(o), Var(v))],
      [edit |-> "add equation", node |-> G, lhs |-> <<v>>, rhs |-> Var(K)],
      [edit |-> "add local", node |-> G, name |-> v, type |-> Int32],
      [edit |-> "add block call", node |-> H, callee |-> F],
      [edit |-> "add block call", node |-> G, callee |-> F],
      [edit |-> "add operation", node |-> G, op |-> "plus", inputs |-> 3, param |-> 0],
      [edit |-> "add operation", node |-> G, op |-> "merge", inputs |-> 3, param |-> 0],
      [edit |-> "add operation", node |-> G, op |-> "init_pre", inputs |-> 2, param |-> 0],
      [edit |-> "set operation inputs", node |-> G, index |-> 4, inputs |-> 2],
      [edit |-> "set operation inputs", node |-> G, index |-> 4, inputs |-> 5],
      [edit |-> "add local", node |-> G, name |-> Pin(4, 4), type |-> Int32],
      [edit |-> "add expression", node |-> G, rhs |-> Op2("gt", Add(Var(x), Var(w)), Var(K))],
      [edit |-> "add expression", node |-> G, rhs |-> Op2("and", Var(x), Var(c))]>>

Wiring == [model |-> Plainly, typesFile |-> Types, requests |-> WiringRequests]

\* An operator after a removal: its third equation was dropped as the fourth.
Unwired == Add(Add(Var(Pin(4, 1)), Var(Pin(4, 2))), Var(Pin(4, 3)))
NodeS == Node(G, "operator", Ints(<<x>>), Ints(<<o>>), Ints(<<u, w>>),
              <<Let(<<w>>, Arrow(Const(0), Pre(o))), Let(<<o>>, Add(Var(x), Var(w))), Let(<<u>>, Unwired)>>)
Shifted ==
    [model |-> File(<<NodeS>>, << >>, << >>, << >>), typesFile |-> Types,
     requests |->
        <<[edit |-> "add operation", node |-> G, op |-> "plus", inputs |-> 2, param |-> 0],
          [edit |-> "set operation inputs", node |-> G, index |-> 4, inputs |-> 2],
          [edit |-> "set operation inputs", node |-> G, index |-> 4, inputs |-> 3],
          [edit |-> "set operation inputs", node |-> G, index |-> 3, inputs |-> 5],
          [edit |-> "add local", node |-> G, name |-> Pin(3, 4), type |-> Int32],
          [edit |-> "remove equation", node |-> G, index |-> 1]>>]

-------------------------------------------------------------------------------
(* D has a contract, an activation that drives p and a machine that drives *)
(* o, one of whose states refines the machine Base, of B; H calls D.       *)
State(name, eqs, trans, refines) ==
    [name |-> name, eqs |-> eqs, trans |-> trans, regions |-> << >>, refines |-> refines]
To(guard, target) == <<[guard |-> guard, target |-> target]>>
Machine(name, owner, outputs, states) ==
    [name |-> name, owner |-> owner, outputs |-> outputs, initial |-> states[1].name,
     states |-> states, layout |-> {states[1].name}]
Branch(name, cond, eqs) == [name |-> name, cond |-> cond, eqs |-> eqs]
Activation(name, owner, output, type, cond, then, otherwise) ==
    [name |-> name, owner |-> owner, outputs |-> {output}, types |-> output :> type,
     branches |-> <<Branch("P", cond, <<Equation(output, then)>>)>>,
     otherwise |-> <<Equation(output, otherwise)>>]

OneOf(first, second) == <<State(first, <<Equation(o, Var(x))>>, To(Var(c), second), "none")>>
BaseMachine(name, first, second, value) ==
    Machine(name, B, {o}, OneOf(first, second)
                \o <<State(second, <<Equation(o, value)>>, To(Not(Var(c)), first), "none")>>)
Switch(refines) ==
    Machine("Switch", D, {o},
        <<State(Off, <<Equation(o, Add(Var(w), Var(x)))>>, To(Op2("gt", Var(x), Var(w)), On), "none"),
          State(On, << >>, To(Var(d), Off), refines)>>)
Select2(type, then) ==
    Activation("Select", D, p, type, Op2("and", Var(d), Op2("gt", Var(o), Const(0))), then, LastOf(p, << >>))

NodeB == Node(B, "operator", Bools(<<c>>) \o Ints(<<x, y>>), Ints(<<o>>), << >>, << >>)
NodeD == Node(D, "operator", Bools(<<c, d>>) \o Ints(<<x>>), Ints(<<o, p>>), Ints(<<w>>),
              <<Let(<<w>>, Arrow(Const(0), Pre(o)))>>)
CallerOfD == Node(H, "operator", Bools(<<c, d>>) \o Ints(<<x>>), Ints(<<y>>), Ints(<<m>>),
                  <<Let(<<y, m>>, Invoke(D, <<Var(c), Var(d), Var(x)>>))>>)

Owners ==
    File(<<NodeB, Attached(NodeD, C), CallerOfD>>, <<Within(NodeD, ContractOfD(Promise))>>,
         <<BaseMachine("Base", <<"Rest">>, <<"Move">>, Const(1)), Switch("Base")>>,
         <<Select2(Int32, Var(x))>>)

Rename(old, new, type, role) ==
    [edit |-> "update port", node |-> D, name |-> old, to |-> new, type |-> type, role |-> role]
InterfaceRequests ==
    <<Rename(x, u, {}, "input"), Rename(o, v, {}, "output"), Rename(p, u, {}, "output"),
      Rename(w, g, {}, "local"), Rename(c, d, {}, "input"), Rename(d, v, {Int8}, "input"),
      Rename(p, p, {BoolType}, "output"), Rename(w, w, {}, "output"), Rename(o, o, {}, "local"),
      [edit |-> "add port", node |-> D, name |-> u, type |-> Int32, side |-> "input"],
      [edit |-> "add port", node |-> D, name |-> v, type |-> BoolType, side |-> "output"],
      [edit |-> "remove port", node |-> D, name |-> x],
      [edit |-> "remove port", node |-> D, name |-> p],
      [edit |-> "add probe", node |-> D, name |-> w],
      [edit |-> "remove probe", node |-> D, index |-> 1],
      [edit |-> "set layout", node |-> D]>>

\* Where no machine refines another, a renaming reaches all of it.
Alone ==
    [Owners EXCEPT !.machines =
        <<@[1], [Switch("none") EXCEPT !.states[2].eqs = <<Equation(o, Var(x))>>]>>]
Interface == [model |-> Alone, typesFile |-> Types, requests |-> InterfaceRequests]
Refining == [model |-> Owners, typesFile |-> Types,
             requests |-> SubSeq(InterfaceRequests, 1, 4) \o SubSeq(InterfaceRequests, 12, 13)]
-------------------------------------------------------------------------------
Toggle(first, second, output, then, refines) ==
    Machine("Toggle", H, {output},
        <<State(first, <<Equation(output, then)>>, To(Var(c), second), "none"),
          State(second, <<Equation(output, Const(1))>>, To(Not(Var(c)), first), refines)>>)
Day == <<"Day">>  Night == <<"Night">>

ConstructRequests ==
    <<[edit |-> "add machine", machine |-> Toggle(Day, Night, z, Var(x), "none")],
      [edit |-> "add machine", machine |-> Toggle(Fast, Slow, z, Var(x), "none")],
      [edit |-> "add machine", machine |-> Toggle(Day, Night, m, Var(y), "none")],
      [edit |-> "add machine", machine |-> Toggle(Day, Night, z, Var(x), "Toggle")],
      [edit |-> "add local", node |-> H, name |-> z, type |-> Int32],
      [edit |-> "update machine", machine |-> BaseMachine("Base", <<"Rest">>, <<"Go">>, Var(y))],
      [edit |-> "update machine", machine |-> Switch("none")],
      [edit |-> "update machine", machine |-> [Switch("Base") EXCEPT !.initial = On]],
      [edit |-> "set fsm layout", machine |-> "Base", placed |-> {<<"Move">>}],
      [edit |-> "remove machine", machine |-> "Base"],
      [edit |-> "remove machine", machine |-> "Switch"],
      [edit |-> "set main", node |-> <<"Base">>],
      [edit |-> "add activation", act |-> [Select2(Int32, Var(x)) EXCEPT !.name = "More", !.owner = B]],
      [edit |-> "add activation", act |-> Activation("Hold", H, z, Int32, Var(d), Var(x), LastOf(z, << >>))],
      [edit |-> "update activation", act |-> Select2(Int32, Add(Var(x), Var(w)))],
      [edit |-> "update activation", act |-> Select2(BoolType, Var(d))],
      [edit |-> "remove activation", act |-> "Select"],
      [edit |-> "add contract", node |-> H, contract |-> [ContractOfD(Promise) EXCEPT !.name = <<"E">>]],
      [edit |-> "add contract", node |-> B,
       contract |-> [name |-> <<"CB">>, ghosts |-> << >>, assumes |-> <<Op2("ge", Var(y), Const(0))>>,
                     guarantees |-> <<Op2("ge", Var(o), Var(y))>>, modes |-> << >>]],
      [edit |-> "update contract", node |-> D, contract |-> ContractOfD(Op2("lt", Var(p), Const(3)))],
      [edit |-> "update contract", node |-> D, contract |-> ContractOfD(Op2("lt", Var(p), Var(d)))],
      [edit |-> "update contract", node |-> H, contract |-> ContractOfD(Promise)],
      [edit |-> "remove contract", name |-> C]>>

ConstructsOf == [model |-> Owners, typesFile |-> Types, requests |-> ConstructRequests]
-------------------------------------------------------------------------------
(* An operator over the types: a record, an array and an enumeration.      *)
Rec == Scalar("Rec")
Vec == Scalar("Vec")
Mode == Scalar("Mode")
NodeT == Node(<<"T">>, "operator", <<Port(x, Rec), Port(y, Vec), Port(c, Mode)>>, Ints(<<o>>), << >>,
              <<Let(<<o>>, Add(Tree("field", x, 0, <<Var(x)>>), Tree("index", << >>, 0, <<Var(y), Const(1)>>)))>>)
Typed2 == [File(<<NodeF, NodeT>>, << >>, << >>, << >>) EXCEPT
              !.types = <<Alias("Own", Int8)>>, !.consts = <<Constant(g, 2)>>]

TypeOp(type, action, param, result) ==
    [edit |-> "add type op", node |-> <<"T">>, type |-> type, action |-> action, param |-> param, result |-> result]
TypeRequests ==
    <<TypeOp("Rec", "make", << >>, ""), TypeOp("Rec", "flatten", << >>, ""),
      TypeOp("Vec", "make", <<1, 1>>, ""), TypeOp("Vec", "flatten", <<1, 1>>, ""),
      TypeOp("Vec", "slice", <<1, 1>>, ""), TypeOp("Vec", "slice", <<1, 2>>, ""),
      TypeOp("Mode", "variant", Fast, "int32"), TypeOp("Mode", "compare", Slow, "int32"),
      TypeOp("Mode", "match", Slow, "int32"),
      [edit |-> "add iterator", node |-> <<"T">>, op |-> "map", function |-> F, length |-> 2],
      [edit |-> "add iterator", node |-> <<"T">>, op |-> "fold", function |-> F, length |-> 2],
      [edit |-> "add type", type |-> EnumType("Mood", <<On, Slow>>)],
      [edit |-> "add type", type |-> Alias("Rec", Int8)],
      [edit |-> "remove type", type |-> "Rec"], [edit |-> "remove type", type |-> "Own"],
      [edit |-> "add constant", const |-> Constant(h, 5)],
      [edit |-> "remove constant", name |-> K], [edit |-> "remove constant", name |-> g],
      [edit |-> "import lustre", nodes |-> <<NodeH, NodeG>>, types |-> << >>, consts |-> <<Constant(h, 3)>>],
      [edit |-> "import lustre", nodes |-> <<NodeF>>, types |-> << >>, consts |-> << >>],
      [edit |-> "import lustre", nodes |-> << >>, types |-> <<Alias("Rec", Int8)>>, consts |-> << >>],
      [edit |-> "add node", node |-> G, kind |-> "operator"]>>

TypesOf == [model |-> Typed2, typesFile |-> Types, requests |-> TypeRequests]

MCSessions == {Wiring, Shifted, Interface, Refining, ConstructsOf, TypesOf}

ASSUME NamesGivenOnce /\ LayoutsGiven /\ ContractsGiven /\ KeysApart
===============================================================================
