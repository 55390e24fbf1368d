---------------------------- MODULE MCRuntimeChecks ----------------------------
(* Small projects, each about one way in which an integer may go wrong.     *)
EXTENDS RuntimeChecks

a == <<"a">>  b == <<"b">>  d == <<"d">>  g == <<"g">>  i == <<"i">>  n == <<"n">>  o == <<"o">>
q == <<"q">>  r == <<"r">>  s == <<"s">>  t == <<"t">>  u == <<"u">>  v == <<"v">>  w == <<"w">>
x == <<"x">>  y == <<"y">>  z == <<"z">>
Main == <<"Main">>  F == <<"F">>  G == <<"G">>  K == <<"K">>  Six == <<"Six">>

Uint32 == Scalar("uint32")
Op2(op, e, f) == Tree(op, << >>, 0, <<e, f>>)
Plus(e, f) == Op2("add", e, f)
Minus(e, f) == Op2("sub", e, f)
Times(e, f) == Op2("mul", e, f)
Over(e, f) == Op2("div", e, f)
Modulo(e, f) == Op2("mod", e, f)
Neg(e) == Tree("neg", << >>, 0, <<e>>)
Cast(to, e) == Tree("cast", <<to>>, 0, <<e>>)
Item(e, f) == Op2("index", e, f)
Get(e, field) == Tree("field", field, 0, <<e>>)
Invoke(f, site, args) == Tree("call", f, <<site>>, args)
MapOver(f, site, arrays) == Tree("map", f, <<site>>, arrays)
Fold(f, site, seed, array) == Tree("fold", f, <<site>>, <<seed, array>>)
Let(name, e) == [lhs |-> <<name>>, rhs |-> e]

Ports(names, type) == [j \in DOMAIN names |-> Port(names[j], type)]
Node(name, kind, ins, outs, locals, eqs) ==
    [name |-> name, kind |-> kind, ins |-> ins, outs |-> outs, locals |-> locals, eqs |-> eqs]
Project(nodes) == [nodes |-> nodes, root |-> Main, types |-> << >>, consts |-> << >>]
Alone(ins, outs, eqs) == Project(<<Node(Main, "operator", ins, outs, << >>, eqs)>>)
ConstantPort(name, type, value) == [name |-> name, type |-> type, value |-> value]
-------------------------------------------------------------------------------
Sums == Alone(Ports(<<a, b>>, Int8) \o Ports(<<u, v>>, Uint8), Ports(<<s>>, Int8) \o Ports(<<d>>, Uint8),
              <<Let(s, Plus(Var(a), Var(b))), Let(d, Minus(Var(u), Var(v)))>>)

Guards == Alone(Ports(<<x, y>>, Int32), Ports(<<q, r>>, Int32),
                <<Let(q, If(Op2("neq", Var(y), Const(0)), Over(Var(x), Var(y)), Const(0))),
                  Let(r, If(Op2("gt", Var(q), Const(2)), Times(Var(x), Var(y)), Neg(Var(q))))>>)

Connectives == Alone(Ports(<<x, y>>, Int32), Ports(<<q, r, s>>, BoolType),
                     <<Let(q, And(Op2("gt", Var(y), Const(0)), Op2("gt", Over(Var(x), Var(y)), Const(1)))),
                       Let(r, Op2("or", Op2("lt", Var(x), Const(7)), Op2("ge", Plus(Var(x), Const(1)), Const(2)))),
                       Let(s, Op2("implies", Var(r), Op2("eq", Modulo(Var(y), Const(3)), Var(x))))>>)

Unsigned == Alone(Ports(<<u, v>>, Uint32), Ports(<<d, w>>, Uint32),
                  <<Let(d, If(Op2("ge", Var(u), Var(v)), Minus(Var(u), Var(v)), Var(v))),
                    Let(w, Modulo(Plus(Var(u), Var(d)), Const(5)))>>)

\* A call is made whichever side is taken, its arguments with it.
Half == Node(F, "function", Ports(<<n>>, Int32), Ports(<<r>>, Int32), << >>, <<Let(r, Over(Var(n), Const(2)))>>)
Branches == Project(<<Half, Node(Main, "operator", Ports(<<g>>, BoolType) \o Ports(<<x>>, Int32), Ports(<<o>>, Int32), << >>,
                <<Let(o, If(Var(g), Invoke(F, 1, <<Over(Const(7), Var(x))>>), Var(x)))>>)>>)

Total == Node(G, "operator", Ports(<<n>>, Int8), Ports(<<t>>, Int8), << >>,
              <<Let(t, Arrow(Var(n), Plus(Pre(t), Var(n))))>>)
Totals == Project(<<Total, Node(Main, "operator", Ports(<<g>>, BoolType) \o Ports(<<a>>, Int8), Ports(<<o, s>>, Int8), << >>,
              <<Let(o, If(Var(g), Invoke(G, 1, <<Var(a)>>), Var(a))), Let(s, Invoke(G, 2, <<Var(o)>>))>>)>>)

\* Two levels of calls.
Ratio == Node(F, "function", Ports(<<x, y>>, Int32), Ports(<<r>>, Int32), << >>, <<Let(r, Over(Var(x), Var(y)))>>)
Mean == Node(G, "operator", Ports(<<x, y>>, Int32), Ports(<<o>>, Int32), Ports(<<t>>, Int32),
             <<Let(o, Invoke(F, 1, <<Var(x), Invoke(F, 2, <<Var(x), Var(y)>>)>>)), Let(t, Times(Var(o), Var(y)))>>)
Levels == Project(<<Ratio, Mean, Node(Main, "operator", Ports(<<x, y>>, Int32), Ports(<<o>>, Int32), << >>,
              <<Let(o, Invoke(G, 1, <<Var(x), Minus(Var(y), Const(1))>>))>>)>>)
-------------------------------------------------------------------------------
Pair == Type("int8", <<2>>)
Square == Node(F, "function", Ports(<<n>>, Int8), Ports(<<r>>, Int8), << >>, <<Let(r, Times(Var(n), Var(n)))>>)
Sum == Node(G, "function", Ports(<<a, b>>, Int8), Ports(<<r>>, Int8), << >>, <<Let(r, Plus(Var(a), Var(b)))>>)
Arrays == Project(<<Square, Sum, Node(Main, "operator", Ports(<<v>>, Pair) \o Ports(<<i>>, Int8),
              Ports(<<w>>, Pair) \o Ports(<<s, o>>, Int8), Ports(<<z>>, Pair),
              <<Let(w, MapOver(F, 1, <<Var(v)>>)), Let(s, Fold(G, 2, Const(0), Var(z))),
                Let(z, Tree("array", << >>, 0, <<Item(Var(v), Const(1)), Minus(Var(i), Item(Var(v), Const(0)))>>)),
                Let(o, Item(Var(w), Var(i)))>>)>>)

Records == [Alone(Ports(<<a, b>>, Int8), Ports(<<o>>, Int8),
                  <<Let(r, Tree("struct", <<"Rec", "x", "y">>, 0, <<Plus(Var(a), Var(b)), Var(b)>>)),
                    Let(o, If(Op2("eq", Get(Var(r), x), Var(a)), Get(Var(r), y), Get(Var(r), x)))>>)
            EXCEPT !.nodes[1].locals = <<Port(r, Scalar("Rec"))>>,
                   !.types = <<[kind |-> "record", name |-> "Rec", fields |-> Ports(<<x, y>>, Int8)]>>]

Casts == Alone(Ports(<<x>>, Int32) \o Ports(<<a>>, Int8), Ports(<<s>>, Int8) \o Ports(<<u>>, Uint8) \o Ports(<<o>>, Int32),
               <<Let(s, Cast("int8", Var(x))), Let(u, Cast("uint8", Plus(Var(x), Cast("int32", Var(a))))),
                 Let(o, Times(Cast("int32", Var(s)), Cast("int32", Var(u))))>>)

\* The counter of README.md, begun at a constant; a divisor of the cycle before.
Delays == [Alone(Ports(<<y>>, Int32), Ports(<<x>>, Int8) \o Ports(<<z>>, Int32),
                 <<Let(x, Arrow(Var(K), Plus(Pre(x), Const(1)))),
                   Let(z, Arrow(Const(1), Over(Var(Six), Pre(y))))>>)
           EXCEPT !.consts = <<ConstantPort(K, Int8, Neg(Const(2))), ConstantPort(Six, Int32, Const(6))>>]

\* Bounds that no check is needed for, and next to them some that need one.
Bounds == Alone(Ports(<<x>>, Int32) \o Ports(<<a>>, Int8), Ports(<<o, r>>, Int32) \o Ports(<<s>>, Int8),
                <<Let(o, Plus(Modulo(Var(x), Const(3)), Times(Const(2), Modulo(Var(x), Neg(Const(2)))))),
                  Let(r, Minus(Over(Var(x), Const(2)), Over(Var(x), Neg(Const(3))))),
                  Let(s, Minus(Var(a), Neg(Var(a))))>>)

\* Expressions that have no type where no type is expected of them; a cast
\* of a sum that leaves its narrow type.
Gaps == Alone(Ports(<<a, b>>, Int8) \o Ports(<<u>>, Uint32), Ports(<<x, y, s>>, Int8) \o Ports(<<w>>, Uint32),
              <<Let(x, Arrow(Const(0), Plus(Pre(x), Const(1)))), Let(w, Minus(Const(5), Var(u))),
                Let(y, Plus(Const(1), Const(1))), Let(s, Cast("int8", Plus(Var(a), Var(b))))>>)

MCProjects == {Sums, Guards, Connectives, Unsigned, Branches, Totals, Levels, Arrays, Records, Casts, Delays, Bounds, Gaps}
===============================================================================
