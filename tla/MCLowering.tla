------------------------------- MODULE MCLowering -------------------------------
(* Small operators: every node of two locals and an output over a set of   *)
(* clocked expressions, and operators with activations and machines.       *)
EXTENDS Lowering

c == <<"c">>    d == <<"d">>    x == <<"x">>
o == <<"o">>    p == <<"p">>    q == <<"q">>

Bits == {0, 1}
Row(i, j, k) == [n \in {c, d, x} |-> CASE n = c -> i [] n = d -> j [] n = x -> k]
CDX == {Row(i, j, k) : i \in Bits, j \in Bits, k \in Bits}
Without(n) == {[m \in {c, d, x} \ {n} |-> row[m]] : row \in CDX}

Operator(io, rows, eqs, acts, machines) ==
    [io |-> io, rows |-> rows, eqs |-> eqs, acts |-> acts, machines |-> machines]
-------------------------------------------------------------------------------
(* Plain nodes over the inputs c and x, the locals p and q, the output o.  *)
LocalExprs(self, other) ==
    <<Const(1), Var(x), When(Var(x), c, 1), When(Var(x), c, 0), When(Var(other), c, 1),
     When(Var(x), other, 1), When(Var(other), self, 1), Arrow(Const(0), Not(Pre(self))),
     Arrow(Const(0), Pre(other)), And(Var(other), When(Var(c), c, 1)),
     Arrow(When(Const(0), c, 1), Pre(self)),
     Merge(c, Var(other), When(Var(x), c, 0))>>
OutputExprs ==
    <<Merge(c, Var(p), Var(q)), Merge(c, When(Var(p), c, 1), Var(q)), And(Var(p), Var(q)),
     Merge(c, Merge(p, Var(q), When(When(Var(x), c, 1), p, 0)), When(Var(x), c, 0))>>

Plain(l, m, n) ==
    Operator({c, x, o}, Without(d), <<Equation(o, OutputExprs[l]), Equation(p, LocalExprs(p, q)[m]),
                              Equation(q, LocalExprs(q, p)[n])>>, << >>, << >>)
-------------------------------------------------------------------------------
Branch(name, cond, eqs) == [name |-> name, cond |-> cond, eqs |-> eqs]
Activation(name, outputs, branches, otherwise) ==
    [name |-> name, outputs |-> outputs, branches |-> branches, otherwise |-> otherwise]

Inc(e) == Add(e, Const(1))
Counts == Arrow(Const(0), Inc(Pre(o)))
Delays == Arrow(Const(2), Pre(x))
Rises == And(Var(c), Arrow(Const(1), Not(Pre(c))))

Branches(first, second, third) ==
    Operator({c, d, x, o}, CDX, << >>,
        <<Activation("A", {o}, <<Branch("P", Var(c), <<Equation(o, first)>>),
                                 Branch("Q", Var(d), <<Equation(o, second)>>)>>,
                     <<Equation(o, third)>>)>>, << >>)

ScopeExpressions == <<Counts, Delays, Call(<<"t">>, Const(1)), Call(<<"u">>, Var(x)), LastOf(o, << >>),
                     Inc(LastOf(x, <<Const(2)>>)), Const(2), Arrow(Const(1), Const(0))>>
TwoBranches(l, m, n) ==
    Branches(ScopeExpressions[l], ScopeExpressions[m], <<Counts, LastOf(o, << >>)>>[n])

(* Three branches, two outputs of which one reads the other, conditions    *)
(* with a state of their own; and two that strictness refuses.             *)
Wide(elseEqs, third) ==
    Operator({c, d, o, p}, Without(x), <<Equation(q, Arrow(Const(0), Inc(Pre(p))))>>,
        <<Activation("A", {o, p},
            <<Branch("P", Rises, <<Equation(o, Inc(Var(p))), Equation(p, Arrow(Const(1), Pre(p)))>>),
              Branch("Q", And(Var(d), Is(LastOf(o, << >>), Const(1))),
                     <<Equation(p, Call(<<"t">>, Var(q))), Equation(o, Var(q))>>),
              Branch(third, Var(c), <<Equation(o, Arrow(Var(q), Pre(q))), Equation(p, Const(1))>>)>>,
            elseEqs)>>, << >>)
KeepBoth == <<Equation(o, LastOf(o, << >>)), Equation(p, Arrow(Const(2), Pre(o)))>>
-------------------------------------------------------------------------------
State(name, eqs, trans, regions, refines) ==
    [name |-> name, eqs |-> eqs, trans |-> trans, regions |-> regions, refines |-> refines]
To(guard, target) == [guard |-> guard, target |-> target]
Region(initial, history, states) == [initial |-> initial, history |-> history, states |-> states]
Machine(name, outputs, initial, states) ==
    [name |-> name, outputs |-> outputs, initial |-> initial, states |-> states]
Set(n) == <<Equation(o, Const(n))>>

Lo == <<"Lo">>  Hi == <<"Hi">>  On == <<"On">>  Off == <<"Off">>  Mid == <<"Mid">>
In == <<"In">>  Out == <<"Out">>

LoHi(eqsLo, eqsHi, below) ==
    <<State(Lo, eqsLo, <<To(Var(x), Hi)>>, << >>, NoMachine),
      State(Hi, eqsHi, <<To(And(Var(x), Var(c)), Lo), To(Var(x), Hi)>>, below, NoMachine)>>
InOut(eqsOut) ==
    <<State(In, Set(2), <<To(Not(Var(x)), Out)>>, << >>, NoMachine),
      State(Out, eqsOut, <<To(Var(x), In)>>, << >>, NoMachine)>>

(* A machine of three states: Off, On with a region and in its Hi another, *)
(* and Mid, which refines a machine.  The refined ones are valid, unknown, *)
(* or, Loop, cyclic.  Some do not drive o along every path.                *)
Hierarchy(outer, inner, eqsOut, eqsOn, refined) ==
    Operator({c, d, x, o}, CDX, << >>, << >>,
        <<Machine("M", {o}, Off,
            <<State(Off, Set(0), <<To(Var(c), On), To(Var(d), Mid)>>, << >>, NoMachine),
              State(On, eqsOn, <<To(Var(d), Off)>>,
                    <<Region(Lo, outer, LoHi(Set(1), << >>,
                                             <<Region(In, inner, InOut(eqsOut))>>))>>, NoMachine),
              State(Mid, << >>, <<To(And(Var(c), Var(d)), On), To(Var(c), Off)>>, << >>, refined)>>)>>)

(* A transition into a nested region, which validation refuses.            *)
Crossing ==
    Operator({c, d, x, o}, CDX, << >>, << >>,
        <<Machine("M", {o}, Off,
            <<State(Off, Set(0), <<To(Var(c), Hi)>>, << >>, NoMachine),
              State(On, Set(2), << >>, <<Region(Lo, FALSE, LoHi(Set(1), Set(2), << >>))>>,
                    NoMachine)>>)>>)

MCMachineByName ==
    [m \in {"Sub", "Leaf", "Loop"} |->
        CASE m = "Sub" -> Machine("Sub", {o}, On,
                <<State(On, Set(1), <<To(Not(Var(x)), Off)>>, << >>, NoMachine),
                  State(Off, << >>, <<To(And(Var(d), Var(x)), On)>>, << >>, "Leaf")>>)
          [] m = "Leaf" -> Machine("Leaf", {o}, Out,
                <<State(Out, Set(2), <<To(Not(Var(d)), Mid)>>, << >>, NoMachine),
                  State(Mid, << >>, <<To(Var(d), Out)>>,
                        <<Region(Lo, FALSE, LoHi(Set(0), Set(1), << >>))>>, NoMachine)>>)
          [] m = "Loop" -> Machine("Loop", {o}, On,
                <<State(On, Set(1), <<To(Var(x), Off)>>, << >>, NoMachine),
                  State(Off, << >>, << >>, << >>, "Loop")>>)]

(* A machine and an activation in one operator: the activation's condition *)
(* and branches read what the machine drives.                              *)
Combined ==
    Operator({c, d, x, o, p}, CDX, << >>,
        <<Activation("A", {p}, <<Branch("P", Is(Var(o), Const(1)),
                                        <<Equation(p, Arrow(Var(x), Inc(Pre(p))))>>)>>,
                     <<Equation(p, Arrow(Const(2), Pre(o)))>>)>>,
        <<Machine("M", {o}, Off,
            <<State(Off, Set(0), <<To(Var(c), On)>>, << >>, NoMachine),
              State(On, << >>, <<To(Var(d), Off), To(Var(c), On)>>, << >>, "Sub")>>)>>)

MCOperators ==
    {Plain(l, m, n) : l \in 1 .. 4, m \in 1 .. 12, n \in 1 .. 12}
        \cup {TwoBranches(l, m, n) : l \in 2 .. 8, m \in 1 .. 8, n \in 1 .. 2}
        \cup {Wide(KeepBoth, "R"), Wide(<<KeepBoth[1]>>, "R"), Wide(KeepBoth, "Q")}
        \cup {Hierarchy(outer, inner, eqsOut, eqsOn, refined) :
                 outer \in BOOLEAN, inner \in BOOLEAN, eqsOut \in {Set(0), << >>},
                 eqsOn \in {Set(2), << >>}, refined \in {"Sub", "Leaf", "Loop", "Ghost"}}
        \cup {Crossing, Combined}
===============================================================================
