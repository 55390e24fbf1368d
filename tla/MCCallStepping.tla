---------------------------- MODULE MCCallStepping ----------------------------
(* MCPrograms: no error comes before a call of a branch not taken.           *)
(* UntakenPrograms: y = 0 -> pre y + Sum(in), where on the first cycle the   *)
(* untaken side fails at its pre before it reaches the call.                 *)
EXTENDS CallStepping

In == [op |-> "in"]
Pre == [op |-> "pre"]
Const(v) == [op |-> "const", v |-> v]
Add(l, r) == [op |-> "add", l |-> l, r |-> r]
Div(l, r) == [op |-> "div", l |-> l, r |-> r]
If(b, t, e) == [op |-> "if", cond |-> b, then |-> t, else |-> e]
Arrow(i, b) == [op |-> "arrow", init |-> i, body |-> b]
Call(site, callee, a) == [op |-> "call", site |-> site, callee |-> callee, arg |-> a]

\* A sum of its inputs, and an operator that calls it in a branch of its own.
Sum == Arrow(In, Add(Pre, In))
SafeGate == If(In, Arrow(Call(1, "Sum", In), Add(Call(2, "Sum", Const(1)), Pre)), Const(1))

Tops == {
    If(In, Call(1, "Sum", Const(1)), Const(0)),
    If(In, Call(1, "Sum", In), Call(2, "Sum", Const(1))),
    Arrow(Call(1, "Sum", In), Add(Call(2, "Sum", In), Pre)),
    If(In, Call(1, "SafeGate", Call(2, "Sum", In)), Const(0)),
    Arrow(Const(0), Add(Call(1, "SafeGate", In), If(In, Pre, Const(2)))),
    Add(Call(1, "Sum", In), If(Call(2, "Sum", In), Call(3, "SafeGate", In), In)),
    If(If(In, Call(1, "Sum", In), Const(1)), Const(2), Call(2, "Sum", Call(3, "Sum", In))),
    \* ends in the simulator's error when the input is 0
    Add(Div(Const(1), In), If(In, Call(1, "Sum", In), Const(0))),
    \* the quotient is behind the test in Lustre, in front of it in the C
    If(In, Call(1, "Sum", Div(Const(2), In)), Const(0))}

MCPrograms == {[Top |-> t, Sum |-> Sum, SafeGate |-> SafeGate] : t \in Tops}
MCPaths == {<< >>} \cup {<<i>> : i \in 1 .. 3} \cup {<<i, j>> : i \in {1, 3}, j \in {1, 2}}

RECURSIVE Within(_)
Within(e) == {e} \cup UNION {Within(Operands(e)[k]) : k \in DOMAIN Operands(e)}

\* Nesting; an operator that is called lies below its callers.
RECURSIVE Nesting(_)
Nesting(e) ==
    LET below == {Nesting(Operands(e)[k]) : k \in DOMAIN Operands(e)}
                 \cup IF e.op # "call" THEN {0}
                      ELSE {Nesting(IF e.callee = "Sum" THEN Sum ELSE SafeGate)}
    IN  1 + CHOOSE n \in below : \A m \in below : m <= n

Heights(programs) ==
    [e \in UNION {Within(pr[f]) : pr \in programs, f \in {"Top", "Sum"}} \cup Within(SafeGate)
        |-> Nesting(e)]
MCHeight == Heights(MCPrograms)

UntakenPrograms == {[Top |-> Arrow(Const(0), Add(Pre, Call(1, "Sum", In))), Sum |-> Sum]}
UntakenHeight == Heights(UntakenPrograms)
UntakenPaths == {<< >>, <<1>>}

\* It is what the theorems ask of a program, and what the last one lacks.
ASSUME ErrorsComeLast == \A pr \in Programs : CallsComeFirst(pr) <=> pr \in MCPrograms
===============================================================================
