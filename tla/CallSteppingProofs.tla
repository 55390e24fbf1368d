-------------------------- MODULE CallSteppingProofs --------------------------
(***************************************************************************)
(* The simulator and the generated C of CallStepping keep every instance   *)
(* in the same state, for every program in which no error of a side that   *)
(* is not taken comes before one of its calls (CallsComeFirst).            *)
(*                                                                         *)
(* An evaluation of e in instance p changes only the states under p's      *)
(* calls in e, e's zone.  The zones of an expression's parts are apart, so *)
(* the order in which the parts are evaluated, which differs between the   *)
(* two, does not matter: by induction over expressions, from equal states  *)
(* of the zone both end in equal states of the zone, and the simulator has *)
(* the value that the C's expression has once its calls have been hoisted. *)
(***************************************************************************)
EXTENDS CallStepping, Induction

\* o is a smaller expression than e.
Below(o, e) == o \in Exprs /\ Height[o] < Height[e]

(* The parts of an expression lie below it.                                *)
LEMMA Parts ==
    ASSUME NEW e \in Exprs
    PROVE  /\ e.op \in {"const", "in", "pre", "add", "div", "if", "arrow", "call"}
           /\ e.op = "const" => e.v \in Values
           /\ e.op \in {"add", "div"} => Below(e.l, e) /\ Below(e.r, e)
           /\ e.op = "if" => Below(e.cond, e) /\ Below(e.then, e) /\ Below(e.else, e)
           /\ e.op = "arrow" => Below(e.init, e) /\ Below(e.body, e)
           /\ e.op = "call" => Below(e.arg, e) /\ e.site \in Nat
           /\ \A k \in DOMAIN Operands(e) : Below(Operands(e)[k], e)
<1>1. /\ e.op \in {"const", "in", "pre", "add", "div", "if", "arrow", "call"}
      /\ e.op = "const" => e.v \in Values
      /\ e.op = "call" => e.site \in Nat
      /\ \A k \in DOMAIN Operands(e) : Below(Operands(e)[k], e)
    BY ProgramAssumption DEF Below
<1>2. e.op \in {"add", "div"} => Below(e.l, e) /\ Below(e.r, e)
    <2> SUFFICES ASSUME e.op \in {"add", "div"} PROVE Below(e.l, e) /\ Below(e.r, e)
        OBVIOUS
    <2>1. Operands(e) = <<e.l, e.r>>
        BY DEF Operands
    <2> QED BY <1>1, <2>1
<1>3. e.op = "if" => Below(e.cond, e) /\ Below(e.then, e) /\ Below(e.else, e)
    <2> SUFFICES ASSUME e.op = "if" PROVE Below(e.cond, e) /\ Below(e.then, e) /\ Below(e.else, e)
        OBVIOUS
    <2>1. Operands(e) = <<e.cond, e.then, e.else>>
        BY DEF Operands
    <2> QED BY <1>1, <2>1
<1>4. e.op = "arrow" => Below(e.init, e) /\ Below(e.body, e)
    <2> SUFFICES ASSUME e.op = "arrow" PROVE Below(e.init, e) /\ Below(e.body, e)
        OBVIOUS
    <2>1. Operands(e) = <<e.init, e.body>>
        BY DEF Operands
    <2> QED BY <1>1, <2>1
<1>5. e.op = "call" => Below(e.arg, e)
    <2> SUFFICES ASSUME e.op = "call" PROVE Below(e.arg, e)
        OBVIOUS
    <2>1. Operands(e) = <<e.arg>>
        BY DEF Operands
    <2> QED BY <1>1, <2>1
<1> QED BY <1>1, <1>2, <1>3, <1>4, <1>5

(* So does the body of the operator that is called.                        *)
LEMMA Callee ==
    ASSUME NEW pr \in Programs, NEW e \in Exprs, e.op = "call"
    PROVE  Below(pr[e.callee], e)
BY ProgramAssumption DEF Below

(* Induction over expressions.                                             *)
LEMMA ExprInduction ==
    ASSUME NEW T, \A e \in Exprs : (\A o : Below(o, e) => o \in T) => e \in T
    PROVE  Exprs \subseteq T
<1>1. Height \in [Exprs -> Nat]
    BY ProgramAssumption
<1>2. \A e \in Exprs : (\A o \in Exprs : Height[o] < Height[e] => o \in T) => e \in T
    BY DEF Below
<1> QED BY <1>1, <1>2, RankInduction

(* Recursion over expressions.                                             *)
LEMMA ExprRecursion ==
    ASSUME NEW D, NEW d \in D, NEW step \in [Exprs -> [[Exprs -> D] -> D]],
           \A e \in Exprs : \A f, g \in [Exprs -> D] :
               (\A o : Below(o, e) => f[o] = g[o]) => step[e][f] = step[e][g]
    PROVE  \E f : Solves(f, Exprs, D, step)
<1>1. Height \in [Exprs -> Nat]
    BY ProgramAssumption
<1>2. PICK tallest \in Exprs : \A e \in Exprs : Height[e] <= Height[tallest]
    BY ProgramAssumption
<1>3. Descends(Exprs, Height, D, step)
    BY DEF Below, Descends
<1> QED BY <1>1, <1>2, <1>3, RankedRecursion

-----------------------------------------------------------------------------
(* Recursive definitions: each is what its equation says.                   *)

Results == [ok : BOOLEAN, v : Values, st : States]
Evaluators == [Exprs -> [Frames -> Results]]

Agreeing(f, g, e) == \A o : Below(o, e) => f[o] = g[o]

(* What the helpers of the simulator return.                               *)
LEMMA StateOps ==
    ASSUME NEW s \in States, NEW p \in Seq(Nat), NEW v \in Values
    PROVE  /\ State(s, p) \in [cycle : Nat, prev : Values]
           /\ Commit(s, p, v) \in States
           /\ Forget(s, p) \in States
           /\ Ok(v, s) \in Results /\ Err(s) \in Results
<1>1. Fresh \in [cycle : Nat, prev : Values]
    BY ProgramAssumption DEF Fresh, Values
<1>2. State(s, p) \in [cycle : Nat, prev : Values]
    BY <1>1 DEF State, States
<1>3. Commit(s, p, v) \in States
    <2>1. [cycle |-> s[p].cycle + 1, prev |-> v] \in [cycle : Nat, prev : Values] \/ p \notin Paths
        BY DEF States
    <2>2. Commit(s, p, v) = [q \in Paths |-> IF q = p THEN [cycle |-> s[p].cycle + 1, prev |-> v] ELSE s[q]]
        BY DEF Commit, States
    <2> QED BY <2>1, <2>2 DEF States
<1>4. Forget(s, p) \in States
    BY <1>1 DEF Forget, States
<1>5. 0 \in Values
    BY ProgramAssumption DEF Values
<1> QED BY <1>2, <1>3, <1>4, <1>5 DEF Ok, Err, Results

(* A sum or a quotient is a value.                                         *)
LEMMA BinaryValue ==
    ASSUME NEW l \in Values, NEW r \in Values, NEW op, op # "add" => r # 0
    PROVE  Binary(op, l, r) \in Values
<1>1. Modulus \in Nat \ {0}
    BY ProgramAssumption
<1>2. (l + r) % Modulus \in Values
    BY <1>1, SMTT(30) DEF Values
<1>3. r # 0 => l \div r \in 0 .. l
    BY <1>1, SMTT(30) DEF Values
<1>4. r # 0 => l \div r \in Values
    BY <1>1, <1>3 DEF Values
<1> QED BY <1>2, <1>4 DEF Binary

(* What the simulator returns.                                             *)
LEMMA SimExprResult ==
    ASSUME NEW pr \in Programs, NEW f \in Evaluators, NEW e \in Exprs,
           NEW x \in Values, NEW p \in Seq(Nat), NEW s \in States
    PROVE  SimExpr(pr, f, e, x, p, s) \in Results
<1>1. \A o \in Exprs : \A y \in Values, q \in Seq(Nat), t \in States :
        /\ f[o][y, q, t] \in Results
        /\ f[o][y, q, t].v \in Values /\ f[o][y, q, t].st \in States
    BY DEF Evaluators, Frames, Results
<1>2. CASE e.op \in {"const", "in", "pre"}
    BY <1>2, StateOps, Parts DEF SimExpr
<1>3. CASE e.op \in {"add", "div"}
    <2> DEFINE l == f[e.l][x, p, s]
               r == f[e.r][x, p, l.st]
    <2>1. l \in Results /\ l.v \in Values /\ l.st \in States
        BY <1>1, <1>3, Parts DEF Below
    <2>2. r \in Results /\ r.v \in Values /\ r.st \in States
        BY <1>1, <1>3, <2>1, Parts DEF Below
    <2>3. SimExpr(pr, f, e, x, p, s)
          = IF ~l.ok THEN l ELSE IF ~r.ok THEN r
            ELSE IF e.op = "div" /\ r.v = 0 THEN Err(r.st) ELSE Ok(Binary(e.op, l.v, r.v), r.st)
        BY <1>3 DEF SimExpr, Then
    <2> HIDE DEF l, r
    <2>4. ~(e.op = "div" /\ r.v = 0) => Binary(e.op, l.v, r.v) \in Values
        BY <1>3, <2>1, <2>2, BinaryValue
    <2> QED BY <2>1, <2>2, <2>3, <2>4, StateOps
<1>4. ASSUME NEW o \in Exprs, NEW other \in Exprs, NEW t \in States
      PROVE  Choice(pr, f, o, other, x, p, t) \in Results
    <2> DEFINE r == f[o][x, p, t]
    <2>1. r \in Results /\ r.v \in Values /\ r.st \in States
        BY <1>1
    <2>2. StepUntaken(pr, f, other, x, p, r.st) \in States
        BY <1>1, <2>1 DEF StepUntaken
    <2>3. Choice(pr, f, o, other, x, p, t) = IF r.ok THEN Ok(r.v, StepUntaken(pr, f, other, x, p, r.st)) ELSE r
        BY DEF Choice, Then
    <2> HIDE DEF r
    <2> QED BY <2>1, <2>2, <2>3 DEF Ok, Results
<1>5. CASE e.op = "if"
    <2> DEFINE r == f[e.cond][x, p, s]
    <2>1. r \in Results /\ r.st \in States
        BY <1>1, <1>5, Parts DEF Below
    <2>2. SimExpr(pr, f, e, x, p, s)
          = IF ~r.ok THEN r ELSE IF r.v # 0 THEN Choice(pr, f, e.then, e.else, x, p, r.st)
                                            ELSE Choice(pr, f, e.else, e.then, x, p, r.st)
        BY <1>5 DEF SimExpr, Then
    <2> HIDE DEF r
    <2> QED BY <1>4, <1>5, <2>1, <2>2, Parts DEF Below
<1>6. CASE e.op = "arrow"
    <2>1. SimExpr(pr, f, e, x, p, s) \in {Choice(pr, f, e.init, e.body, x, p, s), Choice(pr, f, e.body, e.init, x, p, s)}
        BY <1>6 DEF SimExpr
    <2> QED BY <1>4, <1>6, <2>1, Parts DEF Below
<1>7. CASE e.op = "call"
    <2> DEFINE a == f[e.arg][x, p, s]
               q == Append(p, e.site)
               r == f[pr[e.callee]][a.v, q, a.st]
    <2>1. a \in Results /\ a.v \in Values /\ a.st \in States
        BY <1>1, <1>7, Parts DEF Below
    <2>2. q \in Seq(Nat)
        BY <1>7, Parts
    <2>3. r \in Results /\ r.v \in Values /\ r.st \in States
        BY <1>1, <1>7, <2>1, <2>2, Callee DEF Below
    <2>4. SimExpr(pr, f, e, x, p, s)
          = IF ~a.ok THEN a ELSE IF r.ok THEN Ok(r.v, Commit(r.st, q, r.v)) ELSE Err(Forget(r.st, q))
        BY <1>7 DEF SimExpr, Then, SimInstance
    <2> HIDE DEF a, q, r
    <2> QED BY <2>1, <2>2, <2>3, <2>4, StateOps
<1> QED BY <1>2, <1>3, <1>5, <1>6, <1>7, Parts

(* It depends on the parts of the expression and on what it calls.         *)
LEMMA SimExprDepends ==
    ASSUME NEW pr \in Programs, NEW f, NEW g, NEW e \in Exprs, NEW x, NEW p, NEW s, Agreeing(f, g, e)
    PROVE  SimExpr(pr, f, e, x, p, s) = SimExpr(pr, g, e, x, p, s)
<1>1. CASE e.op \in {"const", "in", "pre"}
    BY <1>1 DEF SimExpr
<1>2. CASE e.op \in {"add", "div"}
    <2>1. f[e.l] = g[e.l] /\ f[e.r] = g[e.r]
        BY <1>2, Parts DEF Agreeing
    <2> QED BY <1>2, <2>1 DEF SimExpr, Then
<1>3. CASE e.op = "if"
    <2>1. f[e.cond] = g[e.cond] /\ f[e.then] = g[e.then] /\ f[e.else] = g[e.else]
        BY <1>3, Parts DEF Agreeing
    <2> QED BY <1>3, <2>1 DEF SimExpr, Then, Choice, StepUntaken
<1>4. CASE e.op = "arrow"
    <2>1. f[e.init] = g[e.init] /\ f[e.body] = g[e.body]
        BY <1>4, Parts DEF Agreeing
    <2> QED BY <1>4, <2>1 DEF SimExpr, Then, Choice, StepUntaken
<1>5. CASE e.op = "call"
    <2>1. f[e.arg] = g[e.arg] /\ f[pr[e.callee]] = g[pr[e.callee]]
        BY <1>5, Parts, Callee DEF Agreeing
    <2> QED BY <1>5, <2>1 DEF SimExpr, Then, SimInstance
<1> QED BY <1>1, <1>2, <1>3, <1>4, <1>5, Parts

(* There is a result.                                                      *)
LEMMA SomeResult == [i \in Frames |-> Ok(0, [p \in Paths |-> Fresh])] \in [Frames -> Results]
<1>1. 0 \in Values /\ [p \in Paths |-> Fresh] \in States
    BY ProgramAssumption DEF Values, States, Fresh
<1> QED BY <1>1 DEF Ok, Results

(* The simulator's evaluation is what its definition says.                 *)
LEMMA SimEvalUnfolds ==
    ASSUME NEW pr \in Programs
    PROVE  /\ SimEval(pr) \in Evaluators
           /\ \A e \in Exprs, x \in Values, p \in Seq(Nat), s \in States :
                SimEval(pr)[e][x, p, s] = SimExpr(pr, SimEval(pr), e, x, p, s)
<1> DEFINE D == [Frames -> Results]
           row(f, e) == [i \in Frames |-> SimExpr(pr, f, e, i[1], i[2], i[3])]
           step == [e \in Exprs |-> [f \in [Exprs -> D] |-> row(f, e)]]
<1>1. ASSUME NEW f \in [Exprs -> D], NEW e \in Exprs PROVE row(f, e) \in D
    <2>1. \A x \in Values, p \in Seq(Nat), s \in States : SimExpr(pr, f, e, x, p, s) \in Results
        BY SimExprResult DEF Evaluators
    <2> QED BY <2>1 DEF Frames
<1>2. step \in [Exprs -> [[Exprs -> D] -> D]]
    <2> HIDE DEF row, D
    <2> QED BY <1>1
<1>3. ASSUME NEW e \in Exprs, NEW f, NEW g, Agreeing(f, g, e) PROVE row(f, e) = row(g, e)
    <2>1. \A x, p, s : SimExpr(pr, f, e, x, p, s) = SimExpr(pr, g, e, x, p, s)
        BY <1>3, SimExprDepends
    <2> QED BY <2>1
<1>4. \A e \in Exprs : \A f, g \in [Exprs -> D] :
        (\A o : Below(o, e) => f[o] = g[o]) => step[e][f] = step[e][g]
    <2> HIDE DEF row, D
    <2> QED BY <1>3 DEF Agreeing
<1>5. [i \in Frames |-> Ok(0, [p \in Paths |-> Fresh])] \in D
    BY SomeResult
<1>6. PICK f : Solves(f, Exprs, D, step)
    <2> HIDE DEF step, D
    <2> QED BY <1>2, <1>4, <1>5, ExprRecursion
<1>7. f \in [Exprs -> D] /\ f = [e \in Exprs |-> row(f, e)]
    <2> HIDE DEF row, D
    <2> QED BY <1>6 DEF Solves
<1>8. SimEval(pr) = CHOOSE g : g = [e \in Exprs |-> row(g, e)]
    BY DEF SimEval
<1>9. SimEval(pr) = [e \in Exprs |-> row(SimEval(pr), e)]
    <2> HIDE DEF row
    <2> QED BY <1>7, <1>8
<1> HIDE DEF row
<1> DEFINE T == {e \in Exprs : SimEval(pr)[e] = f[e]}
<1>10. Exprs \subseteq T
    <2>1. ASSUME NEW e \in Exprs, \A o : Below(o, e) => o \in T
          PROVE  e \in T
        <3>1. Agreeing(SimEval(pr), f, e)
            BY <2>1 DEF Agreeing
        <3>2. row(SimEval(pr), e) = row(f, e)
            BY <1>3, <3>1
        <3> QED BY <1>7, <1>9, <3>2
    <2> HIDE DEF T
    <2> QED BY <2>1, ExprInduction
<1>11. SimEval(pr) = f
    BY <1>7, <1>9, <1>10
<1>12. SimEval(pr) \in Evaluators
    BY <1>7, <1>11 DEF Evaluators
<1>13. ASSUME NEW e \in Exprs, NEW x \in Values, NEW p \in Seq(Nat), NEW s \in States
       PROVE  SimEval(pr)[e][x, p, s] = SimExpr(pr, SimEval(pr), e, x, p, s)
    <2>1. SimEval(pr)[e] = row(SimEval(pr), e)
        BY <1>9
    <2>2. <<x, p, s>> \in Frames
        BY DEF Frames
    <2> QED BY <2>1, <2>2 DEF row
<1> QED BY <1>12, <1>13

(* What an expression of the C returns.                                    *)
LEMMA CValueResult ==
    ASSUME NEW f \in Evaluators, NEW e \in Exprs,
           NEW x \in Values, NEW p \in Seq(Nat), NEW s \in States
    PROVE  CValue(f, e, x, p, s) \in Results
<1>1. \A o \in Exprs : \A y \in Values, q \in Seq(Nat), t \in States :
        /\ f[o][y, q, t] \in Results
        /\ f[o][y, q, t].v \in Values /\ f[o][y, q, t].st \in States
    BY DEF Evaluators, Frames, Results
<1>2. CASE e.op \in {"const", "in", "pre"}
    BY <1>2, StateOps, Parts DEF CValue
<1>3. CASE e.op \in {"add", "div"}
    <2> DEFINE l == f[e.l][x, p, s]
               r == f[e.r][x, p, s]
    <2>1. l \in Results /\ l.v \in Values /\ r \in Results /\ r.v \in Values
        BY <1>1, <1>3, Parts DEF Below
    <2>2. CValue(f, e, x, p, s)
          = IF ~l.ok THEN l ELSE IF ~r.ok THEN r
            ELSE IF e.op = "div" /\ r.v = 0 THEN Err(s) ELSE Ok(Binary(e.op, l.v, r.v), s)
        BY <1>3 DEF CValue, Then
    <2> HIDE DEF l, r
    <2>3. ~(e.op = "div" /\ r.v = 0) => Binary(e.op, l.v, r.v) \in Values
        BY <1>3, <2>1, BinaryValue
    <2> QED BY <2>1, <2>2, <2>3, StateOps
<1>4. CASE e.op = "if"
    <2> DEFINE r == f[e.cond][x, p, s]
    <2>1. r \in Results
        BY <1>1, <1>4, Parts DEF Below
    <2>2. CValue(f, e, x, p, s)
          = IF ~r.ok THEN r ELSE f[IF r.v # 0 THEN e.then ELSE e.else][x, p, s]
        BY <1>4 DEF CValue, Then
    <2>3. f[e.then][x, p, s] \in Results /\ f[e.else][x, p, s] \in Results
        BY <1>1, <1>4, Parts DEF Below
    <2> HIDE DEF r
    <2> QED BY <2>1, <2>2, <2>3
<1>5. CASE e.op = "arrow"
    BY <1>1, <1>5, Parts DEF Below, CValue
<1>6. CASE e.op = "call"
    <2>1. Append(p, e.site) \in Seq(Nat)
        BY <1>6, Parts
    <2> QED BY <1>6, <2>1, StateOps DEF CValue
<1> QED BY <1>2, <1>3, <1>4, <1>5, <1>6, Parts

(* It depends on the parts of the expression only.                         *)
LEMMA CValueDepends ==
    ASSUME NEW f, NEW g, NEW e \in Exprs, NEW x, NEW p, NEW s, Agreeing(f, g, e)
    PROVE  CValue(f, e, x, p, s) = CValue(g, e, x, p, s)
<1>1. CASE e.op \in {"const", "in", "pre", "call"}
    BY <1>1 DEF CValue
<1>2. CASE e.op \in {"add", "div"}
    <2>1. f[e.l] = g[e.l] /\ f[e.r] = g[e.r]
        BY <1>2, Parts DEF Agreeing
    <2> QED BY <1>2, <2>1 DEF CValue, Then
<1>3. CASE e.op = "if"
    <2>1. f[e.cond] = g[e.cond] /\ f[e.then] = g[e.then] /\ f[e.else] = g[e.else]
        BY <1>3, Parts DEF Agreeing
    <2> QED BY <1>3, <2>1 DEF CValue, Then
<1>4. CASE e.op = "arrow"
    <2>1. f[e.init] = g[e.init] /\ f[e.body] = g[e.body]
        BY <1>4, Parts DEF Agreeing
    <2> QED BY <1>4, <2>1 DEF CValue
<1> QED BY <1>1, <1>2, <1>3, <1>4, Parts

(* The C's expressions are what their definition says.                     *)
LEMMA CExprUnfolds ==
    /\ CExpr \in Evaluators
    /\ \A e \in Exprs, x \in Values, p \in Seq(Nat), s \in States :
                CExpr[e][x, p, s] = CValue(CExpr, e, x, p, s)
<1> DEFINE D == [Frames -> Results]
           row(f, e) == [i \in Frames |-> CValue(f, e, i[1], i[2], i[3])]
           step == [e \in Exprs |-> [f \in [Exprs -> D] |-> row(f, e)]]
<1>1. ASSUME NEW f \in [Exprs -> D], NEW e \in Exprs PROVE row(f, e) \in D
    <2>1. \A x \in Values, p \in Seq(Nat), s \in States : CValue(f, e, x, p, s) \in Results
        BY CValueResult DEF Evaluators
    <2> QED BY <2>1 DEF Frames
<1>2. step \in [Exprs -> [[Exprs -> D] -> D]]
    <2> HIDE DEF row, D
    <2> QED BY <1>1
<1>3. ASSUME NEW e \in Exprs, NEW f, NEW g, Agreeing(f, g, e) PROVE row(f, e) = row(g, e)
    <2>1. \A x, p, s : CValue(f, e, x, p, s) = CValue(g, e, x, p, s)
        BY <1>3, CValueDepends
    <2> QED BY <2>1
<1>4. \A e \in Exprs : \A f, g \in [Exprs -> D] :
        (\A o : Below(o, e) => f[o] = g[o]) => step[e][f] = step[e][g]
    <2> HIDE DEF row, D
    <2> QED BY <1>3 DEF Agreeing
<1>5. [i \in Frames |-> Ok(0, [p \in Paths |-> Fresh])] \in D
    BY SomeResult
<1>6. PICK f : Solves(f, Exprs, D, step)
    <2> HIDE DEF step, D
    <2> QED BY <1>2, <1>4, <1>5, ExprRecursion
<1>7. f \in [Exprs -> D] /\ f = [e \in Exprs |-> row(f, e)]
    <2> HIDE DEF row, D
    <2> QED BY <1>6 DEF Solves
<1>8. CExpr = CHOOSE g : g = [e \in Exprs |-> row(g, e)]
    BY DEF CExpr
<1>9. CExpr = [e \in Exprs |-> row(CExpr, e)]
    <2> HIDE DEF row
    <2> QED BY <1>7, <1>8
<1> HIDE DEF row
<1> DEFINE T == {e \in Exprs : CExpr[e] = f[e]}
<1>10. Exprs \subseteq T
    <2>1. ASSUME NEW e \in Exprs, \A o : Below(o, e) => o \in T
          PROVE  e \in T
        <3>1. Agreeing(CExpr, f, e)
            BY <2>1 DEF Agreeing
        <3>2. row(CExpr, e) = row(f, e)
            BY <1>3, <3>1
        <3> QED BY <1>7, <1>9, <3>2
    <2> HIDE DEF T
    <2> QED BY <2>1, ExprInduction
<1>11. CExpr = f
    BY <1>7, <1>9, <1>10
<1>12. CExpr \in Evaluators
    BY <1>7, <1>11 DEF Evaluators
<1>13. ASSUME NEW e \in Exprs, NEW x \in Values, NEW p \in Seq(Nat), NEW s \in States
       PROVE  CExpr[e][x, p, s] = CValue(CExpr, e, x, p, s)
    <2>1. CExpr[e] = row(CExpr, e)
        BY <1>9
    <2>2. <<x, p, s>> \in Frames
        BY DEF Frames
    <2> QED BY <2>1, <2>2 DEF row
<1> QED BY <1>12, <1>13

(* What the statements hoisted out of an expression return.                *)
LEMMA CStatementsResult ==
    ASSUME NEW pr \in Programs, NEW f \in Evaluators, NEW e \in Exprs,
           NEW x \in Values, NEW p \in Seq(Nat), NEW s \in States
    PROVE  CStatements(pr, f, e, x, p, s) \in Results
<1>1. \A o \in Exprs : \A y \in Values, q \in Seq(Nat), t \in States :
        /\ f[o][y, q, t] \in Results /\ f[o][y, q, t].st \in States
        /\ CExpr[o][y, q, t] \in Results
        /\ CExpr[o][y, q, t].v \in Values /\ CExpr[o][y, q, t].st \in States
    <2> SUFFICES ASSUME NEW o \in Exprs, NEW y \in Values, NEW q \in Seq(Nat), NEW t \in States
                 PROVE  /\ f[o][y, q, t] \in Results /\ f[o][y, q, t].st \in States
                        /\ CExpr[o][y, q, t] \in Results
                        /\ CExpr[o][y, q, t].v \in Values /\ CExpr[o][y, q, t].st \in States
        OBVIOUS
    <2>1. <<y, q, t>> \in Frames
        BY DEF Frames
    <2>2. f[o][y, q, t] \in Results /\ CExpr[o][y, q, t] \in Results
        BY <2>1, CExprUnfolds DEF Evaluators
    <2> QED BY <2>2 DEF Results
<1>2. CASE e.op \in {"const", "in", "pre"}
    <2>1. 0 \in Values
        BY ProgramAssumption DEF Values
    <2> QED BY <1>2, <2>1, StateOps DEF CStatements
<1>3. ASSUME NEW l \in Exprs, NEW r \in Exprs, NEW t \in States
      PROVE  Then(f[l][x, p, t], LAMBDA v, s1 : f[r][x, p, s1]) \in Results
    BY <1>1 DEF Then
<1>4. CASE e.op \in {"add", "div", "arrow"}
    BY <1>3, <1>4, Parts DEF CStatements, Below
<1>5. CASE e.op = "if"
    <2> DEFINE r == f[e.cond][x, p, s]
    <2>1. r \in Results /\ r.st \in States
        BY <1>1, <1>5, Parts DEF Below
    <2>2. CStatements(pr, f, e, x, p, s)
          = IF r.ok THEN Then(f[e.then][x, p, r.st], LAMBDA v, s1 : f[e.else][x, p, s1]) ELSE r
        BY <1>5 DEF CStatements, HoistBranches, Then
    <2>3. e.then \in Exprs /\ e.else \in Exprs
        BY <1>5, Parts DEF Below
    <2> HIDE DEF r
    <2>4. Then(f[e.then][x, p, r.st], LAMBDA v, s1 : f[e.else][x, p, s1]) \in Results
        BY <1>3, <2>1, <2>3
    <2> QED BY <2>1, <2>2, <2>4
<1>6. CASE e.op = "call"
    <2> DEFINE h == f[e.arg][x, p, s]
               a == CExpr[e.arg][x, p, h.st]
               q == Append(p, e.site)
               b == f[pr[e.callee]][a.v, q, a.st]
               w == CExpr[pr[e.callee]][a.v, q, b.st]
    <2>1. h \in Results /\ h.st \in States
        BY <1>1, <1>6, Parts DEF Below
    <2>2. a \in Results /\ a.v \in Values /\ a.st \in States
        BY <1>1, <1>6, <2>1, Parts DEF Below
    <2>3. q \in Seq(Nat)
        BY <1>6, Parts
    <2>4. b \in Results /\ b.st \in States
        BY <1>1, <1>6, <2>2, <2>3, Callee DEF Below
    <2>5. w \in Results /\ w.v \in Values /\ w.st \in States
        BY <1>1, <1>6, <2>2, <2>3, <2>4, Callee DEF Below
    <2>6. CStatements(pr, f, e, x, p, s)
          = IF ~h.ok THEN h ELSE IF ~a.ok THEN a ELSE IF ~b.ok THEN b
            ELSE IF ~w.ok THEN w ELSE Ok(w.v, Commit(w.st, q, w.v))
        BY <1>6 DEF CStatements, CStepFunction, Then
    <2> HIDE DEF h, a, q, b, w
    <2> QED BY <2>1, <2>2, <2>3, <2>4, <2>5, <2>6, StateOps
<1> QED BY <1>2, <1>4, <1>5, <1>6, Parts

(* They depend on the parts of the expression and on what it calls.        *)
LEMMA CStatementsDepend ==
    ASSUME NEW pr \in Programs, NEW f, NEW g, NEW e \in Exprs, NEW x, NEW p, NEW s, Agreeing(f, g, e)
    PROVE  CStatements(pr, f, e, x, p, s) = CStatements(pr, g, e, x, p, s)
<1>1. CASE e.op \in {"const", "in", "pre"}
    BY <1>1 DEF CStatements
<1>2. CASE e.op \in {"add", "div"}
    <2>1. f[e.l] = g[e.l] /\ f[e.r] = g[e.r]
        BY <1>2, Parts DEF Agreeing
    <2> QED BY <1>2, <2>1 DEF CStatements, Then
<1>3. CASE e.op = "if"
    <2>1. f[e.cond] = g[e.cond] /\ f[e.then] = g[e.then] /\ f[e.else] = g[e.else]
        BY <1>3, Parts DEF Agreeing
    <2> QED BY <1>3, <2>1 DEF CStatements, HoistBranches, Then
<1>4. CASE e.op = "arrow"
    <2>1. f[e.init] = g[e.init] /\ f[e.body] = g[e.body]
        BY <1>4, Parts DEF Agreeing
    <2> QED BY <1>4, <2>1 DEF CStatements, Then
<1>5. CASE e.op = "call"
    <2>1. f[e.arg] = g[e.arg] /\ f[pr[e.callee]] = g[pr[e.callee]]
        BY <1>5, Parts, Callee DEF Agreeing
    <2> QED BY <1>5, <2>1 DEF CStatements, CStepFunction, Then
<1> QED BY <1>1, <1>2, <1>3, <1>4, <1>5, Parts

(* The hoisted statements are what their definition says.                  *)
LEMMA CHoistUnfolds ==
    ASSUME NEW pr \in Programs
    PROVE  /\ CHoist(pr) \in Evaluators
           /\ \A e \in Exprs, x \in Values, p \in Seq(Nat), s \in States :
                CHoist(pr)[e][x, p, s] = CStatements(pr, CHoist(pr), e, x, p, s)
<1> DEFINE D == [Frames -> Results]
           row(f, e) == [i \in Frames |-> CStatements(pr, f, e, i[1], i[2], i[3])]
           step == [e \in Exprs |-> [f \in [Exprs -> D] |-> row(f, e)]]
<1>1. ASSUME NEW f \in [Exprs -> D], NEW e \in Exprs PROVE row(f, e) \in D
    <2>1. \A x \in Values, p \in Seq(Nat), s \in States : CStatements(pr, f, e, x, p, s) \in Results
        BY CStatementsResult DEF Evaluators
    <2> QED BY <2>1 DEF Frames
<1>2. step \in [Exprs -> [[Exprs -> D] -> D]]
    <2> HIDE DEF row, D
    <2> QED BY <1>1
<1>3. ASSUME NEW e \in Exprs, NEW f, NEW g, Agreeing(f, g, e) PROVE row(f, e) = row(g, e)
    <2>1. \A x, p, s : CStatements(pr, f, e, x, p, s) = CStatements(pr, g, e, x, p, s)
        BY <1>3, CStatementsDepend
    <2> QED BY <2>1
<1>4. \A e \in Exprs : \A f, g \in [Exprs -> D] :
        (\A o : Below(o, e) => f[o] = g[o]) => step[e][f] = step[e][g]
    <2> HIDE DEF row, D
    <2> QED BY <1>3 DEF Agreeing
<1>5. [i \in Frames |-> Ok(0, [p \in Paths |-> Fresh])] \in D
    BY SomeResult
<1>6. PICK f : Solves(f, Exprs, D, step)
    <2> HIDE DEF step, D
    <2> QED BY <1>2, <1>4, <1>5, ExprRecursion
<1>7. f \in [Exprs -> D] /\ f = [e \in Exprs |-> row(f, e)]
    <2> HIDE DEF row, D
    <2> QED BY <1>6 DEF Solves
<1>8. CHoist(pr) = CHOOSE g : g = [e \in Exprs |-> row(g, e)]
    BY DEF CHoist
<1>9. CHoist(pr) = [e \in Exprs |-> row(CHoist(pr), e)]
    <2> HIDE DEF row
    <2> QED BY <1>7, <1>8
<1> HIDE DEF row
<1> DEFINE T == {e \in Exprs : CHoist(pr)[e] = f[e]}
<1>10. Exprs \subseteq T
    <2>1. ASSUME NEW e \in Exprs, \A o : Below(o, e) => o \in T
          PROVE  e \in T
        <3>1. Agreeing(CHoist(pr), f, e)
            BY <2>1 DEF Agreeing
        <3>2. row(CHoist(pr), e) = row(f, e)
            BY <1>3, <3>1
        <3> QED BY <1>7, <1>9, <3>2
    <2> HIDE DEF T
    <2> QED BY <2>1, ExprInduction
<1>11. CHoist(pr) = f
    BY <1>7, <1>9, <1>10
<1>12. CHoist(pr) \in Evaluators
    BY <1>7, <1>11 DEF Evaluators
<1>13. ASSUME NEW e \in Exprs, NEW x \in Values, NEW p \in Seq(Nat), NEW s \in States
       PROVE  CHoist(pr)[e][x, p, s] = CStatements(pr, CHoist(pr), e, x, p, s)
    <2>1. CHoist(pr)[e] = row(CHoist(pr), e)
        BY <1>9
    <2>2. <<x, p, s>> \in Frames
        BY DEF Frames
    <2> QED BY <2>1, <2>2 DEF row
<1> QED BY <1>12, <1>13

(* The instances below an expression are what their definition says.       *)
LEMMA CallsInUnfolds ==
    ASSUME NEW pr \in Programs
    PROVE  /\ CallsIn(pr) \in [Exprs -> SUBSET Seq(Nat)]
           /\ \A e \in Exprs : CallsIn(pr)[e] = CallsOf(pr, CallsIn(pr), e)
<1> DEFINE D == SUBSET Seq(Nat)
           row(f, e) == CallsOf(pr, f, e)
           step == [e \in Exprs |-> [f \in [Exprs -> D] |-> row(f, e)]]
<1>1. ASSUME NEW f \in [Exprs -> D], NEW e \in Exprs PROVE row(f, e) \in D
    <2>1. \A k \in DOMAIN Operands(e) : f[Operands(e)[k]] \subseteq Seq(Nat)
        BY Parts DEF Below
    <2>2. e.op = "call" => <<e.site>> \in Seq(Nat)
        BY Parts
    <2>3. e.op = "call" => \A q \in f[pr[e.callee]] : <<e.site>> \o q \in Seq(Nat)
        BY <2>2, Callee DEF Below
    <2>4. UNION {f[Operands(e)[k]] : k \in DOMAIN Operands(e)} \subseteq Seq(Nat)
        BY <2>1
    <2>5. e.op = "call" => {<<e.site>>} \cup {<<e.site>> \o q : q \in f[pr[e.callee]]} \subseteq Seq(Nat)
        BY <2>2, <2>3
    <2> QED BY <2>4, <2>5 DEF CallsOf
<1>2. step \in [Exprs -> [[Exprs -> D] -> D]]
    <2> HIDE DEF row, D
    <2> QED BY <1>1
<1>3. ASSUME NEW e \in Exprs, NEW f, NEW g, Agreeing(f, g, e) PROVE row(f, e) = row(g, e)
    <2>1. \A k \in DOMAIN Operands(e) : f[Operands(e)[k]] = g[Operands(e)[k]]
        BY <1>3, Parts DEF Agreeing
    <2>2. e.op = "call" => f[pr[e.callee]] = g[pr[e.callee]]
        BY <1>3, Callee DEF Agreeing
    <2>3. {f[Operands(e)[k]] : k \in DOMAIN Operands(e)} = {g[Operands(e)[k]] : k \in DOMAIN Operands(e)}
        BY <2>1
    <2> QED BY <2>2, <2>3, Zenon DEF CallsOf
<1>4. \A e \in Exprs : \A f, g \in [Exprs -> D] :
        (\A o : Below(o, e) => f[o] = g[o]) => step[e][f] = step[e][g]
    <2> HIDE DEF row, D
    <2> QED BY <1>3 DEF Agreeing
<1>5. {} \in D
    OBVIOUS
<1>6. PICK f : Solves(f, Exprs, D, step)
    <2> HIDE DEF step, D
    <2> QED BY <1>2, <1>4, <1>5, ExprRecursion
<1>7. f \in [Exprs -> D] /\ f = [e \in Exprs |-> row(f, e)]
    <2> HIDE DEF row, D
    <2> QED BY <1>6 DEF Solves
<1>8. CallsIn(pr) = CHOOSE g : g = [e \in Exprs |-> row(g, e)]
    BY DEF CallsIn
<1>9. CallsIn(pr) = [e \in Exprs |-> row(CallsIn(pr), e)]
    <2> HIDE DEF row
    <2> QED BY <1>7, <1>8
<1> HIDE DEF row
<1> DEFINE T == {e \in Exprs : CallsIn(pr)[e] = f[e]}
<1>10. Exprs \subseteq T
    <2>1. ASSUME NEW e \in Exprs, \A o : Below(o, e) => o \in T
          PROVE  e \in T
        <3>1. Agreeing(CallsIn(pr), f, e)
            BY <2>1 DEF Agreeing
        <3>2. row(CallsIn(pr), e) = row(f, e)
            BY <1>3, <3>1
        <3> QED BY <1>7, <1>9, <3>2
    <2> HIDE DEF T
    <2> QED BY <2>1, ExprInduction
<1>11. CallsIn(pr) = f
    BY <1>7, <1>9, <1>10
<1>12. \A e \in Exprs : CallsIn(pr)[e] = row(CallsIn(pr), e)
    BY <1>9
<1> QED BY <1>7, <1>11, <1>12 DEF row

(* The failures of an expression are what their definition says.           *)
LEMMA FailuresUnfold ==
    ASSUME NEW pr \in Programs
    PROVE  /\ Failures(pr) \in [Exprs -> SUBSET {"pre", "div"}]
           /\ \A e \in Exprs : Failures(pr)[e] = FailuresOf(pr, Failures(pr), e)
<1> DEFINE D == SUBSET {"pre", "div"}
           row(f, e) == FailuresOf(pr, f, e)
           step == [e \in Exprs |-> [f \in [Exprs -> D] |-> row(f, e)]]
<1>1. ASSUME NEW f \in [Exprs -> D], NEW e \in Exprs PROVE row(f, e) \in D
    <2>1. e.op \in {"add", "div"} => f[e.l] \in D /\ f[e.r] \in D
        BY Parts DEF Below
    <2>2. e.op = "if" => f[e.cond] \in D /\ f[e.then] \in D /\ f[e.else] \in D
        BY Parts DEF Below
    <2>3. e.op = "arrow" => f[e.init] \in D /\ f[e.body] \in D
        BY Parts DEF Below
    <2>4. e.op = "call" => f[e.arg] \in D /\ f[pr[e.callee]] \in D
        BY Parts, Callee DEF Below
    <2> QED BY <2>1, <2>2, <2>3, <2>4, Parts DEF FailuresOf
<1>2. step \in [Exprs -> [[Exprs -> D] -> D]]
    <2> HIDE DEF row, D
    <2> QED BY <1>1
<1>3. ASSUME NEW e \in Exprs, NEW f, NEW g, Agreeing(f, g, e) PROVE row(f, e) = row(g, e)
    <2>1. e.op \in {"add", "div"} => f[e.l] = g[e.l] /\ f[e.r] = g[e.r]
        BY <1>3, Parts DEF Agreeing
    <2>2. e.op = "if" => f[e.cond] = g[e.cond] /\ f[e.then] = g[e.then] /\ f[e.else] = g[e.else]
        BY <1>3, Parts DEF Agreeing
    <2>3. e.op = "arrow" => f[e.init] = g[e.init] /\ f[e.body] = g[e.body]
        BY <1>3, Parts DEF Agreeing
    <2>4. e.op = "call" => f[e.arg] = g[e.arg] /\ f[pr[e.callee]] = g[pr[e.callee]]
        BY <1>3, Parts, Callee DEF Agreeing
    <2> QED BY <2>1, <2>2, <2>3, <2>4 DEF FailuresOf
<1>4. \A e \in Exprs : \A f, g \in [Exprs -> D] :
        (\A o : Below(o, e) => f[o] = g[o]) => step[e][f] = step[e][g]
    <2> HIDE DEF row, D
    <2> QED BY <1>3 DEF Agreeing
<1>5. {} \in D
    OBVIOUS
<1>6. PICK f : Solves(f, Exprs, D, step)
    <2> HIDE DEF step, D
    <2> QED BY <1>2, <1>4, <1>5, ExprRecursion
<1>7. f \in [Exprs -> D] /\ f = [e \in Exprs |-> row(f, e)]
    <2> HIDE DEF row, D
    <2> QED BY <1>6 DEF Solves
<1>8. Failures(pr) = CHOOSE g : g = [e \in Exprs |-> row(g, e)]
    BY DEF Failures
<1>9. Failures(pr) = [e \in Exprs |-> row(Failures(pr), e)]
    <2> HIDE DEF row
    <2> QED BY <1>7, <1>8
<1> HIDE DEF row
<1> DEFINE T == {e \in Exprs : Failures(pr)[e] = f[e]}
<1>10. Exprs \subseteq T
    <2>1. ASSUME NEW e \in Exprs, \A o : Below(o, e) => o \in T
          PROVE  e \in T
        <3>1. Agreeing(Failures(pr), f, e)
            BY <2>1 DEF Agreeing
        <3>2. row(Failures(pr), e) = row(f, e)
            BY <1>3, <3>1
        <3> QED BY <1>7, <1>9, <3>2
    <2> HIDE DEF T
    <2> QED BY <2>1, ExprInduction
<1>11. Failures(pr) = f
    BY <1>7, <1>9, <1>10
<1>12. \A e \in Exprs : Failures(pr)[e] = row(Failures(pr), e)
    BY <1>9
<1> QED BY <1>7, <1>11, <1>12 DEF row

(* When an evaluation reaches the calls is what the definition says.       *)
LEMMA ReachesUnfolds ==
    ASSUME NEW pr \in Programs
    PROVE  /\ ReachesCalls(pr) \in [Exprs -> SUBSET BOOLEAN]
           /\ \A e \in Exprs : ReachesCalls(pr)[e] = ReachesOf(pr, ReachesCalls(pr), e)
<1> DEFINE D == SUBSET BOOLEAN
           row(f, e) == ReachesOf(pr, f, e)
           step == [e \in Exprs |-> [f \in [Exprs -> D] |-> row(f, e)]]
<1>1. ASSUME NEW f \in [Exprs -> D], NEW e \in Exprs PROVE row(f, e) \in D
    <2>1. e.op \in {"add", "div"} => f[e.l] \in D /\ f[e.r] \in D
        BY Parts DEF Below
    <2>2. e.op = "if" => f[e.cond] \in D /\ f[e.then] \in D /\ f[e.else] \in D
        BY Parts DEF Below
    <2>3. e.op = "arrow" => f[e.init] \in D /\ f[e.body] \in D
        BY Parts DEF Below
    <2>4. e.op = "call" => f[e.arg] \in D /\ f[pr[e.callee]] \in D
        BY Parts, Callee DEF Below
    <2> QED BY <2>1, <2>2, <2>3, <2>4, Parts DEF ReachesOf
<1>2. step \in [Exprs -> [[Exprs -> D] -> D]]
    <2> HIDE DEF row, D
    <2> QED BY <1>1
<1>3. ASSUME NEW e \in Exprs, NEW f, NEW g, Agreeing(f, g, e) PROVE row(f, e) = row(g, e)
    <2>1. e.op \in {"add", "div"} => f[e.l] = g[e.l] /\ f[e.r] = g[e.r]
        BY <1>3, Parts DEF Agreeing
    <2>2. e.op = "if" => f[e.cond] = g[e.cond] /\ f[e.then] = g[e.then] /\ f[e.else] = g[e.else]
        BY <1>3, Parts DEF Agreeing
    <2>3. e.op = "arrow" => f[e.init] = g[e.init] /\ f[e.body] = g[e.body]
        BY <1>3, Parts DEF Agreeing
    <2>4. e.op = "call" => f[e.arg] = g[e.arg] /\ f[pr[e.callee]] = g[pr[e.callee]]
        BY <1>3, Parts, Callee DEF Agreeing
    <2> QED BY <2>1, <2>2, <2>3, <2>4 DEF ReachesOf
<1>4. \A e \in Exprs : \A f, g \in [Exprs -> D] :
        (\A o : Below(o, e) => f[o] = g[o]) => step[e][f] = step[e][g]
    <2> HIDE DEF row, D
    <2> QED BY <1>3 DEF Agreeing
<1>5. {} \in D
    OBVIOUS
<1>6. PICK f : Solves(f, Exprs, D, step)
    <2> HIDE DEF step, D
    <2> QED BY <1>2, <1>4, <1>5, ExprRecursion
<1>7. f \in [Exprs -> D] /\ f = [e \in Exprs |-> row(f, e)]
    <2> HIDE DEF row, D
    <2> QED BY <1>6 DEF Solves
<1>8. ReachesCalls(pr) = CHOOSE g : g = [e \in Exprs |-> row(g, e)]
    BY DEF ReachesCalls
<1>9. ReachesCalls(pr) = [e \in Exprs |-> row(ReachesCalls(pr), e)]
    <2> HIDE DEF row
    <2> QED BY <1>7, <1>8
<1> HIDE DEF row
<1> DEFINE T == {e \in Exprs : ReachesCalls(pr)[e] = f[e]}
<1>10. Exprs \subseteq T
    <2>1. ASSUME NEW e \in Exprs, \A o : Below(o, e) => o \in T
          PROVE  e \in T
        <3>1. Agreeing(ReachesCalls(pr), f, e)
            BY <2>1 DEF Agreeing
        <3>2. row(ReachesCalls(pr), e) = row(f, e)
            BY <1>3, <3>1
        <3> QED BY <1>7, <1>9, <3>2
    <2> HIDE DEF T
    <2> QED BY <2>1, ExprInduction
<1>11. ReachesCalls(pr) = f
    BY <1>7, <1>9, <1>10
<1>12. \A e \in Exprs : ReachesCalls(pr)[e] = row(ReachesCalls(pr), e)
    BY <1>9
<1> QED BY <1>7, <1>11, <1>12 DEF row
-----------------------------------------------------------------------------
(* The instances of an expression, by path.                                *)

(* Those of its parts are apart from each other.                           *)
LEMMA CallsOfParts ==
    ASSUME NEW pr \in Programs, NEW e \in Exprs
    PROVE  /\ e.op \in {"const", "in", "pre"} => CallsIn(pr)[e] = {}
           /\ e.op \in {"add", "div"} =>
                /\ CallsIn(pr)[e] = CallsIn(pr)[e.l] \cup CallsIn(pr)[e.r]
                /\ CallsIn(pr)[e.l] \cap CallsIn(pr)[e.r] = {}
           /\ e.op = "if" =>
                /\ CallsIn(pr)[e] = CallsIn(pr)[e.cond] \cup CallsIn(pr)[e.then] \cup CallsIn(pr)[e.else]
                /\ CallsIn(pr)[e.cond] \cap CallsIn(pr)[e.then] = {}
                /\ CallsIn(pr)[e.cond] \cap CallsIn(pr)[e.else] = {}
                /\ CallsIn(pr)[e.then] \cap CallsIn(pr)[e.else] = {}
           /\ e.op = "arrow" =>
                /\ CallsIn(pr)[e] = CallsIn(pr)[e.init] \cup CallsIn(pr)[e.body]
                /\ CallsIn(pr)[e.init] \cap CallsIn(pr)[e.body] = {}
           /\ e.op = "call" =>
                /\ CallsIn(pr)[e] = CallsIn(pr)[e.arg] \cup {<<e.site>>}
                                    \cup {<<e.site>> \o q : q \in CallsIn(pr)[pr[e.callee]]}
                /\ \A q \in CallsIn(pr)[e.arg] : q[1] # e.site
<1> DEFINE C == CallsIn(pr)
           parts == {C[Operands(e)[k]] : k \in DOMAIN Operands(e)}
           own == IF e.op = "call"
                  THEN {<<e.site>>} \cup {<<e.site>> \o q : q \in C[pr[e.callee]]}
                  ELSE {}
<1>1. C[e] = own \cup UNION parts
    BY CallsInUnfolds DEF CallsOf
<1>2. /\ \A j, k \in DOMAIN Operands(e) : j # k => C[Operands(e)[j]] \cap C[Operands(e)[k]] = {}
      /\ e.op = "call" => \A q \in C[e.arg] : q[1] # e.site
    BY ProgramAssumption
<1>3. CASE e.op \in {"const", "in", "pre"}
    <2>1. Operands(e) = << >>
        BY <1>3 DEF Operands
    <2>2. parts = {} /\ own = {}
        BY <1>3, <2>1
    <2> QED BY <1>1, <1>3, <2>2
<1>4. ASSUME NEW l, NEW r, Operands(e) = <<l, r>>
      PROVE  UNION parts = C[l] \cup C[r] /\ C[l] \cap C[r] = {}
    <2>1. parts = {C[l], C[r]}
        BY <1>4
    <2>2. 1 \in DOMAIN Operands(e) /\ 2 \in DOMAIN Operands(e)
        BY <1>4
    <2> QED BY <1>2, <1>4, <2>1, <2>2
<1>5. CASE e.op \in {"add", "div"}
    <2>1. Operands(e) = <<e.l, e.r>> /\ own = {}
        BY <1>5 DEF Operands
    <2> QED BY <1>1, <1>4, <1>5, <2>1
<1>6. CASE e.op = "arrow"
    <2>1. Operands(e) = <<e.init, e.body>> /\ own = {}
        BY <1>6 DEF Operands
    <2> QED BY <1>1, <1>4, <1>6, <2>1
<1>7. CASE e.op = "if"
    <2>1. Operands(e) = <<e.cond, e.then, e.else>> /\ own = {}
        BY <1>7 DEF Operands
    <2>2. 1 \in DOMAIN Operands(e) /\ 2 \in DOMAIN Operands(e) /\ 3 \in DOMAIN Operands(e)
        BY <2>1
    <2>3. parts = {C[e.cond], C[e.then], C[e.else]}
        BY <2>1
    <2>4. UNION parts = C[e.cond] \cup C[e.then] \cup C[e.else]
        BY <2>3
    <2>5. /\ C[e.cond] \cap C[e.then] = {} /\ C[e.cond] \cap C[e.else] = {}
          /\ C[e.then] \cap C[e.else] = {}
        <3>1. Operands(e)[1] = e.cond /\ Operands(e)[2] = e.then /\ Operands(e)[3] = e.else
            BY <2>1
        <3> HIDE DEF C
        <3> QED BY <1>2, <2>2, <3>1
    <2> QED BY <1>1, <1>7, <2>1, <2>4, <2>5
<1>8. CASE e.op = "call"
    <2>1. Operands(e) = <<e.arg>>
        BY <1>8 DEF Operands
    <2>2. parts = {C[e.arg]}
        BY <2>1
    <2>3. UNION parts = C[e.arg]
        BY <2>2
    <2>4. own = {<<e.site>>} \cup {<<e.site>> \o q : q \in C[pr[e.callee]]}
        BY <1>8
    <2> HIDE DEF C, parts, own
    <2> QED BY <1>1, <1>2, <1>8, <2>3, <2>4 DEF C
<1> QED BY <1>3, <1>5, <1>6, <1>7, <1>8, Parts

(* The way to an instance starts at a call of the expression itself.       *)
LEMMA FirstSite ==
    ASSUME NEW pr \in Programs, NEW e \in Exprs
    PROVE  \A q \in CallsIn(pr)[e] : Len(q) >= 1 /\ q[1] \in Nat /\ <<q[1]>> \in CallsIn(pr)[e]
<1> DEFINE Good(o) == \A q \in CallsIn(pr)[o] : Len(q) >= 1 /\ q[1] \in Nat /\ <<q[1]>> \in CallsIn(pr)[o]
           T == {o \in Exprs : Good(o)}
<1>1. ASSUME NEW o \in Exprs, \A u : Below(u, o) => u \in T PROVE o \in T
    <2>1. \A u : Below(u, o) => Good(u)
        BY <1>1
    <2>2. CASE o.op \in {"const", "in", "pre"}
        BY <2>2, CallsOfParts
    <2>3. CASE o.op \in {"add", "div"}
        <3>1. Good(o.l) /\ Good(o.r)
            BY <2>1, <2>3, Parts
        <3>2. CallsIn(pr)[o] = CallsIn(pr)[o.l] \cup CallsIn(pr)[o.r]
            BY <2>3, CallsOfParts
        <3> QED BY <3>1, <3>2
    <2>4. CASE o.op = "if"
        <3>1. Good(o.cond) /\ Good(o.then) /\ Good(o.else)
            BY <2>1, <2>4, Parts
        <3>2. CallsIn(pr)[o] = CallsIn(pr)[o.cond] \cup CallsIn(pr)[o.then] \cup CallsIn(pr)[o.else]
            BY <2>4, CallsOfParts
        <3> QED BY <3>1, <3>2
    <2>5. CASE o.op = "arrow"
        <3>1. Good(o.init) /\ Good(o.body)
            BY <2>1, <2>5, Parts
        <3>2. CallsIn(pr)[o] = CallsIn(pr)[o.init] \cup CallsIn(pr)[o.body]
            BY <2>5, CallsOfParts
        <3> QED BY <3>1, <3>2
    <2>6. CASE o.op = "call"
        <3>1. Good(o.arg) /\ o.site \in Nat
            BY <2>1, <2>6, Parts
        <3>2. ASSUME NEW q \in CallsIn(pr)[pr[o.callee]]
              PROVE  Len(<<o.site>> \o q) >= 1 /\ (<<o.site>> \o q)[1] = o.site
            <4>1. q \in Seq(Nat)
                BY <2>6, CallsInUnfolds, Callee DEF Below
            <4> QED BY <3>1, <4>1
        <3>3. CallsIn(pr)[o] = CallsIn(pr)[o.arg] \cup {<<o.site>>}
                               \cup {<<o.site>> \o q : q \in CallsIn(pr)[pr[o.callee]]}
            BY <2>6, CallsOfParts
        <3> QED BY <3>1, <3>2, <3>3
    <2> QED BY <2>2, <2>3, <2>4, <2>5, <2>6, Parts
<1>2. Exprs \subseteq T
    <2> HIDE DEF T
    <2> QED BY <1>1, ExprInduction
<1> QED BY <1>2

(* What a path that continues another looks like.                          *)
LEMMA Continues ==
    ASSUME NEW p \in Seq(Nat), NEW q \in Seq(Nat), NEW n \in Nat
    PROVE  /\ Append(p, n) \in Seq(Nat)
           /\ IsPrefix(Append(p, n), q) <=>
                Len(q) > Len(p) /\ q[Len(p) + 1] = n /\ \A i \in 1 .. Len(p) : q[i] = p[i]
<1> DEFINE a == Append(p, n)
<1>1. /\ a \in Seq(Nat) /\ Len(a) = Len(p) + 1 /\ a[Len(p) + 1] = n
      /\ \A i \in 1 .. Len(p) : a[i] = p[i]
    OBVIOUS
<1> HIDE DEF a
<1>2. ASSUME Len(q) >= Len(a)
      PROVE  SubSeq(a, 1, Len(a)) = SubSeq(q, 1, Len(a)) <=> \A i \in 1 .. Len(a) : a[i] = q[i]
    <2>1. SubSeq(a, 1, Len(a)) \in Seq(Nat) /\ Len(SubSeq(a, 1, Len(a))) = Len(a)
          /\ \A i \in 1 .. Len(a) : SubSeq(a, 1, Len(a))[i] = a[i]
        <3>1. a \in Seq(Nat)
            BY <1>1
        <3> QED BY <3>1
    <2>2. SubSeq(q, 1, Len(a)) \in Seq(Nat) /\ Len(SubSeq(q, 1, Len(a))) = Len(a)
          /\ \A i \in 1 .. Len(a) : SubSeq(q, 1, Len(a))[i] = q[i]
        BY <1>1, <1>2
    <2> DEFINE y == SubSeq(a, 1, Len(a))
               z == SubSeq(q, 1, Len(a))
    <2>3. y = z <=> \A i \in 1 .. Len(a) : y[i] = z[i]
        <3> HIDE DEF y, z
        <3>1. y \in Seq(Nat) /\ z \in Seq(Nat) /\ Len(y) = Len(a) /\ Len(z) = Len(a)
            BY <2>1, <2>2 DEF y, z
        <3>2. y = [i \in 1 .. Len(a) |-> y[i]] /\ z = [i \in 1 .. Len(a) |-> z[i]]
            BY <3>1
        <3> QED BY <3>2
    <2> QED BY <2>1, <2>2, <2>3
<1>3. IsPrefix(a, q) <=> Len(a) <= Len(q) /\ \A i \in 1 .. Len(a) : a[i] = q[i]
    BY <1>1, <1>2 DEF IsPrefix
<1>4. 1 .. Len(a) = 1 .. Len(p) \cup {Len(p) + 1}
    BY <1>1
<1>5. (\A i \in 1 .. Len(a) : a[i] = q[i])
        <=> q[Len(p) + 1] = n /\ \A i \in 1 .. Len(p) : q[i] = p[i]
    BY <1>1, <1>4
<1>6. Len(a) <= Len(q) <=> Len(q) > Len(p)
    BY <1>1
<1> QED BY <1>1, <1>3, <1>5, <1>6 DEF a

Under(p) == {q \in Paths : IsPrefix(p, q)}

\* The states that an evaluation of e in instance p may change.
Zone(pr, e, p) == {q \in Paths : \E n \in Nat : <<n>> \in CallsIn(pr)[e] /\ IsPrefix(Append(p, n), q)}

(* The zones of an expression's parts are apart, and none holds the        *)
(* instance itself.                                                        *)
LEMMA Zones ==
    ASSUME NEW pr \in Programs, NEW e \in Exprs, NEW p \in Seq(Nat)
    PROVE  /\ p \notin Zone(pr, e, p)
           /\ e.op \in {"const", "in", "pre"} => Zone(pr, e, p) = {}
           /\ e.op \in {"add", "div"} =>
                /\ Zone(pr, e, p) = Zone(pr, e.l, p) \cup Zone(pr, e.r, p)
                /\ Zone(pr, e.l, p) \cap Zone(pr, e.r, p) = {}
           /\ e.op = "if" =>
                /\ Zone(pr, e, p) = Zone(pr, e.cond, p) \cup Zone(pr, e.then, p) \cup Zone(pr, e.else, p)
                /\ Zone(pr, e.cond, p) \cap Zone(pr, e.then, p) = {}
                /\ Zone(pr, e.cond, p) \cap Zone(pr, e.else, p) = {}
                /\ Zone(pr, e.then, p) \cap Zone(pr, e.else, p) = {}
           /\ e.op = "arrow" =>
                /\ Zone(pr, e, p) = Zone(pr, e.init, p) \cup Zone(pr, e.body, p)
                /\ Zone(pr, e.init, p) \cap Zone(pr, e.body, p) = {}
           /\ e.op = "call" =>
                /\ Zone(pr, e, p) = Zone(pr, e.arg, p) \cup Under(Append(p, e.site))
                /\ Zone(pr, e.arg, p) \cap Under(Append(p, e.site)) = {}
<1> DEFINE C(o) == CallsIn(pr)[o]
           Z(o) == Zone(pr, o, p)
<1>1. \A q \in Paths, n \in Nat :
        IsPrefix(Append(p, n), q) <=>
            Len(q) > Len(p) /\ q[Len(p) + 1] = n /\ \A i \in 1 .. Len(p) : q[i] = p[i]
    BY Continues, ProgramAssumption
<1>2. p \notin Zone(pr, e, p)
    <2>1. ~(Len(p) > Len(p))
        OBVIOUS
    <2> QED BY <1>1, <2>1 DEF Zone
<1>3. ASSUME NEW l, NEW r, C(l) \cap C(r) = {} PROVE Z(l) \cap Z(r) = {}
    <2> SUFFICES ASSUME NEW q \in Z(l), q \in Z(r) PROVE FALSE
        OBVIOUS
    <2>1. q \in Paths
        BY DEF Zone
    <2>2. PICK n \in Nat : <<n>> \in C(l) /\ IsPrefix(Append(p, n), q)
        BY DEF Zone
    <2>3. PICK m \in Nat : <<m>> \in C(r) /\ IsPrefix(Append(p, m), q)
        BY DEF Zone
    <2>4. n = m
        BY <1>1, <2>1, <2>2, <2>3
    <2> QED BY <1>3, <2>2, <2>3, <2>4
<1>4. CASE e.op \in {"const", "in", "pre"}
    <2>1. C(e) = {}
        BY <1>4, CallsOfParts
    <2>2. Z(e) = {}
        BY <2>1 DEF Zone
    <2> QED BY <1>2, <1>4, <2>2
<1>5. CASE e.op \in {"add", "div"}
    <2>1. C(e) = C(e.l) \cup C(e.r) /\ C(e.l) \cap C(e.r) = {}
        BY <1>5, CallsOfParts
    <2>2. Z(e) = Z(e.l) \cup Z(e.r)
        BY <2>1 DEF Zone
    <2>3. Z(e.l) \cap Z(e.r) = {}
        BY <1>3, <2>1
    <2> QED BY <1>2, <1>5, <2>2, <2>3
<1>6. CASE e.op = "if"
    <2>1. /\ C(e) = C(e.cond) \cup C(e.then) \cup C(e.else)
          /\ C(e.cond) \cap C(e.then) = {} /\ C(e.cond) \cap C(e.else) = {}
          /\ C(e.then) \cap C(e.else) = {}
        BY <1>6, CallsOfParts
    <2>2. Z(e) = Z(e.cond) \cup Z(e.then) \cup Z(e.else)
        BY <2>1 DEF Zone
    <2>3. /\ Z(e.cond) \cap Z(e.then) = {} /\ Z(e.cond) \cap Z(e.else) = {}
          /\ Z(e.then) \cap Z(e.else) = {}
        BY <1>3, <2>1
    <2> QED BY <1>2, <1>6, <2>2, <2>3
<1>7. CASE e.op = "arrow"
    <2>1. C(e) = C(e.init) \cup C(e.body) /\ C(e.init) \cap C(e.body) = {}
        BY <1>7, CallsOfParts
    <2>2. Z(e) = Z(e.init) \cup Z(e.body)
        BY <2>1 DEF Zone
    <2>3. Z(e.init) \cap Z(e.body) = {}
        BY <1>3, <2>1
    <2> QED BY <1>2, <1>7, <2>2, <2>3
<1>8. CASE e.op = "call"
    <2>1. e.arg \in Exprs /\ e.site \in Nat /\ pr[e.callee] \in Exprs
        BY <1>8, Parts, Callee DEF Below
    <2>2. C(e) = C(e.arg) \cup {<<e.site>>} \cup {<<e.site>> \o q : q \in C(pr[e.callee])}
        BY <1>8, CallsOfParts
    <2>3. \A q \in C(e.arg) : q[1] # e.site
        BY <1>8, CallsOfParts
    <2>4. \A n \in Nat : <<n>> \in C(e) <=> <<n>> \in C(e.arg) \/ n = e.site
        <3>1. \A q \in C(pr[e.callee]) : Len(<<e.site>> \o q) > 1
            <4>1. \A q \in C(pr[e.callee]) : q \in Seq(Nat) /\ Len(q) >= 1
                BY <2>1, CallsInUnfolds, FirstSite
            <4> QED BY <2>1, <4>1
        <3>2. \A n \in Nat : Len(<<n>>) = 1 /\ (<<n>> = <<e.site>> <=> n = e.site)
            OBVIOUS
        <3>3. \A n \in Nat : \A q \in C(pr[e.callee]) : <<n>> # <<e.site>> \o q
            BY <3>1, <3>2
        <3> QED BY <2>2, <3>2, <3>3
    <2>5. Z(e) = Z(e.arg) \cup Under(Append(p, e.site))
        BY <2>1, <2>4 DEF Zone, Under
    <2>6. <<e.site>> \notin C(e.arg)
        BY <2>3
    <2>7. Z(e.arg) \cap Under(Append(p, e.site)) = {}
        BY <1>1, <2>1, <2>6 DEF Zone, Under
    <2> QED BY <1>2, <1>8, <2>5, <2>7
<1> QED BY <1>4, <1>5, <1>6, <1>7, <1>8, Parts

(* The zone of a call's body lies under the call's instance.               *)
LEMMA BodyZone ==
    ASSUME NEW pr \in Programs, NEW e \in Exprs, e.op = "call", NEW p \in Seq(Nat)
    PROVE  /\ Append(p, e.site) \in Seq(Nat)
           /\ Append(p, e.site) \in Paths => Append(p, e.site) \in Under(Append(p, e.site))
           /\ Zone(pr, pr[e.callee], Append(p, e.site)) \subseteq Under(Append(p, e.site))
<1> DEFINE a == Append(p, e.site)
<1>1. e.site \in Nat /\ Paths \subseteq Seq(Nat)
    BY ProgramAssumption
<1>2. a \in Seq(Nat) /\ Len(a) = Len(p) + 1 /\ a[Len(p) + 1] = e.site
      /\ \A i \in 1 .. Len(p) : a[i] = p[i]
    BY <1>1
<1>3. \A q \in Seq(Nat) : IsPrefix(a, q) <=>
        Len(q) > Len(p) /\ q[Len(p) + 1] = e.site /\ \A i \in 1 .. Len(p) : q[i] = p[i]
    BY <1>1, Continues
<1> HIDE DEF a
<1>4. a \in Paths => a \in Under(a)
    BY <1>2, <1>3 DEF Under
<1>5. ASSUME NEW q \in Paths, NEW n \in Nat, IsPrefix(Append(a, n), q) PROVE IsPrefix(a, q)
    <2>1. Len(q) > Len(a) /\ \A i \in 1 .. Len(a) : q[i] = a[i]
        <3>1. q \in Seq(Nat) /\ a \in Seq(Nat)
            BY <1>1, <1>2
        <3> QED BY <1>5, <3>1, Continues
    <2>2. Len(q) > Len(p) /\ q[Len(p) + 1] = e.site /\ \A i \in 1 .. Len(p) : q[i] = p[i]
        BY <1>2, <2>1
    <2> QED BY <1>1, <1>3, <2>2
<1>6. Zone(pr, pr[e.callee], a) \subseteq Under(a)
    BY <1>5 DEF Zone, Under
<1> QED BY <1>2, <1>4, <1>6 DEF a

\* What an evaluation or the statements of the C return.
Sim(pr, e, x, p, s) == SimEval(pr)[e][x, p, s]
Hoist(pr, e, x, p, s) == CHoist(pr)[e][x, p, s]
Val(e, x, p, s) == CExpr[e][x, p, s]

(* They are results.                                                       *)
LEMMA Typed ==
    ASSUME NEW pr \in Programs, NEW e \in Exprs,
           NEW x \in Values, NEW p \in Seq(Nat), NEW s \in States
    PROVE  /\ Sim(pr, e, x, p, s) \in Results
           /\ Sim(pr, e, x, p, s).v \in Values /\ Sim(pr, e, x, p, s).st \in States
           /\ Hoist(pr, e, x, p, s) \in Results
           /\ Hoist(pr, e, x, p, s).v \in Values /\ Hoist(pr, e, x, p, s).st \in States
           /\ Val(e, x, p, s) \in Results
           /\ Val(e, x, p, s).v \in Values /\ Val(e, x, p, s).st \in States
<1>1. <<x, p, s>> \in Frames
    BY DEF Frames
<1>2. \A f \in Evaluators : f[e][x, p, s] \in Results
    BY <1>1 DEF Evaluators
<1>3. \A r \in Results : r.v \in Values /\ r.st \in States
    BY DEF Results
<1> QED BY <1>2, <1>3, SimEvalUnfolds, CHoistUnfolds, CExprUnfolds DEF Sim, Hoist, Val

(* The simulator on each form of expression.                               *)
LEMMA SimOf ==
    ASSUME NEW pr \in Programs, NEW e \in Exprs,
           NEW x \in Values, NEW p \in Seq(Nat), NEW s \in States
    PROVE  /\ e.op = "const" => Sim(pr, e, x, p, s) = Ok(e.v, s)
           /\ e.op = "in" => Sim(pr, e, x, p, s) = Ok(x, s)
           /\ e.op = "pre" => Sim(pr, e, x, p, s) = IF State(s, p).cycle = 0 THEN Err(s)
                                                    ELSE Ok(State(s, p).prev, s)
           /\ e.op \in {"add", "div"} =>
                LET l == Sim(pr, e.l, x, p, s)
                    r == Sim(pr, e.r, x, p, l.st)
                IN  Sim(pr, e, x, p, s) = IF ~l.ok THEN l ELSE IF ~r.ok THEN r
                                          ELSE IF e.op = "div" /\ r.v = 0 THEN Err(r.st)
                                          ELSE Ok(Binary(e.op, l.v, r.v), r.st)
           /\ e.op = "if" =>
                LET b == Sim(pr, e.cond, x, p, s)
                IN  Sim(pr, e, x, p, s) =
                        IF ~b.ok THEN b
                        ELSE IF b.v # 0 THEN Choice(pr, SimEval(pr), e.then, e.else, x, p, b.st)
                        ELSE Choice(pr, SimEval(pr), e.else, e.then, x, p, b.st)
           /\ e.op = "arrow" =>
                Sim(pr, e, x, p, s) =
                    IF State(s, p).cycle = 0 THEN Choice(pr, SimEval(pr), e.init, e.body, x, p, s)
                    ELSE Choice(pr, SimEval(pr), e.body, e.init, x, p, s)
           /\ e.op = "call" =>
                LET a == Sim(pr, e.arg, x, p, s)
                    q == Append(p, e.site)
                    r == Sim(pr, pr[e.callee], a.v, q, a.st)
                IN  Sim(pr, e, x, p, s) = IF ~a.ok THEN a
                                          ELSE IF r.ok THEN Ok(r.v, Commit(r.st, q, r.v))
                                          ELSE Err(Forget(r.st, q))
<1>1. Sim(pr, e, x, p, s) = SimExpr(pr, SimEval(pr), e, x, p, s)
    BY SimEvalUnfolds DEF Sim
<1>2. e.op \in {"const", "in", "pre"} =>
        SimExpr(pr, SimEval(pr), e, x, p, s) =
            IF e.op = "const" THEN Ok(e.v, s) ELSE IF e.op = "in" THEN Ok(x, s)
            ELSE IF State(s, p).cycle = 0 THEN Err(s) ELSE Ok(State(s, p).prev, s)
    BY DEF SimExpr
<1>3. CASE e.op \in {"const", "in", "pre"}
    BY <1>1, <1>2, <1>3
<1>4. CASE e.op \in {"add", "div"}
    BY <1>1, <1>4 DEF SimExpr, Then, Sim
<1>5. CASE e.op = "if"
    BY <1>1, <1>5 DEF SimExpr, Then, Sim
<1>6. CASE e.op = "arrow"
    BY <1>1, <1>6 DEF SimExpr
<1>7. CASE e.op = "call"
    BY <1>1, <1>7 DEF SimExpr, Then, SimInstance, Sim
<1> QED BY <1>3, <1>4, <1>5, <1>6, <1>7, Parts

(* A choice evaluates one side, and the calls of the other one.            *)
LEMMA ChoiceOf ==
    ASSUME NEW pr \in Programs, NEW k, NEW o, NEW x, NEW p, NEW s
    PROVE  LET r == Sim(pr, k, x, p, s)
               u == Sim(pr, o, x, p, r.st)
           IN  Choice(pr, SimEval(pr), k, o, x, p, s)
                = IF r.ok THEN Ok(r.v, IF HasCall(pr, o) THEN u.st ELSE r.st) ELSE r
BY DEF Choice, StepUntaken, Then, Sim

\* Only states of Z differ.
Stays(s, t, Z) == \A q \in Paths : q \notin Z => s[q] = t[q]

(* An evaluation changes the states of its calls only.                     *)
LEMMA SimStays ==
    ASSUME NEW pr \in Programs, NEW e \in Exprs,
           NEW x \in Values, NEW p \in Seq(Nat), NEW s \in States
    PROVE  Stays(Sim(pr, e, x, p, s).st, s, Zone(pr, e, p))
<1> DEFINE Good(o) == \A y \in Values, q \in Seq(Nat), t \in States :
                          Stays(Sim(pr, o, y, q, t).st, t, Zone(pr, o, q))
           T == {o \in Exprs : Good(o)}
<1>1. ASSUME NEW o \in Exprs, \A u : Below(u, o) => u \in T PROVE o \in T
    <2>1. \A u : Below(u, o) => u \in Exprs /\ Good(u)
        BY <1>1
    <2> SUFFICES ASSUME NEW y \in Values, NEW q \in Seq(Nat), NEW t \in States
                 PROVE  Stays(Sim(pr, o, y, q, t).st, t, Zone(pr, o, q))
        OBVIOUS
    <2> HIDE DEF T
    <2>2. CASE o.op \in {"const", "in", "pre"}
        <3>1. Sim(pr, o, y, q, t).st = t
            BY <2>2, SimOf, SMTT(30) DEF Ok, Err
        <3> QED BY <3>1 DEF Stays
    <2>3. CASE o.op \in {"add", "div"}
        <3> DEFINE l == Sim(pr, o.l, y, q, t)
                   r == Sim(pr, o.r, y, q, l.st)
        <3>1. Good(o.l) /\ Good(o.r) /\ o.l \in Exprs /\ o.r \in Exprs
            BY <2>1, <2>3, Parts
        <3>2. l.st \in States
            BY <3>1, Typed
        <3>3. Sim(pr, o, y, q, t).st \in {l.st, r.st}
            BY <2>3, SimOf, SMTT(30) DEF Ok, Err
        <3>4. Stays(l.st, t, Zone(pr, o.l, q)) /\ Stays(r.st, l.st, Zone(pr, o.r, q))
            BY <3>1, <3>2
        <3> HIDE DEF l, r, Good
        <3>5. Zone(pr, o, q) = Zone(pr, o.l, q) \cup Zone(pr, o.r, q)
            BY <2>3, Zones
        <3> QED BY <3>3, <3>4, <3>5 DEF Stays
    <2>4. ASSUME NEW k \in Exprs, NEW u \in Exprs, NEW v \in States, Good(k), Good(u)
          PROVE  Stays(Choice(pr, SimEval(pr), k, u, y, q, v).st, v, Zone(pr, k, q) \cup Zone(pr, u, q))
        <3> DEFINE r == Sim(pr, k, y, q, v)
                   w == Sim(pr, u, y, q, r.st)
        <3>1. r.st \in States
            BY Typed
        <3>2. Choice(pr, SimEval(pr), k, u, y, q, v).st \in {r.st, w.st}
            BY ChoiceOf DEF Ok
        <3>3. Stays(r.st, v, Zone(pr, k, q)) /\ Stays(w.st, r.st, Zone(pr, u, q))
            BY <2>4, <3>1
        <3> HIDE DEF r, w, Good
        <3> QED BY <3>2, <3>3 DEF Stays
    <2>5. CASE o.op = "if"
        <3> DEFINE b == Sim(pr, o.cond, y, q, t)
                   c1 == Choice(pr, SimEval(pr), o.then, o.else, y, q, b.st)
                   c2 == Choice(pr, SimEval(pr), o.else, o.then, y, q, b.st)
        <3>1. /\ Good(o.cond) /\ Good(o.then) /\ Good(o.else)
              /\ o.cond \in Exprs /\ o.then \in Exprs /\ o.else \in Exprs
            BY <2>1, <2>5, Parts
        <3>2. b.st \in States
            BY <3>1, Typed
        <3>3. Sim(pr, o, y, q, t).st \in {b.st, c1.st, c2.st}
            BY <2>5, SimOf, SMTT(30)
        <3>4. Stays(b.st, t, Zone(pr, o.cond, q))
            BY <3>1
        <3> HIDE DEF Good
        <3>5. /\ Stays(c1.st, b.st, Zone(pr, o.then, q) \cup Zone(pr, o.else, q))
              /\ Stays(c2.st, b.st, Zone(pr, o.else, q) \cup Zone(pr, o.then, q))
            BY <2>4, <3>1, <3>2
        <3> HIDE DEF b, c1, c2
        <3>6. Zone(pr, o, q) = Zone(pr, o.cond, q) \cup Zone(pr, o.then, q) \cup Zone(pr, o.else, q)
            BY <2>5, Zones
        <3> QED BY <3>3, <3>4, <3>5, <3>6 DEF Stays
    <2>6. CASE o.op = "arrow"
        <3> DEFINE c1 == Choice(pr, SimEval(pr), o.init, o.body, y, q, t)
                   c2 == Choice(pr, SimEval(pr), o.body, o.init, y, q, t)
        <3>1. Good(o.init) /\ Good(o.body) /\ o.init \in Exprs /\ o.body \in Exprs
            BY <2>1, <2>6, Parts
        <3>2. Sim(pr, o, y, q, t).st \in {c1.st, c2.st}
            BY <2>6, SimOf, SMTT(30)
        <3> HIDE DEF Good
        <3>3. /\ Stays(c1.st, t, Zone(pr, o.init, q) \cup Zone(pr, o.body, q))
              /\ Stays(c2.st, t, Zone(pr, o.body, q) \cup Zone(pr, o.init, q))
            BY <2>4, <3>1
        <3> HIDE DEF c1, c2
        <3>4. Zone(pr, o, q) = Zone(pr, o.init, q) \cup Zone(pr, o.body, q)
            BY <2>6, Zones
        <3> QED BY <3>2, <3>3, <3>4 DEF Stays
    <2>7. CASE o.op = "call"
        <3> DEFINE a == Sim(pr, o.arg, y, q, t)
                   z == Append(q, o.site)
                   r == Sim(pr, pr[o.callee], a.v, z, a.st)
        <3>1. Good(o.arg) /\ Good(pr[o.callee]) /\ o.arg \in Exprs /\ pr[o.callee] \in Exprs
            BY <2>1, <2>7, Parts, Callee
        <3>2. a.v \in Values /\ a.st \in States
            BY <3>1, Typed
        <3>3. z \in Seq(Nat) /\ Zone(pr, pr[o.callee], z) \subseteq Under(z)
              /\ (z \in Paths => z \in Under(z))
            BY <2>7, BodyZone
        <3>4. r.st \in States
            BY <3>1, <3>2, <3>3, Typed
        <3>5. Sim(pr, o, y, q, t).st \in {a.st, Commit(r.st, z, r.v), Forget(r.st, z)}
            <4>1. Sim(pr, o, y, q, t) = IF ~a.ok THEN a
                                        ELSE IF r.ok THEN Ok(r.v, Commit(r.st, z, r.v))
                                        ELSE Err(Forget(r.st, z))
                BY <2>7, SimOf, SMTT(30)
            <4> HIDE DEF a, z, r
            <4> QED BY <4>1 DEF Ok, Err
        <3>6. Stays(a.st, t, Zone(pr, o.arg, q))
            BY <3>1
        <3>7. Stays(r.st, a.st, Zone(pr, pr[o.callee], z))
            BY <3>1, <3>2, <3>3
        <3> HIDE DEF a, z, r, Good
        <3>8. Stays(Commit(r.st, z, r.v), r.st, {z}) /\ Stays(Forget(r.st, z), r.st, Under(z))
            BY <3>4 DEF Commit, Forget, Stays, Under, States
        <3>9. Zone(pr, o, q) = Zone(pr, o.arg, q) \cup Under(z)
            BY <2>7, Zones DEF z
        <3> QED BY <3>3, <3>5, <3>6, <3>7, <3>8, <3>9 DEF Stays
    <2> QED BY <2>2, <2>3, <2>5, <2>6, <2>7, Parts
<1>2. Exprs \subseteq T
    <2> HIDE DEF T
    <2> QED BY <1>1, ExprInduction
<1> QED BY <1>2

(* An expression of the C on each form.                                    *)
LEMMA ValOf ==
    ASSUME NEW e \in Exprs, NEW x \in Values, NEW p \in Seq(Nat), NEW s \in States
    PROVE  /\ e.op = "const" => Val(e, x, p, s) = Ok(e.v, s)
           /\ e.op = "in" => Val(e, x, p, s) = Ok(x, s)
           /\ e.op = "pre" => Val(e, x, p, s) = Ok(State(s, p).prev, s)
           /\ e.op \in {"add", "div"} =>
                LET l == Val(e.l, x, p, s)
                    r == Val(e.r, x, p, s)
                IN  Val(e, x, p, s) = IF ~l.ok THEN l ELSE IF ~r.ok THEN r
                                      ELSE IF e.op = "div" /\ r.v = 0 THEN Err(s)
                                      ELSE Ok(Binary(e.op, l.v, r.v), s)
           /\ e.op = "if" =>
                LET b == Val(e.cond, x, p, s)
                IN  Val(e, x, p, s) = IF ~b.ok THEN b
                                      ELSE IF b.v # 0 THEN Val(e.then, x, p, s)
                                      ELSE Val(e.else, x, p, s)
           /\ e.op = "arrow" =>
                Val(e, x, p, s) = IF State(s, p).cycle = 0 THEN Val(e.init, x, p, s)
                                  ELSE Val(e.body, x, p, s)
           /\ e.op = "call" => Val(e, x, p, s) = Ok(State(s, Append(p, e.site)).prev, s)
<1>1. Val(e, x, p, s) = CValue(CExpr, e, x, p, s)
    BY CExprUnfolds DEF Val
<1>2. e.op \in {"const", "in", "pre", "call"} =>
        CValue(CExpr, e, x, p, s) =
            IF e.op = "const" THEN Ok(e.v, s) ELSE IF e.op = "in" THEN Ok(x, s)
            ELSE IF e.op = "pre" THEN Ok(State(s, p).prev, s)
            ELSE Ok(State(s, Append(p, e.site)).prev, s)
    BY DEF CValue
<1>3. CASE e.op \in {"const", "in", "pre", "call"}
    BY <1>1, <1>2, <1>3
<1>4. CASE e.op \in {"add", "div"}
    BY <1>1, <1>4 DEF CValue, Then, Val
<1>5. CASE e.op = "if"
    BY <1>1, <1>5 DEF CValue, Then, Val
<1>6. CASE e.op = "arrow"
    BY <1>1, <1>6 DEF CValue, Val
<1> QED BY <1>3, <1>4, <1>5, <1>6, Parts

(* An expression of the C changes no state.                                *)
LEMMA ValKeeps ==
    ASSUME NEW e \in Exprs, NEW x \in Values, NEW p \in Seq(Nat), NEW s \in States
    PROVE  Val(e, x, p, s).st = s
<1> DEFINE Good(o) == Val(o, x, p, s).st = s
           T == {o \in Exprs : Good(o)}
<1>1. ASSUME NEW o \in Exprs, \A u : Below(u, o) => u \in T PROVE o \in T
    <2>1. \A u : Below(u, o) => Good(u)
        BY <1>1
    <2> SUFFICES Good(o)
        OBVIOUS
    <2> HIDE DEF T
    <2>2. CASE o.op \in {"const", "in", "pre", "call"}
        BY <2>2, ValOf, SMTT(30) DEF Ok
    <2>3. CASE o.op \in {"add", "div"}
        <3>1. Good(o.l) /\ Good(o.r)
            BY <2>1, <2>3, Parts
        <3> QED BY <2>3, <3>1, ValOf, SMTT(30) DEF Ok, Err
    <2>4. CASE o.op = "if"
        <3>1. Good(o.cond) /\ Good(o.then) /\ Good(o.else)
            BY <2>1, <2>4, Parts
        <3> QED BY <2>4, <3>1, ValOf, SMTT(30)
    <2>5. CASE o.op = "arrow"
        <3>1. Good(o.init) /\ Good(o.body)
            BY <2>1, <2>5, Parts
        <3> QED BY <2>5, <3>1, ValOf, SMTT(30)
    <2> QED BY <2>2, <2>3, <2>4, <2>5, Parts
<1>2. Exprs \subseteq T
    <2> HIDE DEF T
    <2> QED BY <1>1, ExprInduction
<1> QED BY <1>2

(* The hoisted statements on each form of expression.                      *)
LEMMA HoistOf ==
    ASSUME NEW pr \in Programs, NEW e \in Exprs,
           NEW x \in Values, NEW p \in Seq(Nat), NEW s \in States
    PROVE  /\ e.op \in {"const", "in", "pre"} => Hoist(pr, e, x, p, s) = Ok(0, s)
           /\ e.op \in {"add", "div"} =>
                LET l == Hoist(pr, e.l, x, p, s)
                IN  Hoist(pr, e, x, p, s) = IF l.ok THEN Hoist(pr, e.r, x, p, l.st) ELSE l
           /\ e.op = "if" =>
                LET b == Hoist(pr, e.cond, x, p, s)
                    l == Hoist(pr, e.then, x, p, b.st)
                IN  Hoist(pr, e, x, p, s) = IF ~b.ok THEN b
                                            ELSE IF l.ok THEN Hoist(pr, e.else, x, p, l.st) ELSE l
           /\ e.op = "arrow" =>
                LET l == Hoist(pr, e.init, x, p, s)
                IN  Hoist(pr, e, x, p, s) = IF l.ok THEN Hoist(pr, e.body, x, p, l.st) ELSE l
<1>1. Hoist(pr, e, x, p, s) = CStatements(pr, CHoist(pr), e, x, p, s)
    BY CHoistUnfolds DEF Hoist
<1>2. CASE e.op \in {"const", "in", "pre"}
    BY <1>1, <1>2 DEF CStatements
<1>3. CASE e.op \in {"add", "div"}
    BY <1>1, <1>3 DEF CStatements, Then, Hoist
<1>4. CASE e.op = "if"
    BY <1>1, <1>4 DEF CStatements, HoistBranches, Then, Hoist
<1>5. CASE e.op = "arrow"
    BY <1>1, <1>5 DEF CStatements, Then, Hoist
<1> QED BY <1>2, <1>3, <1>4, <1>5

\* The statements and the value of a call's argument and of its body.
ArgHoist(pr, e, x, p, s) == Hoist(pr, e.arg, x, p, s)
ArgVal(pr, e, x, p, s) == Val(e.arg, x, p, ArgHoist(pr, e, x, p, s).st)
BodyHoist(pr, e, x, p, s) ==
    Hoist(pr, pr[e.callee], ArgVal(pr, e, x, p, s).v, Append(p, e.site), ArgHoist(pr, e, x, p, s).st)
BodyVal(pr, e, x, p, s) ==
    Val(pr[e.callee], ArgVal(pr, e, x, p, s).v, Append(p, e.site), BodyHoist(pr, e, x, p, s).st)

(* The hoisted statements of a call.                                       *)
LEMMA HoistCall ==
    ASSUME NEW pr \in Programs, NEW e \in Exprs, e.op = "call",
           NEW x \in Values, NEW p \in Seq(Nat), NEW s \in States,
           NEW h, NEW a, NEW b, NEW w,
           h = ArgHoist(pr, e, x, p, s), a = ArgVal(pr, e, x, p, s),
           b = BodyHoist(pr, e, x, p, s), w = BodyVal(pr, e, x, p, s)
    PROVE  Hoist(pr, e, x, p, s) = IF ~h.ok THEN h ELSE IF ~a.ok THEN a
                                   ELSE IF ~b.ok THEN b ELSE IF ~w.ok THEN w
                                   ELSE Ok(w.v, Commit(b.st, Append(p, e.site), w.v))
<1> DEFINE q == Append(p, e.site)
<1>1. e.arg \in Exprs /\ pr[e.callee] \in Exprs /\ q \in Seq(Nat)
    BY Parts, Callee DEF Below
<1>2. h.st \in States
    BY <1>1, Typed DEF ArgHoist
<1>3. a = Val(e.arg, x, p, h.st) /\ b = Hoist(pr, pr[e.callee], a.v, q, h.st)
    BY DEF ArgVal, BodyHoist
<1>4. a.st = h.st /\ a.v \in Values
    BY <1>1, <1>2, <1>3, ValKeeps, Typed
<1>5. b.st \in States
    BY <1>1, <1>2, <1>3, <1>4, Typed
<1>6. w = Val(pr[e.callee], a.v, q, b.st)
    BY DEF BodyVal
<1> HIDE DEF q
<1>7. w.st = b.st
    <2>1. Val(pr[e.callee], a.v, q, b.st).st = b.st
        BY <1>1, <1>4, <1>5, ValKeeps
    <2> QED BY <1>6, <2>1
<1>8. Hoist(pr, e, x, p, s) = CStatements(pr, CHoist(pr), e, x, p, s)
    BY CHoistUnfolds DEF Hoist
<1>9. CStatements(pr, CHoist(pr), e, x, p, s)
      = Then(h, LAMBDA v, s1 : Then(Val(e.arg, x, p, s1),
                LAMBDA v2, s2 : CStepFunction(CHoist(pr), pr[e.callee], v2, q, s2)))
    BY DEF CStatements, ArgHoist, Hoist, Val, q
<1>10. CStatements(pr, CHoist(pr), e, x, p, s)
       = IF ~h.ok THEN h ELSE IF ~a.ok THEN a
         ELSE CStepFunction(CHoist(pr), pr[e.callee], a.v, q, h.st)
    BY <1>3, <1>4, <1>9 DEF Then
<1>11. CStepFunction(CHoist(pr), pr[e.callee], a.v, q, h.st)
       = IF ~b.ok THEN b ELSE Then(Val(pr[e.callee], a.v, q, b.st),
                                   LAMBDA v2, s2 : Ok(v2, Commit(s2, q, v2)))
    BY <1>3 DEF CStepFunction, Then, Hoist, Val
<1>12. Then(Val(pr[e.callee], a.v, q, b.st), LAMBDA v2, s2 : Ok(v2, Commit(s2, q, v2)))
       = IF ~w.ok THEN w ELSE Ok(w.v, Commit(b.st, q, w.v))
    BY <1>6, <1>7 DEF Then
<1> QED BY <1>8, <1>10, <1>11, <1>12 DEF q

(* The hoisted statements change the states of the expression's calls only. *)
LEMMA HoistStays ==
    ASSUME NEW pr \in Programs, NEW e \in Exprs,
           NEW x \in Values, NEW p \in Seq(Nat), NEW s \in States
    PROVE  Stays(Hoist(pr, e, x, p, s).st, s, Zone(pr, e, p))
<1> DEFINE Good(o) == \A y \in Values, q \in Seq(Nat), t \in States :
                          Stays(Hoist(pr, o, y, q, t).st, t, Zone(pr, o, q))
           T == {o \in Exprs : Good(o)}
<1>1. ASSUME NEW o \in Exprs, \A u : Below(u, o) => u \in T PROVE o \in T
    <2>1. \A u : Below(u, o) => u \in Exprs /\ Good(u)
        BY <1>1
    <2> SUFFICES ASSUME NEW y \in Values, NEW q \in Seq(Nat), NEW t \in States
                 PROVE  Stays(Hoist(pr, o, y, q, t).st, t, Zone(pr, o, q))
        OBVIOUS
    <2> HIDE DEF T
    <2>2. CASE o.op \in {"const", "in", "pre"}
        <3>1. Hoist(pr, o, y, q, t).st = t
            BY <2>2, HoistOf, SMTT(30) DEF Ok
        <3> QED BY <3>1 DEF Stays
    <2>3. ASSUME NEW k \in Exprs, NEW u \in Exprs, NEW v \in States, Good(k), Good(u)
          PROVE  LET l == Hoist(pr, k, y, q, v)
                     r == Hoist(pr, u, y, q, l.st)
                 IN  /\ l.st \in States /\ r.st \in States
                     /\ Stays(l.st, v, Zone(pr, k, q) \cup Zone(pr, u, q))
                     /\ Stays(r.st, v, Zone(pr, k, q) \cup Zone(pr, u, q))
        <3> DEFINE l == Hoist(pr, k, y, q, v)
                   r == Hoist(pr, u, y, q, l.st)
        <3>1. l.st \in States
            BY Typed
        <3>2. r.st \in States
            BY <3>1, Typed
        <3>3. Stays(l.st, v, Zone(pr, k, q)) /\ Stays(r.st, l.st, Zone(pr, u, q))
            BY <2>3, <3>1
        <3> HIDE DEF l, r, Good
        <3>4. /\ Stays(l.st, v, Zone(pr, k, q) \cup Zone(pr, u, q))
              /\ Stays(r.st, v, Zone(pr, k, q) \cup Zone(pr, u, q))
            BY <3>3 DEF Stays
        <3> QED BY <3>1, <3>2, <3>4 DEF l, r
    <2>4. CASE o.op \in {"add", "div"}
        <3> DEFINE l == Hoist(pr, o.l, y, q, t)
                   r == Hoist(pr, o.r, y, q, l.st)
        <3>1. Good(o.l) /\ Good(o.r) /\ o.l \in Exprs /\ o.r \in Exprs
            BY <2>1, <2>4, Parts
        <3>2. Hoist(pr, o, y, q, t).st \in {l.st, r.st}
            BY <2>4, HoistOf, SMTT(30)
        <3>3. Zone(pr, o, q) = Zone(pr, o.l, q) \cup Zone(pr, o.r, q)
            BY <2>4, Zones
        <3> HIDE DEF Good
        <3>4. /\ Stays(l.st, t, Zone(pr, o.l, q) \cup Zone(pr, o.r, q))
              /\ Stays(r.st, t, Zone(pr, o.l, q) \cup Zone(pr, o.r, q))
            BY <2>3, <3>1
        <3> HIDE DEF l, r
        <3> QED BY <3>2, <3>3, <3>4
    <2>5. CASE o.op = "arrow"
        <3> DEFINE l == Hoist(pr, o.init, y, q, t)
                   r == Hoist(pr, o.body, y, q, l.st)
        <3>1. Good(o.init) /\ Good(o.body) /\ o.init \in Exprs /\ o.body \in Exprs
            BY <2>1, <2>5, Parts
        <3>2. Hoist(pr, o, y, q, t).st \in {l.st, r.st}
            BY <2>5, HoistOf, SMTT(30)
        <3>3. Zone(pr, o, q) = Zone(pr, o.init, q) \cup Zone(pr, o.body, q)
            BY <2>5, Zones
        <3> HIDE DEF Good
        <3>4. /\ Stays(l.st, t, Zone(pr, o.init, q) \cup Zone(pr, o.body, q))
              /\ Stays(r.st, t, Zone(pr, o.init, q) \cup Zone(pr, o.body, q))
            BY <2>3, <3>1
        <3> HIDE DEF l, r
        <3> QED BY <3>2, <3>3, <3>4
    <2>6. CASE o.op = "if"
        <3> DEFINE b == Hoist(pr, o.cond, y, q, t)
                   l == Hoist(pr, o.then, y, q, b.st)
                   r == Hoist(pr, o.else, y, q, l.st)
        <3>1. /\ Good(o.cond) /\ Good(o.then) /\ Good(o.else)
              /\ o.cond \in Exprs /\ o.then \in Exprs /\ o.else \in Exprs
            BY <2>1, <2>6, Parts
        <3>2. b.st \in States
            BY <3>1, Typed
        <3>3. Hoist(pr, o, y, q, t).st \in {b.st, l.st, r.st}
            BY <2>6, HoistOf, SMTT(30)
        <3>4. Stays(b.st, t, Zone(pr, o.cond, q))
            BY <3>1
        <3> HIDE DEF Good
        <3>5. /\ Stays(l.st, b.st, Zone(pr, o.then, q) \cup Zone(pr, o.else, q))
              /\ Stays(r.st, b.st, Zone(pr, o.then, q) \cup Zone(pr, o.else, q))
            BY <2>3, <3>1, <3>2
        <3> HIDE DEF b, l, r
        <3>6. Zone(pr, o, q) = Zone(pr, o.cond, q) \cup Zone(pr, o.then, q) \cup Zone(pr, o.else, q)
            BY <2>6, Zones
        <3> QED BY <3>3, <3>4, <3>5, <3>6 DEF Stays
    <2>7. CASE o.op = "call"
        <3> DEFINE h == Hoist(pr, o.arg, y, q, t)
                   a == Val(o.arg, y, q, h.st)
                   z == Append(q, o.site)
                   b == Hoist(pr, pr[o.callee], a.v, z, h.st)
                   w == Val(pr[o.callee], a.v, z, b.st)
        <3>1. Good(o.arg) /\ Good(pr[o.callee]) /\ o.arg \in Exprs /\ pr[o.callee] \in Exprs
            BY <2>1, <2>7, Parts, Callee
        <3>2. h.st \in States
            BY <3>1, Typed
        <3>3. a.v \in Values /\ a.st = h.st
            BY <3>1, <3>2, Typed, ValKeeps
        <3>4. z \in Seq(Nat) /\ Zone(pr, pr[o.callee], z) \subseteq Under(z)
              /\ (z \in Paths => z \in Under(z))
            BY <2>7, BodyZone
        <3>5. b.st \in States
            BY <3>1, <3>2, <3>3, <3>4, Typed
        <3>6. w.st = b.st
            <4> HIDE DEF h, a, z, b
            <4> QED BY <3>1, <3>3, <3>4, <3>5, ValKeeps
        <3>7. Hoist(pr, o, y, q, t).st \in {h.st, b.st, Commit(b.st, z, w.v)}
            <4>1. Hoist(pr, o, y, q, t) = IF ~h.ok THEN h ELSE IF ~a.ok THEN a
                                          ELSE IF ~b.ok THEN b ELSE IF ~w.ok THEN w
                                          ELSE Ok(w.v, Commit(b.st, z, w.v))
                <5>1. /\ h = ArgHoist(pr, o, y, q, t) /\ a = ArgVal(pr, o, y, q, t)
                      /\ b = BodyHoist(pr, o, y, q, t) /\ w = BodyVal(pr, o, y, q, t)
                    BY DEF ArgHoist, ArgVal, BodyHoist, BodyVal
                <5> HIDE DEF h, a, b, w
                <5> QED BY <2>7, <5>1, HoistCall
            <4> HIDE DEF h, a, z, b, w
            <4> QED BY <3>3, <3>6, <4>1 DEF Ok
        <3>8. Stays(h.st, t, Zone(pr, o.arg, q))
            BY <3>1
        <3>9. Stays(b.st, h.st, Zone(pr, pr[o.callee], z))
            BY <3>1, <3>2, <3>3, <3>4
        <3> HIDE DEF h, a, z, b, w, Good
        <3>10. Stays(Commit(b.st, z, w.v), b.st, {z})
            BY <3>5 DEF Commit, Stays, States
        <3>11. Zone(pr, o, q) = Zone(pr, o.arg, q) \cup Under(z)
            BY <2>7, Zones DEF z
        <3> QED BY <3>4, <3>7, <3>8, <3>9, <3>10, <3>11 DEF Stays
    <2> QED BY <2>2, <2>4, <2>5, <2>6, <2>7, Parts
<1>2. Exprs \subseteq T
    <2> HIDE DEF T
    <2> QED BY <1>1, ExprInduction
<1> QED BY <1>2

\* Equal where an evaluation whose calls lie in zone Z looks.
Alike(s, t, p, Z) == State(s, p) = State(t, p) /\ \A q \in Z : s[q] = t[q]

(* The fields of a result.                                                 *)
LEMMA Fields ==
    ASSUME NEW v, NEW s
    PROVE  /\ Ok(v, s).ok /\ Ok(v, s).v = v /\ Ok(v, s).st = s
           /\ ~Err(s).ok /\ Err(s).v = 0 /\ Err(s).st = s
BY DEF Ok, Err

(* What an expression of the C yields depends on its instance and on those *)
(* of its calls.                                                           *)
LEMMA ValLocal ==
    ASSUME NEW pr \in Programs, NEW e \in Exprs, NEW x \in Values, NEW p \in Seq(Nat),
           NEW s \in States, NEW t \in States, Alike(s, t, p, Zone(pr, e, p))
    PROVE  (Val(e, x, p, s).ok <=> Val(e, x, p, t).ok) /\ Val(e, x, p, s).v = Val(e, x, p, t).v
<1> DEFINE Good(o) == /\ (Val(o, x, p, s).ok <=> Val(o, x, p, t).ok)
                      /\ Val(o, x, p, s).v = Val(o, x, p, t).v
           T == {o \in Exprs : Zone(pr, o, p) \subseteq Zone(pr, e, p) => Good(o)}
<1>1. ASSUME NEW o \in Exprs, \A u : Below(u, o) => u \in T PROVE o \in T
    <2>1. \A u : Below(u, o) /\ Zone(pr, u, p) \subseteq Zone(pr, e, p) => Good(u)
        BY <1>1
    <2> SUFFICES ASSUME Zone(pr, o, p) \subseteq Zone(pr, e, p) PROVE Good(o)
        OBVIOUS
    <2> HIDE DEF T
    <2>2. CASE o.op \in {"const", "in", "pre"}
        <3> DEFINE v == IF o.op = "const" THEN o.v ELSE IF o.op = "in" THEN x ELSE State(s, p).prev
        <3>1. Val(o, x, p, s) = Ok(v, s)
            BY <2>2, ValOf, SMTT(30)
        <3>2. Val(o, x, p, t) = Ok(v, t)
            BY <2>2, ValOf DEF Alike
        <3> HIDE DEF v
        <3> QED BY <3>1, <3>2, Fields
    <2>3. CASE o.op \in {"add", "div"}
        <3>1. Zone(pr, o, p) = Zone(pr, o.l, p) \cup Zone(pr, o.r, p)
            BY <2>3, Zones
        <3>2. Good(o.l) /\ Good(o.r)
            BY <2>1, <2>3, <3>1, Parts
        <3>3. ASSUME NEW u \in States
              PROVE  LET l == Val(o.l, x, p, u)
                         r == Val(o.r, x, p, u)
                     IN  /\ (Val(o, x, p, u).ok <=> l.ok /\ r.ok /\ ~(o.op = "div" /\ r.v = 0))
                         /\ Val(o, x, p, u).v = IF ~l.ok THEN l.v ELSE IF ~r.ok THEN r.v
                                                ELSE IF o.op = "div" /\ r.v = 0 THEN 0
                                                ELSE Binary(o.op, l.v, r.v)
            <4> DEFINE l == Val(o.l, x, p, u)
                       r == Val(o.r, x, p, u)
            <4>1. l \in Results /\ r \in Results
                BY <2>3, Parts, Typed DEF Below
            <4>2. Val(o, x, p, u) = IF ~l.ok THEN l ELSE IF ~r.ok THEN r
                                    ELSE IF o.op = "div" /\ r.v = 0 THEN Err(u)
                                    ELSE Ok(Binary(o.op, l.v, r.v), u)
                BY <2>3, ValOf, SMTT(30)
            <4> HIDE DEF l, r
            <4>3. /\ (Val(o, x, p, u).ok <=> l.ok /\ r.ok /\ ~(o.op = "div" /\ r.v = 0))
                  /\ Val(o, x, p, u).v = IF ~l.ok THEN l.v ELSE IF ~r.ok THEN r.v
                                         ELSE IF o.op = "div" /\ r.v = 0 THEN 0
                                         ELSE Binary(o.op, l.v, r.v)
                <5>1. CASE l.ok /\ r.ok /\ ~(o.op = "div" /\ r.v = 0)
                    BY <4>2, <5>1, Fields
                <5>2. CASE ~(l.ok /\ r.ok /\ ~(o.op = "div" /\ r.v = 0))
                    <6>1. l.ok \in BOOLEAN /\ r.ok \in BOOLEAN
                        BY <4>1 DEF Results
                    <6>2. ~Val(o, x, p, u).ok
                        BY <4>2, <5>2, <6>1, Fields
                    <6> QED BY <4>2, <5>2, <6>1, <6>2, Fields
                <5> QED BY <5>1, <5>2
            <4> QED BY <4>3 DEF l, r
        <3> HIDE DEF Good
        <3> QED BY <3>2, <3>3 DEF Good
    <2>4. CASE o.op = "if"
        <3>1. Zone(pr, o, p) = Zone(pr, o.cond, p) \cup Zone(pr, o.then, p) \cup Zone(pr, o.else, p)
            BY <2>4, Zones
        <3>2. Good(o.cond) /\ Good(o.then) /\ Good(o.else)
            BY <2>1, <2>4, <3>1, Parts
        <3> QED BY <2>4, <3>2, ValOf, SMTT(30)
    <2>5. CASE o.op = "arrow"
        <3>1. Zone(pr, o, p) = Zone(pr, o.init, p) \cup Zone(pr, o.body, p)
            BY <2>5, Zones
        <3>2. Good(o.init) /\ Good(o.body)
            BY <2>1, <2>5, <3>1, Parts
        <3> QED BY <2>5, <3>2, ValOf DEF Alike
    <2>6. CASE o.op = "call"
        <3> DEFINE q == Append(p, o.site)
        <3>1. q \in Paths => q \in Zone(pr, o, p)
            BY <2>6, Zones, BodyZone
        <3>2. State(s, q) = State(t, q)
            BY <3>1 DEF Alike, State
        <3>3. Val(o, x, p, s) = Ok(State(s, q).prev, s) /\ Val(o, x, p, t) = Ok(State(t, q).prev, t)
            BY <2>6, ValOf, SMTT(30)
        <3> HIDE DEF q
        <3> QED BY <3>2, <3>3, Fields
    <2> QED BY <2>2, <2>3, <2>4, <2>5, <2>6, Parts
<1>2. Exprs \subseteq T
    <2> HIDE DEF T
    <2> QED BY <1>1, ExprInduction
<1> QED BY <1>2

(* An expression without a division has a value in the C.                  *)
LEMMA ValNeverFails ==
    ASSUME NEW pr \in Programs, NEW e \in Exprs, "div" \notin Failures(pr)[e],
           NEW x \in Values, NEW p \in Seq(Nat), NEW s \in States
    PROVE  Val(e, x, p, s).ok
<1> DEFINE Good(o) == "div" \notin Failures(pr)[o] => Val(o, x, p, s).ok
           T == {o \in Exprs : Good(o)}
<1>1. ASSUME NEW o \in Exprs, \A u : Below(u, o) => u \in T PROVE o \in T
    <2>1. \A u : Below(u, o) => Good(u)
        BY <1>1
    <2>2. Failures(pr)[o] = FailuresOf(pr, Failures(pr), o)
        BY FailuresUnfold
    <2> SUFFICES Good(o)
        OBVIOUS
    <2> HIDE DEF T
    <2>3. CASE o.op \in {"const", "in", "pre", "call"}
        BY <2>3, ValOf, SMTT(30) DEF Ok
    <2>4. CASE o.op \in {"add", "div"}
        <3>1. Good(o.l) /\ Good(o.r)
            BY <2>1, <2>4, Parts
        <3>2. "div" \notin Failures(pr)[o] =>
                o.op = "add" /\ "div" \notin Failures(pr)[o.l] /\ "div" \notin Failures(pr)[o.r]
            BY <2>2, <2>4 DEF FailuresOf
        <3> QED BY <2>4, <3>1, <3>2, ValOf, SMTT(30) DEF Ok
    <2>5. CASE o.op = "if"
        <3>1. Good(o.cond) /\ Good(o.then) /\ Good(o.else)
            BY <2>1, <2>5, Parts
        <3>2. Failures(pr)[o] = Failures(pr)[o.cond] \cup Failures(pr)[o.then] \cup Failures(pr)[o.else]
            BY <2>2, <2>5 DEF FailuresOf
        <3> QED BY <2>5, <3>1, <3>2, ValOf, SMTT(30)
    <2>6. CASE o.op = "arrow"
        <3>1. Good(o.init) /\ Good(o.body)
            BY <2>1, <2>6, Parts
        <3>2. Failures(pr)[o] = Failures(pr)[o.init] \cup (Failures(pr)[o.body] \ {"pre"})
            BY <2>2, <2>6 DEF FailuresOf
        <3> QED BY <2>6, <3>1, <3>2, ValOf, SMTT(30)
    <2> QED BY <2>3, <2>4, <2>5, <2>6, Parts
<1>2. Exprs \subseteq T
    <2> HIDE DEF T
    <2> QED BY <1>1, ExprInduction
<1> QED BY <1>2
-----------------------------------------------------------------------------
(* Cycle counts.                                                           *)

\* No instance is more than one cycle further in t than in s.
Once(t, s) == \A q \in Paths : t[q].cycle <= s[q].cycle + 1

(* Two changes in zones that are apart make one.                           *)
LEMMA OnceTwice ==
    ASSUME NEW r \in States, NEW s \in States, NEW t \in States, NEW Y, NEW Z, Y \cap Z = {},
           Stays(s, r, Y), Stays(t, s, Z), Once(s, r), Once(t, s)
    PROVE  Once(t, r)
<1> SUFFICES ASSUME NEW q \in Paths PROVE t[q].cycle <= r[q].cycle + 1
    BY DEF Once
<1>1. CASE q \in Z
    <2>1. s[q] = r[q]
        BY <1>1 DEF Stays
    <2> QED BY <2>1 DEF Once
<1>2. CASE q \notin Z
    <2>1. t[q] = s[q]
        BY <1>2 DEF Stays
    <2> QED BY <2>1 DEF Once
<1> QED BY <1>1, <1>2

(* What a call does to the state of the instance, after its body has run.  *)
LEMMA OnceCall ==
    ASSUME NEW pr \in Programs, NEW e \in Exprs, e.op = "call", NEW p \in Seq(Nat),
           NEW s \in States, NEW a \in States, NEW b \in States, NEW v \in Values,
           Stays(a, s, Zone(pr, e.arg, p)), Once(a, s),
           Stays(b, a, Zone(pr, pr[e.callee], Append(p, e.site))), Once(b, a)
    PROVE  /\ Once(b, s)
           /\ Once(Commit(b, Append(p, e.site), v), s)
           /\ Once(Forget(b, Append(p, e.site)), s)
<1> DEFINE z == Append(p, e.site)
<1>1. /\ z \in Seq(Nat) /\ (z \in Paths => z \in Under(z))
      /\ Zone(pr, pr[e.callee], z) \subseteq Under(z)
    BY BodyZone
<1>2. Zone(pr, e.arg, p) \cap Under(z) = {}
    BY Zones
<1>3. z \notin Zone(pr, pr[e.callee], z)
    BY <1>1, Zones, Callee DEF Below
<1>4. Stays(b, a, Zone(pr, pr[e.callee], z))
    OBVIOUS
<1> HIDE DEF z
<1>5. Once(b, s)
    BY <1>1, <1>2, <1>4, OnceTwice
<1>6. Once(Commit(b, z, v), s)
    <2> SUFFICES ASSUME NEW q \in Paths PROVE Commit(b, z, v)[q].cycle <= s[q].cycle + 1
        BY DEF Once
    <2>1. CASE q = z
        <3>1. b[q] = s[q]
            BY <1>1, <1>2, <1>3, <1>4, <2>1 DEF Stays
        <3>2. s[q].cycle \in Nat
            BY DEF States
        <3> QED BY <2>1, <3>1, <3>2 DEF Commit, States
    <2>2. CASE q # z
        <3>1. Commit(b, z, v)[q] = b[q]
            BY <2>2 DEF Commit, States
        <3> QED BY <1>5, <3>1 DEF Once
    <2> QED BY <2>1, <2>2
<1>7. Once(Forget(b, z), s)
    <2> SUFFICES ASSUME NEW q \in Paths PROVE Forget(b, z)[q].cycle <= s[q].cycle + 1
        BY DEF Once
    <2>1. Forget(b, z)[q] = Fresh \/ Forget(b, z)[q] = b[q]
        BY DEF Forget
    <2>2. s[q].cycle \in Nat /\ Fresh.cycle = 0
        BY DEF States, Fresh
    <2> QED BY <1>5, <2>1, <2>2 DEF Once
<1> QED BY <1>5, <1>6, <1>7 DEF z

(* No evaluation steps an instance twice, whatever it runs into.           *)
LEMMA SimOnce ==
    ASSUME NEW pr \in Programs, NEW e \in Exprs,
           NEW x \in Values, NEW p \in Seq(Nat), NEW s \in States
    PROVE  Once(Sim(pr, e, x, p, s).st, s)
<1> DEFINE Good(o) == \A y \in Values, q \in Seq(Nat), t \in States :
                          Once(Sim(pr, o, y, q, t).st, t)
           T == {o \in Exprs : Good(o)}
<1>0. \A t \in States : Once(t, t)
    BY DEF Once, States
<1>1. ASSUME NEW o \in Exprs, \A u : Below(u, o) => u \in T PROVE o \in T
    <2>1. \A u : Below(u, o) => u \in Exprs /\ Good(u)
        BY <1>1
    <2> SUFFICES ASSUME NEW y \in Values, NEW q \in Seq(Nat), NEW t \in States
                 PROVE  Once(Sim(pr, o, y, q, t).st, t)
        OBVIOUS
    <2> HIDE DEF T
    <2>2. CASE o.op \in {"const", "in", "pre"}
        <3>1. Sim(pr, o, y, q, t).st = t
            BY <2>2, SimOf, SMTT(30) DEF Ok, Err
        <3> QED BY <1>0, <3>1
    <2>3. ASSUME NEW k \in Exprs, NEW u \in Exprs, NEW v \in States, Good(k), Good(u),
                 Zone(pr, k, q) \cap Zone(pr, u, q) = {}
          PROVE  LET l == Sim(pr, k, y, q, v)
                     r == Sim(pr, u, y, q, l.st)
                 IN  Once(l.st, v) /\ Once(r.st, v)
        <3> DEFINE l == Sim(pr, k, y, q, v)
                   r == Sim(pr, u, y, q, l.st)
        <3>1. l.st \in States
            BY Typed
        <3>2. r.st \in States
            BY <3>1, Typed
        <3>3. Once(l.st, v) /\ Once(r.st, l.st)
            BY <2>3, <3>1
        <3>4. Stays(l.st, v, Zone(pr, k, q)) /\ Stays(r.st, l.st, Zone(pr, u, q))
            BY <3>1, SimStays
        <3> HIDE DEF l, r, Good
        <3>5. Once(r.st, v)
            BY <2>3, <3>1, <3>2, <3>3, <3>4, OnceTwice
        <3> QED BY <3>3, <3>5 DEF l, r
    <2>4. CASE o.op \in {"add", "div"}
        <3> DEFINE l == Sim(pr, o.l, y, q, t)
                   r == Sim(pr, o.r, y, q, l.st)
        <3>1. Good(o.l) /\ Good(o.r) /\ o.l \in Exprs /\ o.r \in Exprs
            BY <2>1, <2>4, Parts
        <3>2. Sim(pr, o, y, q, t).st \in {l.st, r.st}
            BY <2>4, SimOf, SMTT(30) DEF Ok, Err
        <3>3. Zone(pr, o.l, q) \cap Zone(pr, o.r, q) = {}
            BY <2>4, Zones
        <3> HIDE DEF Good
        <3>4. Once(l.st, t) /\ Once(r.st, t)
            BY <2>3, <3>1, <3>3
        <3> HIDE DEF l, r
        <3> QED BY <3>2, <3>4
    <2>5. ASSUME NEW k \in Exprs, NEW u \in Exprs, NEW v \in States, Good(k), Good(u),
                 Zone(pr, k, q) \cap Zone(pr, u, q) = {}
          PROVE  LET d == Choice(pr, SimEval(pr), k, u, y, q, v)
                 IN  /\ d.st \in States /\ Once(d.st, v)
                     /\ Stays(d.st, v, Zone(pr, k, q) \cup Zone(pr, u, q))
        <3> DEFINE l == Sim(pr, k, y, q, v)
                   r == Sim(pr, u, y, q, l.st)
                   d == Choice(pr, SimEval(pr), k, u, y, q, v)
        <3>1. l.st \in States
            BY Typed
        <3>2. r.st \in States
            BY <3>1, Typed
        <3>3. d.st \in {l.st, r.st}
            BY ChoiceOf DEF Ok
        <3>4. Once(l.st, v) /\ Once(r.st, v)
            <4> HIDE DEF Good
            <4> QED BY <2>3, <2>5
        <3>5. Stays(l.st, v, Zone(pr, k, q)) /\ Stays(r.st, l.st, Zone(pr, u, q))
            BY <3>1, SimStays
        <3> HIDE DEF l, r, d, Good
        <3>6. Stays(d.st, v, Zone(pr, k, q) \cup Zone(pr, u, q))
            BY <3>3, <3>5 DEF Stays
        <3> QED BY <3>1, <3>2, <3>3, <3>4, <3>6 DEF d
    <2>6. CASE o.op = "arrow"
        <3> DEFINE c1 == Choice(pr, SimEval(pr), o.init, o.body, y, q, t)
                   c2 == Choice(pr, SimEval(pr), o.body, o.init, y, q, t)
        <3>1. Good(o.init) /\ Good(o.body) /\ o.init \in Exprs /\ o.body \in Exprs
            BY <2>1, <2>6, Parts
        <3>2. Sim(pr, o, y, q, t).st \in {c1.st, c2.st}
            BY <2>6, SimOf, SMTT(30)
        <3>3. Zone(pr, o.init, q) \cap Zone(pr, o.body, q) = {}
            BY <2>6, Zones
        <3> HIDE DEF Good
        <3>4. Once(c1.st, t) /\ Once(c2.st, t)
            BY <2>5, <3>1, <3>3
        <3> HIDE DEF c1, c2
        <3> QED BY <3>2, <3>4
    <2>7. CASE o.op = "if"
        <3> DEFINE b == Sim(pr, o.cond, y, q, t)
                   c1 == Choice(pr, SimEval(pr), o.then, o.else, y, q, b.st)
                   c2 == Choice(pr, SimEval(pr), o.else, o.then, y, q, b.st)
        <3>1. /\ Good(o.cond) /\ Good(o.then) /\ Good(o.else)
              /\ o.cond \in Exprs /\ o.then \in Exprs /\ o.else \in Exprs
            BY <2>1, <2>7, Parts
        <3>2. b.st \in States
            BY <3>1, Typed
        <3>3. Sim(pr, o, y, q, t).st \in {b.st, c1.st, c2.st}
            BY <2>7, SimOf, SMTT(30)
        <3>4. Once(b.st, t) /\ Stays(b.st, t, Zone(pr, o.cond, q))
            BY <3>1, SimStays
        <3>5. /\ Zone(pr, o.cond, q) \cap Zone(pr, o.then, q) = {}
              /\ Zone(pr, o.cond, q) \cap Zone(pr, o.else, q) = {}
              /\ Zone(pr, o.then, q) \cap Zone(pr, o.else, q) = {}
            BY <2>7, Zones
        <3> HIDE DEF b, Good
        <3>6. /\ c1.st \in States /\ Once(c1.st, b.st)
              /\ Stays(c1.st, b.st, Zone(pr, o.then, q) \cup Zone(pr, o.else, q))
            BY <2>5, <3>1, <3>2, <3>5
        <3>7. /\ c2.st \in States /\ Once(c2.st, b.st)
              /\ Stays(c2.st, b.st, Zone(pr, o.else, q) \cup Zone(pr, o.then, q))
            BY <2>5, <3>1, <3>2, <3>5
        <3> HIDE DEF c1, c2
        <3> DEFINE Y == Zone(pr, o.cond, q)
                   Z == Zone(pr, o.then, q) \cup Zone(pr, o.else, q)
        <3>8. Y \cap Z = {} /\ Stays(c1.st, b.st, Z) /\ Stays(c2.st, b.st, Z) /\ Stays(b.st, t, Y)
            BY <3>4, <3>5, <3>6, <3>7 DEF Stays
        <3> HIDE DEF Y, Z
        <3>9. Once(c1.st, t) /\ Once(c2.st, t)
            BY <3>2, <3>4, <3>6, <3>7, <3>8, OnceTwice
        <3> QED BY <3>3, <3>4, <3>9
    <2>8. CASE o.op = "call"
        <3> DEFINE a == Sim(pr, o.arg, y, q, t)
                   z == Append(q, o.site)
                   r == Sim(pr, pr[o.callee], a.v, z, a.st)
        <3>1. Good(o.arg) /\ Good(pr[o.callee]) /\ o.arg \in Exprs /\ pr[o.callee] \in Exprs
            BY <2>1, <2>8, Parts, Callee
        <3>2. a.v \in Values /\ a.st \in States
            BY <3>1, Typed
        <3>3. z \in Seq(Nat)
            BY <2>8, BodyZone
        <3>4. r.v \in Values /\ r.st \in States
            BY <3>1, <3>2, <3>3, Typed
        <3>5. Sim(pr, o, y, q, t).st \in {a.st, Commit(r.st, z, r.v), Forget(r.st, z)}
            <4>1. Sim(pr, o, y, q, t) = IF ~a.ok THEN a
                                        ELSE IF r.ok THEN Ok(r.v, Commit(r.st, z, r.v))
                                        ELSE Err(Forget(r.st, z))
                BY <2>8, SimOf, SMTT(30)
            <4> HIDE DEF a, z, r
            <4> QED BY <4>1 DEF Ok, Err
        <3>6. Stays(a.st, t, Zone(pr, o.arg, q)) /\ Once(a.st, t)
            BY <3>1, SimStays
        <3>7. Stays(r.st, a.st, Zone(pr, pr[o.callee], z)) /\ Once(r.st, a.st)
            BY <3>1, <3>2, <3>3, SimStays
        <3> HIDE DEF a, r, Good
        <3>8. Once(Commit(r.st, z, r.v), t) /\ Once(Forget(r.st, z), t)
            BY <2>8, <3>2, <3>4, <3>6, <3>7, OnceCall
        <3> QED BY <3>5, <3>6, <3>8
    <2> QED BY <2>2, <2>4, <2>6, <2>7, <2>8, Parts
<1>2. Exprs \subseteq T
    <2> HIDE DEF T
    <2> QED BY <1>1, ExprInduction
<1> QED BY <1>2

(* Nor do the statements of the C.                                         *)
LEMMA HoistOnce ==
    ASSUME NEW pr \in Programs, NEW e \in Exprs,
           NEW x \in Values, NEW p \in Seq(Nat), NEW s \in States
    PROVE  Once(Hoist(pr, e, x, p, s).st, s)
<1> DEFINE Good(o) == \A y \in Values, q \in Seq(Nat), t \in States :
                          Once(Hoist(pr, o, y, q, t).st, t)
           T == {o \in Exprs : Good(o)}
<1>0. \A t \in States : Once(t, t)
    BY DEF Once, States
<1>1. ASSUME NEW o \in Exprs, \A u : Below(u, o) => u \in T PROVE o \in T
    <2>1. \A u : Below(u, o) => u \in Exprs /\ Good(u)
        BY <1>1
    <2> SUFFICES ASSUME NEW y \in Values, NEW q \in Seq(Nat), NEW t \in States
                 PROVE  Once(Hoist(pr, o, y, q, t).st, t)
        OBVIOUS
    <2> HIDE DEF T
    <2>2. CASE o.op \in {"const", "in", "pre"}
        <3>1. Hoist(pr, o, y, q, t).st = t
            BY <2>2, HoistOf, SMTT(30) DEF Ok
        <3> QED BY <1>0, <3>1
    <2>3. ASSUME NEW k \in Exprs, NEW u \in Exprs, NEW v \in States, Good(k), Good(u),
                 Zone(pr, k, q) \cap Zone(pr, u, q) = {}
          PROVE  LET l == Hoist(pr, k, y, q, v)
                     r == Hoist(pr, u, y, q, l.st)
                 IN  /\ l.st \in States /\ r.st \in States /\ Once(l.st, v) /\ Once(r.st, v)
                     /\ Stays(l.st, v, Zone(pr, k, q) \cup Zone(pr, u, q))
                     /\ Stays(r.st, v, Zone(pr, k, q) \cup Zone(pr, u, q))
        <3> DEFINE l == Hoist(pr, k, y, q, v)
                   r == Hoist(pr, u, y, q, l.st)
        <3>1. l.st \in States
            BY Typed
        <3>2. r.st \in States
            BY <3>1, Typed
        <3>3. Once(l.st, v) /\ Once(r.st, l.st)
            BY <2>3, <3>1
        <3>4. Stays(l.st, v, Zone(pr, k, q)) /\ Stays(r.st, l.st, Zone(pr, u, q))
            BY <3>1, HoistStays
        <3> HIDE DEF l, r, Good
        <3>5. Once(r.st, v)
            BY <2>3, <3>1, <3>2, <3>3, <3>4, OnceTwice
        <3>6. /\ Stays(l.st, v, Zone(pr, k, q) \cup Zone(pr, u, q))
              /\ Stays(r.st, v, Zone(pr, k, q) \cup Zone(pr, u, q))
            BY <3>4 DEF Stays
        <3> QED BY <3>1, <3>2, <3>3, <3>5, <3>6 DEF l, r
    <2>4. CASE o.op \in {"add", "div"}
        <3> DEFINE l == Hoist(pr, o.l, y, q, t)
                   r == Hoist(pr, o.r, y, q, l.st)
        <3>1. Good(o.l) /\ Good(o.r) /\ o.l \in Exprs /\ o.r \in Exprs
            BY <2>1, <2>4, Parts
        <3>2. Hoist(pr, o, y, q, t).st \in {l.st, r.st}
            BY <2>4, HoistOf, SMTT(30)
        <3>3. Zone(pr, o.l, q) \cap Zone(pr, o.r, q) = {}
            BY <2>4, Zones
        <3> HIDE DEF Good
        <3>4. Once(l.st, t) /\ Once(r.st, t)
            BY <2>3, <3>1, <3>3
        <3> HIDE DEF l, r
        <3> QED BY <3>2, <3>4
    <2>5. CASE o.op = "arrow"
        <3> DEFINE l == Hoist(pr, o.init, y, q, t)
                   r == Hoist(pr, o.body, y, q, l.st)
        <3>1. Good(o.init) /\ Good(o.body) /\ o.init \in Exprs /\ o.body \in Exprs
            BY <2>1, <2>5, Parts
        <3>2. Hoist(pr, o, y, q, t).st \in {l.st, r.st}
            BY <2>5, HoistOf, SMTT(30)
        <3>3. Zone(pr, o.init, q) \cap Zone(pr, o.body, q) = {}
            BY <2>5, Zones
        <3> HIDE DEF Good
        <3>4. Once(l.st, t) /\ Once(r.st, t)
            BY <2>3, <3>1, <3>3
        <3> HIDE DEF l, r
        <3> QED BY <3>2, <3>4
    <2>6. CASE o.op = "if"
        <3> DEFINE b == Hoist(pr, o.cond, y, q, t)
                   l == Hoist(pr, o.then, y, q, b.st)
                   r == Hoist(pr, o.else, y, q, l.st)
        <3>1. /\ Good(o.cond) /\ Good(o.then) /\ Good(o.else)
              /\ o.cond \in Exprs /\ o.then \in Exprs /\ o.else \in Exprs
            BY <2>1, <2>6, Parts
        <3>2. b.st \in States
            BY <3>1, Typed
        <3>3. Hoist(pr, o, y, q, t).st \in {b.st, l.st, r.st}
            BY <2>6, HoistOf, SMTT(30)
        <3>4. Once(b.st, t) /\ Stays(b.st, t, Zone(pr, o.cond, q))
            BY <3>1, HoistStays
        <3>5. /\ Zone(pr, o.cond, q) \cap Zone(pr, o.then, q) = {}
              /\ Zone(pr, o.cond, q) \cap Zone(pr, o.else, q) = {}
              /\ Zone(pr, o.then, q) \cap Zone(pr, o.else, q) = {}
            BY <2>6, Zones
        <3> HIDE DEF b, Good
        <3>6. /\ l.st \in States /\ r.st \in States /\ Once(l.st, b.st) /\ Once(r.st, b.st)
              /\ Stays(l.st, b.st, Zone(pr, o.then, q) \cup Zone(pr, o.else, q))
              /\ Stays(r.st, b.st, Zone(pr, o.then, q) \cup Zone(pr, o.else, q))
            BY <2>3, <3>1, <3>2, <3>5
        <3> HIDE DEF l, r
        <3> DEFINE Y == Zone(pr, o.cond, q)
                   Z == Zone(pr, o.then, q) \cup Zone(pr, o.else, q)
        <3>7. Y \cap Z = {} /\ Stays(l.st, b.st, Z) /\ Stays(r.st, b.st, Z) /\ Stays(b.st, t, Y)
            BY <3>4, <3>5, <3>6 DEF Stays
        <3> HIDE DEF Y, Z
        <3>8. Once(l.st, t) /\ Once(r.st, t)
            BY <3>2, <3>4, <3>6, <3>7, OnceTwice
        <3> QED BY <3>3, <3>4, <3>8
    <2>7. CASE o.op = "call"
        <3> DEFINE h == Hoist(pr, o.arg, y, q, t)
                   a == Val(o.arg, y, q, h.st)
                   z == Append(q, o.site)
                   b == Hoist(pr, pr[o.callee], a.v, z, h.st)
                   w == Val(pr[o.callee], a.v, z, b.st)
        <3>1. Good(o.arg) /\ Good(pr[o.callee]) /\ o.arg \in Exprs /\ pr[o.callee] \in Exprs
            BY <2>1, <2>7, Parts, Callee
        <3>2. h.st \in States
            BY <3>1, Typed
        <3>3. a.v \in Values /\ a.st = h.st
            BY <3>1, <3>2, Typed, ValKeeps
        <3>4. z \in Seq(Nat)
            BY <2>7, BodyZone
        <3>5. b.st \in States
            BY <3>1, <3>2, <3>3, <3>4, Typed
        <3>6. w.st = b.st /\ w.v \in Values
            <4> HIDE DEF h, a, z, b
            <4>1. w.st = b.st
                BY <3>1, <3>3, <3>4, <3>5, ValKeeps
            <4>2. w.v \in Values
                BY <3>1, <3>3, <3>4, <3>5, Typed
            <4> QED BY <4>1, <4>2
        <3>7. Hoist(pr, o, y, q, t).st \in {h.st, b.st, Commit(b.st, z, w.v)}
            <4>1. Hoist(pr, o, y, q, t) = IF ~h.ok THEN h ELSE IF ~a.ok THEN a
                                          ELSE IF ~b.ok THEN b ELSE IF ~w.ok THEN w
                                          ELSE Ok(w.v, Commit(b.st, z, w.v))
                <5>1. /\ h = ArgHoist(pr, o, y, q, t) /\ a = ArgVal(pr, o, y, q, t)
                      /\ b = BodyHoist(pr, o, y, q, t) /\ w = BodyVal(pr, o, y, q, t)
                    BY DEF ArgHoist, ArgVal, BodyHoist, BodyVal
                <5> HIDE DEF h, a, b, w
                <5> QED BY <2>7, <5>1, HoistCall
            <4> HIDE DEF h, a, z, b, w
            <4> QED BY <3>3, <3>6, <4>1 DEF Ok
        <3>8. Stays(h.st, t, Zone(pr, o.arg, q)) /\ Once(h.st, t)
            BY <3>1, HoistStays
        <3>9. Stays(b.st, h.st, Zone(pr, pr[o.callee], z)) /\ Once(b.st, h.st)
            BY <3>1, <3>2, <3>3, <3>4, HoistStays
        <3> HIDE DEF h, a, b, w, Good
        <3>10. Once(b.st, t) /\ Once(Commit(b.st, z, w.v), t)
            BY <2>7, <3>2, <3>5, <3>6, <3>8, <3>9, OnceCall
        <3> QED BY <3>7, <3>8, <3>10
    <2> QED BY <2>2, <2>4, <2>5, <2>6, <2>7, Parts
<1>2. Exprs \subseteq T
    <2> HIDE DEF T
    <2> QED BY <1>1, ExprInduction
<1> QED BY <1>2

\* The states of the calls of e in instance p.
Reached(pr, e, p) == {p \o q : q \in CallsIn(pr)[e]}

(* They lie in e's zone; those of a call are its instance and those of the *)
(* body called.                                                            *)
LEMMA ReachedOf ==
    ASSUME NEW pr \in Programs, NEW e \in Exprs, NEW p \in Seq(Nat)
    PROVE  /\ Reached(pr, e, p) \cap Paths \subseteq Zone(pr, e, p)
           /\ e.op \in {"const", "in", "pre"} => Reached(pr, e, p) = {}
           /\ e.op \in {"add", "div"} =>
                Reached(pr, e, p) = Reached(pr, e.l, p) \cup Reached(pr, e.r, p)
           /\ e.op = "if" =>
                Reached(pr, e, p) = Reached(pr, e.cond, p) \cup Reached(pr, e.then, p)
                                    \cup Reached(pr, e.else, p)
           /\ e.op = "arrow" =>
                Reached(pr, e, p) = Reached(pr, e.init, p) \cup Reached(pr, e.body, p)
           /\ e.op = "call" =>
                Reached(pr, e, p) = Reached(pr, e.arg, p) \cup {Append(p, e.site)}
                                    \cup Reached(pr, pr[e.callee], Append(p, e.site))
<1> DEFINE C(o) == CallsIn(pr)[o]
           W(o) == Reached(pr, o, p)
<1>1. ASSUME NEW q \in C(e), p \o q \in Paths PROVE p \o q \in Zone(pr, e, p)
    <2>1. q \in Seq(Nat) /\ Len(q) >= 1 /\ q[1] \in Nat /\ <<q[1]>> \in C(e)
        BY CallsInUnfolds, FirstSite
    <2>2. /\ p \o q \in Seq(Nat) /\ Len(p \o q) > Len(p) /\ (p \o q)[Len(p) + 1] = q[1]
          /\ \A i \in 1 .. Len(p) : (p \o q)[i] = p[i]
        BY <2>1
    <2>3. IsPrefix(Append(p, q[1]), p \o q)
        BY <2>1, <2>2, Continues
    <2> QED BY <1>1, <2>1, <2>3 DEF Zone
<1>2. Reached(pr, e, p) \cap Paths \subseteq Zone(pr, e, p)
    BY <1>1 DEF Reached
<1>3. CASE e.op \in {"const", "in", "pre"}
    BY <1>2, <1>3, CallsOfParts DEF Reached
<1>4. CASE e.op \in {"add", "div"}
    <2>1. C(e) = C(e.l) \cup C(e.r)
        BY <1>4, CallsOfParts
    <2>2. W(e) = W(e.l) \cup W(e.r)
        BY <2>1 DEF Reached
    <2> QED BY <1>2, <1>4, <2>2
<1>5. CASE e.op = "if"
    <2>1. C(e) = C(e.cond) \cup C(e.then) \cup C(e.else)
        BY <1>5, CallsOfParts
    <2>2. W(e) = W(e.cond) \cup W(e.then) \cup W(e.else)
        BY <2>1 DEF Reached
    <2> QED BY <1>2, <1>5, <2>2
<1>6. CASE e.op = "arrow"
    <2>1. C(e) = C(e.init) \cup C(e.body)
        BY <1>6, CallsOfParts
    <2>2. W(e) = W(e.init) \cup W(e.body)
        BY <2>1 DEF Reached
    <2> QED BY <1>2, <1>6, <2>2
<1>7. CASE e.op = "call"
    <2> DEFINE z == Append(p, e.site)
    <2>1. e.site \in Nat /\ pr[e.callee] \in Exprs
        BY <1>7, Parts, Callee DEF Below
    <2>2. C(e) = C(e.arg) \cup {<<e.site>>} \cup {<<e.site>> \o q : q \in C(pr[e.callee])}
        BY <1>7, CallsOfParts
    <2>3. p \o <<e.site>> = z
        BY <2>1
    <2>4. \A q \in C(pr[e.callee]) : p \o (<<e.site>> \o q) = z \o q
        <3> SUFFICES ASSUME NEW q \in C(pr[e.callee]) PROVE p \o (<<e.site>> \o q) = z \o q
            OBVIOUS
        <3>1. q \in Seq(Nat)
            BY <2>1, CallsInUnfolds
        <3> HIDE DEF C
        <3> QED BY <2>1, <3>1, SMTT(30)
    <2>5. W(e) = W(e.arg) \cup {z} \cup Reached(pr, pr[e.callee], z)
        <3> HIDE DEF C, z
        <3>1. \A u : u \in W(e) <=> \E q \in C(e) : u = p \o q
            BY DEF Reached, C
        <3>2. \A u : u \in W(e.arg) <=> \E q \in C(e.arg) : u = p \o q
            BY DEF Reached, C
        <3>3. \A u : u \in Reached(pr, pr[e.callee], z) <=> \E q \in C(pr[e.callee]) : u = z \o q
            BY DEF Reached, C
        <3> HIDE DEF W
        <3>4. ASSUME NEW u \in W(e) PROVE u \in W(e.arg) \cup {z} \cup Reached(pr, pr[e.callee], z)
            <4>1. PICK q \in C(e) : u = p \o q
                BY <3>1
            <4>2. CASE q \in C(e.arg)
                BY <3>2, <4>1, <4>2
            <4>3. CASE q = <<e.site>>
                BY <2>3, <4>1, <4>3
            <4>4. ASSUME NEW r \in C(pr[e.callee]), q = <<e.site>> \o r
                  PROVE  u \in Reached(pr, pr[e.callee], z)
                BY <2>4, <3>3, <4>1, <4>4
            <4> QED BY <2>2, <4>2, <4>3, <4>4
        <3>5. W(e.arg) \subseteq W(e)
            BY <2>2, <3>1, <3>2
        <3>6. z \in W(e)
            BY <2>2, <2>3, <3>1
        <3>7. ASSUME NEW r \in C(pr[e.callee]) PROVE z \o r \in W(e)
            <4>1. <<e.site>> \o r \in C(e)
                BY <2>2
            <4>2. z \o r = p \o (<<e.site>> \o r)
                BY <2>4
            <4> QED BY <3>1, <4>1, <4>2
        <3> QED BY <3>3, <3>4, <3>5, <3>6, <3>7
    <2> QED BY <1>2, <1>7, <2>5
<1> QED BY <1>3, <1>4, <1>5, <1>6, <1>7, Parts

(* The statements of the C, run to the end, step every call once.          *)
LEMMA HoistSteps ==
    ASSUME NEW pr \in Programs, NEW e \in Exprs,
           NEW x \in Values, NEW p \in Seq(Nat), NEW s \in States,
           Hoist(pr, e, x, p, s).ok, Reached(pr, e, p) \subseteq Paths
    PROVE  \A q \in Reached(pr, e, p) : Hoist(pr, e, x, p, s).st[q].cycle = s[q].cycle + 1
<1> DEFINE Steps(t, r, Q) == \A i \in Q : t[i].cycle = r[i].cycle + 1
           Good(o) == \A y \in Values, q \in Seq(Nat), t \in States :
                          Hoist(pr, o, y, q, t).ok /\ Reached(pr, o, q) \subseteq Paths
                            => Steps(Hoist(pr, o, y, q, t).st, t, Reached(pr, o, q))
           T == {o \in Exprs : Good(o)}
<1>1. ASSUME NEW o \in Exprs, \A u : Below(u, o) => u \in T PROVE o \in T
    <2>1. \A u : Below(u, o) => u \in Exprs /\ Good(u)
        BY <1>1
    <2> SUFFICES ASSUME NEW y \in Values, NEW q \in Seq(Nat), NEW t \in States,
                        Hoist(pr, o, y, q, t).ok, Reached(pr, o, q) \subseteq Paths
                 PROVE  Steps(Hoist(pr, o, y, q, t).st, t, Reached(pr, o, q))
        OBVIOUS
    <2> HIDE DEF T
    <2>2. CASE o.op \in {"const", "in", "pre"}
        BY <2>2, ReachedOf
    <2>3. ASSUME NEW k \in Exprs, NEW u \in Exprs, NEW v \in States, Good(k), Good(u),
                 Zone(pr, k, q) \cap Zone(pr, u, q) = {},
                 Reached(pr, k, q) \subseteq Paths, Reached(pr, u, q) \subseteq Paths,
                 Hoist(pr, k, y, q, v).ok, Hoist(pr, u, y, q, Hoist(pr, k, y, q, v).st).ok
          PROVE  LET l == Hoist(pr, k, y, q, v)
                     r == Hoist(pr, u, y, q, l.st)
                 IN  /\ Steps(r.st, v, Reached(pr, k, q) \cup Reached(pr, u, q))
                     /\ Stays(r.st, v, Zone(pr, k, q) \cup Zone(pr, u, q))
        <3> DEFINE l == Hoist(pr, k, y, q, v)
                   r == Hoist(pr, u, y, q, l.st)
        <3>1. l.st \in States
            BY Typed
        <3>2. Steps(l.st, v, Reached(pr, k, q)) /\ Steps(r.st, l.st, Reached(pr, u, q))
            BY <2>3, <3>1
        <3>3. Stays(l.st, v, Zone(pr, k, q)) /\ Stays(r.st, l.st, Zone(pr, u, q))
            BY <3>1, HoistStays
        <3>4. Reached(pr, k, q) \subseteq Zone(pr, k, q) /\ Reached(pr, u, q) \subseteq Zone(pr, u, q)
            BY <2>3, ReachedOf
        <3> HIDE DEF l, r, Good
        <3>5. Steps(r.st, v, Reached(pr, k, q) \cup Reached(pr, u, q))
            BY <2>3, <3>2, <3>3, <3>4 DEF Stays
        <3>6. Stays(r.st, v, Zone(pr, k, q) \cup Zone(pr, u, q))
            BY <3>3 DEF Stays
        <3> QED BY <3>5, <3>6 DEF l, r
    <2>4. CASE o.op \in {"add", "div"}
        <3> DEFINE l == Hoist(pr, o.l, y, q, t)
                   r == Hoist(pr, o.r, y, q, l.st)
        <3>1. Good(o.l) /\ Good(o.r) /\ o.l \in Exprs /\ o.r \in Exprs
            <4> HIDE DEF Good
            <4> QED BY <2>1, <2>4, Parts
        <3>2. Hoist(pr, o, y, q, t) = r /\ l.ok /\ r.ok
            BY <2>4, HoistOf, SMTT(30)
        <3>3. /\ Zone(pr, o.l, q) \cap Zone(pr, o.r, q) = {}
              /\ Reached(pr, o, q) = Reached(pr, o.l, q) \cup Reached(pr, o.r, q)
            BY <2>4, Zones, ReachedOf
        <3> HIDE DEF Good, Steps
        <3>4. Steps(r.st, t, Reached(pr, o.l, q) \cup Reached(pr, o.r, q))
            BY <2>3, <3>1, <3>2, <3>3
        <3> HIDE DEF l, r
        <3> QED BY <3>2, <3>3, <3>4
    <2>5. CASE o.op = "arrow"
        <3> DEFINE l == Hoist(pr, o.init, y, q, t)
                   r == Hoist(pr, o.body, y, q, l.st)
        <3>1. Good(o.init) /\ Good(o.body) /\ o.init \in Exprs /\ o.body \in Exprs
            <4> HIDE DEF Good
            <4> QED BY <2>1, <2>5, Parts
        <3>2. Hoist(pr, o, y, q, t) = r /\ l.ok /\ r.ok
            BY <2>5, HoistOf, SMTT(30)
        <3>3. /\ Zone(pr, o.init, q) \cap Zone(pr, o.body, q) = {}
              /\ Reached(pr, o, q) = Reached(pr, o.init, q) \cup Reached(pr, o.body, q)
            BY <2>5, Zones, ReachedOf
        <3> HIDE DEF Good, Steps
        <3>4. Steps(r.st, t, Reached(pr, o.init, q) \cup Reached(pr, o.body, q))
            BY <2>3, <3>1, <3>2, <3>3
        <3> HIDE DEF l, r
        <3> QED BY <3>2, <3>3, <3>4
    <2>6. CASE o.op = "if"
        <3> DEFINE b == Hoist(pr, o.cond, y, q, t)
                   l == Hoist(pr, o.then, y, q, b.st)
                   r == Hoist(pr, o.else, y, q, l.st)
                   V == Zone(pr, o.then, q) \cup Zone(pr, o.else, q)
                   W == Reached(pr, o.then, q) \cup Reached(pr, o.else, q)
        <3>1. /\ Good(o.cond) /\ Good(o.then) /\ Good(o.else)
              /\ o.cond \in Exprs /\ o.then \in Exprs /\ o.else \in Exprs
            <4> HIDE DEF Good
            <4> QED BY <2>1, <2>6, Parts
        <3>2. b.st \in States
            BY <3>1, Typed
        <3>3. Hoist(pr, o, y, q, t) = r /\ b.ok /\ l.ok /\ r.ok
            BY <2>6, HoistOf, SMTT(30)
        <3>4. /\ Zone(pr, o.cond, q) \cap Zone(pr, o.then, q) = {}
              /\ Zone(pr, o.cond, q) \cap Zone(pr, o.else, q) = {}
              /\ Zone(pr, o.then, q) \cap Zone(pr, o.else, q) = {}
            BY <2>6, Zones
        <3>5. Reached(pr, o, q) = Reached(pr, o.cond, q) \cup Reached(pr, o.then, q) \cup Reached(pr, o.else, q)
            BY <2>6, ReachedOf
        <3>6. Steps(b.st, t, Reached(pr, o.cond, q)) /\ Stays(b.st, t, Zone(pr, o.cond, q))
            BY <3>1, <3>3, <3>5, HoistStays
        <3>7. /\ Reached(pr, o.cond, q) \subseteq Zone(pr, o.cond, q)
              /\ Reached(pr, o.then, q) \subseteq Zone(pr, o.then, q)
              /\ Reached(pr, o.else, q) \subseteq Zone(pr, o.else, q)
            BY <3>1, <3>5, ReachedOf
        <3> HIDE DEF b, Good, Steps
        <3>8. Steps(r.st, b.st, W) /\ Stays(r.st, b.st, V)
            BY <2>3, <3>1, <3>2, <3>3, <3>4, <3>5
        <3> HIDE DEF l, r
        <3>9. /\ Reached(pr, o.cond, q) \cap V = {} /\ W \cap Zone(pr, o.cond, q) = {}
              /\ W \subseteq Paths /\ Reached(pr, o.cond, q) \subseteq Paths
            BY <3>4, <3>5, <3>7
        <3>10. Steps(r.st, t, Reached(pr, o.cond, q) \cup W)
            <4> HIDE DEF V, W
            <4> QED BY <3>6, <3>8, <3>9 DEF Stays, Steps
        <3> QED BY <3>3, <3>5, <3>10 DEF Steps
    <2>7. CASE o.op = "call"
        <3> DEFINE h == Hoist(pr, o.arg, y, q, t)
                   a == Val(o.arg, y, q, h.st)
                   z == Append(q, o.site)
                   b == Hoist(pr, pr[o.callee], a.v, z, h.st)
                   w == Val(pr[o.callee], a.v, z, b.st)
        <3>1. Good(o.arg) /\ Good(pr[o.callee]) /\ o.arg \in Exprs /\ pr[o.callee] \in Exprs
            <4> HIDE DEF Good
            <4> QED BY <2>1, <2>7, Parts, Callee
        <3>2. h.st \in States
            BY <3>1, Typed
        <3>3. a.v \in Values
            BY <3>1, <3>2, Typed
        <3>4. /\ z \in Seq(Nat) /\ Zone(pr, pr[o.callee], z) \subseteq Under(z)
              /\ (z \in Paths => z \in Under(z))
            BY <2>7, BodyZone
        <3>5. b.st \in States
            BY <3>1, <3>2, <3>3, <3>4, Typed
        <3>6. h.ok /\ b.ok /\ Hoist(pr, o, y, q, t).st = Commit(b.st, z, w.v)
            <4>1. Hoist(pr, o, y, q, t) = IF ~h.ok THEN h ELSE IF ~a.ok THEN a
                                          ELSE IF ~b.ok THEN b ELSE IF ~w.ok THEN w
                                          ELSE Ok(w.v, Commit(b.st, z, w.v))
                <5>1. /\ h = ArgHoist(pr, o, y, q, t) /\ a = ArgVal(pr, o, y, q, t)
                      /\ b = BodyHoist(pr, o, y, q, t) /\ w = BodyVal(pr, o, y, q, t)
                    BY DEF ArgHoist, ArgVal, BodyHoist, BodyVal
                <5> HIDE DEF h, a, b, w
                <5> QED BY <2>7, <5>1, HoistCall
            <4> HIDE DEF h, a, z, b, w
            <4> QED BY <4>1 DEF Ok
        <3>7. Reached(pr, o, q) = Reached(pr, o.arg, q) \cup {z} \cup Reached(pr, pr[o.callee], z)
            BY <2>7, ReachedOf
        <3>8. Stays(h.st, t, Zone(pr, o.arg, q)) /\ Steps(h.st, t, Reached(pr, o.arg, q))
            BY <3>1, <3>6, <3>7, HoistStays
        <3>9. /\ Stays(b.st, h.st, Zone(pr, pr[o.callee], z))
              /\ Steps(b.st, h.st, Reached(pr, pr[o.callee], z))
            <4> HIDE DEF h, a, z, Steps
            <4> QED BY <3>1, <3>2, <3>3, <3>4, <3>6, <3>7, HoistStays
        <3>10. Zone(pr, o.arg, q) \cap Under(z) = {} /\ z \notin Zone(pr, pr[o.callee], z)
            BY <2>7, <3>1, <3>4, Zones
        <3>11. /\ Reached(pr, o.arg, q) \subseteq Zone(pr, o.arg, q)
               /\ Reached(pr, pr[o.callee], z) \subseteq Zone(pr, pr[o.callee], z)
               /\ z \in Under(z)
            BY <3>1, <3>4, <3>7, ReachedOf
        <3> HIDE DEF h, a, z, b, w, Good
        <3>12. ASSUME NEW i \in Reached(pr, o, q)
               PROVE  Commit(b.st, z, w.v)[i].cycle = t[i].cycle + 1
            <4>1. i \in Paths
                OBVIOUS
            <4>2. Commit(b.st, z, w.v)[i] = IF i = z THEN [cycle |-> b.st[z].cycle + 1, prev |-> w.v] ELSE b.st[i]
                BY <3>5, <4>1 DEF Commit, States
            <4>3. CASE i = z
                <5>1. b.st[i] = t[i]
                    BY <3>8, <3>9, <3>10, <3>11, <4>1, <4>3 DEF Stays
                <5> QED BY <4>2, <4>3, <5>1
            <4>4. CASE i \in Reached(pr, o.arg, q)
                <5>1. i # z /\ b.st[i] = h.st[i]
                    BY <3>4, <3>9, <3>10, <3>11, <4>1, <4>4 DEF Stays
                <5> QED BY <3>8, <4>2, <4>4, <5>1
            <4>5. CASE i \in Reached(pr, pr[o.callee], z)
                <5>1. i # z /\ h.st[i] = t[i]
                    BY <3>4, <3>8, <3>10, <3>11, <4>1, <4>5 DEF Stays
                <5> QED BY <3>9, <4>2, <4>5, <5>1
            <4> QED BY <3>7, <4>3, <4>4, <4>5
        <3> QED BY <3>6, <3>12
    <2> QED BY <2>2, <2>4, <2>5, <2>6, <2>7, Parts
<1>2. Exprs \subseteq T
    <2> HIDE DEF T
    <2> QED BY <1>1, ExprInduction
<1> QED BY <1>2
-----------------------------------------------------------------------------
(* The simulator against the C.  b tells whether the instance has begun.   *)

Same(s, t, Z) == \A q \in Z : s[q] = t[q]

\* All of e's instances exist, and have begun when their caller has.
InStep(pr, e, p, b, t) ==
    /\ b <=> State(t, p).cycle # 0
    /\ Reached(pr, e, p) \subseteq Paths
    /\ \A q \in Reached(pr, e, p) : b <=> t[q].cycle # 0

(* Where the C has gone from t to g, an evaluation from what is t to it    *)
(* has the value the C has, steps what the C has stepped, and fails only   *)
(* where it may.                                                           *)
Follows(pr, e, x, p, b, t, g) ==
    \A s \in States : Alike(s, t, p, Zone(pr, e, p)) =>
        LET r == Sim(pr, e, x, p, s)
            w == Val(e, x, p, g)
        IN  /\ r.ok /\ w.ok => r.v = w.v /\ Same(r.st, g, Zone(pr, e, p))
            /\ Answers(pr, e, b) /\ w.ok => r.ok
            /\ b \in ReachesCalls(pr)[e] => Same(r.st, g, Zone(pr, e, p))

Faithful(pr, e) ==
    \A x \in Values, p \in Seq(Nat), b \in BOOLEAN, t \in States :
        InStep(pr, e, p, b, t) /\ Hoist(pr, e, x, p, t).ok
            => Follows(pr, e, x, p, b, t, Hoist(pr, e, x, p, t).st)

(* A choice changes the states of both sides only.                         *)
LEMMA ChoiceStays ==
    ASSUME NEW pr \in Programs, NEW k \in Exprs, NEW o \in Exprs,
           NEW x \in Values, NEW p \in Seq(Nat), NEW s \in States
    PROVE  LET d == Choice(pr, SimEval(pr), k, o, x, p, s)
           IN  d.st \in States /\ Stays(d.st, s, Zone(pr, k, p) \cup Zone(pr, o, p))
<1> DEFINE r == Sim(pr, k, x, p, s)
           u == Sim(pr, o, x, p, r.st)
           d == Choice(pr, SimEval(pr), k, o, x, p, s)
<1>1. r.st \in States
    BY Typed
<1>2. u.st \in States
    BY <1>1, Typed
<1>3. d.st \in {r.st, u.st}
    BY ChoiceOf DEF Ok
<1>4. Stays(r.st, s, Zone(pr, k, p)) /\ Stays(u.st, r.st, Zone(pr, o, p))
    BY <1>1, SimStays
<1> HIDE DEF r, u, d
<1>5. d.st \in States /\ Stays(d.st, s, Zone(pr, k, p) \cup Zone(pr, o, p))
    BY <1>1, <1>2, <1>3, <1>4 DEF Stays
<1> QED BY <1>5 DEF d

(* What a part of an expression does is the same after other parts and     *)
(* before other parts.                                                     *)
LEMMA FollowsAmid ==
    ASSUME NEW pr \in Programs, NEW e \in Exprs, Faithful(pr, e),
           NEW x \in Values, NEW p \in Seq(Nat), NEW b \in BOOLEAN,
           NEW t \in States, NEW s \in States, NEW g \in States, NEW Y, NEW Z,
           InStep(pr, e, p, b, t), Hoist(pr, e, x, p, s).ok,
           Stays(s, t, Y), Stays(g, Hoist(pr, e, x, p, s).st, Z),
           p \notin Y, p \notin Z,
           Y \cap Zone(pr, e, p) = {}, Z \cap Zone(pr, e, p) = {}
    PROVE  Follows(pr, e, x, p, b, t, g)
<1> DEFINE h == Hoist(pr, e, x, p, s)
<1>1. h.st \in States /\ h.ok /\ Stays(g, h.st, Z)
    BY Typed
<1>2. Zone(pr, e, p) \subseteq Paths
    BY DEF Zone
<1>3. Alike(s, t, p, Zone(pr, e, p))
    BY <1>2 DEF Stays, Alike, State
<1>4. InStep(pr, e, p, b, s)
    <2>1. Reached(pr, e, p) \subseteq Zone(pr, e, p)
        BY ReachedOf DEF InStep
    <2> QED BY <1>3, <2>1 DEF InStep, Alike
<1>5. Follows(pr, e, x, p, b, s, h.st)
    BY <1>4 DEF Faithful
<1> HIDE DEF h
<1>6. Alike(g, h.st, p, Zone(pr, e, p))
    BY <1>1, <1>2 DEF Stays, Alike, State
<1>7. /\ Val(e, x, p, g).ok <=> Val(e, x, p, h.st).ok
      /\ Val(e, x, p, g).v = Val(e, x, p, h.st).v
    BY <1>1, <1>6, ValLocal
<1>8. ASSUME NEW r \in States, Alike(r, t, p, Zone(pr, e, p))
      PROVE  Alike(r, s, p, Zone(pr, e, p))
    BY <1>3, <1>8 DEF Alike
<1>9. \A r : Same(r, h.st, Zone(pr, e, p)) => Same(r, g, Zone(pr, e, p))
    BY <1>6 DEF Same, Alike
<1> QED BY <1>5, <1>7, <1>8, <1>9 DEF Follows

(* What the first part does is the same before other parts.                *)
LEMMA FollowsFirst ==
    ASSUME NEW pr \in Programs, NEW e \in Exprs, Faithful(pr, e),
           NEW x \in Values, NEW p \in Seq(Nat), NEW b \in BOOLEAN,
           NEW t \in States, NEW g \in States, NEW Z,
           InStep(pr, e, p, b, t), Hoist(pr, e, x, p, t).ok,
           Stays(g, Hoist(pr, e, x, p, t).st, Z), p \notin Z, Z \cap Zone(pr, e, p) = {}
    PROVE  Follows(pr, e, x, p, b, t, g)
<1>1. Stays(t, t, {}) /\ p \notin {} /\ {} \cap Zone(pr, e, p) = {}
    BY DEF Stays
<1> QED BY <1>1, FollowsAmid

(* What the last part does is the same after other parts.                  *)
LEMMA FollowsLast ==
    ASSUME NEW pr \in Programs, NEW e \in Exprs, Faithful(pr, e),
           NEW x \in Values, NEW p \in Seq(Nat), NEW b \in BOOLEAN,
           NEW t \in States, NEW s \in States, NEW Y,
           InStep(pr, e, p, b, t), Hoist(pr, e, x, p, s).ok,
           Stays(s, t, Y), p \notin Y, Y \cap Zone(pr, e, p) = {}
    PROVE  Follows(pr, e, x, p, b, t, Hoist(pr, e, x, p, s).st)
<1> DEFINE g == Hoist(pr, e, x, p, s).st
<1>1. g \in States
    BY Typed
<1>2. Stays(g, g, {}) /\ p \notin {} /\ {} \cap Zone(pr, e, p) = {}
    BY DEF Stays
<1>3. Stays(g, Hoist(pr, e, x, p, s).st, {})
    BY <1>2
<1> HIDE DEF g
<1>4. Follows(pr, e, x, p, b, t, g)
    BY <1>1, <1>2, <1>3, FollowsAmid
<1> QED BY <1>4 DEF g

(* A choice follows the C when the other side reaches its calls.           *)
LEMMA ChoiceFollows ==
    ASSUME NEW pr \in Programs, NEW k \in Exprs, NEW o \in Exprs,
           NEW x \in Values, NEW p \in Seq(Nat), NEW b \in BOOLEAN,
           NEW t \in States, NEW g \in States, NEW s \in States,
           Zone(pr, k, p) \cap Zone(pr, o, p) = {},
           Follows(pr, k, x, p, b, t, g), Follows(pr, o, x, p, b, t, g),
           Alike(s, t, p, Zone(pr, k, p) \cup Zone(pr, o, p))
    PROVE  LET d == Choice(pr, SimEval(pr), k, o, x, p, s)
               w == Val(k, x, p, g)
               Z == Zone(pr, k, p) \cup Zone(pr, o, p)
           IN  /\ d.ok /\ w.ok /\ b \in ReachesCalls(pr)[o] => d.v = w.v /\ Same(d.st, g, Z)
               /\ Answers(pr, k, b) /\ w.ok => d.ok
               /\ /\ b \in ReachesCalls(pr)[k] /\ b \in ReachesCalls(pr)[o]
                  /\ HasCall(pr, o) => NeverFails(pr, k, b)
                  => Same(d.st, g, Z)
<1> DEFINE r == Sim(pr, k, x, p, s)
           u == Sim(pr, o, x, p, r.st)
           d == Choice(pr, SimEval(pr), k, o, x, p, s)
           w == Val(k, x, p, g)
           K == Zone(pr, k, p)
           O == Zone(pr, o, p)
<1>1. r \in Results /\ r.st \in States
    BY Typed
<1>2. Stays(r.st, s, K) /\ Stays(u.st, r.st, O)
    BY <1>1, SimStays
<1>3. p \notin K /\ K \subseteq Paths /\ O \subseteq Paths
    BY Zones DEF Zone
<1>4. Alike(s, t, p, K)
    BY DEF Alike
<1>5. Alike(r.st, t, p, O)
    <2>1. K \cap O = {} /\ Alike(s, t, p, K \cup O)
        OBVIOUS
    <2> HIDE DEF r, K, O
    <2> QED BY <1>2, <1>3, <2>1 DEF Alike, Stays, State
<1>6. /\ r.ok /\ w.ok => r.v = w.v /\ Same(r.st, g, K)
      /\ Answers(pr, k, b) /\ w.ok => r.ok
      /\ b \in ReachesCalls(pr)[k] => Same(r.st, g, K)
    BY <1>4 DEF Follows
<1>7. b \in ReachesCalls(pr)[o] => Same(u.st, g, O)
    BY <1>1, <1>5 DEF Follows
<1>8. ~HasCall(pr, o) => O = {}
    BY DEF HasCall, Zone
<1>9. NeverFails(pr, k, b) => w.ok /\ Answers(pr, k, b)
    BY ValNeverFails DEF NeverFails
<1>10. d = IF r.ok THEN Ok(r.v, IF HasCall(pr, o) THEN u.st ELSE r.st) ELSE r
    BY ChoiceOf
<1>11. K \cap O = {}
    OBVIOUS
<1> HIDE DEF r, u, d, w, K, O
<1>12. r.ok => d.ok /\ d.v = r.v
    BY <1>10, Fields
<1>13. ~r.ok => ~d.ok /\ d.st = r.st
    BY <1>10
<1>14. Same(r.st, g, K) => Same(d.st, g, K)
    <2>1. d.st = r.st \/ d.st = u.st
        BY <1>10, Fields
    <2>2. Same(r.st, g, K) => Same(u.st, g, K)
        BY <1>2, <1>3, <1>11 DEF Same, Stays
    <2> QED BY <2>1, <2>2
<1>15. r.ok /\ b \in ReachesCalls(pr)[o] => Same(d.st, g, O)
    <2>1. CASE HasCall(pr, o)
        BY <1>7, <1>10, <2>1, Fields
    <2>2. CASE ~HasCall(pr, o)
        BY <1>8, <2>2 DEF Same
    <2> QED BY <2>1, <2>2
<1>16. Same(d.st, g, K) /\ Same(d.st, g, O) => Same(d.st, g, K \cup O)
    BY DEF Same
<1>17. d.ok /\ w.ok /\ b \in ReachesCalls(pr)[o] => d.v = w.v /\ Same(d.st, g, K \cup O)
    BY <1>6, <1>12, <1>13, <1>14, <1>15, <1>16
<1>18. Answers(pr, k, b) /\ w.ok => d.ok
    BY <1>6, <1>12
<1>19. ASSUME b \in ReachesCalls(pr)[k], b \in ReachesCalls(pr)[o],
              HasCall(pr, o) => NeverFails(pr, k, b)
       PROVE  Same(d.st, g, K \cup O)
    <2>1. CASE HasCall(pr, o)
        <3>1. r.ok
            BY <1>6, <1>9, <1>19, <2>1
        <3> QED BY <1>6, <1>14, <1>15, <1>16, <1>19, <3>1
    <2>2. CASE ~HasCall(pr, o)
        <3>1. Same(d.st, g, O)
            BY <1>8, <2>2 DEF Same
        <3> QED BY <1>6, <1>14, <1>16, <1>19, <3>1
    <2> QED BY <2>1, <2>2
<1> QED BY <1>17, <1>18, <1>19 DEF d, w, K, O

(* A sum or a quotient follows the C when its operands do.                 *)
LEMMA BinaryFollows ==
    ASSUME NEW pr \in Programs, NEW e \in Exprs, e.op \in {"add", "div"},
           NEW x \in Values, NEW p \in Seq(Nat), NEW b \in BOOLEAN,
           NEW t \in States, NEW g \in States,
           Follows(pr, e.l, x, p, b, t, g), Follows(pr, e.r, x, p, b, t, g)
    PROVE  Follows(pr, e, x, p, b, t, g)
<1> SUFFICES ASSUME NEW s \in States, Alike(s, t, p, Zone(pr, e, p))
             PROVE  LET r == Sim(pr, e, x, p, s)
                        w == Val(e, x, p, g)
                    IN  /\ r.ok /\ w.ok => r.v = w.v /\ Same(r.st, g, Zone(pr, e, p))
                        /\ Answers(pr, e, b) /\ w.ok => r.ok
                        /\ b \in ReachesCalls(pr)[e] => Same(r.st, g, Zone(pr, e, p))
    BY DEF Follows
<1> DEFINE r == Sim(pr, e, x, p, s)
           w == Val(e, x, p, g)
           rl == Sim(pr, e.l, x, p, s)
           rr == Sim(pr, e.r, x, p, rl.st)
           wl == Val(e.l, x, p, g)
           wr == Val(e.r, x, p, g)
           L == Zone(pr, e.l, p)
           R == Zone(pr, e.r, p)
<1>1. e.l \in Exprs /\ e.r \in Exprs
    BY Parts DEF Below
<1>2. rl \in Results /\ rl.st \in States /\ wl \in Results /\ wr \in Results
    BY <1>1, Typed
<1>3. rr \in Results /\ rr.st \in States
    BY <1>1, <1>2, Typed
<1>4. Zone(pr, e, p) = L \cup R /\ L \cap R = {}
    BY Zones
<1>5. p \notin L /\ L \subseteq Paths /\ R \subseteq Paths
    BY <1>1, Zones DEF Zone
<1>6. Stays(rl.st, s, L) /\ Stays(rr.st, rl.st, R)
    BY <1>1, <1>2, SimStays
<1>7. Alike(s, t, p, L)
    BY <1>4 DEF Alike
<1>8. Alike(rl.st, t, p, R)
    <2>1. Alike(s, t, p, L \cup R)
        BY <1>4
    <2> HIDE DEF rl, L, R
    <2> QED BY <1>4, <1>5, <1>6, <2>1 DEF Alike, Stays, State
<1>9. /\ rl.ok /\ wl.ok => rl.v = wl.v /\ Same(rl.st, g, L)
      /\ Answers(pr, e.l, b) /\ wl.ok => rl.ok
      /\ b \in ReachesCalls(pr)[e.l] => Same(rl.st, g, L)
    BY <1>7 DEF Follows
<1>10. /\ rr.ok /\ wr.ok => rr.v = wr.v /\ Same(rr.st, g, R)
       /\ Answers(pr, e.r, b) /\ wr.ok => rr.ok
       /\ b \in ReachesCalls(pr)[e.r] => Same(rr.st, g, R)
    BY <1>2, <1>8 DEF Follows
<1>11. r = IF ~rl.ok THEN rl ELSE IF ~rr.ok THEN rr
           ELSE IF e.op = "div" /\ rr.v = 0 THEN Err(rr.st)
           ELSE Ok(Binary(e.op, rl.v, rr.v), rr.st)
    BY SimOf
<1>12. w = IF ~wl.ok THEN wl ELSE IF ~wr.ok THEN wr
           ELSE IF e.op = "div" /\ wr.v = 0 THEN Err(g)
           ELSE Ok(Binary(e.op, wl.v, wr.v), g)
    BY ValOf
<1>13. Answers(pr, e, b) => Answers(pr, e.l, b) /\ Answers(pr, e.r, b)
    <2>1. Failures(pr)[e] = FailuresOf(pr, Failures(pr), e)
        BY FailuresUnfold
    <2>2. Failures(pr)[e.l] \cup Failures(pr)[e.r] \subseteq Failures(pr)[e]
        BY <2>1 DEF FailuresOf
    <2> QED BY <2>2 DEF Answers
<1>14. b \in ReachesCalls(pr)[e] =>
            /\ b \in ReachesCalls(pr)[e.l]
            /\ HasCall(pr, e.r) => b \in ReachesCalls(pr)[e.r] /\ NeverFails(pr, e.l, b)
    <2>1. ReachesCalls(pr)[e] = ReachesOf(pr, ReachesCalls(pr), e)
        BY ReachesUnfolds
    <2>2. ReachesCalls(pr)[e] = {d \in ReachesCalls(pr)[e.l] :
                HasCall(pr, e.r) => d \in ReachesCalls(pr)[e.r] /\ NeverFails(pr, e.l, d)}
        BY <2>1 DEF ReachesOf
    <2> QED BY <2>2
<1>15. NeverFails(pr, e.l, b) => wl.ok /\ Answers(pr, e.l, b)
    BY <1>1, ValNeverFails DEF NeverFails
<1>16. ~HasCall(pr, e.r) => R = {}
    BY DEF HasCall, Zone
<1> HIDE DEF r, w, rl, rr, wl, wr, L, R
<1>17. Same(rl.st, g, L) => Same(rr.st, g, L)
    BY <1>4, <1>5, <1>6 DEF Same, Stays
<1>18. Same(rl.st, g, L) => Same(r.st, g, L)
    BY <1>11, <1>17, Fields
<1>19. rl.ok => r.st = rr.st
    BY <1>11, Fields
<1>20. \A z : Same(z, g, L) /\ Same(z, g, R) => Same(z, g, Zone(pr, e, p))
    BY <1>4 DEF Same
<1>21. r.ok => rl.ok /\ rr.ok /\ r.v = Binary(e.op, rl.v, rr.v)
    BY <1>11, Fields
<1>22. w.ok => /\ wl.ok /\ wr.ok /\ w.v = Binary(e.op, wl.v, wr.v)
               /\ ~(e.op = "div" /\ wr.v = 0)
    BY <1>12, Fields
<1>23. ASSUME r.ok, w.ok PROVE r.v = w.v /\ Same(r.st, g, Zone(pr, e, p))
    BY <1>9, <1>10, <1>18, <1>19, <1>20, <1>21, <1>22, <1>23
<1>24. ASSUME Answers(pr, e, b), w.ok PROVE r.ok
    <2>1. rl.ok /\ rr.ok /\ rr.v = wr.v
        BY <1>9, <1>10, <1>13, <1>22, <1>24
    <2>2. ~(e.op = "div" /\ rr.v = 0)
        BY <1>22, <1>24, <2>1
    <2> QED BY <1>11, <2>1, <2>2, Fields
<1>25. ASSUME b \in ReachesCalls(pr)[e] PROVE Same(r.st, g, Zone(pr, e, p))
    <2>1. Same(r.st, g, L)
        BY <1>9, <1>14, <1>18, <1>25
    <2>2. Same(r.st, g, R)
        <3>1. CASE HasCall(pr, e.r)
            BY <1>9, <1>10, <1>14, <1>15, <1>19, <1>25, <3>1
        <3>2. CASE ~HasCall(pr, e.r)
            BY <1>16, <3>2 DEF Same
        <3> QED BY <3>1, <3>2
    <2> QED BY <1>20, <2>1, <2>2
<1> QED BY <1>23, <1>24, <1>25 DEF r, w

(* A conditional follows the C when its condition and its branches do.     *)
LEMMA IfFollows ==
    ASSUME NEW pr \in Programs, CallsComeFirst(pr), NEW e \in Exprs, e.op = "if",
           NEW x \in Values, NEW p \in Seq(Nat), NEW b \in BOOLEAN,
           NEW t \in States, NEW g \in States,
           Follows(pr, e.cond, x, p, b, t, g),
           Follows(pr, e.then, x, p, b, t, g), Follows(pr, e.else, x, p, b, t, g)
    PROVE  Follows(pr, e, x, p, b, t, g)
<1> SUFFICES ASSUME NEW s \in States, Alike(s, t, p, Zone(pr, e, p))
             PROVE  LET r == Sim(pr, e, x, p, s)
                        w == Val(e, x, p, g)
                    IN  /\ r.ok /\ w.ok => r.v = w.v /\ Same(r.st, g, Zone(pr, e, p))
                        /\ Answers(pr, e, b) /\ w.ok => r.ok
                        /\ b \in ReachesCalls(pr)[e] => Same(r.st, g, Zone(pr, e, p))
    BY DEF Follows
<1> DEFINE r == Sim(pr, e, x, p, s)
           w == Val(e, x, p, g)
           rc == Sim(pr, e.cond, x, p, s)
           wc == Val(e.cond, x, p, g)
           d1 == Choice(pr, SimEval(pr), e.then, e.else, x, p, rc.st)
           d2 == Choice(pr, SimEval(pr), e.else, e.then, x, p, rc.st)
           w1 == Val(e.then, x, p, g)
           w2 == Val(e.else, x, p, g)
           C == Zone(pr, e.cond, p)
           K == Zone(pr, e.then, p)
           O == Zone(pr, e.else, p)
<1>1. e.cond \in Exprs /\ e.then \in Exprs /\ e.else \in Exprs
    BY Parts DEF Below
<1>2. rc \in Results /\ rc.st \in States
    BY <1>1, Typed
<1>3. /\ Zone(pr, e, p) = C \cup K \cup O
      /\ C \cap K = {} /\ C \cap O = {} /\ K \cap O = {} /\ O \cap K = {}
    BY Zones
<1>4. p \notin C /\ C \subseteq Paths /\ K \subseteq Paths /\ O \subseteq Paths
    BY <1>1, Zones DEF Zone
<1>5. Stays(rc.st, s, C)
    BY <1>1, SimStays
<1>6. Stays(d1.st, rc.st, K \cup O) /\ Stays(d2.st, rc.st, O \cup K)
    <2> HIDE DEF rc, d1, d2
    <2> QED BY <1>1, <1>2, ChoiceStays DEF d1, d2
<1>7. Alike(s, t, p, C) /\ Alike(s, t, p, C \cup K \cup O)
    BY <1>3 DEF Alike
<1>8. Alike(rc.st, t, p, K \cup O) /\ Alike(rc.st, t, p, O \cup K)
    <2> HIDE DEF rc, C, K, O
    <2> QED BY <1>3, <1>4, <1>5, <1>7 DEF Alike, Stays, State
<1>9. /\ rc.ok /\ wc.ok => rc.v = wc.v /\ Same(rc.st, g, C)
      /\ Answers(pr, e.cond, b) /\ wc.ok => rc.ok
      /\ b \in ReachesCalls(pr)[e.cond] => Same(rc.st, g, C)
    BY <1>7 DEF Follows
<1>10. /\ d1.ok /\ w1.ok /\ b \in ReachesCalls(pr)[e.else] => d1.v = w1.v /\ Same(d1.st, g, K \cup O)
       /\ Answers(pr, e.then, b) /\ w1.ok => d1.ok
       /\ /\ b \in ReachesCalls(pr)[e.then] /\ b \in ReachesCalls(pr)[e.else]
          /\ HasCall(pr, e.else) => NeverFails(pr, e.then, b)
          => Same(d1.st, g, K \cup O)
    <2> HIDE DEF rc
    <2> QED BY <1>1, <1>2, <1>3, <1>8, ChoiceFollows
<1>11. /\ d2.ok /\ w2.ok /\ b \in ReachesCalls(pr)[e.then] => d2.v = w2.v /\ Same(d2.st, g, O \cup K)
       /\ Answers(pr, e.else, b) /\ w2.ok => d2.ok
       /\ /\ b \in ReachesCalls(pr)[e.else] /\ b \in ReachesCalls(pr)[e.then]
          /\ HasCall(pr, e.then) => NeverFails(pr, e.else, b)
          => Same(d2.st, g, O \cup K)
    <2> HIDE DEF rc
    <2> QED BY <1>1, <1>2, <1>3, <1>8, ChoiceFollows
<1>12. r = IF ~rc.ok THEN rc ELSE IF rc.v # 0 THEN d1 ELSE d2
    BY SimOf
<1>13. w = IF ~wc.ok THEN wc ELSE IF wc.v # 0 THEN w1 ELSE w2
    BY ValOf
<1>14. Answers(pr, e, b) =>
            Answers(pr, e.cond, b) /\ Answers(pr, e.then, b) /\ Answers(pr, e.else, b)
    <2>1. Failures(pr)[e] = FailuresOf(pr, Failures(pr), e)
        BY FailuresUnfold
    <2>2. Failures(pr)[e] = Failures(pr)[e.cond] \cup Failures(pr)[e.then] \cup Failures(pr)[e.else]
        BY <2>1 DEF FailuresOf
    <2> QED BY <2>2 DEF Answers
<1>15. b \in ReachesCalls(pr)[e] =>
            /\ b \in ReachesCalls(pr)[e.cond]
            /\ HasCall(pr, e.then) => NeverFails(pr, e.cond, b) /\ NeverFails(pr, e.else, b)
            /\ HasCall(pr, e.else) => NeverFails(pr, e.cond, b) /\ NeverFails(pr, e.then, b)
    <2>1. ReachesCalls(pr)[e] = ReachesOf(pr, ReachesCalls(pr), e)
        BY ReachesUnfolds
    <2>2. ReachesCalls(pr)[e] =
            {d \in ReachesCalls(pr)[e.cond] \cap ReachesCalls(pr)[e.then] \cap ReachesCalls(pr)[e.else] :
                /\ HasCall(pr, e.then) => NeverFails(pr, e.cond, d) /\ NeverFails(pr, e.else, d)
                /\ HasCall(pr, e.else) => NeverFails(pr, e.cond, d) /\ NeverFails(pr, e.then, d)}
        BY <2>1 DEF ReachesOf
    <2> QED BY <2>2
<1>16. b \in ReachesCalls(pr)[e.then] /\ b \in ReachesCalls(pr)[e.else]
    BY DEF CallsComeFirst
<1>17. NeverFails(pr, e.cond, b) => wc.ok /\ Answers(pr, e.cond, b)
    BY <1>1, ValNeverFails DEF NeverFails
<1>18. /\ ~HasCall(pr, e.then) => K = {}
       /\ ~HasCall(pr, e.else) => O = {}
    BY DEF HasCall, Zone
<1> HIDE DEF r, w, rc, wc, d1, d2, w1, w2, C, K, O
<1>19. Same(rc.st, g, C) => Same(r.st, g, C)
    <2>1. Same(rc.st, g, C) => Same(d1.st, g, C) /\ Same(d2.st, g, C)
        BY <1>3, <1>4, <1>6 DEF Same, Stays
    <2> QED BY <1>12, <2>1
<1>20. \A z : /\ Same(z, g, C) /\ Same(z, g, K \cup O) => Same(z, g, Zone(pr, e, p))
              /\ Same(z, g, C) /\ Same(z, g, O \cup K) => Same(z, g, Zone(pr, e, p))
    BY <1>3 DEF Same
<1>21. ASSUME r.ok, w.ok PROVE r.v = w.v /\ Same(r.st, g, Zone(pr, e, p))
    <2>1. rc.ok /\ wc.ok /\ rc.v = wc.v /\ Same(r.st, g, C)
        BY <1>9, <1>12, <1>13, <1>19, <1>21
    <2>2. CASE rc.v # 0
        <3>1. r = d1 /\ w = w1
            BY <1>12, <1>13, <2>1, <2>2
        <3> QED BY <1>10, <1>16, <1>20, <1>21, <2>1, <3>1
    <2>3. CASE rc.v = 0
        <3>1. r = d2 /\ w = w2
            BY <1>12, <1>13, <2>1, <2>3
        <3> QED BY <1>11, <1>16, <1>20, <1>21, <2>1, <3>1
    <2> QED BY <2>2, <2>3
<1>22. ASSUME Answers(pr, e, b), w.ok PROVE r.ok
    <2>1. rc.ok /\ wc.ok /\ rc.v = wc.v
        BY <1>9, <1>13, <1>14, <1>22
    <2> QED BY <1>10, <1>11, <1>12, <1>13, <1>14, <1>22, <2>1
<1>23. ASSUME b \in ReachesCalls(pr)[e] PROVE Same(r.st, g, Zone(pr, e, p))
    <2>1. Same(r.st, g, C)
        BY <1>9, <1>15, <1>19, <1>23
    <2>2. CASE ~HasCall(pr, e.then) /\ ~HasCall(pr, e.else)
        <3>1. Same(r.st, g, K \cup O)
            BY <1>18, <2>2 DEF Same
        <3> QED BY <1>20, <2>1, <3>1
    <2>3. CASE HasCall(pr, e.then) \/ HasCall(pr, e.else)
        <3>1. rc.ok
            BY <1>9, <1>15, <1>17, <1>23, <2>3
        <3>2. Same(d1.st, g, K \cup O) /\ Same(d2.st, g, O \cup K)
            BY <1>10, <1>11, <1>15, <1>16, <1>23
        <3> QED BY <1>12, <1>20, <2>1, <3>1, <3>2
    <2> QED BY <2>2, <2>3
<1> QED BY <1>21, <1>22, <1>23 DEF r, w

(* An arrow follows the C when both its sides do.                          *)
LEMMA ArrowFollows ==
    ASSUME NEW pr \in Programs, CallsComeFirst(pr), NEW e \in Exprs, e.op = "arrow",
           NEW x \in Values, NEW p \in Seq(Nat), NEW b \in BOOLEAN,
           NEW t \in States, NEW g \in States,
           b <=> State(t, p).cycle # 0, State(g, p) = State(t, p),
           Follows(pr, e.init, x, p, b, t, g), Follows(pr, e.body, x, p, b, t, g)
    PROVE  Follows(pr, e, x, p, b, t, g)
<1> SUFFICES ASSUME NEW s \in States, Alike(s, t, p, Zone(pr, e, p))
             PROVE  LET r == Sim(pr, e, x, p, s)
                        w == Val(e, x, p, g)
                    IN  /\ r.ok /\ w.ok => r.v = w.v /\ Same(r.st, g, Zone(pr, e, p))
                        /\ Answers(pr, e, b) /\ w.ok => r.ok
                        /\ b \in ReachesCalls(pr)[e] => Same(r.st, g, Zone(pr, e, p))
    BY DEF Follows
<1> DEFINE k == Side(e, b)
           o == OtherSide(e, b)
           r == Sim(pr, e, x, p, s)
           w == Val(e, x, p, g)
           d == Choice(pr, SimEval(pr), k, o, x, p, s)
           wk == Val(k, x, p, g)
           Z == Zone(pr, k, p) \cup Zone(pr, o, p)
<1>1. k \in Exprs /\ o \in Exprs
    BY Parts DEF Below, Side, OtherSide
<1>2. Zone(pr, e, p) = Z /\ Zone(pr, k, p) \cap Zone(pr, o, p) = {}
    BY Zones DEF Side, OtherSide
<1>3. Follows(pr, k, x, p, b, t, g) /\ Follows(pr, o, x, p, b, t, g)
    BY DEF Side, OtherSide
<1>4. Alike(s, t, p, Z)
    BY <1>2
<1>5. State(s, p).cycle = 0 <=> ~b
    BY DEF Alike
<1>6. r = d
    BY <1>5, SimOf DEF Side, OtherSide
<1>7. w = wk
    BY ValOf DEF Side
<1>8. b \in ReachesCalls(pr)[o]
    BY DEF CallsComeFirst, OtherSide
<1>9. Answers(pr, e, b) => Answers(pr, k, b)
    <2>1. Failures(pr)[e] = FailuresOf(pr, Failures(pr), e)
        BY FailuresUnfold
    <2>2. Failures(pr)[e] = Failures(pr)[e.init] \cup (Failures(pr)[e.body] \ {"pre"})
        BY <2>1 DEF FailuresOf
    <2> QED BY <2>2 DEF Answers, Side
<1>10. b \in ReachesCalls(pr)[e] =>
            b \in ReachesCalls(pr)[k] /\ (HasCall(pr, o) => NeverFails(pr, k, b))
    <2>1. ReachesCalls(pr)[e] = ReachesOf(pr, ReachesCalls(pr), e)
        BY ReachesUnfolds
    <2>2. ReachesCalls(pr)[e] =
            {f \in ReachesCalls(pr)[e.init] \cap ReachesCalls(pr)[e.body] :
                HasCall(pr, OtherSide(e, f)) => NeverFails(pr, Side(e, f), f)}
        BY <2>1 DEF ReachesOf
    <2>3. k \in {e.init, e.body}
        BY DEF Side
    <2> HIDE DEF k
    <2> QED BY <2>2, <2>3 DEF k
<1> HIDE DEF k, o
<1>11. /\ d.ok /\ wk.ok /\ b \in ReachesCalls(pr)[o] => d.v = wk.v /\ Same(d.st, g, Z)
       /\ Answers(pr, k, b) /\ wk.ok => d.ok
       /\ /\ b \in ReachesCalls(pr)[k] /\ b \in ReachesCalls(pr)[o]
          /\ HasCall(pr, o) => NeverFails(pr, k, b)
          => Same(d.st, g, Z)
    BY <1>1, <1>2, <1>3, <1>4, ChoiceFollows
<1> HIDE DEF r, w, d, wk, Z
<1>12. /\ r.ok /\ w.ok => r.v = w.v /\ Same(r.st, g, Zone(pr, e, p))
       /\ Answers(pr, e, b) /\ w.ok => r.ok
       /\ b \in ReachesCalls(pr)[e] => Same(r.st, g, Zone(pr, e, p))
    BY <1>2, <1>6, <1>7, <1>8, <1>9, <1>10, <1>11
<1> QED BY <1>12 DEF r, w

(* So does a call, which the C has stepped where it was hoisted to.        *)
LEMMA CallFollows ==
    ASSUME NEW pr \in Programs, NEW e \in Exprs, e.op = "call",
           Faithful(pr, e.arg), Faithful(pr, pr[e.callee])
    PROVE  Faithful(pr, e)
<1> SUFFICES ASSUME NEW x \in Values, NEW p \in Seq(Nat), NEW b \in BOOLEAN, NEW t \in States,
                    InStep(pr, e, p, b, t), Hoist(pr, e, x, p, t).ok,
                    NEW s \in States, Alike(s, t, p, Zone(pr, e, p))
             PROVE  LET g == Hoist(pr, e, x, p, t).st
                        r == Sim(pr, e, x, p, s)
                        w == Val(e, x, p, g)
                    IN  /\ r.ok /\ w.ok => r.v = w.v /\ Same(r.st, g, Zone(pr, e, p))
                        /\ Answers(pr, e, b) /\ w.ok => r.ok
                        /\ b \in ReachesCalls(pr)[e] => Same(r.st, g, Zone(pr, e, p))
    BY DEF Faithful, Follows
<1> DEFINE body == pr[e.callee]
           z == Append(p, e.site)
           ha == Hoist(pr, e.arg, x, p, t)
           wa == Val(e.arg, x, p, ha.st)
           hb == Hoist(pr, body, wa.v, z, ha.st)
           wb == Val(body, wa.v, z, hb.st)
           g == Commit(hb.st, z, wb.v)
           ra == Sim(pr, e.arg, x, p, s)
           rb == Sim(pr, body, ra.v, z, ra.st)
           r == Sim(pr, e, x, p, s)
           A == Zone(pr, e.arg, p)
           B == Zone(pr, body, z)
<1>1. e.arg \in Exprs /\ body \in Exprs
    BY Parts, Callee DEF Below
<1>2. z \in Seq(Nat) /\ B \subseteq Under(z) /\ (z \in Paths => z \in Under(z))
    BY BodyZone
<1>3. ha.st \in States
    BY <1>1, Typed
<1>4. wa.v \in Values
    BY <1>1, <1>3, Typed
<1>5. hb.st \in States
    BY <1>1, <1>2, <1>3, <1>4, Typed
<1>6. wb.v \in Values
    BY <1>1, <1>2, <1>4, <1>5, Typed
<1>7. /\ ha.ok /\ wa.ok /\ hb.ok /\ wb.ok
      /\ Hoist(pr, e, x, p, t).st = g
    <2>1. Hoist(pr, e, x, p, t) = IF ~ha.ok THEN ha ELSE IF ~wa.ok THEN wa
                                  ELSE IF ~hb.ok THEN hb ELSE IF ~wb.ok THEN wb
                                  ELSE Ok(wb.v, Commit(hb.st, z, wb.v))
        <3>1. /\ ha = ArgHoist(pr, e, x, p, t) /\ wa = ArgVal(pr, e, x, p, t)
              /\ hb = BodyHoist(pr, e, x, p, t) /\ wb = BodyVal(pr, e, x, p, t)
            BY DEF ArgHoist, ArgVal, BodyHoist, BodyVal
        <3> HIDE DEF ha, wa, hb, wb
        <3> QED BY <3>1, HoistCall
    <2> HIDE DEF ha, wa, hb, wb, z
    <2> QED BY <2>1, Fields
<1>8. /\ Reached(pr, e, p) = Reached(pr, e.arg, p) \cup {z} \cup Reached(pr, body, z)
      /\ Reached(pr, e, p) \subseteq Paths
      /\ b <=> State(t, p).cycle # 0
      /\ \A q \in Reached(pr, e, p) : b <=> t[q].cycle # 0
    BY ReachedOf DEF InStep
<1>9. Reached(pr, body, z) \subseteq B
    <2> HIDE DEF body, z
    <2> QED BY <1>1, <1>2, <1>8, ReachedOf DEF B
<1>10. /\ Zone(pr, e, p) = A \cup Under(z) /\ A \cap Under(z) = {}
       /\ p \notin A /\ z \notin B /\ A \subseteq Paths /\ Under(z) \subseteq Paths
    <2>1. Zone(pr, e, p) = A \cup Under(z) /\ A \cap Under(z) = {}
        BY Zones
    <2>2. p \notin A
        BY <1>1, Zones
    <2>3. z \notin B
        <3> HIDE DEF z, body
        <3> QED BY <1>1, <1>2, Zones
    <2> QED BY <2>1, <2>2, <2>3 DEF Zone, Under
<1>11. p \notin Under(z)
    BY <1>10, Zones
<1>12. Stays(ha.st, t, A)
    BY <1>1, HoistStays
<1>13. Stays(hb.st, ha.st, B)
    <2> HIDE DEF ha, wa, z, body
    <2> QED BY <1>1, <1>2, <1>3, <1>4, HoistStays
<1>14. InStep(pr, e.arg, p, b, t)
    BY <1>8 DEF InStep
<1>15. Follows(pr, e.arg, x, p, b, t, ha.st)
    BY <1>7, <1>14 DEF Faithful
<1>16. Alike(s, t, p, A)
    BY <1>10 DEF Alike
<1>17. /\ ra.ok /\ wa.ok => ra.v = wa.v /\ Same(ra.st, ha.st, A)
       /\ Answers(pr, e.arg, b) /\ wa.ok => ra.ok
    BY <1>15, <1>16 DEF Follows
<1>18. ra \in Results /\ ra.st \in States /\ ra.v \in Values /\ Stays(ra.st, s, A)
    BY <1>1, Typed, SimStays
<1>19. InStep(pr, body, z, b, ha.st)
    <2>1. State(t, z) = State(ha.st, z) /\ z \in Paths
        BY <1>2, <1>8, <1>10, <1>12 DEF Stays, State
    <2>2. b <=> State(ha.st, z).cycle # 0
        BY <1>8, <2>1 DEF State
    <2>3. \A q \in Reached(pr, body, z) : q \in Paths /\ ha.st[q] = t[q]
        <3> HIDE DEF ha, A, B, z, body
        <3> QED BY <1>2, <1>8, <1>9, <1>10, <1>12 DEF Stays
    <2> QED BY <1>8, <2>2, <2>3 DEF InStep
<1>20. Follows(pr, body, wa.v, z, b, ha.st, hb.st)
    <2> HIDE DEF ha, wa, z, body
    <2> QED BY <1>2, <1>3, <1>4, <1>7, <1>19 DEF Faithful, body
<1>21. Alike(ra.st, ha.st, z, B)
    <2>1. Alike(s, t, p, A \cup Under(z)) /\ z \in Under(z)
        BY <1>2, <1>8, <1>10
    <2> HIDE DEF ra, ha, A, B, z
    <2> QED BY <1>2, <1>10, <1>12, <1>18, <2>1 DEF Alike, Stays, State
<1>22. ra.v = wa.v =>
         /\ rb.ok /\ wb.ok => rb.v = wb.v /\ Same(rb.st, hb.st, B)
         /\ Answers(pr, body, b) /\ wb.ok => rb.ok
    <2> HIDE DEF ra, ha, wa, hb, z, body
    <2> QED BY <1>18, <1>20, <1>21 DEF Follows, wb, rb
<1>23. rb \in Results /\ rb.st \in States /\ Stays(rb.st, ra.st, B)
    <2> HIDE DEF ra, z, body
    <2> QED BY <1>1, <1>2, <1>18, Typed, SimStays
<1>24. r = IF ~ra.ok THEN ra ELSE IF rb.ok THEN Ok(rb.v, Commit(rb.st, z, rb.v))
           ELSE Err(Forget(rb.st, z))
    BY SimOf
<1>25. Val(e, x, p, g) = Ok(wb.v, g)
    <2>1. g \in States
        <3> HIDE DEF hb, wb, z
        <3> QED BY <1>2, <1>5, <1>6, StateOps
    <2>2. Val(e, x, p, g) = Ok(State(g, z).prev, g)
        <3> HIDE DEF g
        <3> QED BY <2>1, ValOf, SMTT(30)
    <2>3. z \in Paths
        BY <1>8
    <2>4. State(g, z).prev = wb.v
        <3> HIDE DEF hb, wb, z
        <3> QED BY <1>5, <2>3 DEF State, Commit, States
    <2> QED BY <2>2, <2>4
<1>26. Answers(pr, e, b) => Answers(pr, e.arg, b) /\ Answers(pr, body, b)
    <2>1. Failures(pr)[e] = FailuresOf(pr, Failures(pr), e)
        BY FailuresUnfold
    <2>2. Failures(pr)[e] = (Failures(pr)[e.arg] \cup Failures(pr)[pr[e.callee]]) \ {"div"}
        BY <2>1 DEF FailuresOf
    <2> QED BY <2>2 DEF Answers
<1>27. b \in ReachesCalls(pr)[e] => Answers(pr, e.arg, b) /\ Answers(pr, body, b)
    <2>1. ReachesCalls(pr)[e] = ReachesOf(pr, ReachesCalls(pr), e)
        BY ReachesUnfolds
    <2>2. ReachesCalls(pr)[e] = {d \in BOOLEAN : Answers(pr, e.arg, d) /\ Answers(pr, pr[e.callee], d)}
        BY <2>1 DEF ReachesOf
    <2> QED BY <2>2
<1>28. z \in Paths
    BY <1>8
<1>29. Alike(s, t, p, A \cup Under(z))
    BY <1>10
<1> HIDE DEF body, z, ha, wa, hb, wb, g, ra, rb, r, A, B
<1>30. ASSUME r.ok PROVE r.v = wb.v /\ Same(r.st, g, Zone(pr, e, p))
    <2>1. ra.ok /\ rb.ok /\ r = Ok(rb.v, Commit(rb.st, z, rb.v))
        BY <1>24, <1>30, Fields
    <2>2. /\ ra.v = wa.v /\ Same(ra.st, ha.st, A)
          /\ rb.v = wb.v /\ Same(rb.st, hb.st, B)
        BY <1>7, <1>17, <1>22, <2>1
    <2>3. r.v = wb.v /\ r.st = Commit(rb.st, z, wb.v)
        BY <2>1, <2>2, Fields
    <2>4. ASSUME NEW q \in Zone(pr, e, p) PROVE Commit(rb.st, z, wb.v)[q] = Commit(hb.st, z, wb.v)[q]
        <3>1. q \in Paths
            BY <1>10
        <3>2. rb.st[q] = hb.st[q]
            <4>1. CASE q \in A
                <5>1. q \notin B
                    BY <1>2, <1>10, <4>1
                <5> QED BY <1>13, <1>23, <2>2, <3>1, <4>1, <5>1 DEF Stays, Same
            <4>2. CASE q \in B
                BY <2>2, <4>2 DEF Same
            <4>3. CASE q \in Under(z) /\ q \notin B
                <5>1. q \notin A
                    BY <1>10, <4>3
                <5>2. rb.st[q] = ra.st[q] /\ ra.st[q] = s[q]
                    BY <1>18, <1>23, <3>1, <4>3, <5>1 DEF Stays
                <5>3. hb.st[q] = ha.st[q] /\ ha.st[q] = t[q]
                    BY <1>12, <1>13, <3>1, <4>3, <5>1 DEF Stays
                <5> QED BY <1>29, <4>3, <5>2, <5>3 DEF Alike
            <4> QED BY <1>10, <4>1, <4>2, <4>3
        <3> QED BY <1>5, <1>23, <3>1, <3>2 DEF Commit, States
    <2> QED BY <2>3, <2>4 DEF Same, g
<1>31. Answers(pr, e.arg, b) /\ Answers(pr, body, b) => r.ok
    BY <1>7, <1>17, <1>22, <1>24, Fields
<1>32. /\ r.ok => r.v = wb.v /\ Same(r.st, g, Zone(pr, e, p))
       /\ Answers(pr, e, b) => r.ok
       /\ b \in ReachesCalls(pr)[e] => Same(r.st, g, Zone(pr, e, p))
    BY <1>26, <1>27, <1>30, <1>31
<1>33. Val(e, x, p, g).v = wb.v
    BY <1>25, Fields
<1> QED BY <1>7, <1>32, <1>33 DEF r

(* An expression without parts follows the C.                              *)
LEMMA LeafFollows ==
    ASSUME NEW pr \in Programs, NEW e \in Exprs, e.op \in {"const", "in", "pre"}
    PROVE  Faithful(pr, e)
<1> SUFFICES ASSUME NEW x \in Values, NEW p \in Seq(Nat), NEW b \in BOOLEAN, NEW t \in States,
                    InStep(pr, e, p, b, t),
                    NEW s \in States, Alike(s, t, p, Zone(pr, e, p))
             PROVE  LET g == Hoist(pr, e, x, p, t).st
                        r == Sim(pr, e, x, p, s)
                        w == Val(e, x, p, g)
                    IN  /\ r.ok /\ w.ok => r.v = w.v /\ Same(r.st, g, Zone(pr, e, p))
                        /\ Answers(pr, e, b) /\ w.ok => r.ok
                        /\ b \in ReachesCalls(pr)[e] => Same(r.st, g, Zone(pr, e, p))
    BY DEF Faithful, Follows
<1>1. Hoist(pr, e, x, p, t).st = t
    BY HoistOf, Fields
<1>2. Zone(pr, e, p) = {}
    BY Zones
<1>3. State(s, p) = State(t, p) /\ (b <=> State(t, p).cycle # 0)
    BY DEF Alike, InStep
<1>4. CASE e.op \in {"const", "in"}
    <2> DEFINE v == IF e.op = "const" THEN e.v ELSE x
    <2>1. Sim(pr, e, x, p, s) = Ok(v, s) /\ Val(e, x, p, t) = Ok(v, t)
        BY <1>4, SimOf, ValOf
    <2> HIDE DEF v
    <2> QED BY <1>1, <1>2, <2>1, Fields DEF Same
<1>5. CASE e.op = "pre"
    <2>1. Sim(pr, e, x, p, s) = IF State(t, p).cycle = 0 THEN Err(s) ELSE Ok(State(t, p).prev, s)
        BY <1>3, <1>5, SimOf, SMTT(30)
    <2>2. Val(e, x, p, t) = Ok(State(t, p).prev, t)
        BY <1>5, ValOf, SMTT(30)
    <2>3. Answers(pr, e, b) => b
        <3>1. Failures(pr)[e] = FailuresOf(pr, Failures(pr), e)
            BY FailuresUnfold
        <3>2. Failures(pr)[e] = {"pre"}
            BY <1>5, <3>1 DEF FailuresOf
        <3> QED BY <3>2 DEF Answers
    <2> QED BY <1>1, <1>2, <1>3, <2>1, <2>2, <2>3, Fields DEF Same
<1> QED BY <1>4, <1>5

(* Every evaluation follows the C, when the calls come first.              *)
LEMMA Following ==
    ASSUME NEW pr \in Programs, CallsComeFirst(pr), NEW e \in Exprs
    PROVE  Faithful(pr, e)
<1> DEFINE T == {o \in Exprs : Faithful(pr, o)}
<1>1. ASSUME NEW o \in Exprs, \A u : Below(u, o) => u \in T PROVE o \in T
    <2>1. \A u : Below(u, o) => u \in Exprs /\ Faithful(pr, u)
        BY <1>1
    <2> SUFFICES Faithful(pr, o)
        OBVIOUS
    <2> HIDE DEF T
    <2>2. CASE o.op \in {"const", "in", "pre"}
        BY <2>2, LeafFollows
    <2>3. CASE o.op = "call"
        <3>1. Faithful(pr, o.arg) /\ Faithful(pr, pr[o.callee])
            BY <2>1, <2>3, Parts, Callee
        <3> QED BY <2>3, <3>1, CallFollows
    <2>4. ASSUME o.op \notin {"const", "in", "pre", "call"},
                 NEW x \in Values, NEW p \in Seq(Nat), NEW b \in BOOLEAN, NEW t \in States,
                 InStep(pr, o, p, b, t), Hoist(pr, o, x, p, t).ok
          PROVE  Follows(pr, o, x, p, b, t, Hoist(pr, o, x, p, t).st)
        <3>1. ASSUME NEW k \in Exprs, Reached(pr, k, p) \subseteq Reached(pr, o, p)
              PROVE  InStep(pr, k, p, b, t)
            BY <2>4, <3>1 DEF InStep
        <3>2. p \notin Zone(pr, o, p)
            BY Zones
        <3>4. ASSUME NEW k \in Exprs, NEW u \in Exprs, Faithful(pr, k), Faithful(pr, u),
                     Zone(pr, o, p) = Zone(pr, k, p) \cup Zone(pr, u, p),
                     Zone(pr, k, p) \cap Zone(pr, u, p) = {},
                     Reached(pr, o, p) = Reached(pr, k, p) \cup Reached(pr, u, p),
                     Hoist(pr, o, x, p, t)
                       = IF Hoist(pr, k, x, p, t).ok
                         THEN Hoist(pr, u, x, p, Hoist(pr, k, x, p, t).st)
                         ELSE Hoist(pr, k, x, p, t)
              PROVE  LET g == Hoist(pr, o, x, p, t).st
                     IN  /\ g \in States /\ State(g, p) = State(t, p)
                         /\ Follows(pr, k, x, p, b, t, g) /\ Follows(pr, u, x, p, b, t, g)
            <4> DEFINE h1 == Hoist(pr, k, x, p, t)
                       h2 == Hoist(pr, u, x, p, h1.st)
                       K == Zone(pr, k, p)
                       U == Zone(pr, u, p)
            <4>1. h1.ok /\ h2.ok /\ Hoist(pr, o, x, p, t).st = h2.st
                BY <2>4, <3>4
            <4>2. h1.st \in States
                BY Typed
            <4>3. h2.st \in States
                BY <4>2, Typed
            <4>4. Stays(h1.st, t, K) /\ Stays(h2.st, h1.st, U)
                BY <4>2, HoistStays
            <4>5. InStep(pr, k, p, b, t) /\ InStep(pr, u, p, b, t)
                BY <3>1, <3>4
            <4>6. p \notin K /\ p \notin U /\ K \cap U = {} /\ U \cap K = {}
                BY <3>2, <3>4
            <4>7. Follows(pr, k, x, p, b, t, h2.st)
                <5> HIDE DEF h2, U
                <5> QED BY <3>4, <4>1, <4>3, <4>4, <4>5, <4>6, FollowsFirst
            <4>8. Follows(pr, u, x, p, b, t, h2.st)
                <5> HIDE DEF h1, K
                <5> QED BY <3>4, <4>1, <4>2, <4>4, <4>5, <4>6, FollowsLast
            <4>9. State(h2.st, p) = State(t, p)
                <5> HIDE DEF h1, h2, K, U
                <5> QED BY <4>4, <4>6 DEF Stays, State
            <4> QED BY <4>1, <4>3, <4>7, <4>8, <4>9
        <3>5. CASE o.op \in {"add", "div"}
            <4>1. /\ o.l \in Exprs /\ o.r \in Exprs
                  /\ Faithful(pr, o.l) /\ Faithful(pr, o.r)
                BY <2>1, <3>5, Parts
            <4>2. /\ Zone(pr, o, p) = Zone(pr, o.l, p) \cup Zone(pr, o.r, p)
                  /\ Zone(pr, o.l, p) \cap Zone(pr, o.r, p) = {}
                  /\ Reached(pr, o, p) = Reached(pr, o.l, p) \cup Reached(pr, o.r, p)
                BY <3>5, Zones, ReachedOf
            <4>3. Hoist(pr, o, x, p, t)
                       = IF Hoist(pr, o.l, x, p, t).ok
                         THEN Hoist(pr, o.r, x, p, Hoist(pr, o.l, x, p, t).st)
                         ELSE Hoist(pr, o.l, x, p, t)
                BY <3>5, HoistOf, SMTT(30)
            <4> DEFINE g == Hoist(pr, o, x, p, t).st
            <4>4. g \in States /\ Follows(pr, o.l, x, p, b, t, g) /\ Follows(pr, o.r, x, p, b, t, g)
                BY <3>4, <4>1, <4>2, <4>3
            <4> HIDE DEF g
            <4>5. Follows(pr, o, x, p, b, t, g)
                BY <3>5, <4>4, BinaryFollows
            <4> QED BY <4>5 DEF g
        <3>6. CASE o.op = "arrow"
            <4>1. /\ o.init \in Exprs /\ o.body \in Exprs
                  /\ Faithful(pr, o.init) /\ Faithful(pr, o.body)
                BY <2>1, <3>6, Parts
            <4>2. /\ Zone(pr, o, p) = Zone(pr, o.init, p) \cup Zone(pr, o.body, p)
                  /\ Zone(pr, o.init, p) \cap Zone(pr, o.body, p) = {}
                  /\ Reached(pr, o, p) = Reached(pr, o.init, p) \cup Reached(pr, o.body, p)
                BY <3>6, Zones, ReachedOf
            <4>3. Hoist(pr, o, x, p, t)
                       = IF Hoist(pr, o.init, x, p, t).ok
                         THEN Hoist(pr, o.body, x, p, Hoist(pr, o.init, x, p, t).st)
                         ELSE Hoist(pr, o.init, x, p, t)
                BY <3>6, HoistOf, SMTT(30)
            <4> DEFINE g == Hoist(pr, o, x, p, t).st
            <4>4. /\ g \in States /\ State(g, p) = State(t, p)
                  /\ Follows(pr, o.init, x, p, b, t, g) /\ Follows(pr, o.body, x, p, b, t, g)
                BY <3>4, <4>1, <4>2, <4>3
            <4>5. b <=> State(t, p).cycle # 0
                BY <2>4 DEF InStep
            <4> HIDE DEF g
            <4>6. Follows(pr, o, x, p, b, t, g)
                BY <3>6, <4>4, <4>5, ArrowFollows
            <4> QED BY <4>6 DEF g
        <3>7. CASE o.op = "if"
            <4> DEFINE hc == Hoist(pr, o.cond, x, p, t)
                       h1 == Hoist(pr, o.then, x, p, hc.st)
                       h2 == Hoist(pr, o.else, x, p, h1.st)
                       C == Zone(pr, o.cond, p)
                       K == Zone(pr, o.then, p)
                       O == Zone(pr, o.else, p)
            <4>1. /\ o.cond \in Exprs /\ o.then \in Exprs /\ o.else \in Exprs
                  /\ Faithful(pr, o.cond) /\ Faithful(pr, o.then) /\ Faithful(pr, o.else)
                BY <2>1, <3>7, Parts
            <4>2. /\ Zone(pr, o, p) = C \cup K \cup O
                  /\ C \cap K = {} /\ C \cap O = {} /\ K \cap O = {}
                BY <3>7, Zones
            <4>3. Reached(pr, o, p) = Reached(pr, o.cond, p) \cup Reached(pr, o.then, p)
                                      \cup Reached(pr, o.else, p)
                BY <3>7, ReachedOf
            <4>4. hc.ok /\ h1.ok /\ h2.ok /\ Hoist(pr, o, x, p, t).st = h2.st
                <5>1. Hoist(pr, o, x, p, t) = IF ~hc.ok THEN hc ELSE IF h1.ok THEN h2 ELSE h1
                    BY <3>7, HoistOf, SMTT(30)
                <5> HIDE DEF hc, h1, h2
                <5> QED BY <2>4, <5>1
            <4>5. hc.st \in States
                BY <4>1, Typed
            <4>6. h1.st \in States
                BY <4>1, <4>5, Typed
            <4>7. h2.st \in States
                <5> HIDE DEF h1
                <5> QED BY <4>1, <4>6, Typed
            <4>8. Stays(hc.st, t, C) /\ Stays(h1.st, hc.st, K)
                BY <4>1, <4>5, HoistStays
            <4>9. Stays(h2.st, h1.st, O)
                <5> HIDE DEF h1
                <5> QED BY <4>1, <4>6, HoistStays
            <4>10. /\ InStep(pr, o.cond, p, b, t) /\ InStep(pr, o.then, p, b, t)
                   /\ InStep(pr, o.else, p, b, t)
                BY <3>1, <4>1, <4>3
            <4>11. p \notin C /\ p \notin K /\ p \notin O
                BY <3>2, <4>2
            <4>12. Stays(h1.st, t, C \cup K) /\ Stays(h2.st, hc.st, K \cup O)
                <5> HIDE DEF hc, h1, h2, C, K, O
                <5> QED BY <4>8, <4>9 DEF Stays
            <4>13. /\ (C \cup K) \cap O = {} /\ (K \cup O) \cap C = {} /\ C \cap K = {} /\ O \cap K = {}
                   /\ p \notin C \cup K /\ p \notin K \cup O
                <5> HIDE DEF C, K, O
                <5> QED BY <4>2, <4>11
            <4>14. Follows(pr, o.cond, x, p, b, t, h2.st)
                <5> HIDE DEF h1, h2, K, O
                <5> QED BY <4>1, <4>4, <4>7, <4>10, <4>12, <4>13, FollowsFirst
            <4>15. Follows(pr, o.then, x, p, b, t, h2.st)
                <5> HIDE DEF hc, h2, C, O
                <5> QED BY <4>1, <4>4, <4>5, <4>7, <4>8, <4>9, <4>10, <4>11, <4>13, FollowsAmid
            <4>16. Follows(pr, o.else, x, p, b, t, h2.st)
                <5> HIDE DEF hc, h1, C, K
                <5> QED BY <4>1, <4>4, <4>6, <4>10, <4>12, <4>13, FollowsLast
            <4> HIDE DEF hc, h1, h2
            <4>17. Follows(pr, o, x, p, b, t, h2.st)
                BY <3>7, <4>7, <4>14, <4>15, <4>16, IfFollows
            <4> QED BY <4>4, <4>17
        <3> QED BY <2>4, <3>5, <3>6, <3>7, Parts
    <2> QED BY <2>2, <2>3, <2>4 DEF Faithful
<1>2. Exprs \subseteq T
    <2> HIDE DEF T
    <2> QED BY <1>1, ExprInduction
<1> QED BY <1>2
-----------------------------------------------------------------------------
(* The two programs.                                                       *)

Top(pr) == pr["Top"]

(* The root is an instance; its body's calls are named by their own paths. *)
LEMMA Root ==
    ASSUME NEW pr \in Programs
    PROVE  /\ Top(pr) \in Exprs /\ << >> \in Seq(Nat) /\ << >> \in Paths
           /\ << >> \notin Zone(pr, Top(pr), << >>)
           /\ CallsIn(pr)[Top(pr)] \subseteq Paths
           /\ Reached(pr, Top(pr), << >>) = CallsIn(pr)[Top(pr)]
           /\ << >> \notin CallsIn(pr)[Top(pr)]
<1>1. Top(pr) \in Exprs /\ << >> \in Seq(Nat) /\ << >> \in Paths /\ CallsIn(pr)[Top(pr)] \subseteq Paths
    BY ProgramAssumption DEF Top
<1>2. << >> \notin Zone(pr, Top(pr), << >>)
    BY <1>1, Zones
<1>3. \A q \in CallsIn(pr)[Top(pr)] : q \in Seq(Nat) /\ << >> \o q = q
    BY <1>1, CallsInUnfolds
<1>4. Reached(pr, Top(pr), << >>) = CallsIn(pr)[Top(pr)]
    BY <1>3 DEF Reached
<1>5. << >> \notin CallsIn(pr)[Top(pr)]
    <2>1. ~(Len(<< >>) >= 1)
        OBVIOUS
    <2> QED BY <1>1, <2>1, FirstSite
<1> QED BY <1>1, <1>2, <1>4, <1>5

(* The end of an instance's cycle counts it.                               *)
LEMMA CommitCounts ==
    ASSUME NEW s \in States, NEW p \in Paths, NEW v
    PROVE  /\ Commit(s, p, v)[p].cycle = s[p].cycle + 1
           /\ \A q \in Paths : q # p => Commit(s, p, v)[q] = s[q]
BY DEF Commit, States

(* A cycle of either program, and an evaluation that ends in an error,     *)
(* steps no instance twice.                                                *)
LEMMA CycleOnce ==
    ASSUME NEW s \in States, NEW r \in States, NEW v \in Values, NEW pr \in Programs,
           Once(r, s), Stays(r, s, Zone(pr, Top(pr), << >>))
    PROVE  Commit(r, << >>, v) \in States /\ Once(Commit(r, << >>, v), s)
<1>1. << >> \in Paths /\ r[<< >>] = s[<< >>] /\ << >> \in Seq(Nat)
    BY Root DEF Stays
<1>2. \A q \in Paths : q # << >> => Commit(r, << >>, v)[q] = r[q]
    BY <1>1, CommitCounts
<1>3. Commit(r, << >>, v) \in States
    BY <1>1, StateOps
<1>4. \A q \in Paths : s[q].cycle \in Nat
    BY DEF States
<1>5. ASSUME NEW q \in Paths PROVE Commit(r, << >>, v)[q].cycle <= s[q].cycle + 1
    <2>1. CASE q = << >>
        <3>1. Commit(r, << >>, v)[<< >>].cycle = s[<< >>].cycle + 1
            BY <1>1, CommitCounts
        <3> QED BY <1>4, <2>1, <3>1
    <2>2. CASE q # << >>
        BY <1>2, <2>2 DEF Once
    <2> QED BY <2>1, <2>2
<1> QED BY <1>3, <1>5 DEF Once

(* What the two programs do with an input.                                 *)
LEMMA TopOf ==
    ASSUME NEW x \in Values, prog \in Programs, sim \in States, c \in States
    PROVE  LET r == Sim(prog, Top(prog), x, << >>, sim)
               h == Hoist(prog, Top(prog), x, << >>, c)
               w == Val(Top(prog), x, << >>, h.st)
           IN  /\ SimTop(x) = IF r.ok THEN Ok(r.v, Commit(r.st, << >>, r.v)) ELSE r
               /\ CTop(x).ok => h.ok /\ w.ok /\ CTop(x) = Ok(w.v, Commit(h.st, << >>, w.v))
               /\ r \in Results /\ h \in Results /\ w.v \in Values
<1> DEFINE r == Sim(prog, Top(prog), x, << >>, sim)
           h == Hoist(prog, Top(prog), x, << >>, c)
           w == Val(Top(prog), x, << >>, h.st)
<1>1. Top(prog) \in Exprs /\ << >> \in Seq(Nat)
    BY Root
<1>2. r \in Results /\ h \in Results /\ h.st \in States
    BY <1>1, Typed
<1>3. w.st = h.st /\ w.v \in Values
    BY <1>1, <1>2, ValKeeps, Typed
<1>4. SimTop(x) = IF r.ok THEN Ok(r.v, Commit(r.st, << >>, r.v)) ELSE r
    BY DEF SimTop, Sim, Top
<1>5. CTop(x) = IF ~h.ok THEN h ELSE IF ~w.ok THEN w ELSE Ok(w.v, Commit(w.st, << >>, w.v))
    BY DEF CTop, CStepFunction, Then, Hoist, Val, Top
<1> HIDE DEF r, h, w
<1> QED BY <1>2, <1>3, <1>4, <1>5, Fields DEF r, h, w

\* No instance has been stepped more often than there are cycles.
InTime(s) == \A q \in Paths : s[q].cycle <= cycles

TypeInv ==
    /\ prog \in Programs /\ sim \in States /\ c \in States
    /\ cycles \in 0 .. MaxCycles
    /\ status \in {"ok", "error", "undefined"}
    /\ \A q \in Paths : sim[q].cycle <= MaxCycles /\ c[q].cycle <= MaxCycles
    /\ status = "ok" => InTime(sim) /\ InTime(c)

(* Types are kept, whatever the program: neither the simulator nor the C   *)
(* ever steps an instance more often than there are cycles.                *)
THEOREM TypeInvHolds == Spec => []TypeInv
<1>1. Init => TypeInv
    <2>1. Fresh \in [cycle : Nat, prev : Values] /\ Fresh.cycle = 0
        BY ProgramAssumption DEF Fresh, Values
    <2> QED BY <2>1, ProgramAssumption DEF Init, TypeInv, InTime, States
<1>2. TypeInv /\ [Next]_vars => TypeInv'
    <2> SUFFICES ASSUME TypeInv, [Next]_vars PROVE TypeInv'
        OBVIOUS
    <2>1. /\ prog \in Programs /\ sim \in States /\ c \in States
          /\ cycles \in Nat /\ MaxCycles \in Nat /\ Top(prog) \in Exprs /\ << >> \in Seq(Nat)
        BY ProgramAssumption, Root DEF TypeInv
    <2>3. ASSUME NEW x \in Values PROVE SimTop(x).st \in States /\ Once(SimTop(x).st, sim)
        <3> DEFINE r == Sim(prog, Top(prog), x, << >>, sim)
        <3>1. SimTop(x) = IF r.ok THEN Ok(r.v, Commit(r.st, << >>, r.v)) ELSE r
            BY <2>1, TopOf
        <3>2. r.st \in States /\ r.v \in Values
            BY <2>1, Typed
        <3>3. Once(r.st, sim) /\ Stays(r.st, sim, Zone(prog, Top(prog), << >>))
            BY <2>1, SimOnce, SimStays
        <3> HIDE DEF r
        <3>4. Commit(r.st, << >>, r.v) \in States /\ Once(Commit(r.st, << >>, r.v), sim)
            BY <2>1, <3>2, <3>3, CycleOnce
        <3> QED BY <3>1, <3>2, <3>3, <3>4, Fields
    <2>4. ASSUME NEW x \in Values, CTop(x).ok PROVE CTop(x).st \in States /\ Once(CTop(x).st, c)
        <3> DEFINE h == Hoist(prog, Top(prog), x, << >>, c)
                   w == Val(Top(prog), x, << >>, h.st)
        <3>1. CTop(x) = Ok(w.v, Commit(h.st, << >>, w.v)) /\ w.v \in Values
            BY <2>1, <2>4, TopOf
        <3>2. h.st \in States
            BY <2>1, Typed
        <3>3. Once(h.st, c) /\ Stays(h.st, c, Zone(prog, Top(prog), << >>))
            BY <2>1, HoistOnce, HoistStays
        <3> HIDE DEF h, w
        <3>4. Commit(h.st, << >>, w.v) \in States /\ Once(Commit(h.st, << >>, w.v), c)
            BY <2>1, <3>1, <3>2, <3>3, CycleOnce
        <3> QED BY <3>1, <3>4, Fields
    <2>5. CASE Cycle
        <3>1. PICK x \in Values : CTop(x).ok /\ sim' = SimTop(x).st /\ c' = CTop(x).st
            BY <2>5 DEF Cycle
        <3>2. sim' \in States /\ Once(sim', sim) /\ c' \in States /\ Once(c', c)
            BY <2>3, <2>4, <3>1
        <3>3. /\ status = "ok" /\ cycles < MaxCycles /\ cycles' = cycles + 1
              /\ UNCHANGED <<prog, status>>
            BY <2>5 DEF Cycle
        <3>4. \A q \in Paths : /\ sim[q].cycle <= cycles /\ c[q].cycle <= cycles
                               /\ sim[q].cycle \in Nat /\ c[q].cycle \in Nat
                               /\ sim'[q].cycle \in Nat /\ c'[q].cycle \in Nat
            BY <2>1, <3>2, <3>3 DEF TypeInv, InTime, States
        <3>5. \A q \in Paths : /\ sim'[q].cycle <= cycles + 1 /\ c'[q].cycle <= cycles + 1
                               /\ sim'[q].cycle <= MaxCycles /\ c'[q].cycle <= MaxCycles
            BY <2>1, <3>2, <3>3, <3>4 DEF Once
        <3> QED BY <2>1, <3>2, <3>3, <3>5 DEF TypeInv, InTime
    <2>6. CASE SimulatorError
        <3>1. PICK x \in Values : sim' = SimTop(x).st
            BY <2>6 DEF SimulatorError
        <3>2. sim' \in States /\ Once(sim', sim)
            BY <2>3, <3>1
        <3>3. /\ status = "ok" /\ cycles < MaxCycles /\ status' = "error"
              /\ UNCHANGED <<prog, c, cycles>>
            BY <2>6 DEF SimulatorError
        <3>4. \A q \in Paths : sim[q].cycle <= cycles /\ sim[q].cycle \in Nat /\ sim'[q].cycle \in Nat
            BY <2>1, <3>2, <3>3 DEF TypeInv, InTime, States
        <3>5. \A q \in Paths : sim'[q].cycle <= MaxCycles
            BY <2>1, <3>2, <3>3, <3>4 DEF Once
        <3> QED BY <3>2, <3>3, <3>5 DEF TypeInv
    <2>7. CASE CFault
        BY <2>7 DEF CFault, TypeInv
    <2>8. CASE UNCHANGED vars
        BY <2>8 DEF vars, TypeInv, InTime
    <2> QED BY <2>5, <2>6, <2>7, <2>8 DEF Next
<1> QED BY <1>1, <1>2, PTL DEF Spec

(* The types as they are stated, from the counts.                          *)
THEOREM TypeCorrect == Spec => []TypeOK
<1>1. TypeInv => TypeOK
    <2> SUFFICES ASSUME TypeInv PROVE TypeOK
        OBVIOUS
    <2>1. ASSUME NEW s \in States, \A q \in Paths : s[q].cycle <= MaxCycles
          PROVE  s \in [Paths -> [cycle : 0 .. MaxCycles, prev : Values]]
        <3>1. \A q \in Paths : s[q] \in [cycle : 0 .. MaxCycles, prev : Values]
            BY <2>1, ProgramAssumption DEF States
        <3> QED BY <3>1 DEF States
    <2> QED BY <2>1 DEF TypeInv, TypeOK
<1> QED BY <1>1, TypeInvHolds, PTL

\* The simulator and the C are in the same state, every instance in step.
Agreed ==
    status = "ok" /\ CallsComeFirst(prog) =>
        /\ sim = c
        /\ \A q \in CallsIn(prog)[Top(prog)] \cup {<< >>} : c[q].cycle = cycles

(* A cycle of both keeps the agreement.                                    *)
LEMMA CycleAgrees ==
    ASSUME TypeInv, Agreed, Cycle PROVE Agreed'
<1> DEFINE Q == CallsIn(prog)[Top(prog)]
           Z == Zone(prog, Top(prog), << >>)
<1>1. /\ status = "ok" /\ cycles' = cycles + 1 /\ prog' = prog /\ cycles \in Nat
      /\ prog \in Programs /\ sim \in States /\ c \in States
    BY DEF Cycle, TypeInv
<1> SUFFICES ASSUME CallsComeFirst(prog)
             PROVE  sim' = c' /\ \A q \in Q \cup {<< >>} : c'[q].cycle = cycles + 1
    BY <1>1 DEF Agreed
<1>2. PICK x \in Values : SimTop(x).ok /\ CTop(x).ok /\ sim' = SimTop(x).st /\ c' = CTop(x).st
    BY DEF Cycle
<1>3. sim = c /\ \A q \in Q \cup {<< >>} : c[q].cycle = cycles
    BY <1>1 DEF Agreed
<1>4. /\ Top(prog) \in Exprs /\ << >> \in Seq(Nat) /\ << >> \in Paths /\ << >> \notin Z
      /\ Q \subseteq Paths /\ Reached(prog, Top(prog), << >>) = Q /\ << >> \notin Q
    BY <1>1, Root
<1> DEFINE r == Sim(prog, Top(prog), x, << >>, sim)
           h == Hoist(prog, Top(prog), x, << >>, c)
           w == Val(Top(prog), x, << >>, h.st)
<1>5. /\ SimTop(x) = IF r.ok THEN Ok(r.v, Commit(r.st, << >>, r.v)) ELSE r
      /\ h.ok /\ w.ok /\ CTop(x) = Ok(w.v, Commit(h.st, << >>, w.v))
    BY <1>1, <1>2, TopOf
<1>6. r.st \in States /\ h.st \in States
    BY <1>1, <1>4, Typed
<1>7. PICK b \in BOOLEAN : b <=> cycles # 0
    BY <1>1
<1>8. InStep(prog, Top(prog), << >>, b, c)
    <2>1. State(c, << >>).cycle = cycles
        BY <1>3, <1>4 DEF State
    <2> QED BY <1>3, <1>4, <1>7, <2>1 DEF InStep
<1>9. Follows(prog, Top(prog), x, << >>, b, c, h.st)
    <2>1. Faithful(prog, Top(prog))
        BY <1>1, <1>4, Following
    <2> QED BY <1>1, <1>4, <1>5, <1>8, <2>1 DEF Faithful
<1>10. r.ok
    BY <1>2, <1>5
<1>11. r.v = w.v /\ Same(r.st, h.st, Z)
    <2>1. Alike(sim, c, << >>, Z)
        BY <1>3 DEF Alike
    <2> QED BY <1>1, <1>5, <1>9, <1>10, <2>1 DEF Follows
<1>12. Stays(r.st, sim, Z) /\ Stays(h.st, c, Z)
    BY <1>1, <1>4, SimStays, HoistStays
<1>13. \A q \in Q : h.st[q].cycle = c[q].cycle + 1
    <2>1. \A q \in Reached(prog, Top(prog), << >>) : h.st[q].cycle = c[q].cycle + 1
        <3> HIDE DEF Q
        <3> QED BY <1>1, <1>4, <1>5, HoistSteps
    <2> QED BY <1>4, <2>1
<1> HIDE DEF r, h, w, Z
<1>14. r.st = h.st
    <2>1. \A q \in Paths : r.st[q] = h.st[q]
        BY <1>3, <1>11, <1>12 DEF Stays, Same
    <2> QED BY <1>6, <2>1 DEF States
<1>15. sim' = Commit(h.st, << >>, w.v) /\ c' = Commit(h.st, << >>, w.v)
    BY <1>2, <1>5, <1>10, <1>11, <1>14, Fields
<1>16. /\ Commit(h.st, << >>, w.v)[<< >>].cycle = h.st[<< >>].cycle + 1
       /\ \A q \in Paths : q # << >> => Commit(h.st, << >>, w.v)[q] = h.st[q]
    BY <1>4, <1>6, CommitCounts
<1>17. h.st[<< >>] = c[<< >>]
    BY <1>4, <1>12 DEF Stays
<1>18. ASSUME NEW q \in Q \cup {<< >>} PROVE c'[q].cycle = cycles + 1
    <2>1. CASE q = << >>
        <3>1. c'[<< >>].cycle = c[<< >>].cycle + 1
            BY <1>15, <1>16, <1>17
        <3>2. c[<< >>].cycle = cycles
            BY <1>3
        <3> QED BY <2>1, <3>1, <3>2
    <2>2. CASE q \in Q
        <3>1. q # << >> /\ q \in Paths
            BY <1>4, <2>2
        <3> QED BY <1>3, <1>13, <1>15, <1>16, <2>2, <3>1
    <2> QED BY <2>1, <2>2
<1> QED BY <1>15, <1>18

(* The agreement is kept, when in no program's body an error of a side not *)
(* taken comes before one of its calls.                                    *)
THEOREM AgreedHolds == Spec => []Agreed
<1>1. Init => Agreed
    <2> SUFFICES ASSUME Init PROVE Agreed
        OBVIOUS
    <2>1. CallsIn(prog)[Top(prog)] \cup {<< >>} \subseteq Paths
        BY Root DEF Init
    <2> QED BY <2>1 DEF Init, Agreed, Fresh
<1>2. TypeInv /\ Agreed /\ [Next]_vars => Agreed'
    <2> SUFFICES ASSUME TypeInv, Agreed, [Next]_vars PROVE Agreed'
        OBVIOUS
    <2>1. CASE Cycle
        BY <2>1, CycleAgrees
    <2>2. CASE SimulatorError
        BY <2>2 DEF SimulatorError, Agreed
    <2>3. CASE CFault
        BY <2>3 DEF CFault, Agreed
    <2>4. CASE UNCHANGED vars
        BY <2>4 DEF vars, Agreed
    <2> QED BY <2>1, <2>2, <2>3, <2>4 DEF Next
<1> QED BY <1>1, <1>2, TypeInvHolds, PTL DEF Spec

(* Every instance has the same history in the simulator and in the C, and  *)
(* so the same values on every cycle: eval of ol_sim, which evaluates the  *)
(* branch taken before it steps the calls of the other, against lower_anf  *)
(* of ol_clite_emit, which hoists them all.                                *)
THEOREM Agreement == Spec => [](CallsComeFirst(prog) => InstancesAgree)
<1>1. Agreed => (CallsComeFirst(prog) => InstancesAgree)
    BY DEF Agreed, InstancesAgree
<1> QED BY <1>1, AgreedHolds, PTL

(* Neither ever leaves an instance a cycle behind, or takes it a cycle     *)
(* ahead: step_untaken of ol_sim does what it is there for.                *)
THEOREM EveryCall == Spec => [](CallsComeFirst(prog) => EveryCallEveryCycle)
<1>1. Agreed => (CallsComeFirst(prog) => EveryCallEveryCycle)
    BY DEF Agreed, EveryCallEveryCycle, Top
<1> QED BY <1>1, AgreedHolds, PTL
===============================================================================
