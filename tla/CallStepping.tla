------------------------------ MODULE CallStepping ------------------------------
(***************************************************************************)
(* Calls inside expressions.  The simulator (eval of ol_sim) evaluates the *)
(* branch taken, then steps the calls of the other one and drops its       *)
(* errors; the generated C (lower_anf of ol_clite_emit) hoists every call  *)
(* in front of the expression.  Each must step every instance once a       *)
(* cycle, or the two drift apart.                                          *)
(*                                                                         *)
(* A node has one input, one output and one equation, its body.  `pre` is  *)
(* the previous output.  An expression is a record with field op: const,   *)
(* in, pre, add, div, if, arrow or call; a call names its site.  An        *)
(* instance is named by the path of call sites that leads to it.           *)
(***************************************************************************)
EXTENDS Naturals, Sequences, SequencesExt

CONSTANTS
    Programs,   \* functions from operator names to bodies, "Top" the root
    Height,     \* of each expression of a body, its nesting, through calls
    Modulus,    \* the integers are computed modulo this number
    Paths,      \* paths of instances, the root << >> included
    MaxCycles   \* cycles run

VARIABLES
    prog,    \* the program being run
    sim,     \* state of each instance in the simulator
    c,       \* state of each instance in the C
    cycles,  \* cycles completed
    status   \* "ok", "error" after a simulator Err, "undefined" after a C fault

vars == <<prog, sim, c, cycles, status>>

Exprs == DOMAIN Height
Values == 0 .. Modulus - 1
Fresh == [cycle |-> 0, prev |-> 0]
States == [Paths -> [cycle : Nat, prev : Values]]

\* What an expression is evaluated on: input, own instance, all states.
Frames == Values \X Seq(Nat) \X States

Operands(e) ==
    CASE e.op \in {"const", "in", "pre"} -> << >>
      [] e.op \in {"add", "div"} -> <<e.l, e.r>>
      [] e.op = "if" -> <<e.cond, e.then, e.else>>
      [] e.op = "arrow" -> <<e.init, e.body>>
      [] e.op = "call" -> <<e.arg>>

(* The instances of e's calls and of theirs, by path from e's own.         *)
CallsOf(pr, calls, e) ==
    (IF e.op = "call"
     THEN {<<e.site>>} \cup {<<e.site>> \o q : q \in calls[pr[e.callee]]}
     ELSE {})
    \cup UNION {calls[Operands(e)[k]] : k \in DOMAIN Operands(e)}

CallsIn(pr) == LET calls[e \in Exprs] == CallsOf(pr, calls, e) IN calls

(* No node calls itself; each call has a site of its own, and each of the  *)
(* program's instances a path.                                             *)
ASSUME ProgramAssumption ==
    /\ Height \in [Exprs -> Nat]
    /\ \E tallest \in Exprs : \A e \in Exprs : Height[e] <= Height[tallest]
    /\ Modulus \in Nat \ {0} /\ MaxCycles \in Nat
    /\ Paths \subseteq Seq(Nat) /\ << >> \in Paths
    /\ \A e \in Exprs :
        /\ e.op \in {"const", "in", "pre", "add", "div", "if", "arrow", "call"}
        /\ e.op = "const" => e.v \in Values
        /\ e.op = "call" => e.site \in Nat
        /\ \A k \in DOMAIN Operands(e) :
            Operands(e)[k] \in Exprs /\ Height[Operands(e)[k]] < Height[e]
    /\ \A pr \in Programs :
        /\ pr["Top"] \in Exprs
        /\ CallsIn(pr)[pr["Top"]] \subseteq Paths
        /\ \A e \in Exprs :
            /\ e.op = "call" =>
                /\ pr[e.callee] \in Exprs /\ Height[pr[e.callee]] < Height[e]
                /\ \A q \in CallsIn(pr)[e.arg] : q[1] # e.site
            /\ \A j, k \in DOMAIN Operands(e) :
                j # k => CallsIn(pr)[Operands(e)[j]] \cap CallsIn(pr)[Operands(e)[k]] = {}

Ok(v, s) == [ok |-> TRUE, v |-> v, st |-> s]
Err(s) == [ok |-> FALSE, v |-> 0, st |-> s]
Then(r, K(_, _)) == IF r.ok THEN K(r.v, r.st) ELSE r
Binary(op, l, r) == IF op = "add" THEN (l + r) % Modulus ELSE l \div r

HasCall(pr, e) == CallsIn(pr)[e] # {}

(* An instance that the map has not is a new one.                          *)
State(s, p) == IF p \in Paths THEN s[p] ELSE Fresh

(* End of an instance's cycle: the snapshot and the cycle count.           *)
Commit(s, p, v) == [s EXCEPT ![p] = [cycle |-> @.cycle + 1, prev |-> v]]

(* step_instance takes the instance out of call_states and puts it back at *)
(* the end: an error in the body loses it with everything under it.        *)
Forget(s, p) == [q \in Paths |-> IF IsPrefix(p, q) THEN Fresh ELSE s[q]]
-------------------------------------------------------------------------------
(* The simulator.  s is the state of all instances, p the path of the one  *)
(* whose body is evaluated on input x, eval what evaluates a part of it.   *)

\* Mutants: the other branch is left alone; it is stepped once too often.
StepNothing(pr, eval, other, x, p, s) == s
StepTwice(pr, eval, other, x, p, s) == eval[other][x, p, eval[other][x, p, s].st].st

StepUntaken(pr, eval, other, x, p, s) == IF HasCall(pr, other) THEN eval[other][x, p, s].st ELSE s

Choice(pr, eval, taken, other, x, p, s) ==
    Then(eval[taken][x, p, s], LAMBDA v, s1 : Ok(v, StepUntaken(pr, eval, other, x, p, s1)))

SimInstance(eval, body, x, p, s) ==
    LET r == eval[body][x, p, s]
    IN  IF r.ok THEN Ok(r.v, Commit(r.st, p, r.v)) ELSE Err(Forget(r.st, p))

SimExpr(pr, eval, e, x, p, s) ==
    CASE e.op = "const" -> Ok(e.v, s)
      [] e.op = "in" -> Ok(x, s)
      [] e.op = "pre" -> IF State(s, p).cycle = 0 THEN Err(s) ELSE Ok(State(s, p).prev, s)
      [] e.op \in {"add", "div"} ->
            Then(eval[e.l][x, p, s], LAMBDA l, s1 :
            Then(eval[e.r][x, p, s1], LAMBDA r, s2 :
                IF e.op = "div" /\ r = 0 THEN Err(s2) ELSE Ok(Binary(e.op, l, r), s2)))
      [] e.op = "if" ->
            Then(eval[e.cond][x, p, s], LAMBDA b, s1 :
                IF b # 0 THEN Choice(pr, eval, e.then, e.else, x, p, s1)
                         ELSE Choice(pr, eval, e.else, e.then, x, p, s1))
      [] e.op = "arrow" ->
            IF State(s, p).cycle = 0 THEN Choice(pr, eval, e.init, e.body, x, p, s)
                                     ELSE Choice(pr, eval, e.body, e.init, x, p, s)
      [] e.op = "call" ->
            Then(eval[e.arg][x, p, s], LAMBDA a, s1 :
                SimInstance(eval, pr[e.callee], a, Append(p, e.site), s1))

SimEval(pr) ==
    LET eval[e \in Exprs] ==
            [i \in Frames |-> SimExpr(pr, eval, e, i[1], i[2], i[3])]
    IN  eval
-------------------------------------------------------------------------------
(* The generated C.  A call's __out struct holds what the instance's prev_ *)
(* field holds once it has been stepped.  Err is undefined behaviour.      *)

(* The expression left after substitution: ?: evaluates one branch only.   *)
CValue(value, e, x, p, s) ==
    CASE e.op = "const" -> Ok(e.v, s)
      [] e.op = "in" -> Ok(x, s)
      [] e.op = "pre" -> Ok(State(s, p).prev, s)
      [] e.op \in {"add", "div"} ->
            Then(value[e.l][x, p, s], LAMBDA l, s1 :
            Then(value[e.r][x, p, s], LAMBDA r, s2 :
                IF e.op = "div" /\ r = 0 THEN Err(s) ELSE Ok(Binary(e.op, l, r), s)))
      [] e.op = "if" ->
            Then(value[e.cond][x, p, s], LAMBDA b, s1 :
                value[IF b # 0 THEN e.then ELSE e.else][x, p, s])
      [] e.op = "arrow" -> value[IF State(s, p).cycle = 0 THEN e.init ELSE e.body][x, p, s]
      [] e.op = "call" -> Ok(State(s, Append(p, e.site)).prev, s)

CExpr[e \in Exprs] == [i \in Frames |-> CValue(CExpr, e, i[1], i[2], i[3])]

CStepFunction(hoist, body, x, p, s) ==
    Then(hoist[body][x, p, s], LAMBDA v, s1 :
    Then(CExpr[body][x, p, s1], LAMBDA w, s2 : Ok(w, Commit(s2, p, w))))

\* Mutant: the C steps calls inside the chosen branch only.
HoistTaken(hoist, e, x, p, s) ==
    Then(hoist[e.cond][x, p, s], LAMBDA v, s1 :
    Then(CExpr[e.cond][x, p, s1], LAMBDA b, s2 :
        hoist[IF b # 0 THEN e.then ELSE e.else][x, p, s2]))

HoistBranches(hoist, e, x, p, s) ==
    Then(hoist[e.cond][x, p, s], LAMBDA v, s1 :
    Then(hoist[e.then][x, p, s1], LAMBDA w, s2 : hoist[e.else][x, p, s2]))

(* The statements hoisted out of e: those of its operands in order, then   *)
(* for a call its argument assignment and the call of its step function.   *)
CStatements(pr, hoist, e, x, p, s) ==
    CASE e.op \in {"const", "in", "pre"} -> Ok(0, s)
      [] e.op \in {"add", "div"} ->
            Then(hoist[e.l][x, p, s], LAMBDA v, s1 : hoist[e.r][x, p, s1])
      [] e.op = "if" -> HoistBranches(hoist, e, x, p, s)
      [] e.op = "arrow" ->
            Then(hoist[e.init][x, p, s], LAMBDA v, s1 : hoist[e.body][x, p, s1])
      [] e.op = "call" ->
            Then(hoist[e.arg][x, p, s], LAMBDA v, s1 :
            Then(CExpr[e.arg][x, p, s1], LAMBDA a, s2 :
                CStepFunction(hoist, pr[e.callee], a, Append(p, e.site), s2)))

CHoist(pr) ==
    LET hoist[e \in Exprs] ==
            [i \in Frames |-> CStatements(pr, hoist, e, i[1], i[2], i[3])]
    IN  hoist
-------------------------------------------------------------------------------
Init ==
    /\ prog \in Programs
    /\ sim = [p \in Paths |-> Fresh]
    /\ c = [p \in Paths |-> Fresh]
    /\ cycles = 0
    /\ status = "ok"

(* step_env of the root: an error leaves the root's own state as it was,   *)
(* and whatever its calls have done stays done.                            *)
SimTop(x) ==
    LET r == SimEval(prog)[prog["Top"]][x, << >>, sim]
    IN  IF r.ok THEN Ok(r.v, Commit(r.st, << >>, r.v)) ELSE r

CTop(x) == CStepFunction(CHoist(prog), prog["Top"], x, << >>, c)

Cycle ==
    /\ status = "ok" /\ cycles < MaxCycles
    /\ \E x \in Values :
        /\ SimTop(x).ok /\ CTop(x).ok
        /\ sim' = SimTop(x).st /\ c' = CTop(x).st
    /\ cycles' = cycles + 1
    /\ UNCHANGED <<prog, status>>

(* The run ends with the simulator's error; the C is not asked.            *)
SimulatorError ==
    /\ status = "ok" /\ cycles < MaxCycles
    /\ \E x \in Values : ~SimTop(x).ok /\ sim' = SimTop(x).st
    /\ status' = "error"
    /\ UNCHANGED <<prog, c, cycles>>

(* A quotient hoisted out of its branch divides by zero in the C only.     *)
CFault ==
    /\ status = "ok" /\ cycles < MaxCycles
    /\ \E x \in Values : SimTop(x).ok /\ ~CTop(x).ok
    /\ status' = "undefined"
    /\ UNCHANGED <<prog, sim, c, cycles>>

Next == Cycle \/ SimulatorError \/ CFault

Spec == Init /\ [][Next]_vars
-------------------------------------------------------------------------------
(* Types; no instance is ever stepped more often than there are cycles.    *)
TypeOK ==
    /\ prog \in Programs
    /\ sim \in [Paths -> [cycle : 0 .. MaxCycles, prev : Values]]
    /\ c \in [Paths -> [cycle : 0 .. MaxCycles, prev : Values]]
    /\ cycles \in 0 .. MaxCycles
    /\ status \in {"ok", "error", "undefined"}

(* Every instance has the same history in both: same cycle count and same  *)
(* last output, the root's own included.                                   *)
InstancesAgree == status = "ok" => sim = c

(* What may leave an expression without a value in the simulator: a pre in *)
(* the instance's first cycle, a division.  In the argument and the body   *)
(* of a call the C divides too.                                            *)
FailuresOf(pr, failures, e) ==
    CASE e.op \in {"const", "in"} -> {}
      [] e.op = "pre" -> {"pre"}
      [] e.op = "add" -> failures[e.l] \cup failures[e.r]
      [] e.op = "div" -> failures[e.l] \cup failures[e.r] \cup {"div"}
      [] e.op = "if" -> failures[e.cond] \cup failures[e.then] \cup failures[e.else]
      [] e.op = "arrow" -> failures[e.init] \cup (failures[e.body] \ {"pre"})
      [] e.op = "call" -> (failures[e.arg] \cup failures[pr[e.callee]]) \ {"div"}

Failures(pr) == LET failures[e \in Exprs] == FailuresOf(pr, failures, e) IN failures

\* Once an instance has begun its pre has a value.
Answers(pr, e, begun) == begun \/ "pre" \notin Failures(pr)[e]
NeverFails(pr, e, begun) == Answers(pr, e, begun) /\ "div" \notin Failures(pr)[e]

\* The side of an arrow that is taken, and the other one.
Side(e, begun) == IF begun THEN e.body ELSE e.init
OtherSide(e, begun) == IF begun THEN e.init ELSE e.body

(* Before (FALSE) and after (TRUE) the first cycle, does an evaluation of  *)
(* e reach every call of e, even if it ends in an error?                   *)
ReachesOf(pr, reaches, e) ==
    CASE e.op \in {"const", "in", "pre"} -> BOOLEAN
      [] e.op \in {"add", "div"} ->
            {b \in reaches[e.l] :
                HasCall(pr, e.r) => b \in reaches[e.r] /\ NeverFails(pr, e.l, b)}
      [] e.op = "if" ->
            {b \in reaches[e.cond] \cap reaches[e.then] \cap reaches[e.else] :
                /\ HasCall(pr, e.then) =>
                    NeverFails(pr, e.cond, b) /\ NeverFails(pr, e.else, b)
                /\ HasCall(pr, e.else) =>
                    NeverFails(pr, e.cond, b) /\ NeverFails(pr, e.then, b)}
      [] e.op = "arrow" ->
            {b \in reaches[e.init] \cap reaches[e.body] :
                HasCall(pr, OtherSide(e, b)) => NeverFails(pr, Side(e, b), b)}
      [] e.op = "call" ->
            {b \in BOOLEAN : Answers(pr, e.arg, b) /\ Answers(pr, pr[e.callee], b)}

ReachesCalls(pr) == LET reaches[e \in Exprs] == ReachesOf(pr, reaches, e) IN reaches

(* No error of a side that is not taken comes before one of its calls.     *)
CallsComeFirst(pr) ==
    \A e \in Exprs :
        /\ e.op = "if" => ReachesCalls(pr)[e.then] = BOOLEAN /\ ReachesCalls(pr)[e.else] = BOOLEAN
        /\ e.op = "arrow" => TRUE \in ReachesCalls(pr)[e.init] /\ FALSE \in ReachesCalls(pr)[e.body]

(* Lustre computes every call on every cycle, whichever branch is chosen:  *)
(* no instance is ever a cycle behind or ahead of the root.                *)
EveryCallEveryCycle ==
    status = "ok" => \A p \in CallsIn(prog)[prog["Top"]] :
                        sim[p].cycle = cycles /\ c[p].cycle = cycles
===============================================================================
