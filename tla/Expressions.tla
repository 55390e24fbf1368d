------------------------------ MODULE Expressions ------------------------------
(***************************************************************************)
(* What expressions of the IR read, call and compute (ol_ir/expr.rs), cut  *)
(* down to what clocks and the lowerings look at.  Booleans are 0 and 1;   *)
(* other values count modulo Modulus.                                      *)
(* The operators are recursive: this module is for TLC's runs only.        *)
(***************************************************************************)
EXTENDS Projects

Modulus == 3

\* A sequence with its elements computed, for TLC to do it once.
Computed(s) == << >> \o s
Tabulated(f) == f @@ << >>  \* a function likewise
WithArgs(e, args) == [e EXCEPT !.args = Computed(args)]

(* free_vars: the variables, and the clock names of when and merge.        *)
RECURSIVE FreeVars(_)
FreeVars(e) ==
    (IF e.op \in {"var", "when", "merge"} THEN {e.name} ELSE {})
        \cup UNION {FreeVars(e.args[j]) : j \in DOMAIN e.args}

(* same_cycle_reads: the same, not under a pre.                            *)
RECURSIVE SameCycleReads(_)
SameCycleReads(e) ==
    IF e.op = "pre" THEN {}
    ELSE (IF e.op \in {"var", "when", "merge"} THEN {e.name} ELSE {})
             \cup UNION {SameCycleReads(e.args[j]) : j \in DOMAIN e.args}

(* rename_var, for all the variables of to's domain.                       *)
RECURSIVE Renamed(_, _)
Renamed(e, to) ==
    LET args == [j \in DOMAIN e.args |-> Renamed(e.args[j], to)]
    IN  IF e.op \in {"var", "when", "merge", "last"} /\ e.name \in DOMAIN to
        THEN WithArgs([e EXCEPT !.name = to[@]], args) ELSE WithArgs(e, args)

(* The calls of e, each with the clock it is on when e is on ck.           *)
RECURSIVE Calls(_, _)
Calls(e, ck) ==
    LET below(j) == CASE e.op = "when" -> Up(ck)
                      [] e.op = "merge" -> Append(ck, <<e.name, IF j = 1 THEN 1 ELSE 0>>)
                      [] OTHER -> ck
    IN  (IF e.op = "call" THEN {[site |-> e.name, args |-> e.args, clock |-> ck]} ELSE {})
            \cup UNION {Calls(e.args[j], below(j)) : j \in DOMAIN e.args}

(* The value of e on clock ck in context cx: the environment env, previous *)
(* values prev under pre, the set ticked of clocks that have ticked, the   *)
(* states inst of the called instances, and for `last` whether a cycle has *)
(* passed (begun) and the values it left (lasts).  An instance counts: it  *)
(* adds its argument to its state and returns it.                          *)
RECURSIVE Eval(_, _, _)
Eval(e, ck, cx) ==
    LET arg(j) == Eval(e.args[j], ck, cx)
    IN  CASE e.op \in {"const", "bool"} -> e.val
          [] e.op = "enum" -> e.name
          [] e.op = "var" -> cx.env[e.name]
          [] e.op = "pre" -> cx.prev[e.args[1].name]
          [] e.op = "arrow" -> IF ck \in cx.ticked THEN arg(2) ELSE arg(1)
          [] e.op = "when" -> Eval(e.args[1], Up(ck), cx)
          [] e.op = "merge" ->
                LET j == IF cx.env[e.name] = 1 THEN 1 ELSE 2
                IN  Eval(e.args[j], Append(ck, <<e.name, cx.env[e.name]>>), cx)
          [] e.op = "if" -> IF arg(1) = 1 THEN arg(2) ELSE arg(3)
          [] e.op = "not" -> 1 - arg(1)
          [] e.op = "and" -> IF arg(1) = 1 THEN arg(2) ELSE 0
          [] e.op = "eq" -> Truth(arg(1) = arg(2))
          [] e.op = "add" -> (arg(1) + arg(2)) % Modulus
          [] e.op = "call" -> (cx.inst[e.name] + arg(1)) % Modulus
          [] e.op = "last" ->
                IF cx.begun THEN cx.lasts[e.name] ELSE IF e.args = << >> THEN 0 ELSE arg(1)
===============================================================================
