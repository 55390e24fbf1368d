-------------------------------- MODULE Lowering --------------------------------
(***************************************************************************)
(* An operator's machines and activations lowered to equations             *)
(* (Project::lower_state_machines, then lower_activations), the clocks of  *)
(* the node inferred, and the node run.  The run is the order-free meaning *)
(* of HeldValues, on expressions: the equations are taken in an order in   *)
(* which clock variables come before what they gate.                       *)
(***************************************************************************)
EXTENDS ClockInference, ActivationLowering, StateMachineLowering, PassOrder

CONSTANT Operators  \* the operators considered

ValidOperator(op) ==
    /\ \A j \in DOMAIN op.acts : ValidActivation(op.acts[j])
    /\ \A j \in DOMAIN op.machines : ValidMachine(op.machines[j])

Defined(eqs) == {eqs[j].lhs : j \in DOMAIN eqs}

(* Each construct's equations are appended to the owner's; an activation   *)
(* may read all the variables there are by then.                           *)
LoweredNode(op) ==
    LET machines == op.eqs \o FlattenSeq([j \in DOMAIN op.machines |-> LowerMachine(op.machines[j])])
    IN  [io |-> op.io,
         eqs |-> FoldLeft(LAMBDA eqs, act : eqs \o LowerActivation(act, op.io \cup Defined(eqs)),
                          machines, op.acts)]

(* The clocks an expression on ck has its -> sites on, and ck.             *)
RECURSIVE SiteClocks(_, _)
SiteClocks(e, ck) ==
    LET below(j) == CASE e.op = "when" -> Up(ck)
                      [] e.op = "merge" -> Append(ck, <<e.name, IF j = 1 THEN 1 ELSE 0>>)
                      [] OTHER -> ck
    IN  {ck} \cup UNION {SiteClocks(e.args[j], below(j)) : j \in DOMAIN e.args}

(* A node ready to run: with its clocks, its order, its calls, and as its  *)
(* chains all the clocks in it, not only those that host a site.           *)
Compiled(node) ==
    LET vc == VarClocks(node)
        clocks == Computed(EquationClocks(node, vc))
        gates(j) == {clocks[j][i][1] : i \in DOMAIN clocks[j]}
        reads == Computed([j \in DOMAIN clocks |-> SameCycleReads(node.eqs[j].rhs) \cup gates(j)])
        deps == Computed([j \in DOMAIN reads |->
                    {i \in DOMAIN reads : node.eqs[i].lhs \in reads[j]}])
        order == OrderOf(deps)
    IN  [io |-> node.io, eqs |-> node.eqs, clocks |-> clocks, order |-> order,
         chains |-> {Base} \cup UNION {SiteClocks(node.eqs[j].rhs, clocks[j]) : j \in DOMAIN clocks},
         calls |-> UNION {Calls(node.eqs[j].rhs, clocks[j]) : j \in DOMAIN clocks},
         accepted |-> ClocksAccepted(node, vc) /\ Len(order) = Len(node.eqs)]

\* What validation refuses is never lowered.
Lowerings == {[own |-> op, node |-> Compiled(LoweredNode(op))] :
                 op \in {op \in Operators : ValidOperator(op)}}
-------------------------------------------------------------------------------
VARIABLES
    own,     \* the operator
    node,    \* what it is lowered to
    val,     \* the last cycle's value of every variable of its node
    ticked,  \* the chains that have had an active cycle
    inst     \* the states of the instances it calls

vars == <<own, node, val, ticked, inst>>

Variables == node.io \cup Defined(node.eqs)

Init ==
    /\ \E lowered \in Lowerings : own = lowered.own /\ node = lowered.node
    /\ val = [x \in Variables |-> 0]
    /\ ticked = {}
    /\ inst = [site \in {c.site : c \in node.calls} |-> 0]

Context(env) ==
    [env |-> env, prev |-> val, ticked |-> ticked, inst |-> inst,
     begun |-> ticked # {}, lasts |-> val]

Begun(row) == [x \in Variables |-> IF x \in DOMAIN row THEN row[x] ELSE val[x]]

(* The values of a cycle on a row of inputs: an equation off its clock     *)
(* leaves its variable as it was.                                          *)
Result(row) ==
    LET after[n \in 0 .. Len(node.order)] ==
            IF n = 0 THEN Begun(row)
            ELSE LET env == after[n - 1]
                     j == node.order[n]
                 IN  [env EXCEPT ![node.eqs[j].lhs] =
                         IF Active(node.clocks[j], env)
                         THEN Eval(node.eqs[j].rhs, node.clocks[j], Context(env)) ELSE @]
    IN  after[Len(node.order)]

Run(row) ==
    /\ node.accepted
    /\ val' = Result(row)
    /\ ticked' = ticked \cup {ck \in node.chains : Active(ck, val')}
    /\ inst' = [site \in DOMAIN inst |->
           LET steps == {c \in node.calls : c.site = site /\ Active(c.clock, val')}
           IN  IF steps = {} THEN inst[site]
               ELSE LET c == CHOOSE c \in steps : TRUE
                    IN  (inst[site] + Eval(c.args[1], c.clock, Context(val'))) % Modulus]
    /\ UNCHANGED <<own, node>>

Next == \E row \in own.rows : Run(row)

Spec == Init /\ [][Next]_vars
-------------------------------------------------------------------------------
ScopeClock(act, k) ==
    [j \in 1 .. (IF k > Len(act.branches) THEN k - 1 ELSE k) |->
        <<ClockVar(act.name, j), IF j = k THEN 1 ELSE 0>>]

ScopesOfAll ==
    LET acts == own.acts
    IN  UNION {{<<acts[j], k>> : k \in DOMAIN Scopes(acts[j])} : j \in DOMAIN acts}

RegionKeys == {x[2] : x \in {x \in Variables : x[1] = "next"}}

Definition(x) == (CHOOSE j \in DOMAIN node.eqs : node.eqs[j].lhs = x)
InitialState(key) ==
    LET e == node.eqs[Definition(StateVar(key))].rhs
    IN  IF e.op = "arrow" THEN e.args[1].name ELSE e.args[2].name

(* The constructs' state, in the variables the lowered node keeps for it.  *)
Promised == INSTANCE Constructs WITH
    begun <- ticked # {},
    hasRun <- {<<s[1].name, s[2]>> : s \in {s \in ScopesOfAll : ScopeClock(s[1], s[2]) \in ticked}},
    memory <- [key \in {<<s[1].name, s[2]>> : s \in ScopesOfAll} |->
        LET s == CHOOSE s \in ScopesOfAll : <<s[1].name, s[2]>> = key
        IN  [x \in UNION {FreeVars(e) : e \in ScopeExprs(s[1], s[2])} |-> val[Sample(key[1], key[2], x)]]],
    running <- IF ticked = {} THEN {}
               ELSE {key \in RegionKeys : key = Top \/ val[ActiveVar(key)] = 1},
    resume <- [key \in RegionKeys |->
                  IF ticked = {} THEN InitialState(key) ELSE val[NextVar(key)]]
-------------------------------------------------------------------------------
(* A state or next-state variable holds a state of its own region, whatever*)
(* the transitions and refinements; all else is a number.                  *)
TypeOK ==
    /\ DOMAIN val = Variables
    /\ \A x \in Variables :
          IF x[1] \in {"state", "next"} /\ ticked # {}
          THEN \E r \in Promised!RegionsOf :
                  /\ r[1] = x[2]
                  /\ \E j \in DOMAIN r[2].states : val[x] = Promised!Name(r[2], r[2].states[j])
          ELSE val[x] \in 0 .. Modulus - 1
    /\ ticked \subseteq node.chains
    /\ \A site \in DOMAIN inst : inst[site] \in 0 .. Modulus - 1

(* The equations an activation or a machine is lowered to never break the  *)
(* clock discipline, and have an order: whatever a branch reads, and also  *)
(* when it reads nothing, its equation is on the branch's clock.  (The     *)
(* candidates' own equations are all on the base clock.)                   *)
LoweringIsWellClocked ==
    own.acts # << >> \/ own.machines # << >> => node.accepted

(* Everything e reads has a value of this cycle, on the branches it takes. *)
RECURSIVE AllPresent(_, _)
AllPresent(e, env) ==
    LET there(x) == \A j \in DOMAIN node.eqs : node.eqs[j].lhs = x => Active(node.clocks[j], env)
    IN  CASE e.op = "var" -> there(e.name)
          [] e.op = "when" -> there(e.name) /\ env[e.name] = e.val /\ AllPresent(e.args[1], env)
          [] e.op = "merge" ->
                there(e.name) /\ AllPresent(e.args[IF env[e.name] = 1 THEN 1 ELSE 2], env)
          [] OTHER -> \A j \in DOMAIN e.args : AllPresent(e.args[j], env)

(* Held values are never consumed where Lustre would see absence: in a     *)
(* node whose clocks were accepted, an equation that runs reads variables  *)
(* that have run in the same cycle only, whatever the clocks' values.      *)
NothingAbsentIsRead ==
    ticked # {} => \A j \in DOMAIN node.eqs :
        Active(node.clocks[j], val) => AllPresent(node.eqs[j].rhs, val)

-------------------------------------------------------------------------------
(* The lowered equations do what the constructs promise: the guards,       *)
(* samples and held values of an activation freeze its branches, and the   *)
(* state and next-state variables of a machine, with its refinements       *)
(* inlined, walk its hierarchy.                                            *)
ConstructsKeepTheirPromise == Promised!Promise
===============================================================================
