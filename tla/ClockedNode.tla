------------------------------ MODULE ClockedNode ------------------------------
(***************************************************************************)
(* A node as its backends see it after clock inference (ol_ir/clocks.rs):  *)
(* one equation per variable, each on a clock.  A clock is the sequence of *)
(* conditions from the base outward, Clock::conditions(); the base clock   *)
(* is the empty sequence.  What an equation computes is abstract: Apply    *)
(* is a function of the current values it reads, of the previous values    *)
(* under `pre`, and of which of its `->` sites are on their first tick.    *)
(***************************************************************************)
EXTENDS Naturals, Sequences

CONSTANTS
    Inputs,     \* input names
    Vars,       \* locals and outputs: each has one equation
    Outputs,    \* the outputs among Vars
    Val,        \* values (booleans are 0 and 1)
    Zero,       \* the default value of a type
    InputRows,  \* the rows of input values offered
    Order,      \* evaluation order of the node, a sequence of variables
    FlatOrder,  \* evaluation order of the node declock.rs writes
    ClockOf,    \* equation_clocks: the clock of each equation
    Chains,     \* the clocks hosting pre / -> sites, the base clock included
    Sites,      \* the clocks of the -> sites of each equation
    Reads,      \* same-cycle reads of each equation
    Pres,       \* variables each equation reads under pre
    Apply(_, _, _, _),  \* the value of an equation's right-hand side
    Fails(_, _, _)      \* does evaluating it raise an error in the simulator

Base == << >>
Signals == Inputs \cup Vars
Size == Len(Order)
Clocked == {v \in Vars : ClockOf[v] # Base}
PreVars == UNION {Pres[v] : v \in Vars}
ClockSignals(ck) == {ck[j][1] : j \in DOMAIN ck}

(* A clock is active when every condition of its chain holds.              *)
Active(ck, e) == \A j \in DOMAIN ck : e[ck[j][1]] = ck[j][2]

(* The right-hand side of v evaluated in environment e, with previous      *)
(* values p and completed ticks t.                                         *)
Rhs(v, e, p, t) ==
    Apply(v, [x \in Reads[v] |-> e[x]], [x \in Pres[v] |-> p[x]],
             [ck \in Sites[v] |-> ~t[ck]])

(* What one cycle means for variable v: computed on its clock's active     *)
(* cycles, held on the others.                                             *)
Settled(v, e, p, t) ==
    e[v] = IF Active(ClockOf[v], e) THEN Rhs(v, e, p, t) ELSE p[v]

Ticks(e, t) == [ck \in Chains |-> t[ck] \/ Active(ck, e)]

Earlier(k) == {Order[j] : j \in 1 .. k - 1}

(* What the front end guarantees of a node that passed the checker.        *)
ASSUME NodeTyped ==
    /\ Inputs \cap Vars = {} /\ Outputs \subseteq Vars
    /\ Zero \in Val
    /\ InputRows \subseteq [Inputs -> Val]
    /\ Reads \in [Vars -> SUBSET Signals]
    /\ Pres \in [Vars -> SUBSET Signals]
    /\ Base \in Chains
    /\ Sites \in [Vars -> SUBSET Chains]
    /\ ClockOf \in [Vars -> Seq(Signals \X Val)]
    /\ \A v \in Outputs : ClockOf[v] = Base
    /\ Chains \subseteq Seq(Signals \X Val)

ASSUME ApplyTyped ==
    \A v \in Vars :
        \A cur \in [Reads[v] -> Val], prv \in [Pres[v] -> Val],
           first \in [Sites[v] -> BOOLEAN] : Apply(v, cur, prv, first) \in Val

(* OrderIsComplete and ReadsComeAfterDefinitions of EvaluationOrder.       *)
ASSUME OrderFromPasses ==
    /\ Order \in Seq(Vars)
    /\ \A v \in Vars : \E k \in 1 .. Size : Order[k] = v
    /\ \A j, k \in 1 .. Size : Order[j] = Order[k] => j = k
    /\ \A k \in 1 .. Size : Reads[Order[k]] \subseteq Inputs \cup Earlier(k)

(* The clock variables that gate an equation are computed before it.  The  *)
(* order gives this when the clock comes from a `when` or from a           *)
(* same-cycle read, but not when it comes only through a `pre`: it is a    *)
(* hypothesis of the results, not a fact about every accepted node.        *)
ClocksBeforeUse ==
    \A k \in 1 .. Size : ClockSignals(ClockOf[Order[k]]) \subseteq Inputs \cup Earlier(k)

===============================================================================
