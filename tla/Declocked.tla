------------------------------- MODULE Declocked -------------------------------
(***************************************************************************)
(* The base-clock program ol_ir/declock.rs writes for the prover, run      *)
(* under ordinary Lustre semantics: `a -> b` takes a on the very first     *)
(* cycle only, and no equation is ever skipped.  Its own evaluation order  *)
(* FlatOrder differs from the node's, because a gated equation now reads   *)
(* its clock's flag in the same cycle.                                     *)
(***************************************************************************)
EXTENDS ClockedNode

VARIABLES
    dVal,   \* the node's own variables, last cycle
    act,    \* the __ck flags, last cycle
    fst,    \* the __first flags, last cycle
    begun   \* has the program run a cycle (what -> tests)

dVars == <<dVal, act, fst, begun>>

FlatSize == Len(FlatOrder)

(* What evaluation_order returned for the flattened node, its flags left   *)
(* out: an equation reads there also the flag of its clock, which reads    *)
(* the condition and the parent's flag.                                    *)
ASSUME FlatOrderFromPasses ==
    /\ FlatOrder \in Seq(Vars)
    /\ \A v \in Vars : \E k \in 1 .. FlatSize : FlatOrder[k] = v
    /\ \A j, k \in 1 .. FlatSize : FlatOrder[j] = FlatOrder[k] => j = k
    /\ \A k \in 1 .. FlatSize :
          Reads[FlatOrder[k]] \cup ClockSignals(ClockOf[FlatOrder[k]])
              \subseteq Inputs \cup {FlatOrder[j] : j \in 1 .. k - 1}

Parent(ck) == SubSeq(ck, 1, Len(ck) - 1)

(* act_expr registers a flag for every clock used and for its parents.     *)
UsedClocks == {ClockOf[v] : v \in Vars} \cup Chains
FlagClocks == UNION {{SubSeq(ck, 1, n) : n \in 1 .. Len(ck)} : ck \in UsedClocks}
FirstClocks == Chains \ {Base}

DInit ==
    /\ dVal = [x \in Signals |-> Zero]
    /\ act = [ck \in FlagClocks |-> FALSE]
    /\ fst = [ck \in FirstClocks |-> TRUE]
    /\ begun = FALSE

\* Mutant: a flag tests its own condition only, not its parent's.
ActFlagsFlat(e) == [ck \in FlagClocks |-> e[ck[Len(ck)][1]] = ck[Len(ck)][2]]

(* act_C = act_parent and cond; directly under the base, act_C = cond.     *)
ActFlags(e) ==
    LET a[ck \in FlagClocks] ==
            /\ e[ck[Len(ck)][1]] = ck[Len(ck)][2]
            /\ Parent(ck) = Base \/ a[Parent(ck)]
    IN  a

\* Mutant: first_C falls as soon as a cycle has passed.
FirstFlagsBase == [ck \in FirstClocks |-> ~begun]

(* first_C = true -> (pre first_C and not pre act_C).                      *)
FirstFlags == [ck \in FirstClocks |-> ~begun \/ (fst[ck] /\ ~act[ck])]

\* Mutant: an inactive variable takes the default instead of holding.
FlatRhsReset(v, e) ==
    LET rhs == Apply(v, [x \in Reads[v] |-> e[x]], [x \in Pres[v] |-> dVal[x]],
                        [ck \in Sites[v] |-> IF ck = Base THEN ~begun ELSE FirstFlags[ck]])
    IN  IF ClockOf[v] = Base \/ ActFlags(e)[ClockOf[v]] THEN rhs ELSE Zero

(* x = if act_C then e else (d -> pre x), or x = e on the base clock.      *)
(* Inside e a clocked `init -> body` has become `if first_C then init else *)
(* body`, and `pre x` is unchanged.                                        *)
FlatRhs(v, e) ==
    LET rhs == Apply(v, [x \in Reads[v] |-> e[x]], [x \in Pres[v] |-> dVal[x]],
                        [ck \in Sites[v] |-> IF ck = Base THEN ~begun ELSE FirstFlags[ck]])
    IN  IF ClockOf[v] = Base \/ ActFlags(e)[ClockOf[v]] THEN rhs
        ELSE IF begun THEN dVal[v] ELSE Zero

(* The equations in the order of the flattened node, each reading what the *)
(* ones before it have computed.                                           *)
FlatEval(row) ==
    LET upTo[k \in 0 .. FlatSize] ==
            IF k = 0 THEN [x \in Signals |-> IF x \in Inputs THEN row[x] ELSE Zero]
            ELSE [upTo[k - 1] EXCEPT ![FlatOrder[k]] = FlatRhs(FlatOrder[k], upTo[k - 1])]
    IN  upTo[FlatSize]

DCycle(row) ==
    /\ dVal' = FlatEval(row)
    /\ act' = ActFlags(dVal')
    /\ fst' = FirstFlags
    /\ begun' = TRUE
===============================================================================
