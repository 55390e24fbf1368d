---------------------------- MODULE EvaluationOrder ----------------------------
(***************************************************************************)
(* The pass algorithm of ol_ir/order.rs: the order in which the equations  *)
(* of a node execute.  The simulator and the C emitter both walk this      *)
(* order, so "every same-cycle read sees this cycle's value" is what keeps *)
(* the two traces equal.                                                   *)
(*                                                                         *)
(* A node is the left-hand sides and the same-cycle reads of its           *)
(* equations, numbered in declaration order; a read under `pre` is not in  *)
(* reads.  The behaviour picks any node of Nodes and runs                  *)
(* evaluation_order on it, one loop iteration per step.                    *)
(***************************************************************************)
EXTENDS PassOrder

CONSTANTS
    N,      \* number of equations
    Names,  \* variable names
    Nodes   \* the nodes considered

Eqs == 1 .. N

ASSUME NAssumption == N \in Nat
Node == [lhs : [Eqs -> SUBSET Names], reads : [Eqs -> SUBSET Names]]

ASSUME NodesAssumption == Nodes \subseteq Node

VARIABLES
    node,        \* the node being ordered
    order,       \* equations pushed so far
    done,        \* done[i] of the code, as the set of its true indices
    i,           \* index of the for loop inside a pass
    progressed,  \* did the current pass push anything
    pc           \* "pass": at the while; "scan": in the for; "ok" / "cycle": returned

vars == <<node, order, done, i, progressed, pc>>
-------------------------------------------------------------------------------
(* def_by is filled by inserting in declaration order, so the last         *)
(* definition of a name wins; names no equation defines have no entry.     *)
DefBy(v, e) ==
    /\ v \in node.lhs[e]
    /\ \A f \in Eqs : v \in node.lhs[f] => f <= e

Deps(e) == {d \in Eqs : \E v \in node.reads[e] : DefBy(v, d)}

\* Mutant: only earlier declarations are waited for.
ReadyForward(e) == e \notin done /\ {d \in Deps(e) : d < e} \subseteq done

Ready(e) == e \notin done /\ Deps(e) \subseteq done

Init ==
    /\ node \in Nodes
    /\ order = << >>
    /\ done = {}
    /\ i = 1
    /\ progressed = FALSE
    /\ pc = "pass"

\* Mutant: the scan starts one before the first equation.
BeginPassZero ==
    /\ pc = "pass"
    /\ Len(order) < N
    /\ i' = 0
    /\ progressed' = FALSE
    /\ pc' = "scan"
    /\ UNCHANGED <<node, order, done>>

(* while order.len() < n { let mut progressed = false; for i in 0..n ...   *)
BeginPass ==
    /\ pc = "pass"
    /\ Len(order) < N
    /\ i' = 1
    /\ progressed' = FALSE
    /\ pc' = "scan"
    /\ UNCHANGED <<node, order, done>>

\* Mutant: done[i] = true is forgotten.
PushAgain ==
    /\ pc = "scan" /\ i \in Eqs
    /\ Ready(i)
    /\ order' = Append(order, i)
    /\ progressed' = TRUE
    /\ i' = i + 1
    /\ UNCHANGED <<node, done, pc>>

Push ==
    /\ pc = "scan" /\ i \in Eqs
    /\ Ready(i)
    /\ order' = Append(order, i)
    /\ done' = done \cup {i}
    /\ progressed' = TRUE
    /\ i' = i + 1
    /\ UNCHANGED <<node, pc>>

Skip ==
    /\ pc = "scan" /\ i \in Eqs
    /\ ~Ready(i)
    /\ i' = i + 1
    /\ UNCHANGED <<node, order, done, progressed, pc>>

\* Mutants: no second pass; no progress test.
EndOnlyPass ==
    /\ pc = "scan" /\ i \notin Eqs
    /\ pc' = IF Len(order) = N THEN "pass" ELSE "cycle"
    /\ UNCHANGED <<node, order, done, i, progressed>>
EndPassRetry ==
    /\ pc = "scan" /\ i \notin Eqs
    /\ pc' = "pass"
    /\ UNCHANGED <<node, order, done, i, progressed>>

(* The end of a pass: go round again, or report the combinational cycle.   *)
EndPass ==
    /\ pc = "scan" /\ i \notin Eqs
    /\ pc' = IF progressed THEN "pass" ELSE "cycle"
    /\ UNCHANGED <<node, order, done, i, progressed>>

ReturnOrder ==
    /\ pc = "pass"
    /\ Len(order) >= N
    /\ pc' = "ok"
    /\ UNCHANGED <<node, order, done, i, progressed>>

Next == BeginPass \/ Push \/ Skip \/ EndPass \/ ReturnOrder

Spec == Init /\ [][Next]_vars

(* evaluation_order is a plain function: its loop is never suspended.      *)
FairSpec == Spec /\ WF_vars(Next)
-------------------------------------------------------------------------------
TypeOK ==
    /\ node \in Node
    /\ order \in Seq(Eqs)
    /\ done \in SUBSET Eqs
    /\ i \in 1 .. N + 1
    /\ progressed \in BOOLEAN
    /\ pc \in {"pass", "scan", "ok", "cycle"}

(* The equations pushed before position k. *)
Before(k) == {order[j] : j \in 1 .. k - 1}

(* Every same-cycle read of a variable with a single definition is         *)
(* preceded by that definition: whatever executes the equations in this    *)
(* order never reads a stale value.  Stated on the node, not on Deps.      *)
ReadsComeAfterDefinitions ==
    \A k \in 1 .. Len(order), d \in Eqs :
        \A v \in node.reads[order[k]] \cap node.lhs[d] :
            (\A f \in Eqs \ {d} : v \notin node.lhs[f]) => d \in Before(k)

(* A returned order executes every equation exactly once.                  *)
OrderIsComplete ==
    pc = "ok" => /\ Len(order) = N
                 /\ Before(N + 1) = Eqs

(* A set of equations each of which reads one of the others (or itself)    *)
(* in the same cycle: no order can start with any of them.                 *)
Blocked(S) == S # {} /\ \A e \in S : Deps(e) \cap S # {}

(* The verdict is exact: "combinational cycle" is reported when and only   *)
(* when some equations do block each other, however many passes it takes   *)
(* to find out.                                                            *)
VerdictIsExact ==
    /\ pc = "cycle" => \E S \in SUBSET Eqs : Blocked(S)
    /\ pc = "ok" => \A S \in SUBSET Eqs : ~Blocked(S)

(* Every pass either pushes an equation or ends the loop, so the function  *)
(* returns for every node, cyclic or not.                                  *)
Terminates == <>(pc \in {"ok", "cycle"})

-------------------------------------------------------------------------------
(* The loop-free form OrderOf, which the execution modules use to order    *)
(* concrete nodes, returns what the loop returns.                          *)
LoopComputesOrderOf ==
    pc \in {"ok", "cycle"} => order = OrderOf([e \in Eqs |-> Deps(e)])
===============================================================================
