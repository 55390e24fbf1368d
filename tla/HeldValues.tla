------------------------------- MODULE HeldValues -------------------------------
(***************************************************************************)
(* What a clocked node means, with no evaluation order in it: every cycle  *)
(* takes a row of inputs and gives every signal one value such that all    *)
(* equations hold at once, clocked ones holding their value through        *)
(* inactive cycles, and `->` counting the ticks of its own clock           *)
(* (header of ol_ir/clocks.rs).                                            *)
(***************************************************************************)
EXTENDS ClockedNode

VARIABLES
    val,     \* the last completed cycle's value of every signal
    ticked   \* which chains have had an active cycle

Init ==
    /\ val = [x \in Signals |-> Zero]
    /\ ticked = [ck \in Chains |-> FALSE]

Cycle ==
    \E row \in InputRows :
        /\ val' \in [Signals -> Val]
        /\ \A x \in Inputs : val'[x] = row[x]
        /\ \A v \in Vars : Settled(v, val', val, ticked)
        /\ ticked' = Ticks(val', ticked)

Spec == Init /\ [][Cycle]_<<val, ticked>>
===============================================================================
