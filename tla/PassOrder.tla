------------------------------- MODULE PassOrder -------------------------------
(***************************************************************************)
(* The order evaluation_order of ol_ir/order.rs returns, without its loop: *)
(* the next equation pushed is the first ready one after the last pushed,  *)
(* or, when the pass has none left, the first ready one of all.  deps[e]   *)
(* is the set of equations whose variables e reads in the same cycle.      *)
(***************************************************************************)
EXTENDS Naturals, Sequences, SequencesExt

Pushed(deps, o) ==
    LET ready == {e \in DOMAIN deps : e \notin ToSet(o) /\ deps[e] \subseteq ToSet(o)}
        ahead == {e \in ready : o # << >> /\ e > Last(o)}
    IN  IF ready = {} THEN o
        ELSE Append(o, Min(IF ahead = {} THEN ready ELSE ahead))

OrderOf(deps) ==
    LET after[k \in 0 .. Len(deps)] ==
            IF k = 0 THEN << >> ELSE Pushed(deps, after[k - 1])
    IN  after[Len(deps)]
===============================================================================
