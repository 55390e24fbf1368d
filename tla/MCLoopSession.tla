---------------------------- MODULE MCLoopSession ----------------------------
(* A root whose failing inputs stop step_env before any call is stepped,   *)
(* and one with a contract whose clauses cannot be evaluated on one input, *)
(* such as a guarantee that divides by an output that is 0, and with a call *)
(* before an equation that fails on another.                               *)
EXTENDS LoopSession, TLC

CONSTANTS a, b, bad, late

MCNone == {}
MCInputs == {a, b, bad}
MCFailEarly == {bad}

ErrorInputs == {a, bad, late}
ErrorObserverFails == {bad}
ErrorFailLate == {late}
==============================================================================
