-------------------------------- MODULE Backends --------------------------------
(***************************************************************************)
(* The three executable meanings of one node side by side: the simulator,  *)
(* the generated C and the base-clock program given to the prover.  Every  *)
(* cycle gives the three the same row of inputs; the simulator evaluates   *)
(* it first, then the C, as Runner::run does with a C program attached     *)
(* (ol_cli sim_session.rs), and the flattened program at the end.  A       *)
(* simulator error ends the run: Sim::run_csv returns the Err.             *)
(***************************************************************************)
EXTENDS SimCycle, CliteStep, Declocked

VARIABLE flat  \* "idle", or "due" while the flattened program owes a cycle

vars == <<simVars, cVars, dVars, flat>>

Row == [x \in Inputs |-> env[x]]

Init == SimInit /\ CInit /\ DInit /\ flat = "idle"

Begin ==
    /\ flat = "idle"
    /\ \E row \in InputRows : SimBegin(row) /\ CBegin(row)
    /\ flat' = "due"
    /\ UNCHANGED dVars

Simulate == SimStep /\ UNCHANGED <<cVars, dVars, flat>>

RunC ==
    /\ pc = "idle"
    /\ CStep
    /\ UNCHANGED <<simVars, dVars, flat>>

RunFlat ==
    /\ pc = "idle" /\ cPc = "idle" /\ flat = "due"
    /\ DCycle(Row)
    /\ flat' = "idle"
    /\ UNCHANGED <<simVars, cVars>>

Next == Begin \/ Simulate \/ RunC \/ RunFlat

Spec == Init /\ [][Next]_vars
-------------------------------------------------------------------------------
(* Types of the three parts.                                               *)
SimTypeOK ==
    /\ prev \in [Signals -> Val] /\ env \in [Signals -> Val]
    /\ ticked \in [Chains -> BOOLEAN]
    /\ pos \in 1 .. Size + 1 /\ pc \in {"idle", "run", "failed"}

CTypeOK ==
    /\ loc \in [Signals -> Val] /\ cTrace \in [Signals -> Val]
    /\ cPrev \in [PreVars -> Val] /\ cHeld \in [Clocked -> Val]
    /\ cTicked \in [Chains -> BOOLEAN]
    /\ cPos \in 1 .. Size + 1 /\ cPc \in {"idle", "run"}

\* A clock's flag is up only under its parent's.
FlatTypeOK ==
    /\ dVal \in [Signals -> Val] /\ act \in [FlagClocks -> BOOLEAN]
    /\ \A ck \in FlagClocks : act[ck] => Parent(ck) = Base \/ act[Parent(ck)]
    /\ fst \in [FirstClocks -> BOOLEAN] /\ begun \in BOOLEAN
    /\ flat \in {"idle", "due"}

TypeOK == SimTypeOK /\ CTypeOK /\ FlatTypeOK

(* Whenever the simulator and the C have finished the same cycle, every    *)
(* signal, every previous value and every tick flag is the same in both.   *)
SimAgreesWithC == pc = "idle" /\ cPc = "idle" => prev = cTrace /\ ticked = cTicked

(* Whenever all three have finished a cycle, every signal has the same     *)
(* value in each: byte-identical traces of the simulator, the C and the    *)
(* program the prover reasons about.                                       *)
TracesAgree ==
    pc = "idle" /\ cPc = "idle" /\ flat = "idle" => prev = cTrace /\ cTrace = dVal

(* The part of it the equivalence check of the trace files compares.       *)
OutputsAgree ==
    pc = "idle" /\ cPc = "idle" => \A o \in Outputs : prev[o] = cTrace[o]

(* The simulator's snapshots are a run of the order-free meaning: equation *)
(* by equation evaluation, seeding from the previous snapshot and the tick *)
(* counts hide nothing.                                                    *)
SimMeaning == INSTANCE HeldValues WITH val <- prev, ticked <- ticked
SimImplements == SimMeaning!Spec

(* So are the values at the end of each call of the generated step         *)
(* function, whose state is held_ and prev_ fields and one flag per chain. *)
CMeaning == INSTANCE HeldValues WITH val <- cTrace, ticked <- cTicked
CImplements == CMeaning!Spec

(* And so is the flattened program, where a chain has ticked when its      *)
(* first_ flag has fallen or its act_ flag is up.                          *)
FlatTicked == [ck \in Chains |-> IF ck = Base THEN begun ELSE ~fst[ck] \/ act[ck]]
FlatMeaning == INSTANCE HeldValues WITH val <- dVal, ticked <- FlatTicked
FlatImplements == FlatMeaning!Spec
===============================================================================
