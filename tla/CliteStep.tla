------------------------------- MODULE CliteStep -------------------------------
(***************************************************************************)
(* The generated C step function, emit_equation and finish_step of         *)
(* ol_clite_emit: locals start at zero, a clocked equation is an if whose  *)
(* else branch reads the held_ field, and finish_step copies the prev_     *)
(* fields and sets the clk_ticked flags.                                   *)
(***************************************************************************)
EXTENDS ClockedNode

VARIABLES
    cPrev,    \* self->prev_x, for the variables under a pre
    cHeld,    \* self->held_x, for the left-hand sides of clocked equations
    cTicked,  \* self->clkN_ticked per chain; self->initialized for the base
    loc,      \* in->, out-> and the C locals
    cPos,     \* next equation in the emitted order
    cPc,      \* "idle" between calls, "run" inside the step function
    cTrace    \* history: every signal at the end of the last step

cVars == <<cPrev, cHeld, cTicked, loc, cPos, cPc, cTrace>>

(* N_init is a memset; the driver's N_Output is an uninitialized local of  *)
(* main, any value.                                                        *)
CInit ==
    /\ cPrev = [x \in PreVars |-> Zero]
    /\ cHeld = [v \in Clocked |-> Zero]
    /\ cTicked = [ck \in Chains |-> FALSE]
    /\ loc \in [Signals -> Val]
    /\ \A x \in Signals \ Outputs : loc[x] = Zero
    /\ cPos = 1
    /\ cPc = "idle"
    /\ cTrace = [x \in Signals |-> Zero]

(* The call: inputs are read, locals are `= {0}`, out keeps its content.   *)
CBegin(row) ==
    /\ cPc = "idle"
    /\ loc' = [x \in Signals |-> IF x \in Inputs THEN row[x]
                                 ELSE IF x \in Outputs THEN loc[x] ELSE Zero]
    /\ cPos' = 1
    /\ cPc' = "run"
    /\ UNCHANGED <<cPrev, cHeld, cTicked, cTrace>>

CAt == Order[cPos]
CRunning == cPc = "run" /\ cPos <= Size

(* if (cond) { x = rhs; self->held_x = x; }                                *)
CAssign ==
    /\ CRunning
    /\ Active(ClockOf[CAt], loc)
    /\ LET r == Rhs(CAt, loc, cPrev, cTicked)
       IN  /\ loc' = [loc EXCEPT ![CAt] = r]
           /\ cHeld' = [v \in Clocked |-> IF v = CAt THEN r ELSE cHeld[v]]
    /\ cPos' = cPos + 1
    /\ UNCHANGED <<cPrev, cTicked, cPc, cTrace>>

\* Mutant: no else branch.
CSkip ==
    /\ CRunning
    /\ ~Active(ClockOf[CAt], loc)
    /\ cPos' = cPos + 1
    /\ UNCHANGED <<cPrev, cHeld, cTicked, loc, cPc, cTrace>>

(* else { x = self->held_x; }                                              *)
CHold ==
    /\ CRunning
    /\ ~Active(ClockOf[CAt], loc)
    /\ loc' = [loc EXCEPT ![CAt] = cHeld[CAt]]
    /\ cPos' = cPos + 1
    /\ UNCHANGED <<cPrev, cHeld, cTicked, cPc, cTrace>>

\* Mutant: one initialized flag for every -> site.
CFinishInitialized ==
    /\ cPc = "run" /\ cPos = Size + 1
    /\ cPrev' = [x \in PreVars |-> loc[x]]
    /\ cTicked' = [ck \in Chains |-> TRUE]
    /\ cPc' = "idle"
    /\ cTrace' = loc
    /\ UNCHANGED <<cHeld, loc, cPos>>

CFinish ==
    /\ cPc = "run" /\ cPos = Size + 1
    /\ cPrev' = [x \in PreVars |-> loc[x]]
    /\ cTicked' = Ticks(loc, cTicked)
    /\ cPc' = "idle"
    /\ cTrace' = loc
    /\ UNCHANGED <<cHeld, loc, cPos>>

CStep == CAssign \/ CHold \/ CFinish
===============================================================================
