-------------------------- MODULE StateMachineLowering --------------------------
(***************************************************************************)
(* Resolution of refinements, validation and lowering of a state machine,  *)
(* ol_ir/state_machine.rs.  A machine has an initial state, its states and *)
(* its outputs; a state has a name, equations, transitions (a guard and a  *)
(* target), regions (an initial state, states, history) and the name of    *)
(* the machine it refines, or NoMachine.  A state's name is a sequence of  *)
(* words, which the code joins with "_".                                   *)
(***************************************************************************)
EXTENDS Expressions

CONSTANT MachineByName  \* the machines a `refines` may name, by name

NoMachine == "none"
Top == <<"top">>                        \* key of the top automaton
Key(s, i) == <<s, i>>                   \* key of region i of the state called s
StateVar(key) == <<"state", key>>
NextVar(key) == <<"next", key>>
ActiveVar(key) == <<"active", key>>

OwnEquations(st, o) == {j \in DOMAIN st.eqs : st.eqs[j].lhs = o}
-------------------------------------------------------------------------------
(* resolve_states fails on a machine it does not know, and on one that it  *)
(* is in the middle of resolving (stack).                                  *)
RECURSIVE Resolvable(_, _)
Resolvable(states, stack) ==
    \A j \in DOMAIN states :
        /\ \A r \in DOMAIN states[j].regions : Resolvable(states[j].regions[r].states, stack)
        /\ LET m == states[j].refines
           IN  m # NoMachine =>
                   /\ m \notin stack /\ m \in DOMAIN MachineByName
                   /\ Resolvable(MachineByName[m].states, stack \cup {m})

RECURSIVE Prefixed(_, _)
Prefixed(states, prefix) ==
    LET target(t) == [t EXCEPT !.target = prefix \o @]
        region(r) == [r EXCEPT !.initial = prefix \o @, !.states = Prefixed(@, prefix)]
        state(st) == [st EXCEPT
            !.name = prefix \o @,
            !.trans = Computed([t \in DOMAIN @ |-> target(@[t])]),
            !.regions = Computed([r \in DOMAIN @ |-> region(@[r])])]
    IN  Computed([j \in DOMAIN states |-> state(states[j])])

(* The states with every refined machine, itself resolved, inlined as the  *)
(* last region of the state, its names qualified by that state's.          *)
RECURSIVE Resolved(_)
Resolved(states) ==
    LET inner(st) == Computed([r \in DOMAIN st.regions |->
                                  [st.regions[r] EXCEPT !.states = Resolved(@)]])
        inlined(st) ==
            LET sub == MachineByName[st.refines]
            IN  [initial |-> st.name \o sub.initial, history |-> FALSE,
                 states |-> Prefixed(Resolved(sub.states), st.name)]
        state(st) == IF st.refines = NoMachine THEN [st EXCEPT !.regions = inner(st)]
                     ELSE [st EXCEPT !.refines = NoMachine,
                                     !.regions = Append(inner(st), inlined(st))]
    IN  Computed([j \in DOMAIN states |-> state(states[j])])
-------------------------------------------------------------------------------
RECURSIVE StateNames(_)
StateNames(states) ==
    FlattenSeq([j \in DOMAIN states |->
        <<states[j].name>> \o FlattenSeq([r \in DOMAIN states[j].regions |->
                                             StateNames(states[j].regions[r].states)])])

\* Mutant: the targets of transitions are not looked up.
RECURSIVE ValidRegionAnyTarget(_, _)
ValidRegionAnyTarget(initial, states) ==
    /\ initial \in {states[j].name : j \in DOMAIN states}
    /\ \A j \in DOMAIN states : \A r \in DOMAIN states[j].regions :
          ValidRegionAnyTarget(states[j].regions[r].initial, states[j].regions[r].states)

(* A region's initial state and the targets of its transitions are states  *)
(* of the region itself.                                                   *)
RECURSIVE ValidRegion(_, _)
ValidRegion(initial, states) ==
    LET here == {states[j].name : j \in DOMAIN states}
    IN  /\ initial \in here
        /\ \A j \in DOMAIN states :
              /\ \A t \in DOMAIN states[j].trans : states[j].trans[t].target \in here
              /\ \A r \in DOMAIN states[j].regions :
                    ValidRegion(states[j].regions[r].initial, states[j].regions[r].states)

(* region_covers: every state of the region assigns o, itself or through   *)
(* a region of its own.                                                    *)
RECURSIVE Covers(_, _)
Covers(states, o) ==
    \A j \in DOMAIN states :
        \/ OwnEquations(states[j], o) # {}
        \/ \E r \in DOMAIN states[j].regions : Covers(states[j].regions[r].states, o)

ValidMachine(sm) ==
    /\ sm.states # << >>
    /\ Resolvable(sm.states, {sm.name})
    /\ LET states == Resolved(sm.states)
       IN  /\ IsInjective(StateNames(states))
           /\ ValidRegion(sm.initial, states)
           /\ \A o \in sm.outputs : Covers(states, o)
-------------------------------------------------------------------------------
(* `if state = S1 then .. else if state = S2 .. else ..`, over a value per  *)
(* state: the last of the states needs no test.                            *)
Select(states, key, values) ==
    LET n == Len(states)
    IN  FoldRight(LAMBDA j, rest : If(Is(Var(StateVar(key)), Enum(states[j].name)),
                                      values[j], rest),
                  [j \in 1 .. n - 1 |-> j], values[n])

(* The first transition whose guard holds, or stay.                        *)
Successor(st, key) ==
    FoldRight(LAMBDA t, rest : If(t.guard, Enum(t.target), rest), st.trans, Var(StateVar(key)))

NextState(states, key) ==
    Select(states, key, [j \in DOMAIN states |-> Successor(states[j], key)])

\* Mutant: a region resumes where it was, whether it has a history or not.
RegionEquationsNoEntry(region, key) ==
    LET chain == NextState(region.states, key)
    IN  <<Equation(StateVar(key), Arrow(Enum(region.initial), Pre(NextVar(key)))),
          Equation(NextVar(key), IF key = Top THEN chain
                                 ELSE If(Var(ActiveVar(key)), chain, Var(StateVar(key))))>>

(* The state and next-state equations of one region: a nested one advances *)
(* only while active, and starts afresh on entry unless it has a history.  *)
RegionEquations(region, key) ==
    LET chain == NextState(region.states, key)
        resumed == Arrow(Enum(region.initial), Pre(NextVar(key)))
        entered == And(Var(ActiveVar(key)), Arrow(Bool(1), Not(Pre(ActiveVar(key)))))
    IN  <<Equation(StateVar(key),
                   IF key = Top \/ region.history THEN resumed
                   ELSE If(entered, Enum(region.initial), resumed)),
          Equation(NextVar(key),
                   IF key = Top THEN chain
                   ELSE If(Var(ActiveVar(key)), chain, Var(StateVar(key))))>>

(* emit_region: the region's equations, then those of the regions nested   *)
(* in its states, each active when this one is in that state.              *)
RECURSIVE EmitRegion(_, _)
EmitRegion(region, key) ==
    LET within(st) == LET here == Is(Var(StateVar(key)), Enum(st.name))
                      IN  IF key = Top THEN here ELSE And(Var(ActiveVar(key)), here)
        nested(st, i) == <<Equation(ActiveVar(Key(st.name, i)), within(st))>>
                             \o EmitRegion(st.regions[i], Key(st.name, i))
    IN  RegionEquations(region, key)
            \o FlattenSeq([j \in DOMAIN region.states |->
                  LET st == region.states[j]
                  IN  FlattenSeq([i \in DOMAIN st.regions |-> nested(st, i)])])

(* value_of and value_in_state: a nested region that drives o on every     *)
(* path goes before the state's own equation.                              *)
RECURSIVE ValueOf(_, _, _)
ValueOf(o, states, key) ==
    LET in(st) ==
            LET driving == {i \in DOMAIN st.regions : Covers(st.regions[i].states, o)}
            IN  IF driving # {}
                THEN ValueOf(o, st.regions[Min(driving)].states, Key(st.name, Min(driving)))
                ELSE IF OwnEquations(st, o) # {}
                THEN st.eqs[Min(OwnEquations(st, o))].rhs
                ELSE Const(0)
    IN  Select(states, key, [j \in DOMAIN states |-> in(states[j])])

(* lower, on a machine that is valid.                                      *)
LowerResolved(sm, states) ==
    EmitRegion([initial |-> sm.initial, states |-> states, history |-> FALSE], Top)
        \o SetToSeq({Equation(o, ValueOf(o, states, Top)) : o \in sm.outputs})

LowerMachine(sm) == LowerResolved(sm, Resolved(sm.states))
===============================================================================
