------------------------------- MODULE Constructs -------------------------------
(***************************************************************************)
(* What an operator's constructs promise, in terms of the constructs and   *)
(* not of equations (headers of ol_ir/activation.rs and state_machine.rs). *)
(*                                                                         *)
(* An activation runs, each cycle, the first branch whose condition holds, *)
(* or its else, and freezes all the others: to a branch, the previous      *)
(* cycle is the last one in which it ran.                                  *)
(*                                                                         *)
(* A machine is in one state of each region that runs: the top one always, *)
(* another while its state is current.  A region moves along the first     *)
(* transition whose guard holds, on the next cycle in which it runs; it    *)
(* starts at its initial state when it is entered, unless it has a         *)
(* history.  A refined machine is a region, the machine looked up as it is.*)
(***************************************************************************)
EXTENDS ActivationLowering, StateMachineLowering

VARIABLES
    own,     \* the operator
    val,     \* the last cycle's values of its variables
    begun,   \* has a cycle been run
    memory,  \* per scope of an activation, what it read when it last ran
    hasRun,  \* the scopes that have run
    resume,  \* per region, the state its next cycle is in if it is not entered
    running, \* the regions that ran in the last cycle
    inst     \* the states of the instances the activations call

Activations == {own.acts[j] : j \in DOMAIN own.acts}
Machines == {own.machines[j] : j \in DOMAIN own.machines}

ScopeOf(act) == {<<act.name, k>> : k \in DOMAIN Scopes(act)}
ScopeReads(act, k) == UNION {FreeVars(e) : e \in ScopeExprs(act, k)}
ScopeCalls(act, k) == UNION {Calls(e, Base) : e \in ScopeExprs(act, k)}
Sites == {c.site : c \in UNION {UNION {ScopeCalls(act, k) : k \in DOMAIN Scopes(act)} :
                                  act \in Activations}}

Present(env) ==
    [env |-> env, prev |-> val, lasts |-> val, begun |-> begun, inst |-> inst,
     ticked |-> IF begun THEN {Base} ELSE {}]
-------------------------------------------------------------------------------
(* Activations.                                                            *)
Selected(act, env) ==
    LET holds == {k \in DOMAIN act.branches : Eval(act.branches[k].cond, Base, Present(env)) = 1}
    IN  IF holds = {} THEN Len(act.branches) + 1 ELSE Min(holds)

Within(act, k, env) ==
    [Present(env) EXCEPT !.prev = memory[<<act.name, k>>],
                         !.ticked = IF <<act.name, k>> \in hasRun THEN {Base} ELSE {}]

Activate(act, env) ==
    LET k == Selected(act, env)
        eqs == Scopes(act)[k]
    IN  \A o \in act.outputs :
            \E j \in DOMAIN eqs :
                eqs[j].lhs = o /\ env[o] = Eval(eqs[j].rhs, Base, Within(act, k, env))

Scheduled(env) == {<<act, Selected(act, env)>> : act \in Activations}

\* The instances called in the scopes that run: each steps, no other does.
Steps(env) ==
    UNION {{[site |-> c.site,
             next |-> (inst[c.site] + Eval(c.args[1], Base, Within(s[1], s[2], env))) % Modulus] :
                c \in ScopeCalls(s[1], s[2])} : s \in Scheduled(env)}

Remember(env) ==
    /\ hasRun' = hasRun \cup {<<s[1].name, s[2]>> : s \in Scheduled(env)}
    /\ memory' = [key \in DOMAIN memory |->
           LET runs == {s \in Scheduled(env) : <<s[1].name, s[2]>> = key}
           IN  IF runs = {} THEN memory[key] ELSE [x \in DOMAIN memory[key] |-> env[x]]]
    /\ inst' = [site \in Sites |->
           LET steps == {c \in Steps(env) : c.site = site}
           IN  IF steps = {} THEN inst[site] ELSE (CHOOSE c \in steps : TRUE).next]
-------------------------------------------------------------------------------
(* Machines.  A region carries the prefix its states' names are known by.  *)
Regions(st, prefix) ==
    LET sub == MachineByName[st.refines]
    IN  [i \in DOMAIN st.regions |->
            [initial |-> st.regions[i].initial, history |-> st.regions[i].history,
             states |-> st.regions[i].states, prefix |-> prefix]]
        \o IF st.refines = NoMachine THEN << >>
           ELSE << [initial |-> sub.initial, history |-> FALSE, states |-> sub.states,
                    prefix |-> prefix \o st.name] >>

TopRegion(sm) ==
    [initial |-> sm.initial, history |-> FALSE, states |-> sm.states, prefix |-> << >>]

Name(region, st) == region.prefix \o st.name

\* Every region with its key.
RECURSIVE AllRegions(_, _)
AllRegions(region, key) ==
    {<<key, region>>} \cup UNION {
        LET st == region.states[j]
            below == Regions(st, region.prefix)
        IN  UNION {AllRegions(below[i], Key(Name(region, st), i)) : i \in DOMAIN below} :
            j \in DOMAIN region.states}

Current(region, key) ==
    LET name == IF key \in running \/ region.history THEN resume[key]
                ELSE region.prefix \o region.initial
    IN  region.states[CHOOSE j \in DOMAIN region.states : Name(region, region.states[j]) = name]

(* The regions that run this cycle, each with its current state.           *)
RECURSIVE Configuration(_, _)
Configuration(region, key) ==
    LET st == Current(region, key)
        below == Regions(st, region.prefix)
    IN  {[key |-> key, region |-> region, state |-> st]}
            \cup UNION {Configuration(below[i], Key(Name(region, st), i)) : i \in DOMAIN below}

RECURSIVE Drives(_, _)
Drives(region, o) ==
    \A j \in DOMAIN region.states :
        LET below == Regions(region.states[j], region.prefix)
        IN  OwnEquations(region.states[j], o) # {} \/ \E i \in DOMAIN below : Drives(below[i], o)

(* A region that drives o in all its states goes before the equation of    *)
(* the state it is in.                                                     *)
RECURSIVE Driver(_, _, _)
Driver(region, key, o) ==
    LET st == Current(region, key)
        below == Regions(st, region.prefix)
        driving == {i \in DOMAIN below : Drives(below[i], o)}
    IN  IF driving # {}
        THEN Driver(below[Min(driving)], Key(Name(region, st), Min(driving)), o)
        ELSE {st.eqs[j].rhs : j \in OwnEquations(st, o)}

Run(sm, env) ==
    \A o \in sm.outputs :
        \E e \in Driver(TopRegion(sm), Top, o) : env[o] = Eval(e, Base, Present(env))

Destination(at, env) ==
    LET open == {t \in DOMAIN at.state.trans :
                    Eval(at.state.trans[t].guard, Base, Present(env)) = 1}
    IN  IF open = {} THEN Name(at.region, at.state)
        ELSE at.region.prefix \o at.state.trans[Min(open)].target

Move(env) ==
    LET now == UNION {Configuration(TopRegion(sm), Top) : sm \in Machines}
    IN  /\ running' = {at.key : at \in now}
        /\ resume' = [key \in DOMAIN resume |->
               IF \E at \in now : at.key = key
               THEN Destination(CHOOSE at \in now : at.key = key, env)
               ELSE resume[key]]
-------------------------------------------------------------------------------
RegionsOf == UNION {AllRegions(TopRegion(sm), Top) : sm \in Machines}

ConstructsInit ==
    /\ begun = FALSE /\ hasRun = {} /\ running = {}
    /\ memory = [key \in UNION {ScopeOf(act) : act \in Activations} |->
           LET act == CHOOSE act \in Activations : act.name = key[1]
           IN  [x \in ScopeReads(act, key[2]) |-> 0]]
    /\ resume = [key \in {r[1] : r \in RegionsOf} |->
           LET r == CHOOSE r \in RegionsOf : r[1] = key
           IN  r[2].prefix \o r[2].initial]
    /\ inst = [site \in Sites |-> 0]

Cycle ==
    /\ \A act \in Activations : Activate(act, val')
    /\ \A sm \in Machines : Run(sm, val')
    /\ Remember(val')
    /\ Move(val')
    /\ begun' = TRUE
    /\ UNCHANGED own

Promise ==
    ConstructsInit /\ [][Cycle]_<<own, val, begun, memory, hasRun, resume, running, inst>>
===============================================================================
