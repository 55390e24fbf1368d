-------------------------------- MODULE SimCycle --------------------------------
(***************************************************************************)
(* One cycle of the IR simulator, Sim::step_env of ol_sim: the environment *)
(* is seeded from the previous snapshot, the equations run one after the   *)
(* other in evaluation order, each reading the environment as it stands,   *)
(* and the snapshot and the tick counts are written at the end only.       *)
(***************************************************************************)
EXTENDS ClockedNode

VARIABLES
    prev,    \* State.prev: the snapshot of the last completed cycle
    ticked,  \* State.clock_ticks > 0 per chain; State.cycle > 0 for the base
    env,     \* the environment of the cycle being evaluated
    pos,     \* index into eq_order
    pc       \* "idle", "run" inside step_env, "failed" after an Err

simVars == <<prev, ticked, env, pos, pc>>

SimInit ==
    /\ prev = [x \in Signals |-> Zero]
    /\ ticked = [ck \in Chains |-> FALSE]
    /\ env = [x \in Signals |-> Zero]
    /\ pos = 1
    /\ pc = "idle"

(* Inputs from the row; outputs and locals seed from their previous value. *)
SimBegin(row) ==
    /\ pc = "idle"
    /\ env' = [x \in Signals |-> IF x \in Inputs THEN row[x] ELSE prev[x]]
    /\ pos' = 1
    /\ pc' = "run"
    /\ UNCHANGED <<prev, ticked>>

At == Order[pos]
Running == pc = "run" /\ pos <= Size
SimFirst(v) == [ck \in Sites[v] |-> ~ticked[ck]]

SimEquation ==
    /\ Running
    /\ Active(ClockOf[At], env)
    /\ ~Fails(At, [x \in Reads[At] |-> env[x]], SimFirst(At))
    /\ env' = [env EXCEPT ![At] = Rhs(At, env, prev, ticked)]
    /\ pos' = pos + 1
    /\ UNCHANGED <<prev, ticked, pc>>

(* if !clock_active(ck, &env)? { continue; }                               *)
SimSkip ==
    /\ Running
    /\ ~Active(ClockOf[At], env)
    /\ pos' = pos + 1
    /\ UNCHANGED <<prev, ticked, env, pc>>

(* An evaluation error leaves through `?`: nothing of the cycle is         *)
(* committed to this node's own state.                                     *)
SimFail ==
    /\ Running
    /\ Active(ClockOf[At], env)
    /\ Fails(At, [x \in Reads[At] |-> env[x]], SimFirst(At))
    /\ pc' = "failed"
    /\ UNCHANGED <<prev, ticked, env, pos>>

\* Mutant: every chain ticks every cycle.
SimCommitAllTick ==
    /\ pc = "run" /\ pos = Size + 1
    /\ prev' = env
    /\ ticked' = [ck \in Chains |-> TRUE]
    /\ pc' = "idle"
    /\ UNCHANGED <<env, pos>>

SimCommit ==
    /\ pc = "run" /\ pos = Size + 1
    /\ prev' = env
    /\ ticked' = Ticks(env, ticked)
    /\ pc' = "idle"
    /\ UNCHANGED <<env, pos>>

SimStep == SimEquation \/ SimSkip \/ SimFail \/ SimCommit
===============================================================================
