----------------------------- MODULE BackendsProofs -----------------------------
(***************************************************************************)
(* For every node whose clock variables are computed before the equations  *)
(* they gate (ClocksBeforeUse): the simulator and the generated C both     *)
(* implement the order-free meaning of the node, and agree on everything   *)
(* after every cycle.                                                      *)
(*                                                                         *)
(* The flattened program implements the order-free meaning of every node,  *)
(* those without ClocksBeforeUse included, because its order is one of a   *)
(* program in which the flag of a clock is read.  With ClocksBeforeUse the *)
(* traces of all three programs are the same.                              *)
(***************************************************************************)
EXTENDS Backends, Induction, SequenceTheorems

(* What is known of the environment while step_env runs.                   *)
SimInv ==
    pc = "run" =>
        /\ Row \in InputRows
        /\ \A k \in 1 .. pos - 1 : Settled(Order[k], env, prev, ticked)
        /\ \A k \in pos .. Size : env[Order[k]] = prev[Order[k]]

(* What the C state fields hold between and inside calls.                  *)
CInv ==
    /\ \A x \in PreVars : cPrev[x] = cTrace[x]
    /\ cPc = "idle" => \A v \in Clocked : cHeld[v] = cTrace[v]
    /\ cPc = "run" =>
        /\ [x \in Inputs |-> loc[x]] \in InputRows
        /\ \A k \in 1 .. cPos - 1 :
              /\ Settled(Order[k], loc, cTrace, cTicked)
              /\ Order[k] \in Clocked => cHeld[Order[k]] = loc[Order[k]]
        /\ \A k \in cPos .. Size :
              Order[k] \in Clocked => cHeld[Order[k]] = cTrace[Order[k]]

(* How the two relate: C starts a cycle where the simulator started it and *)
(* recomputes the values the simulator has already committed.              *)
Together ==
    /\ cPc = "idle" => pc = "idle" /\ prev = cTrace /\ ticked = cTicked
    /\ pc # "idle" => /\ cPc = "run" /\ cPos = 1
                      /\ prev = cTrace /\ ticked = cTicked
                      /\ \A x \in Inputs : loc[x] = env[x]
    /\ pc = "idle" /\ cPc = "run" =>
        /\ \A x \in Inputs : loc[x] = prev[x]
        /\ \A v \in Vars : Settled(v, prev, cTrace, cTicked)
        /\ ticked = Ticks(prev, cTicked)
        /\ \A k \in 1 .. cPos - 1 : loc[Order[k]] = prev[Order[k]]

Inv == SimTypeOK /\ CTypeOK /\ SimInv /\ CInv /\ Together
-------------------------------------------------------------------------------
(* Evaluation depends on nothing but what it reads.                        *)
LEMMA RhsAgree ==
    ASSUME NEW v \in Vars, NEW e, NEW f, NEW p, NEW q, NEW t,
           \A x \in Reads[v] : e[x] = f[x], \A x \in Pres[v] : p[x] = q[x]
    PROVE  Rhs(v, e, p, t) = Rhs(v, f, q, t)
<1>1. [x \in Reads[v] |-> e[x]] = [x \in Reads[v] |-> f[x]]
    OBVIOUS
<1>2. [x \in Pres[v] |-> p[x]] = [x \in Pres[v] |-> q[x]]
    OBVIOUS
<1> QED BY <1>1, <1>2 DEF Rhs

LEMMA ActiveAgree ==
    ASSUME NEW ck, NEW e, NEW f, \A x \in ClockSignals(ck) : e[x] = f[x]
    PROVE  Active(ck, e) <=> Active(ck, f)
<1>1. \A j \in DOMAIN ck : e[ck[j][1]] = f[ck[j][1]]
    BY DEF ClockSignals
<1> QED BY <1>1 DEF Active

LEMMA SettledAgree ==
    ASSUME NEW v \in Vars, NEW e, NEW f, NEW p, NEW t,
           \A x \in Reads[v] : e[x] = f[x],
           \A x \in ClockSignals(ClockOf[v]) : e[x] = f[x],
           e[v] = f[v]
    PROVE  Settled(v, e, p, t) <=> Settled(v, f, p, t)
<1>1. Rhs(v, e, p, t) = Rhs(v, f, p, t)
    BY RhsAgree
<1>2. Active(ClockOf[v], e) <=> Active(ClockOf[v], f)
    BY ActiveAgree
<1> QED BY <1>1, <1>2 DEF Settled

LEMMA RhsTyped ==
    ASSUME NEW v \in Vars, NEW e \in [Signals -> Val], NEW D, NEW p \in [D -> Val],
           Pres[v] \subseteq D, NEW t \in [Chains -> BOOLEAN]
    PROVE  Rhs(v, e, p, t) \in Val
<1>1. Reads[v] \subseteq Signals /\ Sites[v] \subseteq Chains
    BY NodeTyped
<1>2. [x \in Reads[v] |-> e[x]] \in [Reads[v] -> Val]
    BY <1>1
<1>3. [x \in Pres[v] |-> p[x]] \in [Pres[v] -> Val]
    OBVIOUS
<1>4. [ck \in Sites[v] |-> ~t[ck]] \in [Sites[v] -> BOOLEAN]
    BY <1>1
<1> QED BY <1>2, <1>3, <1>4, ApplyTyped DEF Rhs

(* An equation that is not active is clocked.                              *)
LEMMA InactiveIsClocked ==
    ASSUME NEW v \in Vars, NEW e, ~Active(ClockOf[v], e)
    PROVE  v \in Clocked
<1>1. Active(Base, e)
    BY DEF Active, Base
<1> QED BY <1>1 DEF Clocked

LEMMA OrderFacts ==
    /\ Size \in Nat
    /\ \A k \in 1 .. Size : Order[k] \in Vars /\ Order[k] \notin Inputs
    /\ Vars \subseteq Signals /\ Inputs \subseteq Signals
    /\ \A k \in 1 .. Size : \A x \in Earlier(k) : \E j \in 1 .. k - 1 : x = Order[j]
<1>1. Order \in Seq(Vars)
    BY OrderFromPasses
<1>2. Size \in Nat /\ \A k \in 1 .. Size : Order[k] \in Vars
    BY <1>1 DEF Size
<1> QED BY <1>2, NodeTyped DEF Signals, Earlier

(* What equations up to k read and what gates them is an input or an       *)
(* earlier equation, so it is not disturbed by assigning equation m > k.   *)
LEMMA NotDisturbed ==
    ASSUME ClocksBeforeUse, NEW k \in 1 .. Size, NEW m \in 1 .. Size, k < m
    PROVE  /\ Order[m] \notin Reads[Order[k]]
           /\ Order[m] \notin ClockSignals(ClockOf[Order[k]])
           /\ Order[m] # Order[k]
<1>1. Size \in Nat /\ Order[m] \notin Inputs
    BY OrderFacts
<1>2. \A j \in 1 .. k : Order[m] # Order[j]
    BY <1>1, OrderFromPasses
<1>3. Order[m] \notin Inputs \cup Earlier(k)
    BY <1>1, <1>2 DEF Earlier
<1> QED BY <1>2, <1>3, <1>1, OrderFromPasses DEF ClocksBeforeUse
-------------------------------------------------------------------------------
LEMMA InitInv == Init => Inv
<1> SUFFICES ASSUME Init PROVE Inv
    OBVIOUS
<1>1. Zero \in Val /\ Size \in Nat /\ PreVars \subseteq Signals /\ Vars \subseteq Signals
      /\ Clocked \subseteq Vars
    BY NodeTyped, OrderFacts DEF PreVars, Clocked
<1>2. SimTypeOK
    BY <1>1 DEF Init, SimInit, SimTypeOK
<1>3. CTypeOK
    BY <1>1 DEF Init, CInit, CTypeOK
<1>4. SimInv
    BY DEF Init, SimInit, SimInv
<1>5. CInv
    BY <1>1 DEF Init, CInit, CInv
<1>6. Together
    BY DEF Init, SimInit, CInit, Together
<1> QED BY <1>2, <1>3, <1>4, <1>5, <1>6 DEF Inv

LEMMA SimTypeStep ==
    ASSUME SimTypeOK, [Next]_vars
    PROVE  SimTypeOK'
<1>1. Size \in Nat /\ Vars \subseteq Signals /\ \A k \in 1 .. Size : Order[k] \in Vars
    BY OrderFacts
<1>2. CASE Begin
    <2>1. PICK row \in InputRows : SimBegin(row)
        BY <1>2 DEF Begin
    <2>2. row \in [Inputs -> Val]
        BY <2>1, NodeTyped
    <2>3. env' \in [Signals -> Val]
        BY <2>1, <2>2 DEF SimBegin, SimTypeOK
    <2> QED BY <1>1, <2>1, <2>3 DEF SimBegin, SimTypeOK
<1>3. CASE Simulate
    <2>1. CASE SimEquation
        <3>1. At \in Vars
            BY <1>1, <2>1 DEF SimEquation, Running, At, SimTypeOK
        <3>2. Rhs(At, env, prev, ticked) \in Val
            BY <3>1, RhsTyped, NodeTyped DEF SimTypeOK
        <3> QED BY <1>1, <2>1, <3>1, <3>2 DEF SimEquation, Running, SimTypeOK
    <2>2. CASE SimSkip
        BY <1>1, <2>2 DEF SimSkip, Running, SimTypeOK
    <2>3. CASE SimFail
        BY <2>3 DEF SimFail, SimTypeOK
    <2>4. CASE SimCommit
        <3>1. Ticks(env, ticked) \in [Chains -> BOOLEAN]
            BY DEF Ticks, Active, SimTypeOK
        <3> QED BY <2>4, <3>1 DEF SimCommit, SimTypeOK
    <2> QED BY <1>3, <2>1, <2>2, <2>3, <2>4 DEF Simulate, SimStep
<1>4. CASE UNCHANGED simVars
    BY <1>4 DEF simVars, SimTypeOK
<1> QED BY <1>2, <1>3, <1>4 DEF Next, RunC, RunFlat, vars

LEMMA CTypeStep ==
    ASSUME CTypeOK, [Next]_vars
    PROVE  CTypeOK'
<1>1. /\ Size \in Nat /\ \A k \in 1 .. Size : Order[k] \in Vars
      /\ PreVars \subseteq Signals /\ Vars \subseteq Signals /\ Clocked \subseteq Vars
    BY NodeTyped, OrderFacts DEF PreVars, Clocked
<1>2. CASE Begin
    <2>1. PICK row \in InputRows : CBegin(row)
        BY <1>2 DEF Begin
    <2>2. row \in [Inputs -> Val] /\ Zero \in Val
        BY <2>1, NodeTyped
    <2>3. loc' \in [Signals -> Val]
        BY <2>1, <2>2 DEF CBegin, CTypeOK
    <2> QED BY <1>1, <2>1, <2>3 DEF CBegin, CTypeOK
<1>3. CASE RunC
    <2>1. CASE CAssign
        <3>1. CAt \in Vars
            BY <1>1, <2>1 DEF CAssign, CRunning, CAt, CTypeOK
        <3>2. Rhs(CAt, loc, cPrev, cTicked) \in Val
            <4>1. Pres[CAt] \subseteq PreVars
                BY <3>1 DEF PreVars
            <4> QED BY <3>1, <4>1, RhsTyped DEF CTypeOK
        <3> QED BY <1>1, <2>1, <3>1, <3>2 DEF CAssign, CRunning, CTypeOK
    <2>2. CASE CHold
        <3>1. CAt \in Vars
            BY <1>1, <2>2 DEF CHold, CRunning, CAt, CTypeOK
        <3>2. cHeld[CAt] \in Val
            BY <2>2, <3>1, InactiveIsClocked DEF CHold, CTypeOK
        <3> QED BY <1>1, <2>2, <3>1, <3>2 DEF CHold, CRunning, CTypeOK
    <2>3. CASE CFinish
        <3>1. Ticks(loc, cTicked) \in [Chains -> BOOLEAN]
            BY DEF Ticks, Active, CTypeOK
        <3> QED BY <1>1, <2>3, <3>1 DEF CFinish, CTypeOK
    <2> QED BY <1>3, <2>1, <2>2, <2>3 DEF RunC, CStep
<1>4. CASE UNCHANGED cVars
    BY <1>4 DEF cVars, CTypeOK
<1> QED BY <1>2, <1>3, <1>4 DEF Next, Simulate, RunFlat, vars
-------------------------------------------------------------------------------
(* Evaluating one more equation keeps everything settled before it.        *)
LEMMA SimInvStep ==
    ASSUME ClocksBeforeUse, Inv, [Next]_vars
    PROVE  SimInv'
<1>1. /\ Size \in Nat /\ \A k \in 1 .. Size : Order[k] \in Vars /\ Order[k] \notin Inputs
      /\ Vars \subseteq Signals /\ Inputs \subseteq Signals
    BY OrderFacts
<1>2. CASE Begin
    <2>1. PICK row \in InputRows : SimBegin(row)
        BY <1>2 DEF Begin
    <2>2. row \in [Inputs -> Val]
        BY <2>1, NodeTyped
    <2>3. Row' = row
        BY <1>1, <2>1, <2>2 DEF SimBegin, Row
    <2>4. \A k \in pos' .. Size : env'[Order[k]] = prev'[Order[k]]
        BY <1>1, <2>1 DEF SimBegin
    <2> QED BY <2>1, <2>3, <2>4 DEF SimBegin, SimInv
<1>3. CASE SimEquation
    <2>1. /\ pc = "run" /\ pc' = "run" /\ pos \in 1 .. Size /\ At = Order[pos]
          /\ At \in Vars /\ At \notin Inputs /\ At \in Signals
          /\ pos' = pos + 1 /\ UNCHANGED <<prev, ticked>>
        BY <1>1, <1>3 DEF SimEquation, Running, At, Inv, SimTypeOK
    <2>2. /\ env \in [Signals -> Val]
          /\ env' = [env EXCEPT ![At] = Rhs(At, env, prev, ticked)]
        BY <1>3 DEF SimEquation, Inv, SimTypeOK
    <2>3. \A x : x # At => env'[x] = env[x]
        BY <2>2
    <2>4. Row' \in InputRows
        <3>1. Row' = Row
            BY <2>1, <2>3 DEF Row
        <3> QED BY <2>1, <3>1 DEF Inv, SimInv
    <2>5. Settled(At, env', prev, ticked)
        <3>1. At \notin Reads[At] /\ At \notin ClockSignals(ClockOf[At])
            <4>1. \A j \in 1 .. pos - 1 : Order[j] # Order[pos]
                BY <1>1, <2>1, OrderFromPasses
            <4>2. At \notin Inputs \cup Earlier(pos)
                BY <2>1, <4>1 DEF Earlier
            <4> QED BY <2>1, <4>2, OrderFromPasses DEF ClocksBeforeUse
        <3>2. env'[At] = Rhs(At, env, prev, ticked)
            BY <2>1, <2>2
        <3>3. Rhs(At, env, prev, ticked) = Rhs(At, env', prev, ticked)
            BY <2>1, <2>3, <3>1, RhsAgree
        <3>4. Active(ClockOf[At], env')
            <4>1. Active(ClockOf[At], env)
                BY <1>3 DEF SimEquation
            <4> QED BY <2>3, <3>1, <4>1, ActiveAgree
        <3> QED BY <3>2, <3>3, <3>4 DEF Settled
    <2>6. ASSUME NEW k \in 1 .. pos - 1
          PROVE  Settled(Order[k], env', prev, ticked)
        <3>1. k \in 1 .. Size /\ k < pos
            BY <1>1, <2>1
        <3>2. /\ At \notin Reads[Order[k]] /\ At # Order[k]
              /\ At \notin ClockSignals(ClockOf[Order[k]])
            BY <2>1, <3>1, NotDisturbed
        <3>3. Settled(Order[k], env, prev, ticked)
            BY <2>1 DEF Inv, SimInv
        <3> QED BY <1>1, <2>3, <3>1, <3>2, <3>3, SettledAgree
    <2>7. \A k \in pos' .. Size : env'[Order[k]] = prev'[Order[k]]
        <3>1. \A k \in pos + 1 .. Size : Order[k] # At
            BY <1>1, <2>1, OrderFromPasses
        <3> QED BY <1>1, <2>1, <2>3, <3>1 DEF Inv, SimInv
    <2>8. \A k \in 1 .. pos' - 1 : Settled(Order[k], env', prev', ticked')
        BY <1>1, <2>1, <2>5, <2>6
    <2> QED BY <2>4, <2>7, <2>8 DEF SimInv
<1>4. CASE SimSkip
    <2>1. /\ pc = "run" /\ pc' = "run" /\ pos \in 1 .. Size /\ At = Order[pos]
          /\ pos' = pos + 1 /\ UNCHANGED <<prev, ticked, env>>
        BY <1>1, <1>4 DEF SimSkip, Running, At, Inv, SimTypeOK
    <2>2. Settled(At, env, prev, ticked)
        <3>1. env[At] = prev[At]
            BY <2>1 DEF Inv, SimInv
        <3> QED BY <1>4, <3>1 DEF SimSkip, Settled
    <2>3. Row' = Row
        BY <2>1 DEF Row
    <2>4. \A k \in 1 .. pos' - 1 : Settled(Order[k], env', prev', ticked')
        BY <1>1, <2>1, <2>2 DEF Inv, SimInv
    <2> QED BY <1>1, <2>1, <2>3, <2>4 DEF Inv, SimInv
<1>5. CASE SimFail \/ SimCommit
    BY <1>5 DEF SimFail, SimCommit, SimInv
<1>6. CASE UNCHANGED simVars
    BY <1>6 DEF simVars, Inv, SimInv, Row
<1> QED BY <1>2, <1>3, <1>4, <1>5, <1>6
        DEF Next, Simulate, SimStep, RunC, RunFlat, vars
-------------------------------------------------------------------------------
LEMMA CInvStep ==
    ASSUME ClocksBeforeUse, Inv, [Next]_vars
    PROVE  CInv'
<1>1. /\ Size \in Nat /\ \A k \in 1 .. Size : Order[k] \in Vars /\ Order[k] \notin Inputs
      /\ Vars \subseteq Signals /\ Inputs \subseteq Signals
      /\ PreVars \subseteq Signals /\ Clocked \subseteq Vars
    BY OrderFacts, NodeTyped DEF PreVars, Clocked
<1>2. CASE Begin
    <2>1. PICK row \in InputRows : CBegin(row)
        BY <1>2 DEF Begin
    <2>2. row \in [Inputs -> Val]
        BY <2>1, NodeTyped
    <2>3. [x \in Inputs |-> loc'[x]] = row
        BY <1>1, <2>1, <2>2 DEF CBegin
    <2>4. \A k \in cPos' .. Size :
              Order[k] \in Clocked => cHeld'[Order[k]] = cTrace'[Order[k]]
        BY <2>1 DEF CBegin, Inv, CInv
    <2>5. cPos' = 1 /\ cPc' = "run" /\ UNCHANGED <<cPrev, cHeld, cTicked, cTrace>>
        BY <2>1 DEF CBegin
    <2> QED BY <2>1, <2>3, <2>4, <2>5 DEF Inv, CInv
<1>3. CASE CAssign \/ CHold
    <2>1. /\ cPc = "run" /\ cPc' = "run" /\ cPos \in 1 .. Size /\ CAt = Order[cPos]
          /\ CAt \in Vars /\ CAt \notin Inputs /\ CAt \in Signals
          /\ cPos' = cPos + 1 /\ UNCHANGED <<cPrev, cTicked, cTrace>>
        BY <1>1, <1>3 DEF CAssign, CHold, CRunning, CAt, Inv, CTypeOK
    <2>2. /\ \A x : x # CAt => loc'[x] = loc[x]
          /\ \A v \in Clocked \ {CAt} : cHeld'[v] = cHeld[v]
        <3>1. CASE CAssign
            <4>1. loc' = [loc EXCEPT ![CAt] = Rhs(CAt, loc, cPrev, cTicked)]
                BY <3>1 DEF CAssign
            <4>2. cHeld' = [v \in Clocked |-> IF v = CAt THEN Rhs(CAt, loc, cPrev, cTicked)
                                              ELSE cHeld[v]]
                BY <3>1 DEF CAssign
            <4>3. loc \in [Signals -> Val]
                BY DEF Inv, CTypeOK
            <4> QED BY <4>1, <4>2, <4>3
        <3>2. CASE CHold
            <4>1. loc' = [loc EXCEPT ![CAt] = cHeld[CAt]] /\ cHeld' = cHeld
                BY <3>2 DEF CHold
            <4>2. loc \in [Signals -> Val]
                BY DEF Inv, CTypeOK
            <4> QED BY <4>1, <4>2
        <3> QED BY <1>3, <3>1, <3>2
    <2>3. CAt \in Clocked => cHeld'[CAt] = loc'[CAt]
        BY <1>3, <2>1 DEF CAssign, CHold, Inv, CTypeOK
    <2>4. [x \in Inputs |-> loc'[x]] \in InputRows
        <3>1. [x \in Inputs |-> loc'[x]] = [x \in Inputs |-> loc[x]]
            BY <2>1, <2>2
        <3> QED BY <2>1, <3>1 DEF Inv, CInv
    <2>5. CAt \notin Reads[CAt] /\ CAt \notin ClockSignals(ClockOf[CAt])
        <3>1. \A j \in 1 .. cPos - 1 : Order[j] # Order[cPos]
            BY <1>1, <2>1, OrderFromPasses
        <3>2. CAt \notin Inputs \cup Earlier(cPos)
            BY <2>1, <3>1 DEF Earlier
        <3> QED BY <2>1, <3>2, OrderFromPasses DEF ClocksBeforeUse
    <2>6. Active(ClockOf[CAt], loc) <=> Active(ClockOf[CAt], loc')
        BY <2>2, <2>5, ActiveAgree
    <2>7. Settled(CAt, loc', cTrace, cTicked)
        <3>1. CASE CAssign
            <4>1. Active(ClockOf[CAt], loc) /\ loc'[CAt] = Rhs(CAt, loc, cPrev, cTicked)
                BY <2>1, <3>1 DEF CAssign, Inv, CTypeOK
            <4>2. \A x \in Pres[CAt] : cPrev[x] = cTrace[x]
                BY <2>1 DEF Inv, CInv, PreVars
            <4>3. Rhs(CAt, loc, cPrev, cTicked) = Rhs(CAt, loc', cTrace, cTicked)
                BY <2>1, <2>2, <2>5, <4>2, RhsAgree
            <4> QED BY <2>6, <4>1, <4>3 DEF Settled
        <3>2. CASE CHold
            <4>1. ~Active(ClockOf[CAt], loc) /\ loc'[CAt] = cHeld[CAt]
                BY <2>1, <3>2 DEF CHold, Inv, CTypeOK
            <4>2. cHeld[CAt] = cTrace[CAt]
                <5>1. CAt \in Clocked
                    BY <2>1, <4>1, InactiveIsClocked
                <5> QED BY <1>1, <2>1, <5>1 DEF Inv, CInv
            <4> QED BY <2>6, <4>1, <4>2 DEF Settled
        <3> QED BY <1>3, <3>1, <3>2
    <2>8. ASSUME NEW k \in 1 .. cPos - 1
          PROVE  /\ Settled(Order[k], loc', cTrace, cTicked)
                 /\ Order[k] \in Clocked => cHeld'[Order[k]] = loc'[Order[k]]
        <3>1. k \in 1 .. Size /\ k < cPos
            BY <1>1, <2>1
        <3>2. /\ CAt \notin Reads[Order[k]] /\ CAt # Order[k]
              /\ CAt \notin ClockSignals(ClockOf[Order[k]])
            BY <2>1, <3>1, NotDisturbed
        <3>3. /\ Settled(Order[k], loc, cTrace, cTicked)
              /\ Order[k] \in Clocked => cHeld[Order[k]] = loc[Order[k]]
            BY <2>1 DEF Inv, CInv
        <3>4. Settled(Order[k], loc', cTrace, cTicked)
            BY <1>1, <2>2, <3>1, <3>2, <3>3, SettledAgree
        <3> QED BY <2>2, <3>2, <3>3, <3>4
    <2>9. \A k \in cPos + 1 .. Size :
              Order[k] \in Clocked => cHeld'[Order[k]] = cTrace[Order[k]]
        <3>1. \A k \in cPos + 1 .. Size : Order[k] # CAt
            BY <1>1, <2>1, OrderFromPasses
        <3> QED BY <1>1, <2>1, <2>2, <3>1 DEF Inv, CInv
    <2>10. \A k \in 1 .. cPos' - 1 :
              /\ Settled(Order[k], loc', cTrace', cTicked')
              /\ Order[k] \in Clocked => cHeld'[Order[k]] = loc'[Order[k]]
        BY <1>1, <2>1, <2>3, <2>7, <2>8
    <2> QED BY <2>1, <2>4, <2>9, <2>10 DEF Inv, CInv
<1>4. CASE CFinish
    <2>1. /\ cPc = "run" /\ cPc' = "idle" /\ cPos = Size + 1 /\ cTrace' = loc
          /\ cHeld' = cHeld /\ cPrev' = [x \in PreVars |-> loc[x]]
        BY <1>4 DEF CFinish
    <2>2. \A v \in Clocked : cHeld[v] = loc[v]
        <3>1. ASSUME NEW v \in Clocked PROVE cHeld[v] = loc[v]
            <4>1. PICK k \in 1 .. Size : Order[k] = v
                BY <1>1, OrderFromPasses
            <4> QED BY <1>1, <2>1, <4>1 DEF Inv, CInv
        <3> QED BY <3>1
    <2> QED BY <2>1, <2>2 DEF CInv
<1>5. CASE UNCHANGED cVars
    BY <1>5 DEF cVars, Inv, CInv
<1> QED BY <1>2, <1>3, <1>4, <1>5 DEF Next, RunC, CStep, Simulate, RunFlat, vars

LEMMA AllSettled ==
    ASSUME NEW e, NEW p, NEW t, \A k \in 1 .. Size : Settled(Order[k], e, p, t)
    PROVE  \A v \in Vars : Settled(v, e, p, t)
<1>1. ASSUME NEW v \in Vars PROVE Settled(v, e, p, t)
    <2>1. PICK k \in 1 .. Size : Order[k] = v
        BY OrderFromPasses
    <2> QED BY <2>1
<1> QED BY <1>1
-------------------------------------------------------------------------------
(* The generated code recomputes what the simulator has committed.         *)
LEMMA TogetherStep ==
    ASSUME ClocksBeforeUse, Inv, [Next]_vars
    PROVE  Together'
<1>1. /\ Size \in Nat /\ \A k \in 1 .. Size : Order[k] \in Vars /\ Order[k] \notin Inputs
      /\ Vars \subseteq Signals /\ Inputs \subseteq Signals
    BY OrderFacts
<1>2. CASE Begin
    <2>1. PICK row \in InputRows : SimBegin(row) /\ CBegin(row)
        BY <1>2 DEF Begin
    <2>2. \A x \in Inputs : loc'[x] = env'[x]
        BY <1>1, <2>1 DEF SimBegin, CBegin
    <2> QED BY <2>1, <2>2 DEF SimBegin, CBegin, Inv, Together
<1>3. CASE SimEquation
    <2>1. At \in Vars /\ At \notin Inputs
        BY <1>1, <1>3 DEF SimEquation, Running, At, Inv, SimTypeOK
    <2>2. env \in [Signals -> Val] /\ env' = [env EXCEPT ![At] = Rhs(At, env, prev, ticked)]
        BY <1>3 DEF SimEquation, Inv, SimTypeOK
    <2>3. \A x \in Inputs : env'[x] = env[x]
        BY <1>1, <2>1, <2>2
    <2>4. pc = "run" /\ pc' = "run" /\ UNCHANGED <<prev, ticked, cVars>>
        BY <1>3 DEF SimEquation, Running, SimBegin, vars, Next, Begin, Simulate, RunC, RunFlat,
                    SimStep, simVars
    <2> QED BY <2>3, <2>4 DEF Inv, Together, cVars
<1>4. CASE SimSkip \/ SimFail
    <2>1. pc = "run" /\ pc' # "idle" /\ UNCHANGED <<prev, ticked, env, cVars>>
        BY <1>4 DEF SimSkip, SimFail, Running, SimBegin, vars, Next, Begin, Simulate, RunC,
                    RunFlat, SimStep, simVars
    <2> QED BY <2>1 DEF Inv, Together, cVars
<1>5. CASE SimCommit
    <2>1. /\ pc = "run" /\ pc' = "idle" /\ pos = Size + 1
          /\ prev' = env /\ ticked' = Ticks(env, ticked) /\ UNCHANGED cVars
        BY <1>5 DEF SimCommit, SimBegin, vars, Next, Begin, Simulate, RunC, RunFlat, simVars
    <2>2. /\ cPc = "run" /\ cPos = 1 /\ prev = cTrace /\ ticked = cTicked
          /\ \A x \in Inputs : loc[x] = env[x]
        BY <2>1 DEF Inv, Together
    <2>3. \A k \in 1 .. Size : Settled(Order[k], env, cTrace, cTicked)
        BY <1>1, <2>1, <2>2 DEF Inv, SimInv
    <2>4. \A v \in Vars : Settled(v, env, cTrace, cTicked)
        BY <2>3, AllSettled
    <2> QED BY <2>1, <2>2, <2>4 DEF Together, cVars
<1>6. CASE RunC /\ (CAssign \/ CHold)
    <2>1. /\ cPc = "run" /\ cPc' = "run" /\ cPos \in 1 .. Size /\ CAt = Order[cPos]
          /\ CAt \in Vars /\ CAt \notin Inputs
          /\ cPos' = cPos + 1 /\ pc = "idle" /\ UNCHANGED <<simVars, cTicked, cTrace>>
        BY <1>1, <1>6 DEF RunC, CAssign, CHold, CRunning, CAt, Inv, CTypeOK
    <2>2. \A x \in Signals \ {CAt} : loc'[x] = loc[x]
        BY <1>6 DEF CAssign, CHold, Inv, CTypeOK
    <2>3. Settled(CAt, loc', cTrace, cTicked)
        <3>1. CInv'
            BY CInvStep
        <3> QED BY <1>1, <2>1, <3>1 DEF CInv
    <2>4. /\ \A x \in Inputs : loc'[x] = prev[x]
          /\ \A k \in 1 .. cPos - 1 : loc'[Order[k]] = prev[Order[k]]
        <3>1. \A k \in 1 .. cPos - 1 : Order[k] \in Signals \ {CAt}
            BY <1>1, <2>1, OrderFromPasses
        <3> QED BY <1>1, <2>1, <2>2, <3>1 DEF Inv, Together
    <2>5. loc'[CAt] = prev[CAt]
        <3>1. \A x \in Inputs \cup Earlier(cPos) : loc'[x] = prev[x]
            BY <2>4 DEF Earlier
        <3>2. /\ \A x \in Reads[CAt] : loc'[x] = prev[x]
              /\ \A x \in ClockSignals(ClockOf[CAt]) : loc'[x] = prev[x]
            BY <2>1, <3>1, OrderFromPasses DEF ClocksBeforeUse
        <3>3. Rhs(CAt, loc', cTrace, cTicked) = Rhs(CAt, prev, cTrace, cTicked)
            BY <2>1, <3>2, RhsAgree
        <3>4. Active(ClockOf[CAt], loc') <=> Active(ClockOf[CAt], prev)
            BY <3>2, ActiveAgree
        <3>5. Settled(CAt, prev, cTrace, cTicked)
            BY <2>1 DEF Inv, Together
        <3> QED BY <2>3, <3>3, <3>4, <3>5 DEF Settled
    <2>6. \A k \in 1 .. cPos' - 1 : loc'[Order[k]] = prev[Order[k]]
        BY <1>1, <2>1, <2>4, <2>5
    <2> QED BY <2>1, <2>4, <2>6 DEF Inv, Together, simVars
<1>7. CASE RunC /\ CFinish
    <2>1. /\ cPc = "run" /\ cPc' = "idle" /\ cPos = Size + 1 /\ cTrace' = loc
          /\ pc = "idle" /\ UNCHANGED simVars /\ cTicked' = Ticks(loc, cTicked)
        BY <1>7 DEF RunC, CFinish
    <2>2. \A x \in Signals : loc[x] = prev[x]
        <3>1. \A x \in Inputs : loc[x] = prev[x]
            BY <2>1 DEF Inv, Together
        <3>2. ASSUME NEW x \in Vars PROVE loc[x] = prev[x]
            <4>1. PICK k \in 1 .. Size : Order[k] = x
                BY OrderFromPasses
            <4> QED BY <1>1, <2>1, <4>1 DEF Inv, Together
        <3> QED BY <3>1, <3>2 DEF Signals
    <2>3. loc = prev
        BY <2>2 DEF Inv, SimTypeOK, CTypeOK
    <2>4. ticked = Ticks(loc, cTicked)
        BY <2>1, <2>3 DEF Inv, Together
    <2> QED BY <2>1, <2>3, <2>4 DEF Together, simVars
<1>8. CASE UNCHANGED <<simVars, cVars>>
    BY <1>8 DEF simVars, cVars, Inv, Together
<1> QED BY <1>2, <1>3, <1>4, <1>5, <1>6, <1>7, <1>8
        DEF Next, Simulate, SimStep, RunC, CStep, RunFlat, vars
-------------------------------------------------------------------------------
(* The inductive invariant holds of every node with ClocksBeforeUse.       *)
THEOREM Invariance == ASSUME ClocksBeforeUse PROVE Spec => []Inv
<1>1. Init => Inv
    BY InitInv
<1>2. Inv /\ [Next]_vars => Inv'
    <2> SUFFICES ASSUME Inv, [Next]_vars PROVE Inv'
        OBVIOUS
    <2>1. SimTypeOK' /\ CTypeOK'
        BY SimTypeStep, CTypeStep DEF Inv
    <2>2. SimInv' /\ CInv' /\ Together'
        BY SimInvStep, CInvStep, TogetherStep
    <2> QED BY <2>1, <2>2 DEF Inv
<1> QED BY <1>1, <1>2, PTL DEF Spec

(* After every cycle the simulator and the C hold the same signals and the *)
(* same tick flags, for every node with ClocksBeforeUse.                   *)
THEOREM Agreement == ASSUME ClocksBeforeUse PROVE Spec => []SimAgreesWithC
<1>1. Inv => SimAgreesWithC
    BY DEF Inv, Together, SimAgreesWithC
<1> QED BY <1>1, Invariance, PTL

(* In particular the outputs the trace comparison reads.                   *)
THEOREM SameOutputs == ASSUME ClocksBeforeUse PROVE Spec => []OutputsAgree
<1>1. Inv => OutputsAgree
    BY DEF Inv, Together, OutputsAgree
<1> QED BY <1>1, Invariance, PTL

(* The operators of the instance are those of the node.                    *)
LEMMA SimMeaningOps ==
    /\ SimMeaning!Signals = Signals
    /\ \A v, e, p, t : SimMeaning!Settled(v, e, p, t) <=> Settled(v, e, p, t)
    /\ \A e, t : SimMeaning!Ticks(e, t) = Ticks(e, t)
<1>1. SimMeaning!Signals = Signals
    BY DEF SimMeaning!Signals, Signals
<1>2. \A ck, e : SimMeaning!Active(ck, e) <=> Active(ck, e)
    BY DEF SimMeaning!Active, Active
<1>3. \A v, e, p, t : SimMeaning!Rhs(v, e, p, t) = Rhs(v, e, p, t)
    BY DEF SimMeaning!Rhs, Rhs
<1>4. \A v, e, p, t : SimMeaning!Settled(v, e, p, t) <=> Settled(v, e, p, t)
    BY <1>2, <1>3 DEF SimMeaning!Settled, Settled
<1>5. \A e, t : SimMeaning!Ticks(e, t) = Ticks(e, t)
    BY <1>2 DEF SimMeaning!Ticks, Ticks
<1> QED BY <1>1, <1>4, <1>5

(* Sim::step_env computes the order-free meaning of the node.              *)
THEOREM SimulatorIsCorrect == ASSUME ClocksBeforeUse PROVE Spec => SimImplements
<1>1. Init => SimMeaning!Init
    BY DEF Init, SimInit, SimMeaning!Init, SimMeaning!Signals, Signals
<1>2. Inv /\ [Next]_vars => [SimMeaning!Cycle]_<<prev, ticked>>
    <2> SUFFICES ASSUME Inv, [Next]_vars
                 PROVE  [SimMeaning!Cycle]_<<prev, ticked>>
        OBVIOUS
    <2>1. CASE SimCommit
        <3>1. /\ pc = "run" /\ pos = Size + 1 /\ prev' = env
              /\ ticked' = Ticks(env, ticked)
            BY <2>1 DEF SimCommit
        <3>2. \A v \in Vars : Settled(v, env, prev, ticked)
            <4>1. \A k \in 1 .. Size : Settled(Order[k], env, prev, ticked)
                BY <3>1, OrderFacts DEF Inv, SimInv
            <4> QED BY <4>1, AllSettled
        <3>3. Row \in InputRows /\ \A x \in Inputs : env[x] = Row[x]
            BY <3>1 DEF Inv, SimInv, Row
        <3>4. env \in [Signals -> Val]
            BY DEF Inv, SimTypeOK
        <3>5. SimMeaning!Cycle
            BY <3>1, <3>2, <3>3, <3>4, SimMeaningOps DEF SimMeaning!Cycle
        <3> QED BY <3>5
    <2>2. CASE ~SimCommit
        BY <2>2 DEF Next, Begin, SimBegin, Simulate, SimStep, SimEquation, SimSkip, SimFail,
                    RunC, RunFlat, simVars, vars
    <2> QED BY <2>1, <2>2
<1>3. Spec => []Inv
    BY Invariance
<1> QED BY <1>1, <1>2, <1>3, PTL DEF Spec, SimImplements, SimMeaning!Spec

(* The operators of the instance are those of the node.                    *)
LEMMA CMeaningOps ==
    /\ CMeaning!Signals = Signals
    /\ \A v, e, p, t : CMeaning!Settled(v, e, p, t) <=> Settled(v, e, p, t)
    /\ \A e, t : CMeaning!Ticks(e, t) = Ticks(e, t)
<1>1. CMeaning!Signals = Signals
    BY DEF CMeaning!Signals, Signals
<1>2. \A ck, e : CMeaning!Active(ck, e) <=> Active(ck, e)
    BY DEF CMeaning!Active, Active
<1>3. \A v, e, p, t : CMeaning!Rhs(v, e, p, t) = Rhs(v, e, p, t)
    BY DEF CMeaning!Rhs, Rhs
<1>4. \A v, e, p, t : CMeaning!Settled(v, e, p, t) <=> Settled(v, e, p, t)
    BY <1>2, <1>3 DEF CMeaning!Settled, Settled
<1>5. \A e, t : CMeaning!Ticks(e, t) = Ticks(e, t)
    BY <1>2 DEF CMeaning!Ticks, Ticks
<1> QED BY <1>1, <1>4, <1>5

(* So does the generated step function.                                    *)
THEOREM GeneratedCIsCorrect == ASSUME ClocksBeforeUse PROVE Spec => CImplements
<1>1. Init => CMeaning!Init
    BY DEF Init, CInit, CMeaning!Init, CMeaning!Signals, Signals
<1>2. Inv /\ [Next]_vars => [CMeaning!Cycle]_<<cTrace, cTicked>>
    <2> SUFFICES ASSUME Inv, [Next]_vars
                 PROVE  [CMeaning!Cycle]_<<cTrace, cTicked>>
        OBVIOUS
    <2>1. CASE CFinish
        <3>1. /\ cPc = "run" /\ cPos = Size + 1 /\ cTrace' = loc
              /\ cTicked' = Ticks(loc, cTicked)
            BY <2>1 DEF CFinish
        <3>2. \A v \in Vars : Settled(v, loc, cTrace, cTicked)
            <4>1. \A k \in 1 .. Size : Settled(Order[k], loc, cTrace, cTicked)
                BY <3>1, OrderFacts DEF Inv, CInv
            <4> QED BY <4>1, AllSettled
        <3>3. PICK row \in InputRows : \A x \in Inputs : loc[x] = row[x]
            BY <3>1 DEF Inv, CInv
        <3>4. loc \in [Signals -> Val]
            BY DEF Inv, CTypeOK
        <3>5. CMeaning!Cycle
            BY <3>1, <3>2, <3>3, <3>4, CMeaningOps DEF CMeaning!Cycle
        <3> QED BY <3>5
    <2>2. CASE ~CFinish
        BY <2>2 DEF Next, Begin, CBegin, Simulate, CStep, CAssign, CHold, RunC, RunFlat,
                    cVars, vars
    <2> QED BY <2>1, <2>2
<1>3. Spec => []Inv
    BY Invariance
<1> QED BY <1>1, <1>2, <1>3, PTL DEF Spec, CImplements, CMeaning!Spec
-------------------------------------------------------------------------------
FlatEarlier(k) == {FlatOrder[j] : j \in 1 .. k - 1}

(* Before its first cycle the flattened program is as DInit left it.       *)
Unbegun ==
    ~begun => /\ dVal = [x \in Signals |-> Zero]
              /\ \A ck \in FlagClocks : ~act[ck]
              /\ \A ck \in FirstClocks : fst[ck]

(* The cycle it owes is one of an offered row.                             *)
RowOffered == flat = "due" => Row \in InputRows

FlatInv == FlatTypeOK /\ Unbegun /\ RowOffered
-------------------------------------------------------------------------------
(* A clock with a flag is a condition under its parent, which is the base  *)
(* or has a flag too.                                                      *)
LEMMA FlagClockFacts ==
    ASSUME NEW ck \in FlagClocks
    PROVE  /\ ck \in Seq(Signals \X Val) /\ Len(ck) \in Nat \ {0}
           /\ Parent(ck) \in Seq(Signals \X Val)
           /\ Len(Parent(ck)) = Len(ck) - 1
           /\ \A j \in 1 .. Len(ck) - 1 : Parent(ck)[j] = ck[j]
           /\ Parent(ck) = Base \/ Parent(ck) \in FlagClocks
<1> DEFINE Conditions == Signals \X Val
<1> HIDE DEF Conditions
<1>1. PICK c \in UsedClocks : \E n \in 1 .. Len(c) : ck = SubSeq(c, 1, n)
    BY DEF FlagClocks
<1>0. PICK n \in 1 .. Len(c) : ck = SubSeq(c, 1, n)
    BY <1>1
<1>2. c \in Seq(Conditions)
    BY NodeTyped DEF UsedClocks, Conditions
<1>3. Len(c) \in Nat /\ \A i \in 1 .. Len(c) : c[i] \in Conditions
    BY <1>2
<1>4. n \in Int /\ 1 <= n /\ n <= Len(c) /\ \A i \in 1 .. n : c[i] \in Conditions
    BY <1>3
<1>5. ck \in Seq(Conditions) /\ Len(ck) = n /\ \A i \in 1 .. n : ck[i] = c[i]
    <2>1. /\ SubSeq(c, 1, n) \in Seq(Conditions)
          /\ Len(SubSeq(c, 1, n)) = IF 1 <= n THEN n - 1 + 1 ELSE 0
          /\ \A i \in 1 .. n - 1 + 1 : SubSeq(c, 1, n)[i] = c[1 + i - 1]
        BY <1>4, SubSeqProperties
    <2>2. n - 1 + 1 = n /\ \A i \in 1 .. n : 1 + i - 1 = i
        BY <1>4
    <2> QED BY <1>0, <1>4, <2>1, <2>2
<1>6. /\ Parent(ck) \in Seq(Conditions) /\ Len(Parent(ck)) = n - 1
      /\ \A i \in 1 .. n - 1 : Parent(ck)[i] = ck[i]
    <2>1. n - 1 \in Int /\ \A i \in 1 .. n - 1 : ck[i] \in Conditions
        BY <1>4, <1>5
    <2>2. /\ SubSeq(ck, 1, n - 1) \in Seq(Conditions)
          /\ Len(SubSeq(ck, 1, n - 1)) = IF 1 <= n - 1 THEN n - 1 - 1 + 1 ELSE 0
          /\ \A i \in 1 .. n - 1 - 1 + 1 : SubSeq(ck, 1, n - 1)[i] = ck[1 + i - 1]
        BY <2>1, SubSeqProperties
    <2>3. n - 1 - 1 + 1 = n - 1 /\ (1 <= n - 1 \/ n - 1 = 0) /\ \A i \in 1 .. n - 1 : 1 + i - 1 = i
        BY <1>4
    <2> QED BY <1>5, <2>2, <2>3 DEF Parent
<1>7. Parent(ck) = Base \/ Parent(ck) \in FlagClocks
    <2>1. CASE n = 1
        <3>1. Len(Parent(ck)) = 0
            BY <1>6, <2>1
        <3> QED BY <1>6, <3>1, EmptySeq DEF Base
    <2>2. CASE n # 1
        <3>1. n - 1 \in 1 .. Len(c)
            BY <1>3, <1>4, <2>2
        <3>2. /\ SubSeq(c, 1, n - 1) \in Seq(Conditions)
              /\ Len(SubSeq(c, 1, n - 1)) = n - 1
              /\ \A i \in 1 .. n - 1 : SubSeq(c, 1, n - 1)[i] = c[i]
            <4>1. n - 1 \in Int /\ \A i \in 1 .. n - 1 : c[i] \in Conditions
                BY <1>4
            <4>2. /\ SubSeq(c, 1, n - 1) \in Seq(Conditions)
                  /\ Len(SubSeq(c, 1, n - 1)) = IF 1 <= n - 1 THEN n - 1 - 1 + 1 ELSE 0
                  /\ \A i \in 1 .. n - 1 - 1 + 1 : SubSeq(c, 1, n - 1)[i] = c[1 + i - 1]
                BY <4>1, SubSeqProperties
            <4>3. n - 1 - 1 + 1 = n - 1 /\ 1 <= n - 1 /\ \A i \in 1 .. n - 1 : 1 + i - 1 = i
                BY <1>4, <2>2
            <4> QED BY <4>2, <4>3
        <3>3. SubSeq(c, 1, n - 1) = Parent(ck)
            <4>1. \A i \in 1 .. n - 1 : SubSeq(c, 1, n - 1)[i] = Parent(ck)[i]
                BY <1>4, <1>5, <1>6, <3>2
            <4> QED BY <1>6, <3>2, <4>1, SeqEqual
        <3> QED BY <3>1, <3>3 DEF FlagClocks
    <2> QED BY <2>1, <2>2
<1> QED BY <1>4, <1>5, <1>6, <1>7 DEF Conditions

(* Every clock used is the base or has a flag.                             *)
LEMMA UsedClocksHaveFlags ==
    ASSUME NEW ck \in UsedClocks, ck # Base
    PROVE  ck \in FlagClocks
<1> DEFINE Conditions == Signals \X Val
<1> HIDE DEF Conditions
<1>1. ck \in Seq(Conditions)
    BY NodeTyped DEF UsedClocks, Conditions
<1>2. Len(ck) \in Nat /\ Len(ck) # 0
    BY <1>1, EmptySeq DEF Base
<1>3. SubSeq(ck, 1, Len(ck)) = ck
    BY <1>1, SubSeqFull
<1>4. Len(ck) \in 1 .. Len(ck)
    BY <1>2
<1>5. ck \in {SubSeq(ck, 1, n) : n \in 1 .. Len(ck)}
    BY <1>3, <1>4
<1> QED BY <1>5 DEF FlagClocks

(* A chain holds when its last condition does and the parent chain holds.  *)
LEMMA ActiveByParent ==
    ASSUME NEW ck \in FlagClocks, NEW e
    PROVE  Active(ck, e) <=> /\ e[ck[Len(ck)][1]] = ck[Len(ck)][2]
                             /\ Parent(ck) = Base \/ Active(Parent(ck), e)
<1> DEFINE Holds(j) == e[ck[j][1]] = ck[j][2]
<1>1. /\ Len(ck) \in Nat \ {0} /\ DOMAIN ck = 1 .. Len(ck)
      /\ DOMAIN Parent(ck) = 1 .. Len(ck) - 1
      /\ \A j \in 1 .. Len(ck) - 1 : Parent(ck)[j] = ck[j]
    BY FlagClockFacts
<1>2. Active(ck, e) <=> \A j \in 1 .. Len(ck) : Holds(j)
    BY <1>1 DEF Active
<1>3. Active(Parent(ck), e) <=> \A j \in 1 .. Len(ck) - 1 : Holds(j)
    BY <1>1 DEF Active
<1>4. Parent(ck) = Base => Active(Parent(ck), e)
    BY DEF Active, Base
<1>5. \A n \in Nat \ {0} : \A j \in 1 .. n : j = n \/ j \in 1 .. n - 1
    OBVIOUS
<1>6. Len(ck) \in 1 .. Len(ck) /\ \A j \in 1 .. Len(ck) - 1 : j \in 1 .. Len(ck)
    BY <1>1
<1> HIDE DEF Holds
<1>7. (\A j \in 1 .. Len(ck) : Holds(j))
          <=> (Holds(Len(ck)) /\ \A j \in 1 .. Len(ck) - 1 : Holds(j))
    BY <1>1, <1>5, <1>6
<1>8. Active(ck, e) <=> Holds(Len(ck)) /\ (Parent(ck) = Base \/ Active(Parent(ck), e))
    BY <1>2, <1>3, <1>4, <1>7
<1> QED BY <1>8 DEF Holds

(* The flags are what they stand for.                                      *)
LEMMA FlagsAreActive ==
    ASSUME NEW e
    PROVE  /\ ActFlags(e) \in [FlagClocks -> BOOLEAN]
           /\ \A ck \in FlagClocks : ActFlags(e)[ck] <=> Active(ck, e)
<1> DEFINE a[ck \in FlagClocks] ==
               /\ e[ck[Len(ck)][1]] = ck[Len(ck)][2]
               /\ Parent(ck) = Base \/ a[Parent(ck)]
           Defines(f) == f = [ck \in FlagClocks |->
               /\ e[ck[Len(ck)][1]] = ck[Len(ck)][2]
               /\ Parent(ck) = Base \/ f[Parent(ck)]]
<1>1. \E f : Defines(f)
    <2> DEFINE f == [ck \in FlagClocks |-> Active(ck, e)]
    <2>1. ASSUME NEW ck \in FlagClocks
          PROVE  f[ck] = (/\ e[ck[Len(ck)][1]] = ck[Len(ck)][2]
                          /\ Parent(ck) = Base \/ f[Parent(ck)])
        <3>1. Parent(ck) # Base => f[Parent(ck)] = Active(Parent(ck), e)
            BY FlagClockFacts
        <3>2. f[ck] = Active(ck, e)
            OBVIOUS
        <3>3. Active(ck, e) \in BOOLEAN /\ Active(Parent(ck), e) \in BOOLEAN
            BY DEF Active
        <3> HIDE DEF f
        <3> QED BY <3>1, <3>2, <3>3, ActiveByParent
    <2>2. Defines(f)
        BY <2>1
    <2> HIDE DEF Defines
    <2> QED BY <2>2
<1>2. Defines(a)
    BY <1>1
<1>3. a = ActFlags(e)
    BY DEF ActFlags
<1> HIDE DEF a
<1>4. a \in [FlagClocks -> BOOLEAN]
    BY <1>2
<1>5. ASSUME NEW ck \in FlagClocks
      PROVE  a[ck] <=> /\ e[ck[Len(ck)][1]] = ck[Len(ck)][2]
                       /\ Parent(ck) = Base \/ a[Parent(ck)]
    BY <1>2
<1> HIDE DEF Defines
<1> DEFINE Wrong == {Len(ck) : ck \in {c \in FlagClocks : ~(a[c] <=> Active(c, e))}}
<1>6. Wrong = {}
    <2> SUFFICES ASSUME Wrong # {} PROVE FALSE
        OBVIOUS
    <2>1. Wrong \subseteq Nat
        BY FlagClockFacts
    <2>2. PICK n \in Wrong : \A m \in Wrong : n <= m
        <3> HIDE DEF Wrong
        <3> QED BY <2>1, LeastElement
    <2>3. PICK ck \in FlagClocks : n = Len(ck) /\ ~(a[ck] <=> Active(ck, e))
        OBVIOUS
    <2>4. Len(ck) \in Nat \ {0} /\ Len(Parent(ck)) = Len(ck) - 1
          /\ (Parent(ck) = Base \/ Parent(ck) \in FlagClocks)
        BY FlagClockFacts
    <2>5. Parent(ck) # Base /\ ~(a[Parent(ck)] <=> Active(Parent(ck), e))
        BY <1>5, <2>3, ActiveByParent
    <2>6. Len(Parent(ck)) \in Wrong
        BY <2>4, <2>5
    <2>7. n <= Len(Parent(ck))
        BY <2>2, <2>6
    <2> QED BY <2>3, <2>4, <2>7
<1>7. \A ck \in FlagClocks : a[ck] <=> Active(ck, e)
    BY <1>6
<1> QED BY <1>3, <1>4, <1>7
-------------------------------------------------------------------------------
LEMMA FlatOrderFacts ==
    /\ FlatSize \in Nat
    /\ \A k \in 1 .. FlatSize : FlatOrder[k] \in Vars /\ FlatOrder[k] \notin Inputs
    /\ Vars \subseteq Signals /\ Inputs \subseteq Signals
<1>1. FlatOrder \in Seq(Vars)
    BY FlatOrderFromPasses
<1>2. FlatSize \in Nat /\ \A k \in 1 .. FlatSize : FlatOrder[k] \in Vars
    BY <1>1 DEF FlatSize
<1> QED BY <1>2, NodeTyped DEF Signals

(* An equation of the flattened program computes what its clock says,      *)
(* from the values and the ticks of the cycles before.                     *)
LEMMA FlatRhsMeans ==
    ASSUME FlatTypeOK, Unbegun, NEW v \in Vars, NEW e
    PROVE  FlatRhs(v, e) = IF Active(ClockOf[v], e) THEN Rhs(v, e, dVal, FlatTicked)
                           ELSE dVal[v]
<1>1. Sites[v] \subseteq Chains /\ v \in Signals
    BY NodeTyped DEF Signals
<1>2. ASSUME NEW ck \in Chains, ck # Base
      PROVE  ck \in FirstClocks /\ ck \in FlagClocks
    BY <1>2, UsedClocksHaveFlags DEF FirstClocks, UsedClocks
<1>3. ASSUME NEW ck \in Chains
      PROVE  (IF ck = Base THEN ~begun ELSE FirstFlags[ck]) = ~FlatTicked[ck]
    <2>1. CASE ck = Base
        BY <2>1 DEF FlatTicked
    <2>2. CASE ck # Base
        <3>1. FlatTicked[ck] = (~fst[ck] \/ act[ck])
            BY <2>2 DEF FlatTicked
        <3>2. FirstFlags[ck] = (~begun \/ (fst[ck] /\ ~act[ck]))
            BY <1>2, <2>2 DEF FirstFlags
        <3>3. fst[ck] \in BOOLEAN /\ act[ck] \in BOOLEAN /\ begun \in BOOLEAN
            BY <1>2, <2>2 DEF FlatTypeOK
        <3>4. ~begun => fst[ck] /\ ~act[ck]
            BY <1>2, <2>2 DEF Unbegun
        <3> QED BY <2>2, <3>1, <3>2, <3>3, <3>4
    <2> QED BY <2>1, <2>2
<1>4. [ck \in Sites[v] |-> IF ck = Base THEN ~begun ELSE FirstFlags[ck]]
          = [ck \in Sites[v] |-> ~FlatTicked[ck]]
    BY <1>1, <1>3
<1>5. ClockOf[v] = Base \/ ActFlags(e)[ClockOf[v]] <=> Active(ClockOf[v], e)
    <2>1. CASE ClockOf[v] = Base
        BY <2>1 DEF Active, Base
    <2>2. CASE ClockOf[v] # Base
        <3>1. ClockOf[v] \in FlagClocks
            BY <2>2, UsedClocksHaveFlags DEF UsedClocks
        <3> QED BY <2>2, <3>1, FlagsAreActive
    <2> QED BY <2>1, <2>2
<1>6. (IF begun THEN dVal[v] ELSE Zero) = dVal[v]
    BY <1>1 DEF Unbegun
<1> QED BY <1>4, <1>5, <1>6 DEF FlatRhs, Rhs

(* What equations up to k read and what gates them is not disturbed by a   *)
(* later equation m: the flattened order knows the clocks.                 *)
LEMMA FlatNotDisturbed ==
    ASSUME NEW k \in 1 .. FlatSize, NEW m \in 1 .. FlatSize, k < m
    PROVE  /\ FlatOrder[m] \notin Reads[FlatOrder[k]]
           /\ FlatOrder[m] \notin ClockSignals(ClockOf[FlatOrder[k]])
           /\ FlatOrder[m] # FlatOrder[k]
<1>1. FlatSize \in Nat /\ FlatOrder[m] \notin Inputs
    BY FlatOrderFacts
<1>2. \A j \in 1 .. k : FlatOrder[m] # FlatOrder[j]
    BY <1>1, FlatOrderFromPasses
<1>3. FlatOrder[m] \notin Inputs \cup {FlatOrder[j] : j \in 1 .. k - 1}
    BY <1>1, <1>2
<1>4. Reads[FlatOrder[k]] \cup ClockSignals(ClockOf[FlatOrder[k]])
          \subseteq Inputs \cup {FlatOrder[j] : j \in 1 .. k - 1}
    BY FlatOrderFromPasses
<1> QED BY <1>1, <1>2, <1>3, <1>4

(* What an equation reads itself is not itself.                            *)
LEMMA FlatReadsOthers ==
    ASSUME NEW k \in 1 .. FlatSize
    PROVE  /\ FlatOrder[k] \notin Reads[FlatOrder[k]]
           /\ FlatOrder[k] \notin ClockSignals(ClockOf[FlatOrder[k]])
<1>1. FlatSize \in Nat /\ FlatOrder[k] \notin Inputs
    BY FlatOrderFacts
<1>2. \A j \in 1 .. k - 1 : FlatOrder[k] # FlatOrder[j]
    BY <1>1, FlatOrderFromPasses
<1>3. Reads[FlatOrder[k]] \cup ClockSignals(ClockOf[FlatOrder[k]])
          \subseteq Inputs \cup {FlatOrder[j] : j \in 1 .. k - 1}
    BY FlatOrderFromPasses
<1> QED BY <1>1, <1>2, <1>3

(* An instant of the flattened program gives every variable the value its  *)
(* equation asks for.                                                      *)
LEMMA FlatEvalSettles ==
    ASSUME FlatTypeOK, Unbegun, NEW row \in [Inputs -> Val]
    PROVE  /\ FlatEval(row) \in [Signals -> Val]
           /\ \A x \in Inputs : FlatEval(row)[x] = row[x]
           /\ \A v \in Vars : Settled(v, FlatEval(row), dVal, FlatTicked)
<1> DEFINE Envs == [Signals -> Val]
           start == [x \in Signals |-> IF x \in Inputs THEN row[x] ELSE Zero]
           Step(k, e) == [e EXCEPT ![FlatOrder[k]] = FlatRhs(FlatOrder[k], e)]
           upTo[k \in 0 .. FlatSize] == IF k = 0 THEN start ELSE Step(k, upTo[k - 1])
           Defines(f) ==
               f = [k \in 0 .. FlatSize |-> IF k = 0 THEN start ELSE Step(k, f[k - 1])]
<1>1. /\ FlatSize \in Nat /\ Vars \subseteq Signals /\ Inputs \subseteq Signals
      /\ \A k \in 1 .. FlatSize : FlatOrder[k] \in Vars /\ FlatOrder[k] \notin Inputs
    BY FlatOrderFacts
<1>2. FlatTicked \in [Chains -> BOOLEAN]
    BY DEF FlatTicked, FlatTypeOK
<1>3. ASSUME NEW k \in 1 .. FlatSize, NEW e \in Envs
      PROVE  Step(k, e) \in Envs
    <2>1. FlatOrder[k] \in Vars
        BY <1>1
    <2>2. Rhs(FlatOrder[k], e, dVal, FlatTicked) \in Val
        <3>1. dVal \in [Signals -> Val] /\ Pres[FlatOrder[k]] \subseteq Signals
            BY <2>1, NodeTyped DEF FlatTypeOK
        <3> QED BY <1>2, <2>1, <3>1, RhsTyped
    <2>3. FlatRhs(FlatOrder[k], e) \in Val
        BY <1>1, <2>1, <2>2, FlatRhsMeans DEF FlatTypeOK
    <2> QED BY <2>3
<1>4. start \in Envs
    BY NodeTyped
<1>5. \E f : Defines(f)
    <2> DEFINE step == [k \in 1 .. FlatSize |-> [e \in Envs |-> Step(k, e)]]
    <2>1. step \in [1 .. FlatSize -> [Envs -> Envs]]
        <3> HIDE DEF Step, Envs
        <3> QED BY <1>3
    <2>2. PICK f \in [0 .. FlatSize -> Envs] :
              f[0] = start /\ \A k \in 1 .. FlatSize : f[k] = step[k][f[k - 1]]
        <3> HIDE DEF step, Envs, start
        <3>1. PICK f : Iterates(f, FlatSize, Envs, start, step)
            BY <1>1, <1>4, <2>1, Recursion
        <3> QED BY <3>1 DEF Iterates
    <2>3. ASSUME NEW k \in 0 .. FlatSize
          PROVE  f[k] = IF k = 0 THEN start ELSE Step(k, f[k - 1])
        <3>1. CASE k = 0
            BY <2>2, <3>1
        <3>2. CASE k # 0
            <4>1. k \in 1 .. FlatSize /\ k - 1 \in 0 .. FlatSize
                BY <1>1, <3>2
            <4>2. f[k - 1] \in Envs
                BY <2>2, <4>1
            <4>3. step[k][f[k - 1]] = Step(k, f[k - 1])
                <5> HIDE DEF Step, Envs
                <5> QED BY <4>1, <4>2
            <4> QED BY <2>2, <3>2, <4>1, <4>3
        <3> QED BY <3>1, <3>2
    <2>4. Defines(f)
        <3> HIDE DEF Step, start
        <3> QED BY <2>2, <2>3
    <2> HIDE DEF Defines
    <2> QED BY <2>4
<1>6. Defines(upTo)
    <2> HIDE DEF Step, start
    <2> QED BY <1>5
<1>7. upTo[FlatSize] = FlatEval(row)
    BY DEF FlatEval
<1> HIDE DEF upTo
<1>8. /\ upTo[0] = start
      /\ \A k \in 1 .. FlatSize : upTo[k] = Step(k, upTo[k - 1])
    <2> HIDE DEF Step, start
    <2>1. \A k \in 0 .. FlatSize : upTo[k] = IF k = 0 THEN start ELSE Step(k, upTo[k - 1])
        BY <1>6
    <2>2. 0 \in 0 .. FlatSize /\ \A k \in 1 .. FlatSize : k \in 0 .. FlatSize /\ k # 0
        BY <1>1
    <2> QED BY <2>1, <2>2
<1> HIDE DEF Defines
<1> DEFINE Good(k) ==
               /\ upTo[k] \in Envs
               /\ \A x \in Inputs : upTo[k][x] = row[x]
               /\ \A j \in 1 .. k : Settled(FlatOrder[j], upTo[k], dVal, FlatTicked)
           S == {k \in 0 .. FlatSize : Good(k)}
<1>9. 0 \in S
    BY <1>1, <1>4, <1>8
<1>10. ASSUME NEW k \in 1 .. FlatSize, k - 1 \in S PROVE k \in S
    <2> DEFINE e == upTo[k - 1]
               f == upTo[k]
               v == FlatOrder[k]
    <2>1. e \in Envs /\ f = Step(k, e)
        BY <1>8, <1>10
    <2>2. f \in Envs
        <3> HIDE DEF Envs, Step, e, f
        <3> QED BY <1>3, <2>1
    <2>3. v \in Vars /\ v \notin Inputs /\ v \in Signals
        BY <1>1
    <2>4. (\A x : x # v => f[x] = e[x]) /\ f[v] = FlatRhs(v, e)
        BY <2>1, <2>3
    <2>5. \A x \in Inputs : f[x] = row[x]
        BY <1>10, <2>3, <2>4
    <2> HIDE DEF e, f, v
    <2>6. Settled(v, f, dVal, FlatTicked)
        <3>1. v \notin Reads[v] /\ v \notin ClockSignals(ClockOf[v])
            BY FlatReadsOthers DEF v
        <3>2. Active(ClockOf[v], f) <=> Active(ClockOf[v], e)
            BY <2>4, <3>1, ActiveAgree
        <3>3. Rhs(v, f, dVal, FlatTicked) = Rhs(v, e, dVal, FlatTicked)
            BY <2>3, <2>4, <3>1, RhsAgree
        <3> QED BY <2>3, <2>4, <3>2, <3>3, FlatRhsMeans DEF Settled
    <2>7. ASSUME NEW j \in 1 .. k - 1
          PROVE  Settled(FlatOrder[j], f, dVal, FlatTicked)
        <3>1. j \in 1 .. FlatSize /\ j < k
            BY <1>1
        <3>2. /\ v \notin Reads[FlatOrder[j]] /\ v # FlatOrder[j]
              /\ v \notin ClockSignals(ClockOf[FlatOrder[j]])
            BY <3>1, FlatNotDisturbed DEF v
        <3>3. Settled(FlatOrder[j], e, dVal, FlatTicked)
            BY <1>10 DEF e
        <3> QED BY <1>1, <2>4, <3>1, <3>2, <3>3, SettledAgree
    <2>8. \A j \in 1 .. k : j = k \/ j \in 1 .. k - 1
        BY <1>1
    <2>9. \A j \in 1 .. k : Settled(FlatOrder[j], f, dVal, FlatTicked)
        BY <2>6, <2>7, <2>8 DEF v
    <2>10. Good(k)
        BY <2>2, <2>5, <2>9 DEF f
    <2> HIDE DEF Good
    <2> QED BY <1>1, <2>10
<1>11. Good(FlatSize)
    <2>1. 0 .. FlatSize \subseteq S
        <3> HIDE DEF S
        <3> QED BY <1>1, <1>9, <1>10, UpTo
    <2> HIDE DEF Good
    <2> QED BY <1>1, <2>1
<1>12. ASSUME NEW v \in Vars PROVE Settled(v, upTo[FlatSize], dVal, FlatTicked)
    <2>1. PICK k \in 1 .. FlatSize : FlatOrder[k] = v
        BY FlatOrderFromPasses
    <2> QED BY <1>11, <2>1
<1> QED BY <1>7, <1>11, <1>12

(* The order-free meaning is one: a row of inputs and what came before     *)
(* leave one value for each signal.                                        *)
LEMMA OneMeaning ==
    ASSUME NEW e \in [Signals -> Val], NEW f \in [Signals -> Val], NEW p, NEW t,
           \A x \in Inputs : e[x] = f[x],
           \A v \in Vars : Settled(v, e, p, t), \A v \in Vars : Settled(v, f, p, t)
    PROVE  e = f
<1> DEFINE Differ == {k \in 1 .. FlatSize : e[FlatOrder[k]] # f[FlatOrder[k]]}
<1>1. FlatSize \in Nat
    BY FlatOrderFacts
<1>2. Differ = {}
    <2> SUFFICES ASSUME Differ # {} PROVE FALSE
        OBVIOUS
    <2>1. Differ \subseteq Nat
        BY <1>1
    <2>2. PICK k \in Differ : \A m \in Differ : k <= m
        <3> HIDE DEF Differ
        <3> QED BY <2>1, LeastElement
    <2> DEFINE v == FlatOrder[k]
    <2>3. k \in 1 .. FlatSize /\ e[v] # f[v]
        OBVIOUS
    <2>4. \A j \in 1 .. k - 1 : e[FlatOrder[j]] = f[FlatOrder[j]]
        <3>1. \A j \in 1 .. k - 1 : j \in 1 .. FlatSize /\ ~(k <= j)
            BY <1>1, <2>3
        <3>2. \A j \in 1 .. k - 1 : j \notin Differ
            <4> HIDE DEF Differ
            <4> QED BY <2>2, <3>1
        <3> QED BY <3>1, <3>2
    <2>5. \A x \in Inputs \cup FlatEarlier(k) : e[x] = f[x]
        BY <2>4 DEF FlatEarlier
    <2>6. v \in Vars
        BY <2>3, FlatOrderFacts
    <2>7. /\ \A x \in Reads[v] : e[x] = f[x]
          /\ \A x \in ClockSignals(ClockOf[v]) : e[x] = f[x]
        BY <2>3, <2>5, FlatOrderFromPasses DEF FlatEarlier
    <2>8. Rhs(v, e, p, t) = Rhs(v, f, p, t)
        <3> HIDE DEF v
        <3> QED BY <2>6, <2>7, RhsAgree
    <2>9. Active(ClockOf[v], e) <=> Active(ClockOf[v], f)
        BY <2>7, ActiveAgree
    <2>10. Settled(v, e, p, t) /\ Settled(v, f, p, t)
        BY <2>6
    <2> HIDE DEF v
    <2> QED BY <2>3, <2>8, <2>9, <2>10 DEF Settled
<1>3. ASSUME NEW v \in Vars PROVE e[v] = f[v]
    <2>1. PICK k \in 1 .. FlatSize : FlatOrder[k] = v
        BY FlatOrderFromPasses
    <2> QED BY <1>2, <2>1
<1>4. \A x \in Signals : e[x] = f[x]
    BY <1>3 DEF Signals
<1> QED BY <1>4
-------------------------------------------------------------------------------
(* What the flattened program does when it runs the cycle it owes.         *)
LEMMA RunFlatMeans ==
    ASSUME SimTypeOK, FlatInv, RunFlat
    PROVE  /\ Row \in InputRows
           /\ dVal' \in [Signals -> Val]
           /\ \A x \in Inputs : dVal'[x] = Row[x] /\ dVal'[x] = env[x]
           /\ \A v \in Vars : Settled(v, dVal', dVal, FlatTicked)
           /\ FlatTicked' = Ticks(dVal', FlatTicked)
           /\ FlatTypeOK' /\ Unbegun'
<1>1. /\ flat = "due" /\ flat' = "idle" /\ dVal' = FlatEval(Row)
      /\ act' = ActFlags(dVal') /\ fst' = FirstFlags /\ begun' = TRUE
    BY DEF RunFlat, DCycle
<1>2. Row \in InputRows /\ Row \in [Inputs -> Val] /\ \A x \in Inputs : Row[x] = env[x]
    BY <1>1, NodeTyped DEF FlatInv, RowOffered, Row
<1>3. /\ dVal' \in [Signals -> Val]
      /\ \A x \in Inputs : dVal'[x] = Row[x]
      /\ \A v \in Vars : Settled(v, dVal', dVal, FlatTicked)
    <2>1. /\ FlatEval(Row) \in [Signals -> Val]
          /\ \A x \in Inputs : FlatEval(Row)[x] = Row[x]
          /\ \A v \in Vars : Settled(v, FlatEval(Row), dVal, FlatTicked)
        BY <1>2, FlatEvalSettles DEF FlatInv
    <2> QED BY <1>1, <2>1
<1> DEFINE e == dVal'
<1>4. /\ act' \in [FlagClocks -> BOOLEAN]
      /\ \A ck \in FlagClocks : act'[ck] <=> Active(ck, e)
    <2>1. act' = ActFlags(e)
        BY <1>1
    <2> HIDE DEF e
    <2> QED BY <2>1, FlagsAreActive
<1>5. /\ fst' \in [FirstClocks -> BOOLEAN]
      /\ \A ck \in FirstClocks : fst'[ck] = (~begun \/ (fst[ck] /\ ~act[ck]))
    <2>1. fst' = [ck \in FirstClocks |-> ~begun \/ (fst[ck] /\ ~act[ck])]
        BY <1>1 DEF FirstFlags
    <2>2. \A ck \in FirstClocks : (~begun \/ (fst[ck] /\ ~act[ck])) \in BOOLEAN
        OBVIOUS
    <2> QED BY <2>1, <2>2
<1>6. \A ck \in FlagClocks : act'[ck] => Parent(ck) = Base \/ act'[Parent(ck)]
    <2>1. ASSUME NEW ck \in FlagClocks, act'[ck]
          PROVE  Parent(ck) = Base \/ act'[Parent(ck)]
        <3>1. Active(ck, e)
            BY <1>4, <2>1
        <3>2. Parent(ck) = Base \/ Active(Parent(ck), e)
            <4> HIDE DEF e
            <4> QED BY <3>1, ActiveByParent
        <3>3. Parent(ck) = Base \/ Parent(ck) \in FlagClocks
            BY FlagClockFacts
        <3> QED BY <1>4, <3>2, <3>3
    <2> QED BY <2>1
<1>7. FlatTypeOK' /\ Unbegun'
    BY <1>1, <1>3, <1>4, <1>5, <1>6 DEF FlatTypeOK, Unbegun
<1>8. FlatTicked' = Ticks(e, FlatTicked)
    <2>1. ASSUME NEW ck \in Chains
          PROVE  (IF ck = Base THEN begun' ELSE ~fst'[ck] \/ act'[ck])
                     = (FlatTicked[ck] \/ Active(ck, e))
        <3>1. CASE ck = Base
            <4>1. Active(ck, e)
                BY <3>1 DEF Active, Base
            <4> HIDE DEF e
            <4> QED BY <1>1, <3>1, <4>1
        <3>2. CASE ck # Base
            <4>1. ck \in FirstClocks /\ ck \in FlagClocks
                BY <3>2, UsedClocksHaveFlags DEF FirstClocks, UsedClocks
            <4>2. FlatTicked[ck] = (~fst[ck] \/ act[ck])
                BY <3>2 DEF FlatTicked
            <4>3. /\ fst'[ck] = (~begun \/ (fst[ck] /\ ~act[ck]))
                  /\ act'[ck] <=> Active(ck, e)
                  /\ act'[ck] \in BOOLEAN
                BY <1>4, <1>5, <4>1
            <4>4. ~begun => fst[ck] /\ ~act[ck]
                BY <4>1 DEF FlatInv, Unbegun
            <4>5. fst[ck] \in BOOLEAN /\ act[ck] \in BOOLEAN /\ begun \in BOOLEAN
                BY <4>1 DEF FlatInv, FlatTypeOK
            <4>6. Active(ck, e) \in BOOLEAN
                BY DEF Active
            <4> HIDE DEF e
            <4> QED BY <3>2, <4>2, <4>3, <4>4, <4>5, <4>6
        <3> QED BY <3>1, <3>2
    <2>2. FlatTicked' = [ck \in Chains |-> IF ck = Base THEN begun' ELSE ~fst'[ck] \/ act'[ck]]
        BY DEF FlatTicked
    <2> HIDE DEF e
    <2> QED BY <2>1, <2>2 DEF Ticks
<1> QED BY <1>2, <1>3, <1>7, <1>8

LEMMA FlatInitInv == Init => FlatInv
<1> SUFFICES ASSUME Init PROVE FlatInv
    OBVIOUS
<1>1. Zero \in Val
    BY NodeTyped
<1>2. FlatTypeOK
    BY <1>1 DEF Init, DInit, FlatTypeOK
<1> QED BY <1>2 DEF Init, DInit, FlatInv, Unbegun, RowOffered

LEMMA FlatInvStep ==
    ASSUME SimTypeOK, FlatInv, [Next]_vars
    PROVE  FlatInv'
<1>1. CASE Begin
    <2>1. PICK row \in InputRows : SimBegin(row)
        BY <1>1 DEF Begin
    <2>2. Row' = row
        BY <2>1, NodeTyped DEF SimBegin, Row, Signals
    <2>3. flat' = "due" /\ UNCHANGED dVars
        BY <1>1 DEF Begin
    <2> QED BY <2>1, <2>2, <2>3 DEF FlatInv, FlatTypeOK, Unbegun, RowOffered, dVars
<1>2. CASE Simulate
    <2>1. UNCHANGED <<dVars, flat>>
        BY <1>2 DEF Simulate
    <2>2. \A x \in Inputs : env'[x] = env[x]
        <3>1. CASE SimEquation
            <4>1. At \notin Inputs
                BY <3>1, OrderFacts DEF SimEquation, Running, At, SimTypeOK
            <4> QED BY <3>1, <4>1, OrderFacts DEF SimEquation, SimTypeOK
        <3>2. CASE ~SimEquation
            BY <1>2, <3>2 DEF Simulate, SimStep, SimSkip, SimFail, SimCommit
        <3> QED BY <3>1, <3>2
    <2>3. Row' = Row
        BY <2>2 DEF Row
    <2> QED BY <2>1, <2>3 DEF FlatInv, FlatTypeOK, Unbegun, RowOffered, dVars
<1>3. CASE RunC
    BY <1>3 DEF RunC, simVars, dVars, FlatInv, FlatTypeOK, Unbegun, RowOffered, Row
<1>4. CASE RunFlat
    <2>1. flat' = "idle"
        BY <1>4 DEF RunFlat
    <2>2. FlatTypeOK' /\ Unbegun'
        BY <1>4, RunFlatMeans
    <2> QED BY <2>1, <2>2 DEF FlatInv, RowOffered
<1>5. CASE UNCHANGED vars
    BY <1>5 DEF vars, simVars, dVars, FlatInv, FlatTypeOK, Unbegun, RowOffered, Row
<1> QED BY <1>1, <1>2, <1>3, <1>4, <1>5 DEF Next

(* Types and flags are right in all three programs, for every node.        *)
LEMMA FlatInvariance == Spec => [](SimTypeOK /\ CTypeOK /\ FlatInv)
<1>1. Init => SimTypeOK /\ CTypeOK /\ FlatInv
    BY InitInv, FlatInitInv DEF Inv
<1>2. (SimTypeOK /\ CTypeOK /\ FlatInv) /\ [Next]_vars => (SimTypeOK /\ CTypeOK /\ FlatInv)'
    BY SimTypeStep, CTypeStep, FlatInvStep
<1> QED BY <1>1, <1>2, PTL DEF Spec

(* Every variable of the simulator, the C and the flattened program keeps  *)
(* its type, and the flag of a clock is up only under its parent's.        *)
THEOREM TypeCorrect == Spec => []TypeOK
<1>1. SimTypeOK /\ CTypeOK /\ FlatInv => TypeOK
    BY DEF FlatInv, TypeOK
<1> QED BY <1>1, FlatInvariance, PTL

(* The operators of the instance are those of the node.                    *)
LEMMA FlatMeaningOps ==
    /\ FlatMeaning!Signals = Signals
    /\ \A v, e, p, t : FlatMeaning!Settled(v, e, p, t) <=> Settled(v, e, p, t)
    /\ \A e, t : FlatMeaning!Ticks(e, t) = Ticks(e, t)
<1>1. FlatMeaning!Signals = Signals
    BY DEF FlatMeaning!Signals, Signals
<1>2. \A ck, e : FlatMeaning!Active(ck, e) <=> Active(ck, e)
    BY DEF FlatMeaning!Active, Active
<1>3. \A v, e, p, t : FlatMeaning!Rhs(v, e, p, t) = Rhs(v, e, p, t)
    BY DEF FlatMeaning!Rhs, Rhs
<1>4. \A v, e, p, t : FlatMeaning!Settled(v, e, p, t) <=> Settled(v, e, p, t)
    BY <1>2, <1>3 DEF FlatMeaning!Settled, Settled
<1>5. \A e, t : FlatMeaning!Ticks(e, t) = Ticks(e, t)
    BY <1>2 DEF FlatMeaning!Ticks, Ticks
<1> QED BY <1>1, <1>4, <1>5

(* The program declock.rs writes computes the order-free meaning of every  *)
(* node: no hypothesis on how the node's own order places its clocks.      *)
THEOREM FlattenedIsCorrect == Spec => FlatImplements
<1>1. Init => FlatMeaning!Init
    <2> SUFFICES ASSUME Init PROVE FlatMeaning!Init
        OBVIOUS
    <2>1. \A ck \in Chains \ {Base} : fst[ck] = TRUE /\ act[ck] = FALSE /\ begun = FALSE
        BY UsedClocksHaveFlags DEF Init, DInit, FirstClocks, UsedClocks
    <2>2. begun = FALSE
        BY DEF Init, DInit
    <2>3. FlatTicked = [ck \in Chains |-> FALSE]
        BY <2>1, <2>2 DEF FlatTicked
    <2> QED BY <2>3, FlatMeaningOps DEF Init, DInit, FlatMeaning!Init
<1>2. (SimTypeOK /\ CTypeOK /\ FlatInv) /\ [Next]_vars
          => [FlatMeaning!Cycle]_<<dVal, FlatTicked>>
    <2> SUFFICES ASSUME SimTypeOK, FlatInv, [Next]_vars
                 PROVE  [FlatMeaning!Cycle]_<<dVal, FlatTicked>>
        OBVIOUS
    <2>1. CASE RunFlat
        <3>1. /\ Row \in InputRows
              /\ dVal' \in [Signals -> Val]
              /\ \A x \in Inputs : dVal'[x] = Row[x]
              /\ \A v \in Vars : Settled(v, dVal', dVal, FlatTicked)
              /\ FlatTicked' = Ticks(dVal', FlatTicked)
            BY <2>1, RunFlatMeans
        <3>2. FlatMeaning!Cycle
            BY <3>1, FlatMeaningOps DEF FlatMeaning!Cycle
        <3> QED BY <3>2
    <2>2. CASE ~RunFlat
        <3>1. UNCHANGED dVars
            BY <2>2 DEF Next, Begin, Simulate, RunC, vars
        <3> QED BY <3>1 DEF dVars, FlatTicked
    <2> QED BY <2>1, <2>2
<1> QED BY <1>1, <1>2, FlatInvariance, PTL DEF Spec, FlatImplements, FlatMeaning!Spec
-------------------------------------------------------------------------------
(* How the flattened program relates to the other two: it is a cycle       *)
(* behind them until it runs the one it owes.                              *)
FlatTogether ==
    /\ flat = "idle" => /\ pc = "idle" /\ cPc = "idle"
                        /\ dVal = prev /\ FlatTicked = ticked
    /\ flat = "due" /\ cPc = "run" => dVal = cTrace /\ FlatTicked = cTicked
    /\ flat = "due" /\ pc = "idle" => prev = env
    /\ flat = "due" /\ cPc = "idle" => /\ \A v \in Vars : Settled(v, prev, dVal, FlatTicked)
                                       /\ ticked = Ticks(prev, FlatTicked)

TracesInv == Inv /\ FlatInv /\ FlatTogether

LEMMA InitFlatTogether == Init => FlatTogether
<1> SUFFICES ASSUME Init PROVE FlatTogether
    OBVIOUS
<1>1. \A ck \in Chains \ {Base} : fst[ck] = TRUE /\ act[ck] = FALSE
    BY UsedClocksHaveFlags DEF Init, DInit, FirstClocks, UsedClocks
<1>2. FlatTicked = [ck \in Chains |-> FALSE]
    BY <1>1 DEF FlatTicked, Init, DInit
<1> QED BY <1>2 DEF Init, SimInit, CInit, DInit, FlatTogether

LEMMA FlatTogetherStep ==
    ASSUME ClocksBeforeUse, TracesInv, [Next]_vars
    PROVE  FlatTogether'
<1>1. /\ cPc = "idle" => pc = "idle" /\ prev = cTrace /\ ticked = cTicked
      /\ pc # "idle" => cPc = "run" /\ prev = cTrace /\ ticked = cTicked
      /\ pc = "idle" /\ cPc = "run" =>
            /\ \A v \in Vars : Settled(v, prev, cTrace, cTicked)
            /\ ticked = Ticks(prev, cTicked)
    BY DEF TracesInv, Inv, Together
<1>2. UNCHANGED dVars => FlatTicked' = FlatTicked /\ dVal' = dVal
    BY DEF dVars, FlatTicked
<1>3. flat \in {"idle", "due"} /\ cPc \in {"idle", "run"}
    BY DEF TracesInv, Inv, FlatInv, FlatTypeOK, CTypeOK
<1>4. CASE Begin
    <2>1. PICK row \in InputRows : SimBegin(row) /\ CBegin(row)
        BY <1>4 DEF Begin
    <2>2. /\ pc' = "run" /\ cPc' = "run" /\ flat = "idle" /\ flat' = "due"
          /\ cTrace' = cTrace /\ cTicked' = cTicked /\ UNCHANGED dVars
        BY <1>4, <2>1 DEF Begin, SimBegin, CBegin
    <2> QED BY <1>1, <1>2, <2>2 DEF TracesInv, FlatTogether
<1>5. CASE Simulate
    <2>1. /\ pc = "run" /\ UNCHANGED <<cTrace, cTicked, cPc, dVars, flat>>
        BY <1>5 DEF Simulate, SimStep, SimEquation, SimSkip, SimFail, SimCommit, Running, cVars
    <2>2. flat = "due" /\ cPc = "run"
        BY <1>1, <1>3, <2>1 DEF TracesInv, FlatTogether
    <2>3. pc' = "idle" => prev' = env'
        BY <1>5, <2>1 DEF Simulate, SimStep, SimEquation, SimSkip, SimFail, SimCommit
    <2> QED BY <1>2, <2>1, <2>2, <2>3 DEF TracesInv, FlatTogether
<1>6. CASE RunC
    <2>1. pc = "idle" /\ cPc = "run" /\ UNCHANGED <<simVars, dVars, flat>>
        BY <1>6 DEF RunC, CStep, CAssign, CHold, CFinish, CRunning
    <2>2. flat = "due" /\ dVal = cTrace /\ FlatTicked = cTicked /\ prev = env
        BY <1>3, <2>1 DEF TracesInv, FlatTogether
    <2>3. /\ \A v \in Vars : Settled(v, prev, dVal, FlatTicked)
          /\ ticked = Ticks(prev, FlatTicked)
        BY <1>1, <2>1, <2>2
    <2>4. cPc' = "run" => cTrace' = cTrace /\ cTicked' = cTicked
        BY <1>6 DEF RunC, CStep, CAssign, CHold, CFinish
    <2>5. prev' = prev /\ ticked' = ticked /\ env' = env /\ pc' = pc /\ flat' = flat
        BY <2>1 DEF simVars
    <2>6. FlatTicked' = FlatTicked /\ dVal' = dVal
        BY <1>2, <2>1
    <2> QED BY <2>1, <2>2, <2>3, <2>4, <2>5, <2>6 DEF FlatTogether
<1>7. CASE RunFlat
    <2>1. /\ pc = "idle" /\ cPc = "idle" /\ flat = "due" /\ flat' = "idle"
          /\ UNCHANGED <<simVars, cVars>>
        BY <1>7 DEF RunFlat
    <2>2. /\ dVal' \in [Signals -> Val]
          /\ \A x \in Inputs : dVal'[x] = env[x]
          /\ \A v \in Vars : Settled(v, dVal', dVal, FlatTicked)
          /\ FlatTicked' = Ticks(dVal', FlatTicked)
        BY <1>7, RunFlatMeans DEF TracesInv, Inv
    <2>3. /\ prev = env /\ ticked = Ticks(prev, FlatTicked)
          /\ \A v \in Vars : Settled(v, prev, dVal, FlatTicked)
        BY <2>1 DEF TracesInv, FlatTogether
    <2>4. prev \in [Signals -> Val]
        BY DEF TracesInv, Inv, SimTypeOK
    <2>5. dVal' = prev
        BY <2>2, <2>3, <2>4, OneMeaning
    <2>6. FlatTicked' = ticked
        BY <2>2, <2>3, <2>5
    <2>7. prev' = prev /\ ticked' = ticked /\ pc' = pc /\ cPc' = cPc
        BY <2>1 DEF simVars, cVars
    <2> QED BY <2>1, <2>5, <2>6, <2>7 DEF FlatTogether
<1>8. CASE UNCHANGED vars
    <2>1. UNCHANGED <<simVars, cVars, dVars, flat>>
        BY <1>8 DEF vars
    <2>2. /\ prev' = prev /\ ticked' = ticked /\ env' = env /\ pc' = pc
          /\ cPc' = cPc /\ cTrace' = cTrace /\ cTicked' = cTicked /\ flat' = flat
        BY <2>1 DEF simVars, cVars
    <2> QED BY <1>2, <2>1, <2>2 DEF TracesInv, FlatTogether
<1> QED BY <1>4, <1>5, <1>6, <1>7, <1>8 DEF Next

(* For every node with ClocksBeforeUse: whenever the simulator, the        *)
(* generated C and the flattened program have finished the same cycle,     *)
(* every signal has one value in all three.                                *)
THEOREM OneTrace == ASSUME ClocksBeforeUse PROVE Spec => []TracesAgree
<1>1. Init => FlatTogether
    BY InitFlatTogether
<1>2. Inv /\ FlatInv /\ FlatTogether /\ [Next]_vars => FlatTogether'
    BY FlatTogetherStep DEF TracesInv
<1>3. Spec => []Inv
    BY Invariance
<1>4. Spec => [](SimTypeOK /\ CTypeOK /\ FlatInv)
    BY FlatInvariance
<1>5. Inv /\ FlatTogether => TracesAgree
    BY DEF Inv, Together, FlatTogether, TracesAgree
<1> QED BY <1>1, <1>2, <1>3, <1>4, <1>5, PTL DEF Spec
===============================================================================
