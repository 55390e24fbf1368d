------------------------- MODULE EvaluationOrderProofs -------------------------
(***************************************************************************)
(* For any number of equations and any nodes: the order that               *)
(* evaluation_order builds never reads a value before its definition, is   *)
(* complete when returned, and "combinational cycle" is reported exactly   *)
(* when equations block one another.                                       *)
(***************************************************************************)
EXTENDS EvaluationOrder, Induction, FiniteSetTheorems, SequenceTheorems

(* What the loop maintains.  done and order hold the same equations, each  *)
(* once; an equation is pushed after all its dependencies; equations that  *)
(* block one another are never pushed; and in a pass that has pushed       *)
(* nothing, every equation passed over is still not ready.                 *)
PushedOnce ==
    /\ done = {order[k] : k \in 1 .. Len(order)}
    /\ \A j, k \in 1 .. Len(order) : order[j] = order[k] => j = k

DepsFirst == \A k \in 1 .. Len(order) : Deps(order[k]) \subseteq Before(k)

BlockedNeverDone == \A S \in SUBSET Eqs : Blocked(S) => S \cap done = {}

PassOver ==
    /\ pc = "scan" => i \in 1 .. N + 1
    /\ pc = "scan" /\ ~progressed =>
           /\ Len(order) < N
           /\ \A e \in 1 .. i - 1 : ~Ready(e)
    /\ pc = "cycle" => /\ Len(order) < N
                       /\ \A e \in Eqs : ~Ready(e)
    /\ pc = "ok" => Len(order) >= N

Inv == TypeOK /\ PushedOnce /\ DepsFirst /\ BlockedNeverDone /\ PassOver
-------------------------------------------------------------------------------
(* The loop counter compares lengths, the argument is about the set done:  *)
(* an order without repetition over 1 .. N has N elements exactly when it  *)
(* contains them all.                                                      *)
LEMMA LengthCountsDone ==
    ASSUME TypeOK, PushedOnce
    PROVE  /\ Len(order) <= N
           /\ Len(order) = N <=> done = Eqs
<1> DEFINE L == Len(order)
           f == [k \in 1 .. L |-> order[k]]
<1>1. L \in Nat /\ N \in Nat
  BY NAssumption DEF TypeOK
<1>2. f \in Bijection(1 .. L, done)
  <2>1. f \in [1 .. L -> done]
    BY DEF PushedOnce
  <2>2. \A j, k \in 1 .. L : f[j] = f[k] => j = k
    BY DEF PushedOnce
  <2>3. \A e \in done : \E k \in 1 .. L : f[k] = e
    BY DEF PushedOnce
  <2>4. f \in Injection(1 .. L, done)
    BY <2>1, <2>2 DEF Injection, IsInjective
  <2>5. f \in Surjection(1 .. L, done)
    BY <2>1, <2>3 DEF Surjection
  <2> QED
    BY <2>4, <2>5 DEF Bijection
<1>3. IsFiniteSet(1 .. L) /\ Cardinality(1 .. L) = L
  BY <1>1, FS_Interval, SMTT(30)
<1>4. IsFiniteSet(Eqs) /\ Cardinality(Eqs) = N
  BY <1>1, FS_Interval DEF Eqs
<1>5. IsFiniteSet(done) /\ Cardinality(done) = L
  BY <1>2, <1>3, FS_Bijection DEF ExistsBijection
<1>6. done \subseteq Eqs
  BY DEF TypeOK
<1>7. L <= N
  BY <1>4, <1>5, <1>6, FS_Subset
<1>8. L = N => done = Eqs
  BY <1>4, <1>5, <1>6, FS_Subset
<1>9. done = Eqs => L = N
  BY <1>4, <1>5
<1> QED
  BY <1>7, <1>8, <1>9
-------------------------------------------------------------------------------
LEMMA InitInv == Init => Inv
<1> SUFFICES ASSUME Init PROVE Inv
  OBVIOUS
<1>1. TypeOK
  <2>1. node \in Node /\ order \in Seq(Eqs)
    BY NodesAssumption DEF Init
  <2>2. i \in 1 .. N + 1
    BY NAssumption DEF Init
  <2> QED
    BY <2>1, <2>2 DEF Init, TypeOK
<1>2. PushedOnce /\ DepsFirst
  BY DEF Init, PushedOnce, DepsFirst
<1>3. BlockedNeverDone
  BY DEF Init, BlockedNeverDone
<1>4. PassOver
  BY DEF Init, PassOver
<1> QED
  BY <1>1, <1>2, <1>3, <1>4 DEF Inv

LEMMA PushInv ==
    ASSUME Inv, Push
    PROVE  Inv'
<1> DEFINE L == Len(order)
<1> USE DEF Inv
<1>1. /\ i \in Eqs /\ i \notin done /\ Deps(i) \subseteq done
      /\ order' = Append(order, i) /\ done' = done \cup {i}
      /\ progressed' = TRUE /\ i' = i + 1 /\ node' = node /\ pc' = pc
      /\ pc = "scan"
  BY DEF Push, Ready
<1>2. /\ order \in Seq(Eqs) /\ L \in Nat /\ Len(order') = L + 1
      /\ \A k \in 1 .. L : order'[k] = order[k] /\ order[k] \in Eqs
      /\ order'[L + 1] = i
  BY <1>1 DEF TypeOK
<1>3. TypeOK'
  BY <1>1, <1>2, NAssumption DEF TypeOK, Eqs
<1>4. PushedOnce'
  <2>1. done' = {order'[k] : k \in 1 .. L + 1}
    BY <1>1, <1>2 DEF PushedOnce
  <2>2. ASSUME NEW j \in 1 .. L + 1, NEW k \in 1 .. L + 1, order'[j] = order'[k]
        PROVE  j = k
    BY <1>1, <1>2, <2>2 DEF PushedOnce
  <2> QED
    BY <1>2, <2>1, <2>2 DEF PushedOnce
<1>5. \A e : Deps(e)' = Deps(e)
  BY <1>1 DEF Deps, DefBy
<1>6. DepsFirst'
  <2> SUFFICES ASSUME NEW k \in 1 .. L + 1
               PROVE  Deps(order'[k]) \subseteq {order'[j] : j \in 1 .. k - 1}
    BY <1>2, <1>5 DEF DepsFirst, Before
  <2>1. CASE k \in 1 .. L
    <3>1. Deps(order[k]) \subseteq Before(k)
      BY <2>1 DEF DepsFirst
    <3>2. \A j \in 1 .. k - 1 : order'[j] = order[j]
      BY <1>2, <2>1
    <3> QED
      BY <1>2, <2>1, <3>1, <3>2 DEF Before
  <2>2. CASE k = L + 1
    <3>1. done = {order'[j] : j \in 1 .. L}
      BY <1>2 DEF PushedOnce
    <3> QED
      BY <1>1, <1>2, <2>2, <3>1
  <2> QED
    BY <1>2, <2>1, <2>2
<1>7. BlockedNeverDone'
  <2> SUFFICES ASSUME NEW S \in SUBSET Eqs, Blocked(S)' PROVE S \cap done' = {}
    BY DEF BlockedNeverDone
  <2>1. Blocked(S)
    BY <1>5 DEF Blocked
  <2>2. S \cap done = {}
    BY <2>1 DEF BlockedNeverDone
  <2>3. i \notin S
    BY <1>1, <2>1, <2>2 DEF Blocked
  <2> QED
    BY <1>1, <2>2, <2>3
<1>8. PassOver'
  BY <1>1, NAssumption DEF PassOver, Eqs
<1> QED
  BY <1>3, <1>4, <1>6, <1>7, <1>8

(* Every other step leaves node, order and done alone.                     *)
LEMMA OtherInv ==
    ASSUME Inv, BeginPass \/ Skip \/ EndPass \/ ReturnOrder \/ UNCHANGED vars
    PROVE  Inv'
<1> USE DEF Inv
<1>1. /\ node' = node /\ order' = order /\ done' = done
  BY DEF BeginPass, Skip, EndPass, ReturnOrder, vars
<1>2. \A e : Deps(e)' = Deps(e) /\ Ready(e)' = Ready(e)
  BY <1>1 DEF Deps, DefBy, Ready
<1>3. TypeOK'
  <2>1. node' \in Node /\ order' \in Seq(Eqs) /\ done' \in SUBSET Eqs
    BY <1>1 DEF TypeOK
  <2>2. i' \in 1 .. N + 1
    BY NAssumption DEF TypeOK, Eqs, BeginPass, Skip, EndPass, ReturnOrder, vars
  <2>3. progressed' \in BOOLEAN
    BY Zenon DEF TypeOK, BeginPass, Skip, EndPass, ReturnOrder, vars
  <2>4. pc' \in {"pass", "scan", "ok", "cycle"}
    BY DEF TypeOK, BeginPass, Skip, EndPass, ReturnOrder, vars
  <2> QED
    BY <2>1, <2>2, <2>3, <2>4, Zenon DEF TypeOK
<1>4. PushedOnce' /\ DepsFirst'
  <2>1. PushedOnce'
    BY <1>1 DEF PushedOnce
  <2>2. \A k : Before(k)' = Before(k)
    BY <1>1 DEF Before
  <2>3. DepsFirst'
    BY <1>1, <1>2, <2>2, Zenon DEF DepsFirst
  <2> QED
    BY <2>1, <2>3
<1>5. BlockedNeverDone'
  BY <1>1, <1>2 DEF BlockedNeverDone, Blocked
<1>6. Len(order') = Len(order) /\ Len(order) \in Nat /\ N \in Nat
  BY <1>1, NAssumption DEF TypeOK
<1>7. PassOver'
  <2>1. CASE BeginPass
    BY <1>2, <1>6, <2>1 DEF BeginPass, PassOver
  <2>2. CASE Skip
    BY <1>2, <1>6, <2>2 DEF Skip, PassOver, Eqs
  <2>3. CASE EndPass
    BY <1>2, <1>6, <2>3 DEF EndPass, PassOver, Eqs, TypeOK
  <2>4. CASE ReturnOrder
    BY <1>2, <1>6, <2>4 DEF ReturnOrder, PassOver
  <2>5. CASE UNCHANGED vars
    BY <1>2, <1>6, <2>5 DEF vars, PassOver
  <2> QED
    BY <2>1, <2>2, <2>3, <2>4, <2>5
<1> QED
  BY <1>3, <1>4, <1>5, <1>7

(* The inductive invariant holds throughout.                               *)
THEOREM Invariance == Spec => []Inv
<1>1. Inv /\ [Next]_vars => Inv'
  BY PushInv, OtherInv DEF Next
<1> QED
  BY InitInv, <1>1, PTL DEF Spec

(* Type correctness of the ordering loop.                                  *)
THEOREM TypeCorrect == Spec => []TypeOK
<1>1. Inv => TypeOK
  BY DEF Inv
<1> QED
  BY Invariance, <1>1, PTL

(* No equation is executed before the definition of a variable it reads in *)
(* the same cycle.                                                         *)
THEOREM NoStaleReads == Spec => []ReadsComeAfterDefinitions
<1>1. Inv => ReadsComeAfterDefinitions
  <2> SUFFICES ASSUME Inv,
                      NEW k \in 1 .. Len(order), NEW d \in Eqs,
                      NEW v \in node.reads[order[k]] \cap node.lhs[d],
                      \A f \in Eqs \ {d} : v \notin node.lhs[f]
               PROVE  d \in Before(k)
    BY DEF ReadsComeAfterDefinitions
  <2>1. DefBy(v, d)
    BY NAssumption DEF DefBy, Eqs
  <2>2. d \in Deps(order[k])
    BY <2>1 DEF Deps
  <2> QED
    BY <2>2 DEF Inv, DepsFirst
<1> QED
  BY Invariance, <1>1, PTL

(* A returned order is a permutation of the equations.                     *)
THEOREM Completeness == Spec => []OrderIsComplete
<1>1. Inv => OrderIsComplete
  <2> SUFFICES ASSUME Inv, pc = "ok"
               PROVE  Len(order) = N /\ Before(N + 1) = Eqs
    BY DEF OrderIsComplete
  <2>1. Len(order) = N /\ done = Eqs
    BY LengthCountsDone, NAssumption DEF Inv, PassOver, TypeOK
  <2> QED
    BY <2>1, NAssumption DEF Inv, PushedOnce, Before
<1> QED
  BY Invariance, <1>1, PTL

(* A combinational cycle is reported exactly when there is one.            *)
THEOREM ExactVerdict == Spec => []VerdictIsExact
<1>1. Inv => VerdictIsExact
  <2> SUFFICES ASSUME Inv PROVE VerdictIsExact
    OBVIOUS
  <2>1. ASSUME pc = "cycle" PROVE \E S \in SUBSET Eqs : Blocked(S)
    <3>1. Len(order) < N
      BY <2>1 DEF Inv, PassOver
    <3>2. Eqs \ done # {}
      <4>1. done # Eqs
        BY <3>1, LengthCountsDone, NAssumption DEF Inv, TypeOK
      <4>2. done \subseteq Eqs
        BY DEF Inv, TypeOK
      <4> QED
        BY <4>1, <4>2
    <3>3. \A e \in Eqs \ done : Deps(e) \cap (Eqs \ done) # {}
      <4>1. \A e \in Eqs \ done : ~(Deps(e) \subseteq done)
        BY <2>1 DEF Inv, PassOver, Ready
      <4>2. \A e \in Eqs : Deps(e) \subseteq Eqs
        BY DEF Deps
      <4> QED
        BY <4>1, <4>2
    <3> QED
      BY <3>2, <3>3 DEF Blocked
  <2>2. ASSUME pc = "ok" PROVE \A S \in SUBSET Eqs : ~Blocked(S)
    <3>1. done = Eqs
      BY <2>2, LengthCountsDone, NAssumption DEF Inv, PassOver, TypeOK
    <3> QED
      BY <3>1 DEF Inv, BlockedNeverDone, Blocked
  <2> QED
    BY <2>1, <2>2 DEF VerdictIsExact
<1> QED
  BY Invariance, <1>1, PTL
-------------------------------------------------------------------------------
(* The loop-free form.  deps is the node's dependencies as OrderOf takes   *)
(* them, OrdersReached the orders it passes through on the way.                 *)
NodeDeps == [e \in Eqs |-> Deps(e)]

OrdersReached(deps) ==
    LET after[k \in 0 .. Len(deps)] ==
            IF k = 0 THEN << >> ELSE Pushed(deps, after[k - 1])
    IN  after

(* Where the scan stands: ready equations ahead of the last one pushed are *)
(* still to come, and before the first push of a pass there are none.      *)
AheadToCome ==
    /\ pc = "scan" => \A e \in Eqs : Ready(e) /\ order # << >> /\ e > Last(order) => e >= i
    /\ pc = "scan" /\ progressed => order # << >> /\ i > Last(order)
    /\ pc = "scan" /\ ~progressed =>
          \A e \in Eqs : Ready(e) => e >= i /\ (order = << >> \/ e <= Last(order))
    /\ pc = "pass" => \A e \in Eqs : Ready(e) => order = << >> \/ e <= Last(order)

Followed == order = OrdersReached(NodeDeps)[Len(order)]

(* The least element of a set of equations.                                *)
LEMMA MinOfEqs ==
    ASSUME NEW S \in SUBSET Eqs, S # {}
    PROVE  Min(S) \in S /\ \A e \in S : Min(S) <= e
<1>1. S \subseteq Nat
  BY NAssumption DEF Eqs
<1>2. \E x \in S : \A y \in S : x <= y
  BY <1>1, LeastElement
<1> QED
  BY <1>2 DEF Min

LEMMA MinIsThe ==
    ASSUME NEW S \in SUBSET Eqs, NEW m \in S, \A e \in S : m <= e
    PROVE  Min(S) = m
<1>1. Min(S) \in S /\ Min(S) <= m
  BY MinOfEqs
<1>2. m <= Min(S)
  BY <1>1
<1>3. m \in Nat /\ Min(S) \in Nat
  <2>1. S \subseteq Nat
    BY NAssumption DEF Eqs
  <2> QED
    BY <1>1, <2>1
<1> QED
  BY <1>1, <1>2, <1>3

LEMMA PushedTyped ==
    ASSUME NEW deps, DOMAIN deps = Eqs, NEW o \in Seq(Eqs)
    PROVE  Pushed(deps, o) \in Seq(Eqs)
<1> DEFINE ready == {e \in DOMAIN deps : e \notin ToSet(o) /\ deps[e] \subseteq ToSet(o)}
           ahead == {e \in ready : o # << >> /\ e > Last(o)}
           pick == IF ahead = {} THEN ready ELSE ahead
<1>1. CASE ready = {}
  BY <1>1 DEF Pushed
<1>2. CASE ready # {}
  <2>1. pick \in SUBSET Eqs /\ pick # {}
    BY <1>2
  <2>2. Min(pick) \in Eqs
    <3> HIDE DEF pick
    <3> QED BY <2>1, MinOfEqs
  <2>3. Pushed(deps, o) = Append(o, Min(pick))
    BY <1>2 DEF Pushed
  <2> HIDE DEF pick
  <2> QED BY <2>2, <2>3, AppendProperties
<1> QED
  BY <1>1, <1>2

(* The recursion of OrderOf is well defined, and is what it says.          *)
LEMMA OrdersReachedAre ==
    ASSUME NEW deps \in Seq(SUBSET Eqs), Len(deps) = N
    PROVE  /\ OrdersReached(deps)[0] = << >>
           /\ \A k \in 1 .. N : OrdersReached(deps)[k] = Pushed(deps, OrdersReached(deps)[k - 1])
           /\ OrderOf(deps) = OrdersReached(deps)[N]
<1> DEFINE after[k \in 0 .. Len(deps)] ==
               IF k = 0 THEN << >> ELSE Pushed(deps, after[k - 1])
           Defines(f) == f = [k \in 0 .. Len(deps) |->
                                 IF k = 0 THEN << >> ELSE Pushed(deps, f[k - 1])]
           Orders == Seq(Eqs)
           step == [k \in 1 .. N |-> [o \in Orders |-> Pushed(deps, o)]]
<1>1. N \in Nat /\ DOMAIN deps = Eqs
  BY NAssumption DEF Eqs
<1>2. << >> \in Orders
  BY EmptySeq
<1>3. step \in [1 .. N -> [Orders -> Orders]]
  BY <1>1, PushedTyped
<1>4. PICK f : Iterates(f, N, Orders, << >>, step)
  <2> HIDE DEF step, Orders
  <2> QED BY <1>1, <1>2, <1>3, Recursion
<1>5. Defines(f)
  <2>1. /\ f \in [0 .. N -> Orders] /\ f[0] = << >>
        /\ \A k \in 1 .. N : f[k] = step[k][f[k - 1]]
    <3> HIDE DEF step, Orders
    <3> QED BY <1>4 DEF Iterates
  <2>2. ASSUME NEW k \in 0 .. N
        PROVE  f[k] = IF k = 0 THEN << >> ELSE Pushed(deps, f[k - 1])
    <3>1. CASE k = 0
      BY <2>1, <3>1
    <3>2. CASE k # 0
      <4>1. k \in 1 .. N /\ k - 1 \in 0 .. N
        BY <1>1, <3>2
      <4>2. f[k - 1] \in Orders
        BY <2>1, <4>1
      <4>3. step[k][f[k - 1]] = Pushed(deps, f[k - 1])
        <5> HIDE DEF Orders
        <5> QED BY <4>1, <4>2
      <4> HIDE DEF step
      <4> QED BY <2>1, <3>2, <4>1, <4>3
    <3> QED
      BY <3>1, <3>2
  <2> HIDE DEF step, Orders
  <2> QED BY <2>1, <2>2
<1>6. Defines(after)
  <2>1. \E g : Defines(g)
    <3> HIDE DEF Defines
    <3> QED BY <1>5
  <2> QED BY <2>1
<1>7. after = OrdersReached(deps) /\ after[Len(deps)] = OrderOf(deps)
  BY DEF OrdersReached, OrderOf
<1> HIDE DEF after
<1>8. \A k \in 0 .. N : after[k] = IF k = 0 THEN << >> ELSE Pushed(deps, after[k - 1])
  BY <1>6
<1>9. 0 \in 0 .. N /\ \A k \in 1 .. N : k \in 0 .. N /\ k # 0
  BY <1>1
<1> HIDE DEF Defines
<1> QED
  BY <1>7, <1>8, <1>9

LEMMA NodeDepsTyped == NodeDeps \in Seq(SUBSET Eqs) /\ Len(NodeDeps) = N
<1>1. \A e \in 1 .. N : Deps(e) \in SUBSET Eqs
  BY DEF Deps
<1> QED
  BY <1>1, NAssumption DEF NodeDeps, Eqs

(* One push of the loop is one push of the loop-free form.                 *)
LEMMA PushIsPushed ==
    ASSUME Inv, AheadToCome, Push
    PROVE  order' = Pushed(NodeDeps, order)
<1> DEFINE ready == {e \in DOMAIN NodeDeps : e \notin ToSet(order)
                                             /\ NodeDeps[e] \subseteq ToSet(order)}
           ahead == {e \in ready : order # << >> /\ e > Last(order)}
           pick == IF ahead = {} THEN ready ELSE ahead
<1>1. pc = "scan" /\ i \in Eqs /\ Ready(i) /\ order' = Append(order, i)
  BY DEF Push
<1>2. order \in Seq(Eqs) /\ progressed \in BOOLEAN
  BY DEF Inv, TypeOK
<1>3. ToSet(order) = done
  BY <1>2 DEF ToSet, Inv, PushedOnce
<1>4. ready = {e \in Eqs : Ready(e)}
  BY <1>3 DEF NodeDeps, Ready
<1>5. Pushed(NodeDeps, order) = IF ready = {} THEN order ELSE Append(order, Min(pick))
  BY DEF Pushed
<1> HIDE DEF ready
<1>6. pick \in SUBSET Eqs /\ i \in pick /\ \A e \in pick : i <= e
  <2>1. CASE progressed
    <3>1. order # << >> /\ i > Last(order)
      BY <1>1, <2>1 DEF AheadToCome
    <3>2. i \in ahead
      BY <1>1, <1>4, <3>1
    <3>3. \A e \in ahead : e >= i
      BY <1>1, <1>4 DEF AheadToCome
    <3>4. pick = ahead
      BY <3>2
    <3>5. ahead \subseteq Eqs
      BY <1>4
    <3> HIDE DEF ahead, pick
    <3> QED BY <1>1, <3>2, <3>3, <3>4, <3>5, NAssumption DEF Eqs
  <2>2. CASE ~progressed
    <3>1. \A e \in ready : e >= i /\ (order = << >> \/ e <= Last(order))
      BY <1>1, <1>4, <2>2 DEF AheadToCome
    <3>2. order # << >> => Last(order) \in Nat
      BY <1>2, LenProperties, EmptySeq, NAssumption DEF Last, Eqs
    <3>3. ready \subseteq Nat
      BY <1>4, NAssumption DEF Eqs
    <3>4. ahead = {}
      <4>1. ASSUME NEW e \in ready PROVE ~(order # << >> /\ e > Last(order))
        <5>1. e \in Nat /\ (order = << >> \/ e <= Last(order))
          BY <3>1, <3>3
        <5> QED
          BY <3>2, <5>1
      <4> QED
        BY <4>1
    <3>5. pick = ready /\ i \in ready /\ ready \subseteq Eqs
      BY <1>1, <1>4, <3>4
    <3> HIDE DEF ahead, pick
    <3> QED BY <1>1, <3>1, <3>3, <3>5, NAssumption DEF Eqs
  <2> QED
    BY <1>2, <2>1, <2>2
<1>7. Min(pick) = i
  <2> HIDE DEF pick
  <2> QED BY <1>6, MinIsThe
<1>8. ready # {}
  BY <1>1, <1>4
<1> QED
  BY <1>1, <1>5, <1>7, <1>8

LEMMA AheadToComeStep ==
    ASSUME Inv, AheadToCome, [Next]_vars
    PROVE  AheadToCome'
<1>1. /\ order \in Seq(Eqs) /\ progressed \in BOOLEAN /\ i \in 1 .. N + 1
      /\ N \in Nat /\ \A e \in Eqs : e \in Nat
  BY NAssumption DEF Inv, TypeOK, Eqs
<1>2. CASE Push
  <2>1. /\ pc = "scan" /\ pc' = "scan" /\ progressed' = TRUE /\ i' = i + 1 /\ i \in Eqs
        /\ order' = Append(order, i)
    BY <1>2 DEF Push
  <2>2. order' # << >> /\ Last(order') = i
    BY <1>1, <2>1, AppendProperties DEF Last
  <2> QED
    BY <1>1, <2>1, <2>2 DEF AheadToCome
<1>3. CASE BeginPass \/ Skip \/ EndPass \/ ReturnOrder \/ UNCHANGED vars
  <2>1. node' = node /\ order' = order /\ done' = done
    BY <1>3 DEF BeginPass, Skip, EndPass, ReturnOrder, vars
  <2>2. \A e : Ready(e)' = Ready(e)
    BY <2>1 DEF Ready, Deps, DefBy
  <2>3. order # << >> => Last(order) \in Nat /\ Last(order') = Last(order)
    BY <1>1, <2>1, LenProperties, EmptySeq DEF Last
  <2>4. CASE BeginPass
    <3>1. pc = "pass" /\ pc' = "scan" /\ i' = 1 /\ progressed' = FALSE
      BY <2>4 DEF BeginPass
    <3> QED
      BY <1>1, <2>1, <2>2, <2>3, <3>1 DEF AheadToCome, Eqs
  <2>5. CASE Skip
    <3>1. /\ pc = "scan" /\ pc' = "scan" /\ i' = i + 1 /\ progressed' = progressed
          /\ ~Ready(i)
      BY <2>5 DEF Skip
    <3>2. \A e \in Eqs : Ready(e) /\ e >= i => e >= i + 1
      BY <1>1, <3>1
    <3> QED
      BY <1>1, <2>1, <2>2, <2>3, <3>1, <3>2 DEF AheadToCome
  <2>6. CASE EndPass
    <3>1. pc = "scan" /\ i \notin Eqs /\ pc' = (IF progressed THEN "pass" ELSE "cycle")
      BY <2>6 DEF EndPass
    <3>2. \A e \in Eqs : ~(e >= i)
      BY <1>1, <3>1 DEF Eqs
    <3> QED
      BY <1>1, <2>1, <2>2, <2>3, <3>1, <3>2 DEF AheadToCome
  <2>7. CASE ReturnOrder
    BY <2>7 DEF ReturnOrder, AheadToCome
  <2>8. CASE UNCHANGED vars
    BY <2>1, <2>2, <2>8 DEF vars, AheadToCome
  <2> QED
    BY <1>3, <2>4, <2>5, <2>6, <2>7, <2>8
<1> QED
  BY <1>2, <1>3 DEF Next

LEMMA FollowedStep ==
    ASSUME Inv, AheadToCome, Followed, [Next]_vars
    PROVE  Followed'
<1>1. /\ order \in Seq(Eqs) /\ N \in Nat /\ Len(order) \in Nat
  BY NAssumption DEF Inv, TypeOK
<1>2. NodeDeps' = NodeDeps
  <2>1. node' = node
    BY DEF Next, BeginPass, Push, Skip, EndPass, ReturnOrder, vars
  <2> QED
    BY <2>1 DEF NodeDeps, Deps, DefBy
<1>3. CASE Push
  <2>1. order' = Append(order, i) /\ i \in Eqs
    BY <1>3 DEF Push
  <2>2. Len(order') = Len(order) + 1
    BY <1>1, <2>1, AppendProperties
  <2>3. Len(order') <= N
    <3>1. Len(order) <= N /\ (Len(order) = N <=> done = Eqs)
      BY LengthCountsDone DEF Inv
    <3>2. i \notin done
      BY <1>3 DEF Push, Ready
    <3> QED
      BY <1>1, <2>1, <2>2, <3>1, <3>2
  <2>4. Len(order') \in 1 .. N /\ Len(order') - 1 = Len(order)
    BY <1>1, <2>2, <2>3
  <2>5. OrdersReached(NodeDeps)[Len(order')] = Pushed(NodeDeps, OrdersReached(NodeDeps)[Len(order)])
    BY <2>4, NodeDepsTyped, OrdersReachedAre
  <2>6. order' = Pushed(NodeDeps, order)
    BY <1>3, PushIsPushed
  <2> QED
    BY <1>2, <2>5, <2>6 DEF Followed
<1>4. CASE ~Push
  <2>1. order' = order
    BY <1>4 DEF Next, BeginPass, Skip, EndPass, ReturnOrder, vars
  <2> QED
    BY <1>2, <2>1 DEF Followed
<1> QED
  BY <1>3, <1>4

(* When nothing is ready any more the loop-free form stands still.         *)
LEMMA StandsStill ==
    ASSUME Inv, Followed, pc = "cycle"
    PROVE  order = OrderOf(NodeDeps)
<1>1. /\ order \in Seq(Eqs) /\ N \in Nat /\ Len(order) \in Nat /\ Len(order) < N
      /\ \A e \in Eqs : ~Ready(e)
  BY NAssumption DEF Inv, TypeOK, PassOver
<1>2. Pushed(NodeDeps, order) = order
  <2>1. ToSet(order) = done
    BY <1>1 DEF ToSet, Inv, PushedOnce
  <2>2. {e \in DOMAIN NodeDeps : e \notin ToSet(order) /\ NodeDeps[e] \subseteq ToSet(order)} = {}
    BY <1>1, <2>1 DEF NodeDeps, Ready
  <2> QED
    BY <2>2 DEF Pushed
<1> DEFINE S == {k \in 0 .. N : k < Len(order) \/ OrdersReached(NodeDeps)[k] = order}
<1>3. 0 \in S
  BY <1>1 DEF Followed
<1>4. ASSUME NEW k \in 1 .. N, k - 1 \in S PROVE k \in S
  <2>1. CASE k <= Len(order)
    BY <1>1, <2>1 DEF Followed
  <2>2. CASE ~(k <= Len(order))
    <3>1. OrdersReached(NodeDeps)[k - 1] = order
      BY <1>1, <1>4, <2>2
    <3>2. OrdersReached(NodeDeps)[k] = Pushed(NodeDeps, OrdersReached(NodeDeps)[k - 1])
      BY NodeDepsTyped, OrdersReachedAre
    <3> QED
      BY <1>1, <1>2, <3>1, <3>2
  <2> QED
    BY <2>1, <2>2
<1>5. 0 .. N \subseteq S
  <2> HIDE DEF S
  <2> QED BY <1>1, <1>3, <1>4, UpTo
<1>6. OrdersReached(NodeDeps)[N] = order
  BY <1>1, <1>5
<1> QED
  BY <1>6, NodeDepsTyped, OrdersReachedAre

(* The order the loop returns, or had reached when it found a cycle, is    *)
(* the one the loop-free form computes.                                    *)
THEOREM OrderIsOrderOf == Spec => []LoopComputesOrderOf
<1>1. Init => AheadToCome /\ Followed
  <2> SUFFICES ASSUME Init PROVE AheadToCome /\ Followed
    OBVIOUS
  <2>1. order = << >> /\ pc = "pass" /\ Len(order) = 0
    BY EmptySeq DEF Init
  <2>2. AheadToCome
    BY <2>1 DEF AheadToCome
  <2>3. Followed
    BY <2>1, NodeDepsTyped, OrdersReachedAre DEF Followed
  <2> QED
    BY <2>2, <2>3
<1>2. Inv /\ AheadToCome /\ Followed /\ [Next]_vars => AheadToCome' /\ Followed'
  BY AheadToComeStep, FollowedStep
<1>3. Inv /\ Followed => LoopComputesOrderOf
  <2> SUFFICES ASSUME Inv, Followed, pc \in {"ok", "cycle"} PROVE order = OrderOf(NodeDeps)
    BY DEF LoopComputesOrderOf, NodeDeps
  <2>1. CASE pc = "cycle"
    BY <2>1, StandsStill
  <2>2. CASE pc = "ok"
    <3>1. Len(order) = N
      BY <2>2, LengthCountsDone, NAssumption DEF Inv, PassOver, TypeOK
    <3> QED
      BY <3>1, NodeDepsTyped, OrdersReachedAre DEF Followed
  <2> QED
    BY <2>1, <2>2
<1> QED
  BY Invariance, <1>1, <1>2, <1>3, PTL DEF Spec
===============================================================================
