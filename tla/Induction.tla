------------------------------- MODULE Induction -------------------------------
(***************************************************************************)
(* Induction over the naturals and definition by recursion, stated on sets *)
(* and functions, so that no operator has to be instantiated.              *)
(***************************************************************************)
EXTENDS Naturals, WellFoundedInduction, TLAPS

(* Every nonempty set of naturals has a least element.                     *)
LEMMA LeastElement ==
    ASSUME NEW S, S \subseteq Nat, S # {}
    PROVE  \E n \in S : \A m \in S : n <= m
<1>1. \E R : /\ IsWellFoundedOn(R, Nat)
             /\ \A x, y \in Nat : <<y, x>> \in R <=> y < x
    <2>1. IsWellFoundedOn(OpToRel(<, Nat), Nat)
        BY NatLessThanWellFounded
    <2>2. \A x, y \in Nat : <<y, x>> \in OpToRel(<, Nat) <=> y < x
        BY DEF OpToRel
    <2> QED BY <2>1, <2>2
<1>2. PICK R : /\ IsWellFoundedOn(R, Nat)
               /\ \A x, y \in Nat : <<y, x>> \in R <=> y < x
    BY <1>1
<1>3. PICK x \in S : \A y \in S : ~(<<y, x>> \in R)
    BY <1>2, WFMin
<1>4. \A m \in S : ~(m < x)
    BY <1>2, <1>3
<1>5. \A m \in S : x <= m
    BY <1>4
<1> QED BY <1>5

(* A set with 0 and with each k up to n whose predecessor it has holds     *)
(* everything up to n.                                                     *)
LEMMA UpTo ==
    ASSUME NEW n \in Nat, NEW S, 0 \in S, \A k \in 1 .. n : k - 1 \in S => k \in S
    PROVE  0 .. n \subseteq S
<1> SUFFICES ASSUME (0 .. n) \ S # {} PROVE FALSE
    OBVIOUS
<1> DEFINE Rest == (0 .. n) \ S
<1>1. PICK k \in Rest : \A m \in Rest : k <= m
    <2>1. Rest \subseteq Nat /\ Rest # {}
        OBVIOUS
    <2> HIDE DEF Rest
    <2> QED BY <2>1, LeastElement
<1>2. k \in 1 .. n
    BY <1>1
<1>3. k - 1 \in S
    BY <1>1, <1>2
<1> QED BY <1>1, <1>2, <1>3

(* f goes from d on, each value made from the one before it by the step.   *)
Iterates(f, n, D, d, step) ==
    /\ f \in [0 .. n -> D]
    /\ f[0] = d
    /\ \A k \in 1 .. n : f[k] = step[k][f[k - 1]]

(* A function on 0 .. n is defined by its first value and by the step from *)
(* each value to the next.                                                 *)
LEMMA Recursion ==
    ASSUME NEW n \in Nat, NEW D, NEW d \in D, NEW step \in [1 .. n -> [D -> D]]
    PROVE  \E f : Iterates(f, n, D, d, step)
<1> DEFINE Good(m, f) == f[0] = d /\ \A k \in 1 .. m : f[k] = step[k][f[k - 1]]
           S == {m \in 0 .. n : \E f \in [0 .. m -> D] : Good(m, f)}
<1>1. 0 \in S
    <2>1. [j \in 0 .. 0 |-> d] \in [0 .. 0 -> D]
        OBVIOUS
    <2>2. Good(0, [j \in 0 .. 0 |-> d])
        OBVIOUS
    <2> HIDE DEF Good
    <2> QED BY <2>1, <2>2
<1>2. ASSUME NEW k \in 1 .. n, k - 1 \in S PROVE k \in S
    <2>1. PICK f \in [0 .. k - 1 -> D] : Good(k - 1, f)
        BY <1>2
    <2> DEFINE g == [j \in 0 .. k |-> IF j = k THEN step[k][f[k - 1]] ELSE f[j]]
    <2>2. step[k][f[k - 1]] \in D
        OBVIOUS
    <2>3. g \in [0 .. k -> D]
        BY <2>2
    <2>4. g[0] = d /\ g[k] = step[k][g[k - 1]]
        <3>1. /\ 0 \in 0 .. k /\ 0 # k /\ k \in 0 .. k
              /\ k - 1 \in 0 .. k /\ k - 1 # k
            OBVIOUS
        <3>2. g[0] = f[0] /\ g[k] = step[k][f[k - 1]] /\ g[k - 1] = f[k - 1]
            BY <3>1
        <3> HIDE DEF g
        <3> QED BY <2>1, <3>2
    <2>5. ASSUME NEW j \in 1 .. k - 1 PROVE g[j] = step[j][g[j - 1]]
        <3>1. g[j] = f[j] /\ g[j - 1] = f[j - 1]
            OBVIOUS
        <3> QED BY <2>1, <3>1
    <2>6. \A j \in 1 .. k : j = k \/ j \in 1 .. k - 1
        OBVIOUS
    <2> HIDE DEF g
    <2>7. Good(k, g)
        BY <2>4, <2>5, <2>6
    <2> HIDE DEF Good
    <2> QED BY <2>3, <2>7
<1>3. 0 .. n \subseteq S
    <2> HIDE DEF S
    <2> QED BY <1>1, <1>2, UpTo
<1>4. PICK f \in [0 .. n -> D] : Good(n, f)
    BY <1>3
<1>5. Iterates(f, n, D, d, step)
    BY <1>4 DEF Iterates
<1> QED BY <1>5

(* A set that holds each member of S when it holds those of lower rank     *)
(* holds all of S.                                                         *)
LEMMA RankInduction ==
    ASSUME NEW S, NEW rank \in [S -> Nat], NEW T,
           \A e \in S : (\A o \in S : rank[o] < rank[e] => o \in T) => e \in T
    PROVE  S \subseteq T
<1> SUFFICES ASSUME S \ T # {} PROVE FALSE
    OBVIOUS
<1> DEFINE Ranks == {rank[e] : e \in S \ T}
<1>1. Ranks \subseteq Nat /\ Ranks # {}
    OBVIOUS
<1>2. PICK n \in Ranks : \A m \in Ranks : n <= m
    <2> HIDE DEF Ranks
    <2> QED BY <1>1, LeastElement
<1>3. PICK e \in S \ T : n = rank[e]
    OBVIOUS
<1>4. ASSUME NEW o \in S, rank[o] < rank[e] PROVE o \in T
    <2>1. o \notin T => n <= rank[o]
        BY <1>2
    <2> QED BY <1>3, <1>4, <2>1
<1> QED BY <1>3, <1>4

(* A step makes the value at e from the values at members of lower rank.   *)
Descends(S, rank, D, step) ==
    \A e \in S : \A f, g \in [S -> D] :
        (\A o \in S : rank[o] < rank[e] => f[o] = g[o]) => step[e][f] = step[e][g]

Solves(f, S, D, step) ==
    /\ f \in [S -> D]
    /\ \A e \in S : f[e] = step[e][f]

(* A function is defined by such a step.                                   *)
LEMMA RankedRecursion ==
    ASSUME NEW S, NEW rank \in [S -> Nat], NEW D, NEW step \in [S -> [[S -> D] -> D]],
           NEW tallest \in S, \A e \in S : rank[e] <= rank[tallest],
           NEW d \in D, Descends(S, rank, D, step)
    PROVE  \E f : Solves(f, S, D, step)
<1> DEFINE n == rank[tallest] + 1
           F == [S -> D]
           next == [f \in F |-> [e \in S |-> step[e][f]]]
           steps == [k \in 1 .. n |-> next]
<1>1. n \in Nat /\ [e \in S |-> d] \in F /\ next \in [F -> F] /\ steps \in [1 .. n -> [F -> F]]
    OBVIOUS
<1>2. PICK h : Iterates(h, n, F, [e \in S |-> d], steps)
    <2> HIDE DEF n, F, next, steps
    <2> QED BY <1>1, Recursion
<1>3. /\ \A k \in 0 .. n : h[k] \in F
      /\ \A k \in 1 .. n : \A e \in S : h[k][e] = step[e][h[k - 1]]
    <2>1. h \in [0 .. n -> F] /\ \A k \in 1 .. n : h[k] = steps[k][h[k - 1]]
        BY <1>2 DEF Iterates
    <2>2. ASSUME NEW k \in 1 .. n PROVE h[k - 1] \in F /\ h[k] = next[h[k - 1]]
        <3>1. k - 1 \in 0 .. n
            BY <1>1
        <3> HIDE DEF n, F, next
        <3> QED BY <2>1, <3>1
    <2>3. ASSUME NEW k \in 1 .. n, NEW e \in S PROVE h[k][e] = step[e][h[k - 1]]
        <3> DEFINE g == h[k - 1]
        <3>1. g \in F /\ h[k] = next[g]
            BY <2>2
        <3> HIDE DEF g
        <3>2. next[g][e] = step[e][g]
            BY <3>1
        <3>3. h[k][e] = step[e][g]
            BY <3>1, <3>2
        <3> QED BY <3>3 DEF g
    <2> QED BY <2>1, <2>3
<1> DEFINE G == {k \in 0 .. n : \A e \in S : rank[e] < k => h[k][e] = step[e][h[k]]}
<1>4. 0 \in G
    BY <1>1
<1>5. ASSUME NEW k \in 1 .. n, k - 1 \in G PROVE k \in G
    <2> SUFFICES ASSUME NEW e \in S, rank[e] < k PROVE h[k][e] = step[e][h[k]]
        BY <1>1
    <2>1. k - 1 \in 0 .. n /\ k \in 0 .. n
        BY <1>1
    <2>2. ASSUME NEW o \in S, rank[o] < rank[e] PROVE h[k][o] = h[k - 1][o]
        <3>1. rank[o] < k - 1
            BY <2>2, <1>1
        <3>2. h[k - 1][o] = step[o][h[k - 1]]
            BY <1>5, <3>1
        <3> QED BY <1>3, <3>2
    <2>3. h[k] \in [S -> D] /\ h[k - 1] \in [S -> D]
        BY <1>3, <2>1
    <2>4. step[e][h[k]] = step[e][h[k - 1]]
        BY <2>2, <2>3 DEF Descends
    <2> QED BY <1>3, <2>4
<1>6. n \in G
    <2> HIDE DEF G, n
    <2>1. \A k \in 1 .. n : k - 1 \in G => k \in G
        BY <1>5
    <2>2. 0 .. n \subseteq G
        BY <1>1, <1>4, <2>1, UpTo
    <2> QED BY <1>1, <2>2
<1>7. h[n] \in F /\ \A e \in S : h[n][e] = step[e][h[n]]
    BY <1>1, <1>3, <1>6
<1> QED BY <1>7 DEF Solves
===============================================================================
