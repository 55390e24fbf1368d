---------------------------- MODULE WorkbenchProofs ----------------------------
(***************************************************************************)
(* The two files that the editor edits (studio_server.rs), for every set   *)
(* of sessions, every sequence of requests and whatever the recursion over *)
(* expressions yields: both stay well formed, and no name comes to be      *)
(* twice; the layout of an operator follows its equations; a contract      *)
(* follows the interface of the operator it is attached to.                *)
(*                                                                         *)
(* The proofs go up in four levels: sequences and tables; an edit of one   *)
(* operator (Sound, Placed); what becomes of the two files when operators, *)
(* contracts, machines or types are put in place (Keeps); and the requests *)
(* themselves (Kept), of which each has a lemma that ends in Keeps.        *)
(***************************************************************************)
EXTENDS Workbench, Induction, FiniteSetTheorems, SequenceTheorems

LEMMA SeqFacts ==
    ASSUME NEW s, IsSeq(s)
    PROVE  /\ Len(s) \in Nat /\ DOMAIN s = 1 .. Len(s)
           /\ s \in Seq({s[k] : k \in 1 .. Len(s)})
<1> DEFINE S == {s[k] : k \in 1 .. Len(s)}
<1>1. s = [k \in 1 .. Len(s) |-> s[k]] /\ Len(s) \in Nat
    BY DEF IsSeq
<1>2. s \in [1 .. Len(s) -> S]
    BY <1>1
<1>3. s \in Seq(S)
    BY <1>1, <1>2, SeqDef
<1> QED BY <1>1, <1>2, <1>3

LEMMA SeqIsSeq ==
    ASSUME NEW S, NEW s \in Seq(S)
    PROVE  IsSeq(s)
<1>1. Len(s) \in Nat /\ s \in [1 .. Len(s) -> S]
    BY LenProperties
<1> QED BY <1>1 DEF IsSeq

(* A function on 1 .. n is a sequence.                                     *)
LEMMA TupleSeq ==
    ASSUME NEW n \in Nat, NEW f, f = [k \in 1 .. n |-> f[k]]
    PROVE  IsSeq(f) /\ Len(f) = n /\ DOMAIN f = 1 .. n
<1> DEFINE S == {f[k] : k \in 1 .. n}
<1>1. f \in [1 .. n -> S]
    OBVIOUS
<1>2. f \in Seq(S) /\ Len(f) = n
    BY <1>1, SeqDef, LenProperties
<1> QED BY <1>1, <1>2, SeqIsSeq

LEMMA AppendSeq ==
    ASSUME NEW s, IsSeq(s), NEW e
    PROVE  /\ IsSeq(Append(s, e)) /\ Len(Append(s, e)) = Len(s) + 1
           /\ DOMAIN Append(s, e) = 1 .. Len(s) + 1
           /\ \A k \in DOMAIN s : Append(s, e)[k] = s[k]
           /\ Append(s, e)[Len(s) + 1] = e
<1> DEFINE S == {s[k] : k \in 1 .. Len(s)} \cup {e}
<1>1. s \in Seq(S) /\ e \in S /\ Len(s) \in Nat /\ DOMAIN s = 1 .. Len(s)
    <2>1. s \in Seq({s[k] : k \in 1 .. Len(s)}) /\ Len(s) \in Nat /\ DOMAIN s = 1 .. Len(s)
        BY SeqFacts
    <2> QED BY <2>1
<1> HIDE DEF S
<1>2. Append(s, e) \in Seq(S)
    BY <1>1
<1>3. Len(Append(s, e)) = Len(s) + 1
    BY <1>1
<1>4. /\ DOMAIN Append(s, e) = 1 .. Len(s) + 1
      /\ \A k \in DOMAIN s : Append(s, e)[k] = s[k]
      /\ Append(s, e)[Len(s) + 1] = e
    BY <1>1
<1> QED BY <1>2, <1>3, <1>4, SeqIsSeq

(* A sequence of one element.                                              *)
LEMMA OneSeq ==
    ASSUME NEW e
    PROVE  IsSeq(<<e>>) /\ DOMAIN <<e>> = {1} /\ <<e>>[1] = e
<1> DEFINE s == <<e>>
<1>1. s \in Seq({e}) /\ DOMAIN s = {1} /\ s[1] = e
    OBVIOUS
<1> HIDE DEF s
<1>2. IsSeq(s) /\ DOMAIN s = {1} /\ s[1] = e
    BY <1>1, SeqIsSeq
<1> QED BY <1>2 DEF s

LEMMA AppendOne ==
    ASSUME NEW s, IsSeq(s), NEW e
    PROVE  Append(s, e) = s \o <<e>>
<1> DEFINE S == {s[k] : k \in 1 .. Len(s)} \cup {e}
<1>1. s \in Seq({s[k] : k \in 1 .. Len(s)})
    BY SeqFacts
<1>2. s \in Seq(S) /\ e \in S
    BY <1>1
<1> HIDE DEF S
<1> QED BY <1>2, AppendIsConcat

LEMMA ConcatSeq ==
    ASSUME NEW s, IsSeq(s), NEW t, IsSeq(t)
    PROVE  /\ IsSeq(s \o t) /\ Len(s \o t) = Len(s) + Len(t)
           /\ DOMAIN (s \o t) = 1 .. Len(s) + Len(t)
           /\ \A k \in DOMAIN s : (s \o t)[k] = s[k]
           /\ \A k \in DOMAIN t : (s \o t)[Len(s) + k] = t[k]
<1> DEFINE S == {s[k] : k \in 1 .. Len(s)} \cup {t[k] : k \in 1 .. Len(t)}
<1>1. /\ s \in Seq(S) /\ Len(s) \in Nat /\ DOMAIN s = 1 .. Len(s)
      /\ t \in Seq(S) /\ Len(t) \in Nat /\ DOMAIN t = 1 .. Len(t)
    <2>1. s \in Seq({s[k] : k \in 1 .. Len(s)}) /\ Len(s) \in Nat /\ DOMAIN s = 1 .. Len(s)
        BY SeqFacts
    <2>2. t \in Seq({t[k] : k \in 1 .. Len(t)}) /\ Len(t) \in Nat /\ DOMAIN t = 1 .. Len(t)
        BY SeqFacts
    <2> QED BY <2>1, <2>2
<1> HIDE DEF S
<1>2. s \o t \in Seq(S)
    BY <1>1
<1>3. Len(s \o t) = Len(s) + Len(t)
    BY <1>1
<1>4. /\ DOMAIN (s \o t) = 1 .. Len(s) + Len(t)
      /\ \A k \in DOMAIN s : (s \o t)[k] = s[k]
      /\ \A k \in DOMAIN t : (s \o t)[Len(s) + k] = t[k]
    BY <1>1
<1> QED BY <1>2, <1>3, <1>4, SeqIsSeq

LEMMA ConcatSecond ==
    ASSUME NEW s, IsSeq(s), NEW t, IsSeq(t), NEW k \in DOMAIN t
    PROVE  (s \o t)[Len(s) + k] = t[k]
<1>1. Len(s) \in Nat /\ DOMAIN s = 1 .. Len(s) /\ Len(t) \in Nat /\ DOMAIN t = 1 .. Len(t)
    BY SeqFacts
<1> QED BY <1>1, ConcatSeq

(* What a sequence of two parts holds is held by one of them.              *)
LEMMA ConcatParts ==
    ASSUME NEW s, IsSeq(s), NEW t, IsSeq(t), NEW k \in DOMAIN (s \o t)
    PROVE  \/ k \in DOMAIN s /\ (s \o t)[k] = s[k]
           \/ k - Len(s) \in DOMAIN t /\ (s \o t)[k] = t[k - Len(s)] /\ ~(k \in DOMAIN s)
<1>1. Len(s) \in Nat /\ DOMAIN s = 1 .. Len(s) /\ Len(t) \in Nat /\ DOMAIN t = 1 .. Len(t)
    BY SeqFacts
<1>2. k \in 1 .. Len(s) + Len(t)
    BY ConcatSeq
<1>3. CASE k \in DOMAIN s
    BY <1>3, ConcatSeq
<1>4. CASE ~(k \in DOMAIN s)
    <2>1. k - Len(s) \in DOMAIN t /\ k = Len(s) + (k - Len(s))
        BY <1>1, <1>2, <1>4
    <2>2. (s \o t)[Len(s) + (k - Len(s))] = t[k - Len(s)]
        BY <2>1, ConcatSeq
    <2> QED BY <1>4, <2>1, <2>2
<1> QED BY <1>3, <1>4

(* Tables of two parts.                                                    *)
LEMMA ConcatTable ==
    ASSUME NEW s, IsTable(s), NEW t, IsTable(t)
    PROVE  /\ IsTable(s \o t)
           /\ Fields(s \o t) = Fields(s) \cup Fields(t)
           /\ Distinct(s \o t) <=> Distinct(s) /\ Distinct(t) /\ Fields(s) \cap Fields(t) = {}
<1>0. IsSeq(s) /\ IsSeq(t)
    BY DEF IsTable
<1>1. Len(s) \in Nat /\ DOMAIN s = 1 .. Len(s) /\ Len(t) \in Nat /\ DOMAIN t = 1 .. Len(t)
    BY <1>0, SeqFacts
<1>2. /\ IsSeq(s \o t) /\ DOMAIN (s \o t) = 1 .. Len(s) + Len(t)
      /\ \A k \in DOMAIN s : (s \o t)[k] = s[k]
      /\ \A k \in DOMAIN t : (s \o t)[Len(s) + k] = t[k]
    <2>1. IsSeq(s \o t) /\ DOMAIN (s \o t) = 1 .. Len(s) + Len(t)
        BY <1>0, ConcatSeq
    <2>2. \A k \in DOMAIN s : (s \o t)[k] = s[k]
        BY <1>0, ConcatSeq
    <2>3. ASSUME NEW k \in DOMAIN t PROVE (s \o t)[Len(s) + k] = t[k]
        BY <1>0, <1>1, ConcatSeq
    <2> QED BY <2>1, <2>2, <2>3
<1>3. \A k \in DOMAIN (s \o t) :
         \/ k \in DOMAIN s /\ (s \o t)[k] = s[k]
         \/ k - Len(s) \in DOMAIN t /\ (s \o t)[k] = t[k - Len(s)] /\ ~(k \in DOMAIN s)
    BY <1>0, ConcatParts
<1>4. DOMAIN s \subseteq DOMAIN (s \o t) /\ \A k \in DOMAIN t : Len(s) + k \in DOMAIN (s \o t)
    BY <1>1, <1>2
<1> DEFINE c == s \o t
<1>5. IsTable(c)
    <2>1. \A k \in DOMAIN c : "name" \in DOMAIN c[k]
        BY <1>3 DEF IsTable
    <2> QED BY <1>2, <2>1 DEF IsTable
<1>6. Fields(c) = Fields(s) \cup Fields(t)
    <2>1. ASSUME NEW x \in Fields(c) PROVE x \in Fields(s) \cup Fields(t)
        BY <1>3 DEF Fields
    <2>2. ASSUME NEW x \in Fields(s) PROVE x \in Fields(c)
        BY <1>2, <1>4 DEF Fields
    <2>3. ASSUME NEW x \in Fields(t) PROVE x \in Fields(c)
        <3>1. PICK k \in DOMAIN t : x = t[k].name
            BY DEF Fields
        <3>2. Len(s) + k \in DOMAIN c /\ c[Len(s) + k].name = x
            BY <1>2, <1>4, <3>1
        <3> HIDE DEF c
        <3> QED BY <3>2 DEF Fields
    <2> QED BY <2>1, <2>2, <2>3
<1>7. ASSUME Distinct(c) PROVE Distinct(s) /\ Distinct(t) /\ Fields(s) \cap Fields(t) = {}
    <2> HIDE DEF c
    <2>0. \A i, j \in DOMAIN c : c[i].name = c[j].name => i = j
        BY <1>7 DEF Distinct
    <2>1. Distinct(s)
        <3> SUFFICES ASSUME NEW i \in DOMAIN s, NEW j \in DOMAIN s, s[i].name = s[j].name PROVE i = j
            BY DEF Distinct
        <3>1. c[i] = s[i] /\ c[j] = s[j] /\ i \in DOMAIN c /\ j \in DOMAIN c
            BY <1>2, <1>4 DEF c
        <3> QED BY <2>0, <3>1
    <2>2. Distinct(t)
        <3> SUFFICES ASSUME NEW i \in DOMAIN t, NEW j \in DOMAIN t, t[i].name = t[j].name PROVE i = j
            BY DEF Distinct
        <3>1. /\ c[Len(s) + i] = t[i] /\ c[Len(s) + j] = t[j]
              /\ Len(s) + i \in DOMAIN c /\ Len(s) + j \in DOMAIN c
            BY <1>2, <1>4 DEF c
        <3>2. Len(s) + i = Len(s) + j
            BY <2>0, <3>1
        <3> QED BY <1>1, <3>2
    <2>3. ASSUME NEW i \in DOMAIN s, NEW j \in DOMAIN t, s[i].name = t[j].name PROVE FALSE
        <3>1. c[i] = s[i] /\ c[Len(s) + j] = t[j] /\ i \in DOMAIN c /\ Len(s) + j \in DOMAIN c
            BY <1>2, <1>4 DEF c
        <3>2. i = Len(s) + j
            BY <2>0, <2>3, <3>1
        <3> QED BY <1>1, <3>2
    <2> QED BY <2>1, <2>2, <2>3 DEF Fields
<1>8. ASSUME Distinct(s), Distinct(t), Fields(s) \cap Fields(t) = {} PROVE Distinct(c)
    <2> SUFFICES ASSUME NEW i \in DOMAIN c, NEW j \in DOMAIN c, c[i].name = c[j].name PROVE i = j
        BY DEF Distinct
    <2>1. CASE i \in DOMAIN s /\ j \in DOMAIN s
        BY <1>2, <1>8, <2>1 DEF Distinct
    <2>2. CASE ~(i \in DOMAIN s) /\ ~(j \in DOMAIN s)
        <3>1. /\ i - Len(s) \in DOMAIN t /\ c[i] = t[i - Len(s)]
              /\ j - Len(s) \in DOMAIN t /\ c[j] = t[j - Len(s)]
            BY <1>3, <2>2
        <3>2. i - Len(s) = j - Len(s)
            BY <1>8, <3>1 DEF Distinct
        <3> QED BY <1>1, <1>2, <3>2
    <2>3. CASE i \in DOMAIN s /\ ~(j \in DOMAIN s)
        <3>1. c[i] = s[i] /\ c[j] = t[j - Len(s)] /\ j - Len(s) \in DOMAIN t
            BY <1>3, <2>3
        <3>2. c[i].name \in Fields(s) /\ c[j].name \in Fields(t)
            BY <2>3, <3>1 DEF Fields
        <3> QED BY <1>8, <3>2
    <2>4. CASE ~(i \in DOMAIN s) /\ j \in DOMAIN s
        <3>1. c[j] = s[j] /\ c[i] = t[i - Len(s)] /\ i - Len(s) \in DOMAIN t
            BY <1>3, <2>4
        <3>2. c[j].name \in Fields(s) /\ c[i].name \in Fields(t)
            BY <2>4, <3>1 DEF Fields
        <3> QED BY <1>8, <3>2
    <2> QED BY <2>1, <2>2, <2>3, <2>4
<1> QED BY <1>5, <1>6, <1>7, <1>8

(* A definition more at the end of a table.                                *)
LEMMA AppendTable ==
    ASSUME NEW s, IsTable(s), NEW e, "name" \in DOMAIN e
    PROVE  /\ IsTable(Append(s, e))
           /\ Fields(Append(s, e)) = Fields(s) \cup {e.name}
           /\ Distinct(Append(s, e)) <=> Distinct(s) /\ e.name \notin Fields(s)
<1>0. IsSeq(s) /\ Len(s) \in Nat /\ DOMAIN s = 1 .. Len(s)
    BY SeqFacts DEF IsTable
<1> DEFINE c == Append(s, e)
<1>1. /\ IsSeq(c) /\ DOMAIN c = 1 .. Len(s) + 1
      /\ \A k \in DOMAIN s : c[k] = s[k]
      /\ c[Len(s) + 1] = e
    BY <1>0, AppendSeq
<1> HIDE DEF c
<1>2. \A k \in DOMAIN c : k \in DOMAIN s \/ k = Len(s) + 1
    BY <1>0, <1>1
<1>3. DOMAIN s \subseteq DOMAIN c /\ Len(s) + 1 \in DOMAIN c /\ Len(s) + 1 \notin DOMAIN s
    BY <1>0, <1>1
<1>4. IsTable(c)
    <2>1. \A k \in DOMAIN c : "name" \in DOMAIN c[k]
        BY <1>1, <1>2 DEF IsTable
    <2> QED BY <1>1, <2>1 DEF IsTable
<1>5. Fields(c) = Fields(s) \cup {e.name}
    BY <1>1, <1>2, <1>3 DEF Fields
<1>6. Distinct(c) <=> Distinct(s) /\ e.name \notin Fields(s)
    <2>1. ASSUME Distinct(c) PROVE Distinct(s)
        BY <1>1, <1>3, <2>1 DEF Distinct
    <2>2. ASSUME Distinct(c), e.name \in Fields(s) PROVE FALSE
        <3>1. PICK k \in DOMAIN s : s[k].name = e.name
            BY <2>2 DEF Fields
        <3>2. c[k].name = c[Len(s) + 1].name /\ k \in DOMAIN c
            BY <1>1, <1>3, <3>1
        <3>3. k = Len(s) + 1
            BY <1>3, <2>2, <3>2 DEF Distinct
        <3> QED BY <1>3, <3>3
    <2>3. ASSUME Distinct(s), e.name \notin Fields(s) PROVE Distinct(c)
        BY <1>1, <1>2, <2>3 DEF Distinct, Fields
    <2> QED BY <2>1, <2>2, <2>3
<1> QED BY <1>4, <1>5, <1>6 DEF c

(* A table changed in place, of which no name changes.                     *)
LEMMA MappedTable ==
    ASSUME NEW s, IsTable(s), NEW f, f = [j \in DOMAIN s |-> f[j]],
           \A j \in DOMAIN s : "name" \in DOMAIN f[j] /\ f[j].name = s[j].name
    PROVE  /\ IsTable(f) /\ DOMAIN f = DOMAIN s /\ Len(f) = Len(s)
           /\ Fields(f) = Fields(s)
           /\ Distinct(s) => Distinct(f)
<1>1. Len(s) \in Nat /\ DOMAIN s = 1 .. Len(s)
    BY SeqFacts DEF IsTable
<1>2. IsSeq(f) /\ Len(f) = Len(s) /\ DOMAIN f = DOMAIN s
    <2>1. f = [j \in 1 .. Len(s) |-> f[j]]
        BY <1>1
    <2> QED BY <1>1, <2>1, TupleSeq
<1> QED BY <1>2 DEF IsTable, Fields, Distinct

(* The empty table.                                                        *)
LEMMA EmptyTable ==
    /\ IsSeq(<< >>) /\ DOMAIN << >> = {}
    /\ IsTable(<< >>) /\ Fields(<< >>) = {} /\ Distinct(<< >>)
<1>1. << >> \in Seq({}) /\ Len(<< >>) = 0
    OBVIOUS
<1>2. IsSeq(<< >>)
    BY <1>1, SeqIsSeq
<1>3. DOMAIN << >> = {}
    BY <1>1, <1>2, SeqFacts
<1> QED BY <1>2, <1>3 DEF IsTable, Fields, Distinct

(* Without, a definition at a time.                                        *)
LEMMA WithoutSteps ==
    ASSUME NEW defs, IsTable(defs), NEW x
    PROVE  \E kept : /\ kept[0] = << >>
                     /\ \A j \in 1 .. Len(defs) :
                           kept[j] = IF defs[j].name = x THEN kept[j - 1]
                                     ELSE Append(kept[j - 1], defs[j])
                     /\ Without(defs, x) = kept[Len(defs)]
<1> DEFINE n == Len(defs)
           D == Seq({defs[k] : k \in 1 .. n})
           Step(j, s) == IF defs[j].name = x THEN s ELSE Append(s, defs[j])
           kept[j \in 0 .. n] == IF j = 0 THEN << >> ELSE Step(j, kept[j - 1])
           Defines(f) == f = [j \in 0 .. n |-> IF j = 0 THEN << >> ELSE Step(j, f[j - 1])]
<1>1. n \in Nat /\ DOMAIN defs = 1 .. n
    BY SeqFacts DEF IsTable
<1>2. \E f : Defines(f)
    <2> DEFINE step == [j \in 1 .. n |-> [s \in D |-> Step(j, s)]]
    <2>1. step \in [1 .. n -> [D -> D]]
        <3>1. ASSUME NEW j \in 1 .. n, NEW s \in D PROVE Step(j, s) \in D
            OBVIOUS
        <3> HIDE DEF Step, D, n
        <3> QED BY <3>1
    <2>2. PICK f \in [0 .. n -> D] :
              f[0] = << >> /\ \A j \in 1 .. n : f[j] = step[j][f[j - 1]]
        <3>0. << >> \in D
            OBVIOUS
        <3> HIDE DEF step, D, n
        <3>1. PICK f : Iterates(f, n, D, << >>, step)
            BY <1>1, <2>1, <3>0, Recursion
        <3> QED BY <3>1 DEF Iterates
    <2>3. ASSUME NEW j \in 0 .. n
          PROVE  f[j] = IF j = 0 THEN << >> ELSE Step(j, f[j - 1])
        <3>1. CASE j = 0
            BY <2>2, <3>1
        <3>2. CASE j # 0
            <4>1. j \in 1 .. n /\ j - 1 \in 0 .. n
                BY <1>1, <3>2
            <4>2. f[j - 1] \in D
                BY <2>2, <4>1
            <4>3. step[j][f[j - 1]] = Step(j, f[j - 1])
                <5> HIDE DEF Step, D
                <5> QED BY <4>1, <4>2
            <4> QED BY <2>2, <3>2, <4>1, <4>3
        <3> QED BY <3>1, <3>2
    <2>4. Defines(f)
        <3> HIDE DEF Step, n
        <3> QED BY <2>2, <2>3
    <2> HIDE DEF Defines
    <2> QED BY <2>4
<1>3. Defines(kept)
    <2> HIDE DEF Step, n
    <2> QED BY <1>2
<1>4. kept[n] = Without(defs, x)
    BY DEF Without
<1> HIDE DEF kept
<1>5. /\ kept[0] = << >>
      /\ \A j \in 1 .. n : kept[j] = Step(j, kept[j - 1])
    <2>1. \A j \in 0 .. n : kept[j] = IF j = 0 THEN << >> ELSE Step(j, kept[j - 1])
        <3> HIDE DEF Step, n
        <3> QED BY <1>3
    <2>2. 0 \in 0 .. n /\ \A j \in 1 .. n : j \in 0 .. n /\ j # 0
        BY <1>1
    <2> HIDE DEF Step, n
    <2> QED BY <2>1, <2>2
<1> QED BY <1>4, <1>5

(* What is left of a table without the definitions of one name.            *)
LEMMA WithoutTable ==
    ASSUME NEW defs, IsTable(defs), NEW x
    PROVE  /\ IsTable(Without(defs, x))
           /\ Fields(Without(defs, x)) = Fields(defs) \ {x}
           /\ \A k \in DOMAIN Without(defs, x) : \E j \in DOMAIN defs : Without(defs, x)[k] = defs[j]
           /\ Distinct(defs) => Distinct(Without(defs, x))
<1>1. PICK kept : /\ kept[0] = << >>
                  /\ \A j \in 1 .. Len(defs) :
                        kept[j] = IF defs[j].name = x THEN kept[j - 1]
                                  ELSE Append(kept[j - 1], defs[j])
                  /\ Without(defs, x) = kept[Len(defs)]
    BY WithoutSteps
<1>2. /\ Len(defs) \in Nat /\ DOMAIN defs = 1 .. Len(defs)
      /\ \A j \in DOMAIN defs : "name" \in DOMAIN defs[j]
    BY SeqFacts DEF IsTable
<1> DEFINE Good(j) ==
               /\ IsTable(kept[j])
               /\ Fields(kept[j]) = {defs[i].name : i \in 1 .. j} \ {x}
               /\ \A k \in DOMAIN kept[j] : \E i \in DOMAIN defs : kept[j][k] = defs[i]
               /\ Distinct(defs) => Distinct(kept[j])
           S == {j \in 0 .. Len(defs) : Good(j)}
<1>3. 0 \in S
    <2>3. {defs[i].name : i \in 1 .. 0} = {}
        OBVIOUS
    <2>4. Good(0)
        BY <1>1, <2>3, EmptyTable
    <2> QED BY <1>2, <2>4
<1>4. ASSUME NEW j \in 1 .. Len(defs), j - 1 \in S PROVE j \in S
    <2>0. Good(j - 1)
        BY <1>4
    <2>1. j \in DOMAIN defs /\ 1 .. j = (1 .. j - 1) \cup {j} /\ j \notin 1 .. j - 1
        BY <1>2
    <2> DEFINE before == {defs[i].name : i \in 1 .. j - 1}
    <2>2. {defs[i].name : i \in 1 .. j} = before \cup {defs[j].name}
        BY <2>1
    <2>3. CASE defs[j].name = x
        <3>1. kept[j] = kept[j - 1]
            BY <1>1, <2>3
        <3>2. Good(j)
            BY <2>0, <2>2, <2>3, <3>1
        <3> QED BY <3>2
    <2>4. CASE defs[j].name # x
        <3>1. kept[j] = Append(kept[j - 1], defs[j])
            BY <1>1, <2>4
        <3> DEFINE s == kept[j - 1]
        <3>2. IsTable(s) /\ "name" \in DOMAIN defs[j]
            BY <1>2, <2>0, <2>1
        <3>3. /\ IsTable(Append(s, defs[j]))
              /\ Fields(Append(s, defs[j])) = Fields(s) \cup {defs[j].name}
              /\ Distinct(Append(s, defs[j])) <=> Distinct(s) /\ defs[j].name \notin Fields(s)
            <4> HIDE DEF s
            <4> QED BY <3>2, AppendTable
        <3>4. Fields(kept[j]) = {defs[i].name : i \in 1 .. j} \ {x}
            BY <2>0, <2>2, <2>4, <3>1, <3>3
        <3>5. ASSUME NEW k \in DOMAIN kept[j] PROVE \E i \in DOMAIN defs : kept[j][k] = defs[i]
            <4>1. IsSeq(s) /\ Len(s) \in Nat /\ DOMAIN s = 1 .. Len(s)
                BY <3>2, SeqFacts DEF IsTable
            <4>2. /\ DOMAIN Append(s, defs[j]) = 1 .. Len(s) + 1
                  /\ \A i \in DOMAIN s : Append(s, defs[j])[i] = s[i]
                  /\ Append(s, defs[j])[Len(s) + 1] = defs[j]
                <5> HIDE DEF s
                <5> QED BY <4>1, AppendSeq
            <4>3. k \in DOMAIN s \/ k = Len(s) + 1
                BY <3>1, <4>1, <4>2
            <4> QED BY <2>0, <2>1, <3>1, <4>2, <4>3
        <3>6. Distinct(defs) => Distinct(kept[j])
            <4>1. ASSUME Distinct(defs) PROVE defs[j].name \notin before
                <5>1. \A i \in 1 .. j - 1 : i \in DOMAIN defs /\ i # j
                    BY <1>2
                <5> QED BY <2>1, <4>1, <5>1 DEF Distinct
            <4> QED BY <2>0, <3>1, <3>3, <4>1
        <3>7. Good(j)
            BY <3>1, <3>3, <3>4, <3>5, <3>6
        <3> QED BY <3>7
    <2> QED BY <2>3, <2>4
<1>5. Len(defs) \in S
    <2> HIDE DEF S
    <2>1. \A j \in 1 .. Len(defs) : j - 1 \in S => j \in S
        BY <1>4
    <2>2. 0 .. Len(defs) \subseteq S
        BY <1>2, <1>3, <2>1, UpTo
    <2> QED BY <1>2, <2>2
<1>6. Good(Len(defs))
    BY <1>5
<1>7. Fields(defs) = {defs[i].name : i \in 1 .. Len(defs)}
    BY <1>2 DEF Fields
<1> HIDE DEF S
<1> QED BY <1>1, <1>6, <1>7

-------------------------------------------------------------------------------
(* Of one operator, before and after an edit: it stays well formed, and no *)
(* two of its variables get the same name;                                 *)
Sound(n, n2) ==
    /\ IsNodeDef(n2) /\ n2.name = n.name /\ n2.contract = n.contract
    /\ VarsOnce(n) => VarsOnce(n2)

(* and its layout still follows, where no variable has an equation's key.  *)
Placed(n, n2) == VarsApart(n) /\ Follows(n) => VarsApart(n2) /\ Follows(n2)

NodeFields == {"name", "kind", "ins", "outs", "locals", "eqs", "contract", "probes", "pos"}

LEMMA NodeDomain ==
    ASSUME NEW n
    PROVE  IsNodeDef(n) <=>
              /\ DOMAIN n = NodeFields
              /\ IsName(n.name) /\ n.kind \in Kinds
              /\ IsPorts(n.ins) /\ IsPorts(n.outs) /\ IsPorts(n.locals)
              /\ IsSeq(n.eqs) /\ \A j \in DOMAIN n.eqs : {"lhs", "rhs", "tag"} \subseteq DOMAIN n.eqs[j]
<1>1. DOMAIN EmptyNode(n.name, n.kind) = NodeFields
    BY DEF EmptyNode, NodeFields
<1> QED BY <1>1 DEF IsNodeDef

LEMMA PortNames ==
    ASSUME NEW ps
    PROVE  /\ IsPorts(ps) <=> IsTable(ps) /\ \A x \in Fields(ps) : IsName(x)
           /\ NoKeys(ps) <=> \A x \in Fields(ps) : NoKey(x)
<1> QED BY DEF IsPorts, NoKeys, Fields

LEMMA VarsParts ==
    ASSUME NEW n, IsPorts(n.ins), IsPorts(n.outs), IsPorts(n.locals)
    PROVE  /\ Vars(n) = Fields(n.ins) \cup Fields(n.outs) \cup Fields(n.locals)
           /\ VarsApart(n) <=> \A x \in Vars(n) : NoKey(x)
           /\ IsTable(n.ins \o n.outs \o n.locals)
           /\ VarsOnce(n) <=>
                 /\ Distinct(n.ins) /\ Distinct(n.outs) /\ Distinct(n.locals)
                 /\ Fields(n.ins) \cap Fields(n.outs) = {}
                 /\ (Fields(n.ins) \cup Fields(n.outs)) \cap Fields(n.locals) = {}
<1>1. IsTable(n.ins) /\ IsTable(n.outs) /\ IsTable(n.locals)
    BY DEF IsPorts
<1> DEFINE io == n.ins \o n.outs
<1>2. /\ IsTable(io) /\ Fields(io) = Fields(n.ins) \cup Fields(n.outs)
      /\ Distinct(io) <=> Distinct(n.ins) /\ Distinct(n.outs) /\ Fields(n.ins) \cap Fields(n.outs) = {}
    BY <1>1, ConcatTable
<1> HIDE DEF io
<1>3. /\ IsTable(io \o n.locals) /\ Fields(io \o n.locals) = Fields(io) \cup Fields(n.locals)
      /\ Distinct(io \o n.locals) <=>
            Distinct(io) /\ Distinct(n.locals) /\ Fields(io) \cap Fields(n.locals) = {}
    BY <1>1, <1>2, ConcatTable
<1>4. Vars(n) = Fields(io \o n.locals) /\ (VarsOnce(n) <=> Distinct(io \o n.locals))
    BY DEF Vars, VarsOnce, io
<1>5. VarsApart(n) <=> \A x \in Vars(n) : NoKey(x)
    BY <1>2, <1>3, <1>4, PortNames DEF VarsApart
<1>6. IsTable(n.ins \o n.outs \o n.locals)
    BY <1>3 DEF io
<1> QED BY <1>2, <1>3, <1>4, <1>5, <1>6

(* Two operators of the same variables, of which the equations of one are  *)
(* in place in the other.                                                  *)
LEMMA EqsEdit ==
    ASSUME NEW n, IsNodeDef(n), NEW n2, DOMAIN n2 = DOMAIN n,
           n2.name = n.name, n2.kind = n.kind, n2.contract = n.contract,
           n2.ins = n.ins, n2.outs = n.outs, n2.locals = n.locals, n2.pos = n.pos,
           IsSeq(n2.eqs), \A j \in DOMAIN n2.eqs : {"lhs", "rhs", "tag"} \subseteq DOMAIN n2.eqs[j],
           \A j \in DOMAIN n.eqs : j \in DOMAIN n2.eqs /\ n2.eqs[j].tag = n.eqs[j].tag
    PROVE  Sound(n, n2) /\ Placed(n, n2)
<1>1. IsNodeDef(n2)
    BY NodeDomain
<1>2. (VarsOnce(n) <=> VarsOnce(n2)) /\ Vars(n) = Vars(n2) /\ (VarsApart(n) <=> VarsApart(n2))
    BY DEF VarsOnce, Vars, VarsApart
<1>3. Follows(n) => Follows(n2)
    BY <1>2 DEF Follows
<1> QED BY <1>1, <1>2, <1>3 DEF Sound, Placed

(* More variables, where no name of one is taken.                          *)
LEMMA MoreVars ==
    ASSUME NEW n, IsNodeDef(n), NEW n2, IsNodeDef(n2),
           n2.name = n.name, n2.contract = n.contract, n2.eqs = n.eqs, n2.pos = n.pos,
           NEW x, Vars(n2) = Vars(n) \cup {x}, VarsOnce(n) => VarsOnce(n2)
    PROVE  Sound(n, n2) /\ (NoKey(x) => Placed(n, n2))
<1>1. (VarsApart(n) <=> \A y \in Vars(n) : NoKey(y)) /\ (VarsApart(n2) <=> \A y \in Vars(n2) : NoKey(y))
    BY NodeDomain, VarsParts
<1>2. Follows(n) => Follows(n2)
    BY DEF Follows
<1> QED BY <1>1, <1>2 DEF Sound, Placed

(* A variable more at the end of one list.                                 *)
LEMMA PortAppended ==
    ASSUME NEW n, IsNodeDef(n), NEW x, IsName(x), x \notin Vars(n), NEW type, NEW n2,
           \/ n2 = [n EXCEPT !.ins = Append(@, Port(x, type))]
           \/ n2 = [n EXCEPT !.outs = Append(@, Port(x, type))]
           \/ n2 = [n EXCEPT !.locals = Append(@, Port(x, type))]
    PROVE  Sound(n, n2) /\ (NoKey(x) => Placed(n, n2))
<1> DEFINE port == Port(x, type)
<1>1. "name" \in DOMAIN port /\ port.name = x
    BY DEF Port
<1>2. DOMAIN n = NodeFields /\ IsPorts(n.ins) /\ IsPorts(n.outs) /\ IsPorts(n.locals)
    BY NodeDomain
<1>3. /\ DOMAIN n2 = NodeFields
      /\ n2.name = n.name /\ n2.kind = n.kind /\ n2.contract = n.contract
      /\ n2.eqs = n.eqs /\ n2.pos = n.pos
    BY <1>2 DEF NodeFields
<1>4. \/ n2.ins = Append(n.ins, port) /\ n2.outs = n.outs /\ n2.locals = n.locals
      \/ n2.ins = n.ins /\ n2.outs = Append(n.outs, port) /\ n2.locals = n.locals
      \/ n2.ins = n.ins /\ n2.outs = n.outs /\ n2.locals = Append(n.locals, port)
    BY <1>2 DEF NodeFields
<1> HIDE DEF port
<1>5. ASSUME NEW ps, IsPorts(ps)
      PROVE  /\ IsPorts(Append(ps, port))
             /\ Fields(Append(ps, port)) = Fields(ps) \cup {x}
             /\ Distinct(Append(ps, port)) <=> Distinct(ps) /\ x \notin Fields(ps)
    <2>1. IsTable(ps) /\ \A y \in Fields(ps) : IsName(y)
        BY <1>5, PortNames
    <2>2. /\ IsTable(Append(ps, port))
          /\ Fields(Append(ps, port)) = Fields(ps) \cup {port.name}
          /\ Distinct(Append(ps, port)) <=> Distinct(ps) /\ port.name \notin Fields(ps)
        BY <1>1, <2>1, AppendTable
    <2>3. \A y \in Fields(Append(ps, port)) : IsName(y)
        BY <1>1, <2>1, <2>2
    <2> QED BY <1>1, <2>2, <2>3, PortNames
<1>6. IsPorts(n2.ins) /\ IsPorts(n2.outs) /\ IsPorts(n2.locals)
    <2>1. IsPorts(Append(n.ins, port)) /\ IsPorts(Append(n.outs, port)) /\ IsPorts(Append(n.locals, port))
        BY <1>2, <1>5
    <2> QED BY <1>2, <1>4, <2>1
<1>7. IsNodeDef(n2)
    BY <1>3, <1>6, NodeDomain
<1>8. /\ Vars(n) = Fields(n.ins) \cup Fields(n.outs) \cup Fields(n.locals)
      /\ Vars(n2) = Fields(n2.ins) \cup Fields(n2.outs) \cup Fields(n2.locals)
      /\ VarsOnce(n) =>
            /\ Distinct(n.ins) /\ Distinct(n.outs) /\ Distinct(n.locals)
            /\ Fields(n.ins) \cap Fields(n.outs) = {}
            /\ (Fields(n.ins) \cup Fields(n.outs)) \cap Fields(n.locals) = {}
      /\ /\ Distinct(n2.ins) /\ Distinct(n2.outs) /\ Distinct(n2.locals)
         /\ Fields(n2.ins) \cap Fields(n2.outs) = {}
         /\ (Fields(n2.ins) \cup Fields(n2.outs)) \cap Fields(n2.locals) = {}
         => VarsOnce(n2)
    BY <1>2, <1>6, VarsParts
<1>9. Vars(n2) = Vars(n) \cup {x} /\ (VarsOnce(n) => VarsOnce(n2))
    <2>1. CASE n2.ins = Append(n.ins, port) /\ n2.outs = n.outs /\ n2.locals = n.locals
        <3>1. /\ Fields(n2.ins) = Fields(n.ins) \cup {x}
              /\ Distinct(n2.ins) <=> Distinct(n.ins) /\ x \notin Fields(n.ins)
            BY <1>2, <1>5, <2>1
        <3> QED BY <1>8, <2>1, <3>1
    <2>2. CASE n2.ins = n.ins /\ n2.outs = Append(n.outs, port) /\ n2.locals = n.locals
        <3>1. /\ Fields(n2.outs) = Fields(n.outs) \cup {x}
              /\ Distinct(n2.outs) <=> Distinct(n.outs) /\ x \notin Fields(n.outs)
            BY <1>2, <1>5, <2>2
        <3> QED BY <1>8, <2>2, <3>1
    <2>3. CASE n2.ins = n.ins /\ n2.outs = n.outs /\ n2.locals = Append(n.locals, port)
        <3>1. /\ Fields(n2.locals) = Fields(n.locals) \cup {x}
              /\ Distinct(n2.locals) <=> Distinct(n.locals) /\ x \notin Fields(n.locals)
            BY <1>2, <1>5, <2>3
        <3> QED BY <1>8, <2>3, <3>1
    <2> QED BY <1>4, <2>1, <2>2, <2>3
<1> QED BY <1>3, <1>7, <1>9, MoreVars

-------------------------------------------------------------------------------
(* The last element of a sequence of two parts.                            *)
LEMMA ConcatLast ==
    ASSUME NEW s, IsSeq(s), NEW t, IsSeq(t), Len(t) # 0
    PROVE  /\ IsSeq(s \o t) /\ Len(s \o t) = Len(s) + Len(t)
           /\ (s \o t)[Len(s \o t)] = t[Len(t)]
<1>1. Len(s) \in Nat /\ DOMAIN s = 1 .. Len(s) /\ Len(t) \in Nat /\ DOMAIN t = 1 .. Len(t)
    BY SeqFacts
<1>2. ASSUME NEW k \in DOMAIN t PROVE (s \o t)[Len(s) + k] = t[k]
    BY <1>1, ConcatSeq
<1>3. Len(t) \in DOMAIN t
    BY <1>1
<1>4. IsSeq(s \o t) /\ Len(s \o t) = Len(s) + Len(t)
    BY ConcatSeq
<1> QED BY <1>2, <1>3, <1>4

(* Numbered names differ, and none is an equation's key.                   *)
LEMMA NumberedNames ==
    ASSUME NEW base, IsName(base)
    PROVE  /\ \A i \in Nat : IsName(Numbered(base, i)) /\ NoKey(Numbered(base, i))
           /\ \A i, j \in Nat : Numbered(base, i) = Numbered(base, j) => i = j
<1>1. IsSeq(base) /\ Len(base) \in Nat \ {0}
    <2>1. base \in Seq({base[k] : k \in 1 .. Len(base)}) /\ Len(base) \in Nat /\ base # << >>
        BY SeqFacts DEF IsName
    <2> QED BY <2>1 DEF IsName
<1>2. ASSUME NEW i \in Nat
      PROVE  /\ IsSeq(Numbered(base, i)) /\ Len(Numbered(base, i)) = Len(base) + 2
             /\ Numbered(base, i)[Len(base) + 2] = i
    <2> DEFINE t == <<"_", i>>
    <2>1. t \in Seq({"_", i}) /\ Len(t) = 2 /\ t[2] = i /\ 2 \in DOMAIN t
        OBVIOUS
    <2>2. IsSeq(t)
        BY <2>1, SeqIsSeq
    <2>3. Len(t) = 2
        BY <2>1
    <2> HIDE DEF t
    <2>4. /\ IsSeq(base \o t) /\ Len(base \o t) = Len(base) + Len(t)
          /\ (base \o t)[Len(base \o t)] = t[Len(t)]
        <3>1. Len(t) # 0
            BY <2>3
        <3> QED BY <1>1, <2>2, <3>1, ConcatLast
    <2>5. Numbered(base, i) = base \o t /\ t[2] = i
        BY <2>1 DEF Numbered, t
    <2> QED BY <1>1, <2>3, <2>4, <2>5
<1>3. ASSUME NEW i \in Nat PROVE Numbered(base, i) # << >> /\ NoKey(Numbered(base, i))
    <2>1. Len(Numbered(base, i)) # 2 /\ Len(Numbered(base, i)) # 0 /\ Len(<< >>) = 0
        BY <1>1, <1>2
    <2> QED BY <2>1 DEF NoKey
<1> QED BY <1>2, <1>3 DEF IsName

(* The name found is not taken.                                            *)
LEMMA FreshIsFree ==
    ASSUME NEW base, IsName(base), NEW known, IsFiniteSet(known)
    PROVE  /\ Fresh(base, known) \notin known
           /\ IsName(Fresh(base, known))
           /\ NoKey(base) => NoKey(Fresh(base, known))
           /\ Fresh(base, known) \in {base} \cup {Numbered(base, i) : i \in Nat}
<1> DEFINE c == Cardinality(known)
           free == {i \in 2 .. c + 2 : Numbered(base, i) \notin known}
<1>1. c \in Nat
    BY FS_CardinalityType
<1>2. free # {}
    <2> SUFFICES ASSUME \A i \in 2 .. c + 2 : Numbered(base, i) \in known PROVE FALSE
        BY <1>1
    <2> DEFINE f == [i \in 2 .. c + 2 |-> Numbered(base, i)]
    <2>1. f \in [2 .. c + 2 -> known]
        OBVIOUS
    <2>2. IsFiniteSet(2 .. c + 2) /\ Cardinality(2 .. c + 2) = c + 1
        <3> DEFINE b == c + 2
        <3>1. b \in Int /\ ~(2 > b) /\ b - 2 + 1 = c + 1
            BY <1>1
        <3> HIDE DEF b
        <3>2. IsFiniteSet(2 .. b) /\ Cardinality(2 .. b) = IF 2 > b THEN 0 ELSE b - 2 + 1
            BY <3>1, FS_Interval
        <3>3. IsFiniteSet(2 .. b) /\ Cardinality(2 .. b) = c + 1
            BY <3>1, <3>2
        <3> QED BY <3>3 DEF b
    <2>3. Cardinality(known) < Cardinality(2 .. c + 2)
        BY <1>1, <2>2
    <2>4. PICK i, j \in 2 .. c + 2 : i # j /\ f[i] = f[j]
        <3> HIDE DEF f, c
        <3> QED BY <2>1, <2>2, <2>3, FS_PigeonHole
    <2>5. i \in Nat /\ j \in Nat /\ Numbered(base, i) = Numbered(base, j)
        BY <1>1, <2>4
    <2> QED BY <2>4, <2>5, NumberedNames
<1>3. Min(free) \in free
    <2>1. free \subseteq Nat
        BY <1>1
    <2> HIDE DEF free
    <2>2. \E n \in free : \A m \in free : n <= m
        BY <1>2, <2>1, LeastElement
    <2> QED BY <2>2 DEF Min
<1>4. Fresh(base, known) = IF base \notin known THEN base ELSE Numbered(base, Min(free))
    BY DEF Fresh
<1>5. Min(free) \in Nat /\ Numbered(base, Min(free)) \notin known
    BY <1>1, <1>3
<1> HIDE DEF free
<1> QED BY <1>4, <1>5, NumberedNames

(* What a sequence holds is finite.                                        *)
LEMMA SeqFinite ==
    ASSUME NEW s, IsSeq(s)
    PROVE  IsFiniteSet(ToSet(s))
<1>1. Len(s) \in Nat /\ DOMAIN s = 1 .. Len(s)
    BY SeqFacts
<1>2. IsFiniteSet(1 .. Len(s))
    BY <1>1, FS_Interval
<1>3. IsFiniteSet({s[i] : i \in 1 .. Len(s)})
    <2> DEFINE f == [i \in 1 .. Len(s) |-> s[i]]
    <2>1. f \in Surjection(1 .. Len(s), {s[i] : i \in 1 .. Len(s)})
        BY DEF Surjection
    <2> HIDE DEF f
    <2> QED BY <1>2, <2>1, FS_Surjection
<1>4. ToSet(s) = {s[i] : i \in 1 .. Len(s)}
    BY <1>1 DEF ToSet
<1> QED BY <1>3, <1>4

(* FreshNames, a name at a time.                                           *)
LEMMA FreshNamesSteps ==
    ASSUME NEW bases, IsSeq(bases), \A k \in DOMAIN bases : IsName(bases[k]),
           NEW known, IsFiniteSet(known)
    PROVE  \E names : /\ names[0] = << >>
                      /\ \A k \in 1 .. Len(bases) :
                            names[k] = Append(names[k - 1],
                                              Fresh(bases[k], known \cup ToSet(names[k - 1])))
                      /\ FreshNames(bases, known) = names[Len(bases)]
<1> DEFINE n == Len(bases)
           U == {bases[k] : k \in 1 .. n} \cup {Numbered(bases[k], i) : k \in 1 .. n, i \in Nat}
           D == Seq(U)
           Step(k, s) == Append(s, Fresh(bases[k], known \cup ToSet(s)))
           names[k \in 0 .. n] == IF k = 0 THEN << >>
                                  ELSE LET before == names[k - 1]
                                       IN  Append(before, Fresh(bases[k], known \cup ToSet(before)))
           Defines(f) == f = [k \in 0 .. n |-> IF k = 0 THEN << >> ELSE Step(k, f[k - 1])]
<1>1. n \in Nat /\ DOMAIN bases = 1 .. n
    BY SeqFacts
<1>2. \E f : Defines(f)
    <2> DEFINE step == [k \in 1 .. n |-> [s \in D |-> Step(k, s)]]
    <2>1. step \in [1 .. n -> [D -> D]]
        <3>1. ASSUME NEW k \in 1 .. n, NEW s \in D PROVE Step(k, s) \in D
            <4> DEFINE x == Fresh(bases[k], known \cup ToSet(s))
            <4>1. IsFiniteSet(known \cup ToSet(s))
                <5>1. IsSeq(s)
                    <6> HIDE DEF U
                    <6> QED BY SeqIsSeq
                <5> HIDE DEF D
                <5> QED BY <5>1, SeqFinite, FS_Union
            <4>2. IsName(bases[k])
                BY <1>1
            <4>3. ASSUME NEW b, IsName(b), NEW taken, IsFiniteSet(taken)
                  PROVE  Fresh(b, taken) = b \/ \E i \in Nat : Fresh(b, taken) = Numbered(b, i)
                BY <4>3, FreshIsFree
            <4>4. x \in U
                <5> DEFINE base == bases[k]
                           taken == known \cup ToSet(s)
                <5>1. IsName(base) /\ IsFiniteSet(taken) /\ x = Fresh(base, taken)
                    BY <4>1, <4>2
                <5> HIDE DEF base, taken, x
                <5>2. x = base \/ \E i \in Nat : x = Numbered(base, i)
                    BY <4>3, <5>1
                <5> USE DEF base
                <5> HIDE DEF n
                <5> QED BY <5>2
            <4> HIDE DEF x
            <4> HIDE DEF U
            <4>5. Append(s, x) \in D
                BY <4>4
            <4> QED BY <4>5 DEF x
        <3> HIDE DEF Step, D, n
        <3> QED BY <3>1
    <2>2. PICK f \in [0 .. n -> D] :
              f[0] = << >> /\ \A k \in 1 .. n : f[k] = step[k][f[k - 1]]
        <3>0. << >> \in D
            OBVIOUS
        <3> HIDE DEF step, D, n
        <3>1. PICK f : Iterates(f, n, D, << >>, step)
            BY <1>1, <2>1, <3>0, Recursion
        <3> QED BY <3>1 DEF Iterates
    <2>3. ASSUME NEW k \in 0 .. n
          PROVE  f[k] = IF k = 0 THEN << >> ELSE Step(k, f[k - 1])
        <3>1. CASE k = 0
            BY <2>2, <3>1
        <3>2. CASE k # 0
            <4>1. k \in 1 .. n /\ k - 1 \in 0 .. n
                BY <1>1, <3>2
            <4>2. f[k - 1] \in D
                BY <2>2, <4>1
            <4>3. step[k][f[k - 1]] = Step(k, f[k - 1])
                <5> HIDE DEF Step, D
                <5> QED BY <4>1, <4>2
            <4> HIDE DEF Step, step, D, n
            <4> QED BY <2>2, <3>2, <4>1, <4>3
        <3> QED BY <3>1, <3>2
    <2>4. Defines(f)
        <3> HIDE DEF Step, n
        <3> QED BY <2>2, <2>3
    <2> HIDE DEF Defines
    <2> QED BY <2>4
<1>3. Defines(names)
    <2> HIDE DEF n
    <2> QED BY <1>2
<1>4. names[n] = FreshNames(bases, known)
    BY DEF FreshNames
<1> HIDE DEF names
<1>5. /\ names[0] = << >>
      /\ \A k \in 1 .. n : names[k] = Step(k, names[k - 1])
    <2>1. \A k \in 0 .. n : names[k] = IF k = 0 THEN << >> ELSE Step(k, names[k - 1])
        <3> HIDE DEF Step, n
        <3> QED BY <1>3
    <2>2. 0 \in 0 .. n /\ \A k \in 1 .. n : k \in 0 .. n /\ k # 0
        BY <1>1
    <2> HIDE DEF Step, n
    <2> QED BY <2>1, <2>2
<1> QED BY <1>4, <1>5

(* The names are as many as the bases, free and different.                 *)
LEMMA FreshNamesAreFree ==
    ASSUME NEW bases, IsSeq(bases), \A k \in DOMAIN bases : IsName(bases[k]),
           NEW known, IsFiniteSet(known), NEW names, names = FreshNames(bases, known)
    PROVE  /\ IsSeq(names) /\ Len(names) = Len(bases) /\ DOMAIN names = DOMAIN bases
           /\ \A k \in DOMAIN names : IsName(names[k]) /\ names[k] \notin known
           /\ \A j, k \in DOMAIN names : names[j] = names[k] => j = k
           /\ (\A k \in DOMAIN bases : NoKey(bases[k])) => \A k \in DOMAIN names : NoKey(names[k])
<1> DEFINE n == Len(bases)
           keyless == \A k \in DOMAIN bases : NoKey(bases[k])
<1>1. PICK f : /\ f[0] = << >>
               /\ \A k \in 1 .. n : f[k] = Append(f[k - 1], Fresh(bases[k], known \cup ToSet(f[k - 1])))
               /\ names = f[n]
    BY FreshNamesSteps
<1>2. n \in Nat /\ DOMAIN bases = 1 .. n
    BY SeqFacts
<1> HIDE DEF n
<1> DEFINE Good(k) ==
               /\ IsSeq(f[k]) /\ Len(f[k]) = k
               /\ \A j \in 1 .. k : IsName(f[k][j]) /\ f[k][j] \notin known
               /\ \A i, j \in 1 .. k : f[k][i] = f[k][j] => i = j
               /\ keyless => \A j \in 1 .. k : NoKey(f[k][j])
           S == {k \in 0 .. n : Good(k)}
<1>3. 0 \in S
    <2>1. IsSeq(f[0]) /\ Len(f[0]) = 0 /\ 1 .. 0 = {}
        BY <1>1, EmptyTable
    <2> HIDE DEF keyless
    <2>2. Good(0)
        BY <2>1
    <2> QED BY <1>2, <2>2
<1>4. ASSUME NEW k \in 1 .. n, k - 1 \in S PROVE k \in S
    <2> DEFINE s == f[k - 1]
               x == Fresh(bases[k], known \cup ToSet(s))
    <2>0. Good(k - 1)
        BY <1>4
    <2>1. IsSeq(s) /\ Len(s) = k - 1 /\ DOMAIN s = 1 .. k - 1
        BY <2>0, SeqFacts
    <2>2. IsFiniteSet(known \cup ToSet(s))
        <3> HIDE DEF s
        <3> QED BY <2>1, SeqFinite, FS_Union
    <2>3. /\ x \notin known /\ x \notin ToSet(s) /\ IsName(x)
          /\ NoKey(bases[k]) => NoKey(x)
        <3>1. IsName(bases[k])
            BY <1>2
        <3> HIDE DEF s
        <3> QED BY <2>2, <3>1, FreshIsFree
    <2>4. f[k] = Append(s, x)
        BY <1>1
    <2> HIDE DEF x
    <2>5. /\ IsSeq(f[k]) /\ Len(f[k]) = k
          /\ \A j \in 1 .. k - 1 : f[k][j] = s[j]
          /\ f[k][k] = x
        <3>1. /\ IsSeq(Append(s, x)) /\ Len(Append(s, x)) = Len(s) + 1
              /\ \A j \in DOMAIN s : Append(s, x)[j] = s[j]
              /\ Append(s, x)[Len(s) + 1] = x
            <4> HIDE DEF s
            <4> QED BY <2>1, AppendSeq
        <3> HIDE DEF s
        <3> QED BY <1>2, <2>1, <2>4, <3>1
    <2>6. \A j \in 1 .. k - 1 : s[j] # x
        BY <2>1, <2>3 DEF ToSet
    <2>7. \A j \in 1 .. k : j = k \/ j \in 1 .. k - 1
        BY <1>2
    <2>8. keyless => NoKey(x)
        BY <1>2, <2>3
    <2> HIDE DEF keyless
    <2>9. Good(k)
        BY <2>0, <2>3, <2>5, <2>6, <2>7, <2>8
    <2> HIDE DEF Good
    <2> QED BY <1>2, <2>9
<1>5. n \in S
    <2> HIDE DEF S
    <2>1. 0 .. n \subseteq S
        BY <1>2, <1>3, <1>4, UpTo
    <2> QED BY <1>2, <2>1
<1>6. Good(n)
    BY <1>5
<1>7. DOMAIN names = 1 .. n /\ Len(bases) = n
    BY <1>1, <1>6, SeqFacts DEF n
<1> QED BY <1>1, <1>2, <1>6, <1>7

-------------------------------------------------------------------------------
(* The key of an equation in a layout tells its number, and is no          *)
(* variable's name.                                                        *)
LEMMA KeyFacts ==
    ASSUME NEW i
    PROVE  Len(EqKey(i)) = 2 /\ EqKey(i)[1] = "eq" /\ EqKey(i)[2] = i /\ ~NoKey(EqKey(i))
<1>1. Len(EqKey(i)) = 2
    BY DEF EqKey
<1>2. EqKey(i)[1] = "eq"
    BY DEF EqKey
<1>3. EqKey(i)[2] = i
    BY DEF EqKey
<1> QED BY <1>1, <1>2, <1>3 DEF NoKey

(* The variables that a drop declares.                                     *)
LEMMA DroppedPorts ==
    ASSUME NEW names, IsSeq(names), \A k \in DOMAIN names : IsName(names[k]),
           \A j, k \in DOMAIN names : names[j] = names[k] => j = k, NEW types,
           NEW ports, ports = [k \in DOMAIN names |-> Port(names[k], types[k])]
    PROVE  IsPorts(ports) /\ Distinct(ports) /\ Fields(ports) = ToSet(names)
<1>1. Len(names) \in Nat /\ DOMAIN names = 1 .. Len(names)
    BY SeqFacts
<1>2. IsSeq(ports) /\ DOMAIN ports = DOMAIN names
    <2>1. ports = [k \in 1 .. Len(names) |-> ports[k]]
        BY <1>1
    <2> QED BY <1>1, <2>1, TupleSeq
<1>3. \A k \in DOMAIN names : "name" \in DOMAIN ports[k] /\ ports[k].name = names[k]
    BY DEF Port
<1> QED BY <1>2, <1>3 DEF IsPorts, IsTable, Distinct, Fields, ToSet

(* A drop.                                                                 *)
LEMMA DropIsSound ==
    ASSUME NEW n, IsNodeDef(n), NEW names, IsSeq(names),
           \A k \in DOMAIN names : IsName(names[k]) /\ names[k] \notin Vars(n),
           \A j, k \in DOMAIN names : names[j] = names[k] => j = k,
           NEW types, NEW eqs, IsSeq(eqs),
           \A k \in DOMAIN eqs : {"lhs", "rhs", "tag"} \subseteq DOMAIN eqs[k],
           NEW n2, n2 = Dropped(n, names, types, eqs)
    PROVE  Sound(n, n2) /\ ((\A k \in DOMAIN names : NoKey(names[k])) => Placed(n, n2))
<1> DEFINE ports == [k \in DOMAIN names |-> Port(names[k], types[k])]
           count == Len(n.eqs)
           placed == {EqKey(count + k) : k \in DOMAIN eqs} \cup ToSet(names)
           place(key) == IF key \in ToSet(names) THEN Tag(0) ELSE eqs[key[2] - count].tag
           pos == [key \in placed \cup DOMAIN n.pos |-> IF key \in placed THEN place(key) ELSE n.pos[key]]
<1>1. IsPorts(ports) /\ Distinct(ports) /\ Fields(ports) = ToSet(names)
    <2> HIDE DEF ports
    <2>1. ports = [k \in DOMAIN names |-> Port(names[k], types[k])]
        BY DEF ports
    <2> QED BY <2>1, DroppedPorts
<1>2. DOMAIN n = NodeFields /\ IsPorts(n.ins) /\ IsPorts(n.outs) /\ IsPorts(n.locals) /\ IsSeq(n.eqs)
    BY NodeDomain
<1>3. n2 = [n EXCEPT !.locals = n.locals \o ports, !.eqs = n.eqs \o eqs, !.pos = pos]
    BY DEF Dropped
<1>4. /\ DOMAIN n2 = NodeFields
      /\ n2.name = n.name /\ n2.kind = n.kind /\ n2.contract = n.contract
      /\ n2.ins = n.ins /\ n2.outs = n.outs
    <2> HIDE DEF ports, pos
    <2> QED BY <1>2, <1>3 DEF NodeFields
<1>5. n2.locals = n.locals \o ports /\ n2.eqs = n.eqs \o eqs /\ n2.pos = pos
    <2> HIDE DEF ports, pos
    <2> QED BY <1>2, <1>3 DEF NodeFields
<1> HIDE DEF ports
<1>6. /\ IsPorts(n2.locals) /\ Fields(n2.locals) = Fields(n.locals) \cup ToSet(names)
      /\ Distinct(n2.locals) <=> Distinct(n.locals) /\ Fields(n.locals) \cap ToSet(names) = {}
    <2>1. /\ IsTable(n.locals) /\ IsTable(ports)
          /\ \A x \in Fields(n.locals) \cup Fields(ports) : IsName(x)
        BY <1>1, <1>2, PortNames
    <2>2. /\ IsTable(n.locals \o ports)
          /\ Fields(n.locals \o ports) = Fields(n.locals) \cup Fields(ports)
          /\ Distinct(n.locals \o ports) <=>
                Distinct(n.locals) /\ Distinct(ports) /\ Fields(n.locals) \cap Fields(ports) = {}
        BY <2>1, ConcatTable
    <2>3. IsPorts(n.locals \o ports)
        BY <2>1, <2>2, PortNames
    <2> QED BY <1>1, <1>5, <2>2, <2>3
<1> DEFINE old == n.eqs
<1>7. /\ IsSeq(old) /\ n2.eqs = old \o eqs /\ count = Len(old)
      /\ Len(old) \in Nat /\ DOMAIN old = 1 .. Len(old)
      /\ Len(eqs) \in Nat /\ DOMAIN eqs = 1 .. Len(eqs)
    <2>1. IsSeq(old) /\ n2.eqs = old \o eqs /\ count = Len(old)
        BY <1>2, <1>5
    <2> HIDE DEF old, count
    <2> QED BY <2>1, SeqFacts
<1>8. /\ IsSeq(n2.eqs) /\ DOMAIN n2.eqs = 1 .. Len(old) + Len(eqs)
      /\ \A j \in DOMAIN old : n2.eqs[j] = old[j]
      /\ \A k \in DOMAIN eqs : n2.eqs[count + k] = eqs[k]
    <2> HIDE DEF old, count
    <2>1. IsSeq(old \o eqs) /\ DOMAIN (old \o eqs) = 1 .. Len(old) + Len(eqs)
        BY <1>7, ConcatSeq
    <2>2. \A j \in DOMAIN old : (old \o eqs)[j] = old[j]
        BY <1>7, ConcatSeq
    <2>3. ASSUME NEW k \in DOMAIN eqs PROVE (old \o eqs)[Len(old) + k] = eqs[k]
        BY <1>7, ConcatSeq
    <2> QED BY <1>7, <2>1, <2>2, <2>3
<1>9. /\ \A j \in DOMAIN n.eqs : j \in DOMAIN n2.eqs /\ n2.eqs[j] = n.eqs[j]
       /\ \A k \in DOMAIN eqs : count + k \in DOMAIN n2.eqs /\ n2.eqs[count + k] = eqs[k]
    <2>1. /\ \A j \in DOMAIN old : j \in DOMAIN n2.eqs
          /\ \A k \in DOMAIN eqs : count + k \in DOMAIN n2.eqs
        <3> HIDE DEF old, count
        <3> QED BY <1>7, <1>8
    <2> QED BY <1>8, <2>1
<1>10. \A j \in DOMAIN n2.eqs : {"lhs", "rhs", "tag"} \subseteq DOMAIN n2.eqs[j]
    <2> SUFFICES ASSUME NEW j \in DOMAIN n2.eqs PROVE {"lhs", "rhs", "tag"} \subseteq DOMAIN n2.eqs[j]
        OBVIOUS
    <2>1. \/ j \in DOMAIN n.eqs /\ n2.eqs[j] = n.eqs[j]
          \/ j - Len(n.eqs) \in DOMAIN eqs /\ n2.eqs[j] = eqs[j - Len(n.eqs)]
        BY <1>2, <1>5, ConcatParts
    <2>2. \A i \in DOMAIN n.eqs : {"lhs", "rhs", "tag"} \subseteq DOMAIN n.eqs[i]
        BY NodeDomain
    <2> QED BY <2>1, <2>2
<1>11. IsNodeDef(n2)
    <2>1. IsName(n.name) /\ n.kind \in Kinds
        BY NodeDomain
    <2> QED BY <1>2, <1>4, <1>6, <1>8, <1>10, <2>1, NodeDomain
<1>12. /\ Vars(n) = Fields(n.ins) \cup Fields(n.outs) \cup Fields(n.locals)
       /\ Vars(n2) = Fields(n2.ins) \cup Fields(n2.outs) \cup Fields(n2.locals)
       /\ VarsApart(n) <=> \A x \in Vars(n) : NoKey(x)
       /\ VarsApart(n2) <=> \A x \in Vars(n2) : NoKey(x)
    BY <1>2, <1>4, <1>6, VarsParts
<1>13. ASSUME VarsOnce(n) PROVE VarsOnce(n2)
    <2>1. /\ Distinct(n.ins) /\ Distinct(n.outs) /\ Distinct(n.locals)
          /\ Fields(n.ins) \cap Fields(n.outs) = {}
          /\ (Fields(n.ins) \cup Fields(n.outs)) \cap Fields(n.locals) = {}
        BY <1>2, <1>13, VarsParts
    <2>2. ToSet(names) \cap Vars(n) = {}
        BY DEF ToSet
    <2>3. /\ Distinct(n2.ins) /\ Distinct(n2.outs) /\ Distinct(n2.locals)
          /\ Fields(n2.ins) \cap Fields(n2.outs) = {}
          /\ (Fields(n2.ins) \cup Fields(n2.outs)) \cap Fields(n2.locals) = {}
        BY <1>4, <1>6, <1>12, <2>1, <2>2
    <2> QED BY <1>2, <1>4, <1>6, <2>3, VarsParts
<1>14. Vars(n2) = Vars(n) \cup ToSet(names)
    BY <1>4, <1>6, <1>12
<1>15. ASSUME Follows(n) PROVE Follows(n2)
    <2> SUFFICES ASSUME NEW k \in DOMAIN n2.pos, k \notin Vars(n2)
                 PROVE  \E i \in DOMAIN n2.eqs : k = EqKey(i) /\ n2.pos[k] = n2.eqs[i].tag
        BY DEF Follows
    <2>1. k \notin ToSet(names) /\ k \notin Vars(n)
        BY <1>14
    <2>2. CASE k \in placed
        <3>1. PICK j \in DOMAIN eqs : k = EqKey(count + j)
            BY <2>1, <2>2
        <3>2. j \in Nat /\ count \in Nat
            BY <1>7
        <3>3. k[2] - count = j
            <4> DEFINE c == count + j
            <4>1. c - count = j
                BY <3>2
            <4> HIDE DEF c
            <4>2. EqKey(c)[2] = c
                BY KeyFacts
            <4> QED BY <3>1, <4>1, <4>2 DEF c
        <3>4. n2.pos[k] = eqs[j].tag
            BY <1>5, <2>1, <2>2, <3>3
        <3>5. count + j \in DOMAIN n2.eqs /\ n2.eqs[count + j] = eqs[j]
            <4>1. ASSUME NEW i \in DOMAIN eqs
                  PROVE  count + i \in DOMAIN n2.eqs /\ n2.eqs[count + i] = eqs[i]
                BY <1>7, <1>9
            <4> QED BY <1>7, <4>1
        <3> QED BY <3>1, <3>4, <3>5
    <2>3. CASE ~(k \in placed)
        <3>1. k \in DOMAIN n.pos /\ n2.pos[k] = n.pos[k]
            BY <1>5, <2>3
        <3>2. PICK i \in DOMAIN n.eqs : k = EqKey(i) /\ n.pos[k] = n.eqs[i].tag
            BY <1>15, <2>1, <3>1 DEF Follows
        <3> QED BY <1>9, <3>1, <3>2
    <2> QED BY <2>2, <2>3
<1>16. (\A k \in DOMAIN names : NoKey(names[k])) => \A x \in ToSet(names) : NoKey(x)
    BY DEF ToSet
<1> QED BY <1>4, <1>11, <1>12, <1>13, <1>14, <1>15, <1>16 DEF Sound, Placed

(* An operator's variables are finitely many.                              *)
LEMMA VarsFinite ==
    ASSUME NEW n, IsNodeDef(n)
    PROVE  IsFiniteSet(Vars(n))
<1> DEFINE all == n.ins \o n.outs \o n.locals
<1>1. IsTable(all)
    BY NodeDomain, VarsParts
<1> DEFINE names == [j \in DOMAIN all |-> all[j].name]
<1>2. IsSeq(names)
    <2> HIDE DEF all
    <2>1. Len(all) \in Nat /\ DOMAIN all = 1 .. Len(all)
        BY <1>1, SeqFacts DEF IsTable
    <2>2. names = [j \in 1 .. Len(all) |-> names[j]]
        BY <2>1
    <2> HIDE DEF names
    <2> QED BY <2>1, <2>2, TupleSeq
<1>3. ToSet(names) = Vars(n)
    BY DEF ToSet, Vars, Fields
<1> HIDE DEF names
<1> QED BY <1>2, <1>3, SeqFinite

(* A drop of one equation.                                                 *)
LEMMA DropOneIsSound ==
    ASSUME NEW n, IsNodeDef(n), NEW base, IsName(base), NEW type, NEW rhs,
           NEW n2, n2 = DroppedOne(n, base, type, rhs)
    PROVE  Sound(n, n2) /\ (NoKey(base) => Placed(n, n2))
<1> DEFINE x == Fresh(base, Vars(n))
           eq == [lhs |-> <<x>>, rhs |-> rhs, tag |-> Tag(0)]
<1>1. x \notin Vars(n) /\ IsName(x) /\ (NoKey(base) => NoKey(x))
    BY VarsFinite, FreshIsFree
<1>2. n2 = Dropped(n, <<x>>, <<type>>, <<eq>>)
    BY DEF DroppedOne
<1>3. "lhs" \in DOMAIN eq /\ "rhs" \in DOMAIN eq /\ "tag" \in DOMAIN eq
    OBVIOUS
<1> HIDE DEF x, eq
<1> DEFINE names == <<x>>
           eqs == <<eq>>
<1>4. IsSeq(names) /\ DOMAIN names = {1} /\ names[1] = x
    BY OneSeq
<1>5. IsSeq(eqs) /\ DOMAIN eqs = {1} /\ eqs[1] = eq
    BY OneSeq
<1>6. n2 = Dropped(n, names, <<type>>, eqs)
    BY <1>2
<1> HIDE DEF names, eqs
<1>7. \A k \in DOMAIN eqs : {"lhs", "rhs", "tag"} \subseteq DOMAIN eqs[k]
    BY <1>3, <1>5
<1>8. /\ \A k \in DOMAIN names : IsName(names[k]) /\ names[k] \notin Vars(n)
      /\ \A j, k \in DOMAIN names : names[j] = names[k] => j = k
      /\ (NoKey(base) => \A k \in DOMAIN names : NoKey(names[k]))
    BY <1>1, <1>4
<1> QED BY <1>4, <1>5, <1>6, <1>7, <1>8, DropIsSound

-------------------------------------------------------------------------------
(* A sequence without its element at i.                                    *)
LEMMA RemovedFacts ==
    ASSUME NEW s, IsSeq(s), NEW i \in DOMAIN s, NEW t, t = RemoveAt(s, i)
    PROVE  /\ IsSeq(t) /\ Len(t) = Len(s) - 1 /\ DOMAIN t = 1 .. Len(s) - 1
           /\ \A k \in 1 .. i - 1 : t[k] = s[k]
           /\ \A k \in i .. Len(s) - 1 : t[k] = s[k + 1]
<1> DEFINE S == {s[k] : k \in 1 .. Len(s)}
           a == SubSeq(s, 1, i - 1)
           b == SubSeq(s, i + 1, Len(s))
<1>1. s \in Seq(S) /\ Len(s) \in Nat /\ DOMAIN s = 1 .. Len(s)
    BY SeqFacts
<1> HIDE DEF S
<1>2. i \in 1 .. Len(s)
    BY <1>1
<1>3. a \in Seq(S) /\ Len(a) = i - 1 /\ \A k \in 1 .. i - 1 : a[k] = s[k]
    BY <1>1, <1>2
<1>4. b \in Seq(S) /\ Len(b) = Len(s) - i /\ \A k \in 1 .. Len(s) - i : b[k] = s[i + k]
    BY <1>1, <1>2
<1> HIDE DEF a, b
<1>5. t = a \o b
    BY DEF RemoveAt, a, b
<1>6. t \in Seq(S) /\ Len(t) = Len(s) - 1
    <2>0. a \in Seq(S) /\ b \in Seq(S)
        BY <1>3, <1>4
    <2>1. a \o b \in Seq(S) /\ Len(a \o b) = Len(a) + Len(b)
        BY <2>0
    <2> QED BY <1>1, <1>2, <1>3, <1>4, <1>5, <2>1
<1>7. IsSeq(t) /\ DOMAIN t = 1 .. Len(s) - 1
    BY <1>1, <1>6, SeqIsSeq, SeqFacts
<1>8. \A k \in 1 .. i - 1 : t[k] = s[k]
    BY <1>1, <1>2, <1>3, <1>4, <1>5
<1>9. ASSUME NEW k \in i .. Len(s) - 1 PROVE t[k] = s[k + 1]
    <2> DEFINE j == k + 1 - i
    <2>0. Len(a) = i - 1 /\ Len(b) = Len(s) - i
        BY <1>3, <1>4
    <2>3. j \in 1 .. Len(s) - i /\ i + j = k + 1 /\ (i - 1) + j = k
        <3>1. i \in Int /\ k \in Int /\ Len(s) \in Int /\ i <= k /\ k <= Len(s) - 1
            BY <1>1, <1>2
        <3> QED BY <3>1
    <2>1. j \in 1 .. Len(b) /\ Len(a) + j = k
        BY <2>0, <2>3
    <2> HIDE DEF j
    <2>2. t[k] = b[j]
        <3>1. IsSeq(a) /\ IsSeq(b)
            BY <1>3, <1>4, SeqIsSeq
        <3>2. j \in DOMAIN b
            BY <2>1, <3>1, SeqFacts
        <3> QED BY <1>5, <2>1, <3>1, <3>2, ConcatSecond
    <2>4. b[j] = s[k + 1]
        BY <1>4, <2>3
    <2> QED BY <2>2, <2>4
<1> QED BY <1>6, <1>7, <1>8, <1>9

(* The removal of an equation.                                             *)
LEMMA RemovalIsSound ==
    ASSUME NEW n, IsNodeDef(n), NEW index \in DOMAIN n.eqs,
           NEW n2, n2 = [n EXCEPT !.eqs = RemoveAt(@, index), !.pos = Rekeyed(@, index)]
    PROVE  Sound(n, n2) /\ Placed(n, n2)
<1>1. /\ DOMAIN n = NodeFields /\ IsPorts(n.ins) /\ IsPorts(n.outs) /\ IsPorts(n.locals)
      /\ IsSeq(n.eqs) /\ IsName(n.name) /\ n.kind \in Kinds
      /\ \A j \in DOMAIN n.eqs : {"lhs", "rhs", "tag"} \subseteq DOMAIN n.eqs[j]
    BY NodeDomain
<1> DEFINE old == n.eqs
           new == RemoveAt(old, index)
           pos == Rekeyed(n.pos, index)
<1>2. /\ DOMAIN n2 = NodeFields
      /\ n2.name = n.name /\ n2.kind = n.kind /\ n2.contract = n.contract
      /\ n2.ins = n.ins /\ n2.outs = n.outs /\ n2.locals = n.locals
      /\ n2.eqs = new /\ n2.pos = pos
    <2> HIDE DEF new, pos
    <2>1. n2 = [n EXCEPT !.eqs = new, !.pos = pos]
        BY DEF new, pos
    <2> QED BY <1>1, <2>1 DEF NodeFields
<1>3. /\ IsSeq(new) /\ Len(old) \in Nat /\ DOMAIN old = 1 .. Len(old)
      /\ DOMAIN new = 1 .. Len(old) - 1
      /\ \A k \in 1 .. index - 1 : new[k] = old[k]
      /\ \A k \in index .. Len(old) - 1 : new[k] = old[k + 1]
    <2>1. IsSeq(old) /\ index \in DOMAIN old
        BY <1>1
    <2> HIDE DEF old
    <2>2. Len(old) \in Nat /\ DOMAIN old = 1 .. Len(old)
        BY <2>1, SeqFacts
    <2> HIDE DEF new
    <2>3. new = RemoveAt(old, index)
        BY DEF new
    <2> QED BY <2>1, <2>2, <2>3, RemovedFacts
<1> HIDE DEF new
<1>4. \A k \in DOMAIN new : new[k] \in {old[j] : j \in DOMAIN old}
    <2>1. index \in 1 .. Len(old)
        BY <1>3
    <2> HIDE DEF old
    <2>2. ASSUME NEW k \in DOMAIN new
          PROVE  \/ k \in 1 .. index - 1 /\ k \in DOMAIN old
                 \/ k \in index .. Len(old) - 1 /\ k + 1 \in DOMAIN old
        BY <1>3, <2>1
    <2> QED BY <1>3, <2>2
<1>5. IsNodeDef(n2)
    <2>1. \A k \in DOMAIN n2.eqs : {"lhs", "rhs", "tag"} \subseteq DOMAIN n2.eqs[k]
        BY <1>1, <1>2, <1>4
    <2> QED BY <1>1, <1>2, <1>3, <2>1, NodeDomain
<1>6. Vars(n2) = Vars(n) /\ (VarsOnce(n) <=> VarsOnce(n2)) /\ (VarsApart(n) <=> VarsApart(n2))
    BY <1>2 DEF Vars, VarsOnce, VarsApart
<1>7. ASSUME VarsApart(n), Follows(n) PROVE Follows(n2)
    <2> SUFFICES ASSUME NEW k \in DOMAIN pos
                 PROVE  \/ k \in Vars(n2)
                        \/ \E i \in DOMAIN new : k = EqKey(i) /\ pos[k] = new[i].tag
        BY <1>2 DEF Follows
    <2> DEFINE behind(x) == Len(x) = 2 /\ x[1] = "eq" /\ x[2] > index
               to(x) == IF behind(x) THEN EqKey(x[2] - 1) ELSE x
               kept == DOMAIN n.pos \ {EqKey(index)}
    <2>1. pos = [x \in {to(y) : y \in kept} |-> n.pos[CHOOSE y \in kept : to(y) = x]]
        BY DEF Rekeyed
    <2> HIDE DEF pos
    <2> DEFINE y == CHOOSE y \in kept : to(y) = k
    <2>2. y \in kept /\ to(y) = k /\ pos[k] = n.pos[y]
        <3> HIDE DEF to, kept
        <3>1. \E z \in kept : to(z) = k
            BY <2>1
        <3> QED BY <2>1, <3>1
    <2> HIDE DEF y
    <2>3. y \in DOMAIN n.pos /\ y # EqKey(index)
        BY <2>2
    <2>4. CASE y \in Vars(n)
        <3>1. NoKey(y)
            BY <1>1, <1>7, <2>4, VarsParts
        <3>2. ~behind(y)
            BY <3>1 DEF NoKey
        <3>3. k = y
            BY <2>2, <3>2
        <3> QED BY <1>6, <2>4, <3>3
    <2>5. CASE ~(y \in Vars(n))
        <3>1. PICK i \in DOMAIN old : y = EqKey(i) /\ n.pos[y] = old[i].tag
            BY <1>7, <2>3, <2>5 DEF Follows
        <3>2. i \in 1 .. Len(old) /\ index \in 1 .. Len(old) /\ i # index
            BY <1>3, <2>3, <3>1
        <3>3. Len(y) = 2 /\ y[1] = "eq" /\ y[2] = i
            BY <3>1, KeyFacts
        <3>4. behind(y) <=> i > index
            BY <3>3
        <3>5. k = IF i > index THEN EqKey(i - 1) ELSE EqKey(i)
            <4> HIDE DEF behind
            <4> QED BY <2>2, <3>1, <3>3, <3>4
        <3>6. pos[k] = old[i].tag
            BY <2>2, <3>1
        <3> HIDE DEF old, to, behind
        <3>7. CASE i > index
            <4> DEFINE j == i - 1
            <4>1. j \in index .. Len(old) - 1 /\ j + 1 = i /\ j \in DOMAIN new
                BY <1>3, <3>2, <3>7
            <4>2. k = EqKey(j)
                BY <3>5, <3>7
            <4> HIDE DEF j
            <4>3. new[j] = old[i]
                BY <1>3, <4>1
            <4> QED BY <3>6, <4>1, <4>2, <4>3
        <3>8. CASE ~(i > index)
            <4>1. i \in 1 .. index - 1 /\ i \in DOMAIN new
                BY <1>3, <3>2, <3>8
            <4>2. k = EqKey(i) /\ new[i] = old[i]
                BY <1>3, <3>5, <3>8, <4>1
            <4> QED BY <3>6, <4>1, <4>2
        <3> QED BY <3>7, <3>8
    <2> QED BY <2>4, <2>5
<1> QED BY <1>2, <1>5, <1>6, <1>7 DEF Sound, Placed

(* The layout the browser sends.                                           *)
LEMMA LayoutIsSound ==
    ASSUME NEW n, IsNodeDef(n), NEW keys, keys = {EqKey(i) : i \in DOMAIN n.eqs} \cup Vars(n),
           NEW pos, DOMAIN pos = keys,
           \A k \in keys : k \notin Vars(n) => pos[k] = n.eqs[k[2]].tag,
           NEW n2, n2 = [n EXCEPT !.pos = pos]
    PROVE  Sound(n, n2) /\ Placed(n, n2)
<1>1. DOMAIN n = NodeFields
    BY NodeDomain
<1>2. /\ DOMAIN n2 = NodeFields
      /\ n2.name = n.name /\ n2.kind = n.kind /\ n2.contract = n.contract
      /\ n2.ins = n.ins /\ n2.outs = n.outs /\ n2.locals = n.locals
      /\ n2.eqs = n.eqs /\ n2.pos = pos
    BY <1>1 DEF NodeFields
<1>3. IsNodeDef(n2)
    BY <1>2, NodeDomain
<1>4. Vars(n2) = Vars(n) /\ (VarsOnce(n) <=> VarsOnce(n2)) /\ (VarsApart(n) <=> VarsApart(n2))
    BY <1>2 DEF Vars, VarsOnce, VarsApart
<1>5. Follows(n2)
    <2> SUFFICES ASSUME NEW k \in keys, k \notin Vars(n)
                 PROVE  \E i \in DOMAIN n.eqs : k = EqKey(i) /\ pos[k] = n.eqs[i].tag
        BY <1>2, <1>4 DEF Follows
    <2>1. PICK i \in DOMAIN n.eqs : k = EqKey(i)
        OBVIOUS
    <2>2. k[2] = i
        BY <2>1, KeyFacts
    <2> QED BY <2>1, <2>2
<1> QED BY <1>2, <1>3, <1>4, <1>5 DEF Sound, Placed

(* An edit of the lists of variables that leaves the names as they are.    *)
LEMMA SameVars ==
    ASSUME NEW n, IsNodeDef(n), NEW n2, DOMAIN n2 = DOMAIN n,
           n2.name = n.name, n2.kind = n.kind, n2.contract = n.contract,
           n2.eqs = n.eqs, n2.pos = n.pos,
           IsPorts(n2.ins), IsPorts(n2.outs), IsPorts(n2.locals),
           Vars(n2) = Vars(n), VarsOnce(n) => VarsOnce(n2)
    PROVE  Sound(n, n2) /\ Placed(n, n2)
<1>1. IsNodeDef(n2)
    BY NodeDomain
<1>2. VarsApart(n) <=> VarsApart(n2)
    <2>1. IsPorts(n.ins) /\ IsPorts(n.outs) /\ IsPorts(n.locals)
        BY NodeDomain
    <2> QED BY <2>1, VarsParts
<1>3. Follows(n) => Follows(n2)
    BY DEF Follows
<1> QED BY <1>1, <1>2, <1>3 DEF Sound, Placed

(* An edit that is sound goes on from one that is.                         *)
LEMMA SoundSteps ==
    ASSUME NEW a, NEW b, NEW c
    PROVE  /\ Sound(a, b) /\ Sound(b, c) => Sound(a, c)
           /\ Placed(a, b) /\ Placed(b, c) => Placed(a, c)
<1> QED BY DEF Sound, Placed

LEMMA SoundSame ==
    ASSUME NEW a, IsNodeDef(a)
    PROVE  Sound(a, a) /\ Placed(a, a)
<1> QED BY DEF Sound, Placed

(* The ports of a list, with one type replaced.                            *)
LEMMA RetypedPorts ==
    ASSUME NEW ps, IsPorts(ps), NEW x, NEW type, NEW new,
           new = [j \in DOMAIN ps |-> IF ps[j].name = x THEN Port(x, type) ELSE ps[j]]
    PROVE  IsPorts(new) /\ Fields(new) = Fields(ps) /\ (Distinct(ps) => Distinct(new))
<1>1. IsTable(ps) /\ \A y \in Fields(ps) : IsName(y)
    BY PortNames
<1>2. ASSUME NEW j \in DOMAIN ps PROVE "name" \in DOMAIN new[j] /\ new[j].name = ps[j].name
    BY <1>1 DEF Port, IsTable
<1>3. new = [j \in DOMAIN ps |-> new[j]]
    OBVIOUS
<1>4. IsTable(new) /\ Fields(new) = Fields(ps) /\ (Distinct(ps) => Distinct(new))
    BY <1>1, <1>2, <1>3, MappedTable
<1> QED BY <1>1, <1>4, PortNames

LEMMA RetypedIsSound ==
    ASSUME NEW n, IsNodeDef(n), NEW x, NEW type, NEW n2, n2 = Retyped(n, x, type)
    PROVE  Sound(n, n2) /\ Placed(n, n2) /\ Vars(n2) = Vars(n)
<1> DEFINE port(ps) == [j \in DOMAIN ps |-> IF ps[j].name = x THEN Port(x, type) ELSE ps[j]]
<1>1. DOMAIN n = NodeFields /\ IsPorts(n.ins) /\ IsPorts(n.outs) /\ IsPorts(n.locals)
    BY NodeDomain
<1>2. /\ DOMAIN n2 = NodeFields
      /\ n2.name = n.name /\ n2.kind = n.kind /\ n2.contract = n.contract
      /\ n2.ins = port(n.ins) /\ n2.outs = port(n.outs) /\ n2.locals = port(n.locals)
      /\ n2.eqs = n.eqs /\ n2.pos = n.pos
    <2>1. n2 = [n EXCEPT !.ins = port(n.ins), !.outs = port(n.outs), !.locals = port(n.locals)]
        BY DEF Retyped
    <2> HIDE DEF port
    <2> QED BY <1>1, <2>1 DEF NodeFields
<1>3. ASSUME NEW ps, IsPorts(ps)
      PROVE  IsPorts(port(ps)) /\ Fields(port(ps)) = Fields(ps) /\ (Distinct(ps) => Distinct(port(ps)))
    BY <1>3, RetypedPorts
<1> HIDE DEF port
<1>4. /\ IsPorts(n2.ins) /\ Fields(n2.ins) = Fields(n.ins) /\ (Distinct(n.ins) => Distinct(n2.ins))
      /\ IsPorts(n2.outs) /\ Fields(n2.outs) = Fields(n.outs) /\ (Distinct(n.outs) => Distinct(n2.outs))
      /\ IsPorts(n2.locals) /\ Fields(n2.locals) = Fields(n.locals)
      /\ (Distinct(n.locals) => Distinct(n2.locals))
    BY <1>1, <1>2, <1>3
<1>5. Vars(n2) = Vars(n) /\ (VarsOnce(n) => VarsOnce(n2))
    BY <1>1, <1>4, VarsParts
<1> QED BY <1>1, <1>2, <1>4, <1>5, SameVars

(* A list of variables without one of them, and with it at its end.        *)
LEMMA PortsWithout ==
    ASSUME NEW ps, IsPorts(ps), NEW x
    PROVE  /\ IsPorts(Without(ps, x)) /\ Fields(Without(ps, x)) = Fields(ps) \ {x}
           /\ Distinct(ps) => Distinct(Without(ps, x))
<1>1. IsTable(ps) /\ \A y \in Fields(ps) : IsName(y)
    BY PortNames
<1>2. /\ IsTable(Without(ps, x)) /\ Fields(Without(ps, x)) = Fields(ps) \ {x}
      /\ Distinct(ps) => Distinct(Without(ps, x))
    BY <1>1, WithoutTable
<1> QED BY <1>1, <1>2, PortNames

LEMMA PortsMoved ==
    ASSUME NEW ps, IsPorts(ps), NEW x, IsName(x), NEW port, "name" \in DOMAIN port, port.name = x,
           NEW new, new = Append(Without(ps, x), port)
    PROVE  /\ IsPorts(new) /\ Fields(new) = Fields(ps) \cup {x}
           /\ Distinct(ps) => Distinct(new)
<1> DEFINE kept == Without(ps, x)
<1>1. IsPorts(kept) /\ Fields(kept) = Fields(ps) \ {x} /\ (Distinct(ps) => Distinct(kept))
    BY PortsWithout
<1> HIDE DEF kept
<1>2. IsTable(kept) /\ \A y \in Fields(kept) : IsName(y)
    BY <1>1, PortNames
<1>3. /\ IsTable(Append(kept, port)) /\ Fields(Append(kept, port)) = Fields(kept) \cup {x}
      /\ Distinct(Append(kept, port)) <=> Distinct(kept) /\ x \notin Fields(kept)
    BY <1>2, AppendTable
<1>4. new = Append(kept, port)
    BY DEF kept
<1>5. IsPorts(Append(kept, port))
    BY <1>2, <1>3, PortNames
<1> QED BY <1>1, <1>3, <1>4, <1>5

(* The removal of a variable, and of its place in the layout.              *)
LEMMA VarRemovalIsSound ==
    ASSUME NEW n, IsNodeDef(n), NEW x,
           NEW n2, n2 = [n EXCEPT !.ins = Without(@, x), !.outs = Without(@, x),
                                  !.locals = Without(@, x),
                                  !.pos = [k \in DOMAIN @ \ {x} |-> @[k]]]
    PROVE  Sound(n, n2) /\ Placed(n, n2)
<1>1. /\ DOMAIN n = NodeFields /\ IsPorts(n.ins) /\ IsPorts(n.outs) /\ IsPorts(n.locals)
      /\ IsSeq(n.eqs) /\ IsName(n.name) /\ n.kind \in Kinds
      /\ \A j \in DOMAIN n.eqs : {"lhs", "rhs", "tag"} \subseteq DOMAIN n.eqs[j]
    BY NodeDomain
<1> DEFINE pos == [k \in DOMAIN n.pos \ {x} |-> n.pos[k]]
<1>2. /\ DOMAIN n2 = NodeFields
      /\ n2.name = n.name /\ n2.kind = n.kind /\ n2.contract = n.contract
      /\ n2.ins = Without(n.ins, x) /\ n2.outs = Without(n.outs, x) /\ n2.locals = Without(n.locals, x)
      /\ n2.eqs = n.eqs /\ n2.pos = pos
    <2>1. n2 = [n EXCEPT !.ins = Without(n.ins, x), !.outs = Without(n.outs, x),
                         !.locals = Without(n.locals, x), !.pos = pos]
        OBVIOUS
    <2> HIDE DEF pos
    <2> QED BY <1>1, <2>1 DEF NodeFields
<1>3. /\ IsPorts(n2.ins) /\ Fields(n2.ins) = Fields(n.ins) \ {x} /\ (Distinct(n.ins) => Distinct(n2.ins))
      /\ IsPorts(n2.outs) /\ Fields(n2.outs) = Fields(n.outs) \ {x}
      /\ Distinct(n.outs) => Distinct(n2.outs)
      /\ IsPorts(n2.locals) /\ Fields(n2.locals) = Fields(n.locals) \ {x}
      /\ Distinct(n.locals) => Distinct(n2.locals)
    <2>1. ASSUME NEW ps, IsPorts(ps)
          PROVE  /\ IsPorts(Without(ps, x)) /\ Fields(Without(ps, x)) = Fields(ps) \ {x}
                 /\ Distinct(ps) => Distinct(Without(ps, x))
        BY <2>1, PortsWithout
    <2> QED BY <1>1, <1>2, <2>1
<1>4. IsNodeDef(n2)
    <2>1. IsName(n2.name) /\ n2.kind \in Kinds
        BY <1>1, <1>2
    <2>2. IsSeq(n2.eqs) /\ \A j \in DOMAIN n2.eqs : {"lhs", "rhs", "tag"} \subseteq DOMAIN n2.eqs[j]
        BY <1>1, <1>2
    <2>3. DOMAIN n2 = NodeFields
        BY <1>2
    <2> QED BY <1>3, <2>1, <2>2, <2>3, NodeDomain
<1>5. Vars(n2) = Vars(n) \ {x} /\ (VarsOnce(n) => VarsOnce(n2)) /\ (VarsApart(n) => VarsApart(n2))
    <2>1. /\ Vars(n) = Fields(n.ins) \cup Fields(n.outs) \cup Fields(n.locals)
          /\ VarsApart(n) <=> \A y \in Vars(n) : NoKey(y)
          /\ VarsOnce(n) <=>
                /\ Distinct(n.ins) /\ Distinct(n.outs) /\ Distinct(n.locals)
                /\ Fields(n.ins) \cap Fields(n.outs) = {}
                /\ (Fields(n.ins) \cup Fields(n.outs)) \cap Fields(n.locals) = {}
        BY <1>1, VarsParts
    <2>2. /\ Vars(n2) = Fields(n2.ins) \cup Fields(n2.outs) \cup Fields(n2.locals)
          /\ VarsApart(n2) <=> \A y \in Vars(n2) : NoKey(y)
          /\ VarsOnce(n2) <=>
                /\ Distinct(n2.ins) /\ Distinct(n2.outs) /\ Distinct(n2.locals)
                /\ Fields(n2.ins) \cap Fields(n2.outs) = {}
                /\ (Fields(n2.ins) \cup Fields(n2.outs)) \cap Fields(n2.locals) = {}
        BY <1>3, VarsParts
    <2> QED BY <1>3, <2>1, <2>2
<1> HIDE DEF pos
<1>6. ASSUME Follows(n) PROVE Follows(n2)
    <2>0. n2.pos = pos /\ n2.eqs = n.eqs
        BY <1>2
    <2> SUFFICES ASSUME NEW k \in DOMAIN n2.pos, k \notin Vars(n2)
                 PROVE  \E i \in DOMAIN n2.eqs : k = EqKey(i) /\ n2.pos[k] = n2.eqs[i].tag
        BY DEF Follows
    <2>1. k \in DOMAIN n.pos /\ pos[k] = n.pos[k] /\ k \notin Vars(n)
        BY <1>5, <2>0 DEF pos
    <2> QED BY <1>6, <2>0, <2>1 DEF Follows
<1> QED BY <1>2, <1>4, <1>5, <1>6 DEF Sound, Placed

(* A change of role.                                                       *)
LEMMA RoleIsSound ==
    ASSUME NEW n, IsNodeDef(n), NEW x \in Vars(n), NEW role \in Roles,
           NEW n2, n2 = InRole(n, x, role)
    PROVE  Sound(n, n2) /\ Placed(n, n2)
<1> DEFINE all == n.ins \o n.outs \o n.locals
           port == PortNamed(all, x)
           list(ps, r) == IF r = role THEN Append(Without(ps, x), port) ELSE Without(ps, x)
<1>1. DOMAIN n = NodeFields /\ IsPorts(n.ins) /\ IsPorts(n.outs) /\ IsPorts(n.locals)
    BY NodeDomain
<1>2. CASE RoleOf(n, x) = role
    BY <1>2, SoundSame DEF InRole
<1>3. CASE RoleOf(n, x) # role
    <2>1. n2 = [n EXCEPT !.ins = list(n.ins, "input"), !.outs = list(n.outs, "output"),
                         !.locals = list(n.locals, "local")]
        BY <1>3 DEF InRole
    <2>2. "name" \in DOMAIN port /\ port.name = x
        <3>1. IsTable(all) /\ x \in Fields(all)
            BY <1>1, VarsParts DEF Vars
        <3> HIDE DEF all
        <3>2. \E j \in DOMAIN all : all[j].name = x
            BY <3>1 DEF Fields
        <3>3. \E j \in DOMAIN all : port = all[j] /\ all[j].name = x
            BY <3>2 DEF PortNamed
        <3> QED BY <3>1, <3>3 DEF IsTable
    <2>3. IsName(x)
        <3>1. /\ \A y \in Fields(n.ins) : IsName(y)
              /\ \A y \in Fields(n.outs) : IsName(y)
              /\ \A y \in Fields(n.locals) : IsName(y)
            BY <1>1, PortNames
        <3> QED BY <1>1, <3>1, VarsParts
    <2> HIDE DEF port
    <2>4. ASSUME NEW ps, IsPorts(ps), NEW r
          PROVE  /\ IsPorts(list(ps, r))
                 /\ Fields(list(ps, r)) = (Fields(ps) \ {x}) \cup (IF r = role THEN {x} ELSE {})
                 /\ Distinct(ps) => Distinct(list(ps, r))
        <3>1. CASE r = role
            <4> DEFINE new == Append(Without(ps, x), port)
            <4>1. list(ps, r) = new
                BY <3>1
            <4>2. /\ IsPorts(new) /\ Fields(new) = Fields(ps) \cup {x}
                  /\ Distinct(ps) => Distinct(new)
                BY <2>2, <2>3, <2>4, PortsMoved
            <4> HIDE DEF new, list
            <4>3. (Fields(ps) \ {x}) \cup (IF r = role THEN {x} ELSE {}) = Fields(ps) \cup {x}
                BY <3>1
            <4> QED BY <4>1, <4>2, <4>3
        <3>2. CASE r # role
            <4>1. list(ps, r) = Without(ps, x)
                BY <3>2
            <4> HIDE DEF list
            <4>2. (Fields(ps) \ {x}) \cup (IF r = role THEN {x} ELSE {}) = Fields(ps) \ {x}
                BY <3>2
            <4> QED BY <2>4, <4>1, <4>2, PortsWithout
        <3> QED BY <3>1, <3>2
    <2> HIDE DEF list
    <2>5. /\ DOMAIN n2 = NodeFields
          /\ n2.name = n.name /\ n2.kind = n.kind /\ n2.contract = n.contract
          /\ n2.eqs = n.eqs /\ n2.pos = n.pos
          /\ n2.ins = list(n.ins, "input") /\ n2.outs = list(n.outs, "output")
          /\ n2.locals = list(n.locals, "local")
        BY <1>1, <2>1 DEF NodeFields
    <2>6. /\ IsPorts(n2.ins)
          /\ Fields(n2.ins) = (Fields(n.ins) \ {x}) \cup (IF role = "input" THEN {x} ELSE {})
          /\ Distinct(n.ins) => Distinct(n2.ins)
        BY <1>1, <2>4, <2>5
    <2>7. /\ IsPorts(n2.outs)
          /\ Fields(n2.outs) = (Fields(n.outs) \ {x}) \cup (IF role = "output" THEN {x} ELSE {})
          /\ Distinct(n.outs) => Distinct(n2.outs)
        BY <1>1, <2>4, <2>5
    <2>8. /\ IsPorts(n2.locals)
          /\ Fields(n2.locals) = (Fields(n.locals) \ {x}) \cup (IF role = "local" THEN {x} ELSE {})
          /\ Distinct(n.locals) => Distinct(n2.locals)
        BY <1>1, <2>4, <2>5
    <2>9. role = "input" \/ role = "output" \/ role = "local"
        BY DEF Roles
    <2>10. Vars(n2) = Vars(n) /\ (VarsOnce(n) => VarsOnce(n2))
        <3>1. /\ Vars(n) = Fields(n.ins) \cup Fields(n.outs) \cup Fields(n.locals)
              /\ VarsOnce(n) <=>
                    /\ Distinct(n.ins) /\ Distinct(n.outs) /\ Distinct(n.locals)
                    /\ Fields(n.ins) \cap Fields(n.outs) = {}
                    /\ (Fields(n.ins) \cup Fields(n.outs)) \cap Fields(n.locals) = {}
            BY <1>1, VarsParts
        <3>2. /\ Vars(n2) = Fields(n2.ins) \cup Fields(n2.outs) \cup Fields(n2.locals)
              /\ VarsOnce(n2) <=>
                    /\ Distinct(n2.ins) /\ Distinct(n2.outs) /\ Distinct(n2.locals)
                    /\ Fields(n2.ins) \cap Fields(n2.outs) = {}
                    /\ (Fields(n2.ins) \cup Fields(n2.outs)) \cap Fields(n2.locals) = {}
            BY <2>6, <2>7, <2>8, VarsParts
        <3>3. CASE role = "input"
            BY <2>6, <2>7, <2>8, <3>1, <3>2, <3>3
        <3>4. CASE role = "output"
            BY <2>6, <2>7, <2>8, <3>1, <3>2, <3>4
        <3>5. CASE role = "local"
            BY <2>6, <2>7, <2>8, <3>1, <3>2, <3>5
        <3> QED BY <2>9, <3>3, <3>4, <3>5
    <2> QED BY <1>1, <2>5, <2>6, <2>7, <2>8, <2>10, SameVars
<1> QED BY <1>2, <1>3

(* The ports of a list, with one renamed.                                  *)
LEMMA RenamedPorts ==
    ASSUME NEW ps, IsPorts(ps), NEW x, NEW y, IsName(y), y \notin Fields(ps), NEW new,
           new = [j \in DOMAIN ps |-> [ps[j] EXCEPT !.name = IF @ = x THEN y ELSE @]]
    PROVE  /\ IsPorts(new)
           /\ Fields(new) = {IF z = x THEN y ELSE z : z \in Fields(ps)}
           /\ Distinct(ps) => Distinct(new)
<1>1. IsSeq(ps) /\ \A j \in DOMAIN ps : "name" \in DOMAIN ps[j] /\ IsName(ps[j].name)
    BY DEF IsPorts, IsTable
<1>2. Len(ps) \in Nat /\ DOMAIN ps = 1 .. Len(ps)
    BY <1>1, SeqFacts
<1>3. IsSeq(new) /\ DOMAIN new = DOMAIN ps
    <2>1. new = [j \in 1 .. Len(ps) |-> new[j]]
        BY <1>2
    <2> QED BY <1>2, <2>1, TupleSeq
<1>4. ASSUME NEW j \in DOMAIN ps
      PROVE  /\ "name" \in DOMAIN new[j] /\ ps[j].name \in Fields(ps)
             /\ new[j].name = IF ps[j].name = x THEN y ELSE ps[j].name
    BY <1>1 DEF Fields
<1>5. IsPorts(new)
    BY <1>1, <1>3, <1>4 DEF IsPorts, IsTable
<1>6. Fields(new) = {IF z = x THEN y ELSE z : z \in Fields(ps)}
    <2> DEFINE to(z) == IF z = x THEN y ELSE z
    <2>1. \A j \in DOMAIN ps : new[j].name = to(ps[j].name)
        BY <1>4
    <2> HIDE DEF to
    <2>2. ASSUME NEW z \in Fields(ps) PROVE to(z) \in Fields(new)
        <3>1. PICK j \in DOMAIN ps : z = ps[j].name
            BY DEF Fields
        <3> QED BY <1>3, <2>1, <3>1 DEF Fields
    <2>3. ASSUME NEW y2 \in Fields(new) PROVE y2 \in {to(z) : z \in Fields(ps)}
        <3>1. PICK j \in DOMAIN ps : y2 = new[j].name
            BY <1>3 DEF Fields
        <3> QED BY <1>4, <2>1, <3>1
    <2>4. Fields(new) = {to(z) : z \in Fields(ps)}
        BY <2>2, <2>3
    <2> QED BY <2>4 DEF to
<1>7. Distinct(ps) => Distinct(new)
    BY <1>3, <1>4 DEF Distinct
<1> QED BY <1>5, <1>6, <1>7

(* A renaming in an operator.                                              *)
LEMMA RenamingIsSound ==
    ASSUME NEW n, IsNodeDef(n), NEW old \in Vars(n), NEW new, IsName(new), new \notin Vars(n),
           NEW n2, n2 = RenamedIn(n, old, new)
    PROVE  /\ Sound(n, n2) /\ (NoKey(new) => Placed(n, n2))
           /\ new \in Vars(n2)
<1> DEFINE to(x) == IF x = old THEN new ELSE x
           port(ps) == [j \in DOMAIN ps |-> [ps[j] EXCEPT !.name = to(@)]]
           moved == {to(k) : k \in DOMAIN n.pos}
           eq(q) == [q EXCEPT !.lhs = [k \in DOMAIN @ |-> to(@[k])],
                              !.rhs = RenameVar(@, Renaming(old, new))]
           eqs == [j \in DOMAIN n.eqs |-> eq(n.eqs[j])]
           pos == [k \in moved |-> n.pos[IF k = new THEN old ELSE k]]
<1>1. /\ DOMAIN n = NodeFields /\ IsPorts(n.ins) /\ IsPorts(n.outs) /\ IsPorts(n.locals)
      /\ IsSeq(n.eqs) /\ IsName(n.name) /\ n.kind \in Kinds
      /\ \A j \in DOMAIN n.eqs : {"lhs", "rhs", "tag"} \subseteq DOMAIN n.eqs[j]
    BY NodeDomain
<1>2. /\ DOMAIN n2 = NodeFields
      /\ n2.name = n.name /\ n2.kind = n.kind /\ n2.contract = n.contract
      /\ n2.ins = port(n.ins) /\ n2.outs = port(n.outs) /\ n2.locals = port(n.locals)
      /\ n2.eqs = eqs /\ n2.pos = pos
    <2>1. n2 = [n EXCEPT !.ins = port(n.ins), !.outs = port(n.outs), !.locals = port(n.locals),
                         !.eqs = eqs, !.pos = pos]
        BY DEF RenamedIn
    <2> HIDE DEF port, eqs, pos
    <2> QED BY <1>1, <2>1 DEF NodeFields
<1>3. /\ Vars(n) = Fields(n.ins) \cup Fields(n.outs) \cup Fields(n.locals)
      /\ VarsApart(n) <=> \A y \in Vars(n) : NoKey(y)
      /\ VarsOnce(n) <=>
            /\ Distinct(n.ins) /\ Distinct(n.outs) /\ Distinct(n.locals)
            /\ Fields(n.ins) \cap Fields(n.outs) = {}
            /\ (Fields(n.ins) \cup Fields(n.outs)) \cap Fields(n.locals) = {}
    BY <1>1, VarsParts
<1>4. ASSUME NEW ps, IsPorts(ps), new \notin Fields(ps)
      PROVE  /\ IsPorts(port(ps)) /\ Fields(port(ps)) = {to(z) : z \in Fields(ps)}
             /\ Distinct(ps) => Distinct(port(ps))
    <2> DEFINE ren == port(ps)
    <2>1. ren = [j \in DOMAIN ps |-> [ps[j] EXCEPT !.name = IF @ = old THEN new ELSE @]]
        OBVIOUS
    <2> HIDE DEF ren
    <2>2. /\ IsPorts(ren) /\ Fields(ren) = {IF z = old THEN new ELSE z : z \in Fields(ps)}
          /\ Distinct(ps) => Distinct(ren)
        BY <1>4, <2>1, RenamedPorts
    <2> QED BY <2>2 DEF ren
<1> HIDE DEF port
<1> DEFINE image(S) == {to(z) : z \in S}
<1>20. ASSUME NEW ps, IsPorts(ps), new \notin Fields(ps)
      PROVE  /\ IsPorts(port(ps)) /\ Fields(port(ps)) = image(Fields(ps))
             /\ Distinct(ps) => Distinct(port(ps))
    BY <1>20, <1>4
<1>5. /\ IsPorts(n2.ins) /\ Fields(n2.ins) = {to(z) : z \in Fields(n.ins)}
      /\ Distinct(n.ins) => Distinct(n2.ins)
    <2> HIDE DEF image
    <2>1. new \notin Fields(n.ins)
        BY <1>3
    <2>2. /\ IsPorts(port(n.ins)) /\ Fields(port(n.ins)) = image(Fields(n.ins))
          /\ Distinct(n.ins) => Distinct(port(n.ins))
        BY <1>1, <1>20, <2>1
    <2> USE DEF image
    <2> QED BY <1>2, <2>2
<1>6. /\ IsPorts(n2.outs) /\ Fields(n2.outs) = {to(z) : z \in Fields(n.outs)}
      /\ Distinct(n.outs) => Distinct(n2.outs)
    <2> HIDE DEF image
    <2>1. new \notin Fields(n.outs)
        BY <1>3
    <2>2. /\ IsPorts(port(n.outs)) /\ Fields(port(n.outs)) = image(Fields(n.outs))
          /\ Distinct(n.outs) => Distinct(port(n.outs))
        BY <1>1, <1>20, <2>1
    <2> USE DEF image
    <2> QED BY <1>2, <2>2
<1>7. /\ IsPorts(n2.locals) /\ Fields(n2.locals) = {to(z) : z \in Fields(n.locals)}
      /\ Distinct(n.locals) => Distinct(n2.locals)
    <2> HIDE DEF image
    <2>1. new \notin Fields(n.locals)
        BY <1>3
    <2>2. /\ IsPorts(port(n.locals)) /\ Fields(port(n.locals)) = image(Fields(n.locals))
          /\ Distinct(n.locals) => Distinct(port(n.locals))
        BY <1>1, <1>20, <2>1
    <2> USE DEF image
    <2> QED BY <1>2, <2>2
<1>8. /\ Vars(n2) = Fields(n2.ins) \cup Fields(n2.outs) \cup Fields(n2.locals)
      /\ VarsApart(n2) <=> \A y \in Vars(n2) : NoKey(y)
      /\ VarsOnce(n2) <=>
            /\ Distinct(n2.ins) /\ Distinct(n2.outs) /\ Distinct(n2.locals)
            /\ Fields(n2.ins) \cap Fields(n2.outs) = {}
            /\ (Fields(n2.ins) \cup Fields(n2.outs)) \cap Fields(n2.locals) = {}
    BY <1>5, <1>6, <1>7, VarsParts
<1>9. Vars(n2) = {to(z) : z \in Vars(n)}
    BY <1>3, <1>5, <1>6, <1>7, <1>8
<1>10. new \in Vars(n2) /\ (VarsApart(n) /\ NoKey(new) => VarsApart(n2))
    BY <1>3, <1>8, <1>9
<1>11. VarsOnce(n) => VarsOnce(n2)
    BY <1>3, <1>5, <1>6, <1>7, <1>8
<1>12. /\ IsSeq(eqs) /\ DOMAIN eqs = DOMAIN n.eqs
       /\ \A j \in DOMAIN n.eqs : DOMAIN eqs[j] = DOMAIN n.eqs[j] /\ eqs[j].tag = n.eqs[j].tag
    <2>1. \A j \in DOMAIN n.eqs : DOMAIN eqs[j] = DOMAIN n.eqs[j] /\ eqs[j].tag = n.eqs[j].tag
        BY <1>1
    <2>2. eqs = [j \in DOMAIN n.eqs |-> eqs[j]]
        OBVIOUS
    <2> DEFINE e == n.eqs
    <2>3. IsSeq(e) /\ eqs = [j \in DOMAIN e |-> eqs[j]]
        BY <1>1, <2>2
    <2> HIDE DEF e, eqs
    <2>4. Len(e) \in Nat /\ DOMAIN e = 1 .. Len(e)
        BY <2>3, SeqFacts
    <2>5. IsSeq(eqs) /\ DOMAIN eqs = DOMAIN e
        BY <2>3, <2>4, TupleSeq
    <2> QED BY <2>1, <2>5 DEF e
<1> HIDE DEF eqs
<1>13. IsNodeDef(n2)
    BY <1>1, <1>2, <1>5, <1>6, <1>7, <1>12, NodeDomain
<1>14. ASSUME Follows(n) PROVE Follows(n2)
    <2> SUFFICES ASSUME NEW k \in moved, k \notin Vars(n2)
                 PROVE  \E i \in DOMAIN eqs : k = EqKey(i) /\ pos[k] = eqs[i].tag
        BY <1>2 DEF Follows
    <2>1. PICK key \in DOMAIN n.pos : k = to(key)
        OBVIOUS
    <2>2. k # new
        BY <1>10
    <2>3. key = k /\ k # old /\ pos[k] = n.pos[k]
        BY <2>1, <2>2
    <2>4. k \notin Vars(n)
        BY <1>9, <2>3
    <2>5. PICK i \in DOMAIN n.eqs : k = EqKey(i) /\ n.pos[k] = n.eqs[i].tag
        BY <1>14, <2>1, <2>3, <2>4 DEF Follows
    <2> QED BY <1>12, <2>3, <2>5
<1> QED BY <1>2, <1>10, <1>11, <1>13, <1>14 DEF Sound, Placed

-------------------------------------------------------------------------------
(* The definition of a name in a table.                                    *)
LEMMA NamedFacts ==
    ASSUME NEW defs, IsTable(defs), NEW x \in Fields(defs)
    PROVE  /\ \E j \in DOMAIN defs : defs[j].name = x /\ Named(defs, x) = defs[j]
           /\ \A j \in DOMAIN defs : Distinct(defs) /\ defs[j].name = x => Named(defs, x) = defs[j]
<1> DEFINE S == {j \in DOMAIN defs : defs[j].name = x}
<1>1. S \subseteq Nat /\ S # {}
    <2>1. DOMAIN defs = 1 .. Len(defs) /\ Len(defs) \in Nat
        BY SeqFacts DEF IsTable
    <2> QED BY <2>1 DEF Fields
<1>2. \E j \in S : \A k \in S : j <= k
    <2> HIDE DEF S
    <2> QED BY <1>1, LeastElement
<1>3. Min(S) \in S
    <2> HIDE DEF S
    <2> QED BY <1>2 DEF Min
<1>4. Named(defs, x) = defs[Min(S)]
    BY DEF Named
<1> DEFINE i == Min(S)
<1>5. i \in DOMAIN defs /\ defs[i].name = x /\ Named(defs, x) = defs[i]
    BY <1>3, <1>4
<1> HIDE DEF i
<1> QED BY <1>5 DEF Distinct

(* The contract k of a model is the operator i's alone;                    *)
Sole(m, k, i) ==
    /\ m.nodes[i].contract = m.contracts[k].name
    /\ \A j \in DOMAIN m.nodes : m.nodes[j].contract = m.contracts[k].name => j = i

(* and where that operator is none of these, it has its interface.         *)
InStepBut(m, names) ==
    \A k \in DOMAIN m.contracts, i \in DOMAIN m.nodes :
        Sole(m, k, i) /\ m.nodes[i].name \notin names
            => m.contracts[k].ins = m.nodes[i].ins /\ m.contracts[k].outs = m.nodes[i].outs

LEMMA InStepByIndex ==
    ASSUME NEW m, IsTable(m.nodes), Distinct(m.nodes)
    PROVE  InStep(m) <=> InStepBut(m, {})
<1> DEFINE Users(c) == {n \in ToSet(m.nodes) : n.contract = c.name}
<1>1. ASSUME NEW c PROVE IsFiniteSet(Users(c))
    <2>1. IsFiniteSet(ToSet(m.nodes))
        BY SeqFinite DEF IsTable
    <2>2. Users(c) \in SUBSET ToSet(m.nodes)
        OBVIOUS
    <2> HIDE DEF Users
    <2> QED BY <2>1, <2>2, FS_Subset
<1>2. ASSUME NEW k \in DOMAIN m.contracts, NEW i \in DOMAIN m.nodes, Sole(m, k, i)
      PROVE  m.nodes[i] \in Users(m.contracts[k]) /\ Cardinality(Users(m.contracts[k])) = 1
    <2>1. Users(m.contracts[k]) = {m.nodes[i]}
        BY <1>2 DEF Sole, ToSet
    <2> HIDE DEF Users
    <2> QED BY <2>1, FS_Singleton
<1>3. ASSUME NEW k \in DOMAIN m.contracts, Cardinality(Users(m.contracts[k])) = 1,
             NEW n \in Users(m.contracts[k])
      PROVE  \E i \in DOMAIN m.nodes : n = m.nodes[i] /\ Sole(m, k, i)
    <2>1. \E y : Users(m.contracts[k]) = {y}
        <3> DEFINE U == Users(m.contracts[k])
        <3>1. IsFiniteSet(U) /\ Cardinality(U) = 1
            BY <1>1, <1>3
        <3> HIDE DEF U
        <3>2. \E y : U = {y}
            BY <3>1, FS_Singleton
        <3> QED BY <3>2 DEF U
    <2>2. PICK i \in DOMAIN m.nodes : n = m.nodes[i] /\ n.contract = m.contracts[k].name
        BY DEF ToSet
    <2>3. ASSUME NEW j \in DOMAIN m.nodes, m.nodes[j].contract = m.contracts[k].name PROVE j = i
        <3>1. m.nodes[j] \in Users(m.contracts[k])
            BY <2>3 DEF ToSet
        <3>2. m.nodes[j] = m.nodes[i]
            <4> HIDE DEF Users
            <4> QED BY <2>1, <2>2, <3>1
        <3> QED BY <3>2 DEF Distinct
    <2> QED BY <2>2, <2>3 DEF Sole
<1>4. InStep(m) <=> \A k \in DOMAIN m.contracts :
          Cardinality(Users(m.contracts[k])) = 1
              => \A n \in Users(m.contracts[k]) :
                    m.contracts[k].ins = n.ins /\ m.contracts[k].outs = n.outs
    <2>1. ToSet(m.contracts) = {m.contracts[k] : k \in DOMAIN m.contracts}
        BY DEF ToSet
    <2>2. InStep(m) <=> \A c \in ToSet(m.contracts) :
              Cardinality(Users(c)) = 1 => \A n \in Users(c) : c.ins = n.ins /\ c.outs = n.outs
        BY DEF InStep
    <2> HIDE DEF Users
    <2> QED BY <2>1, <2>2
<1> HIDE DEF Users
<1>5. ASSUME InStep(m) PROVE InStepBut(m, {})
    BY <1>2, <1>4, <1>5 DEF InStepBut
<1>6. ASSUME InStepBut(m, {}) PROVE InStep(m)
    <2> SUFFICES ASSUME NEW k \in DOMAIN m.contracts, Cardinality(Users(m.contracts[k])) = 1,
                        NEW n \in Users(m.contracts[k])
                 PROVE  m.contracts[k].ins = n.ins /\ m.contracts[k].outs = n.outs
        BY <1>4
    <2>1. PICK i \in DOMAIN m.nodes : n = m.nodes[i] /\ Sole(m, k, i)
        BY <1>3
    <2> QED BY <1>6, <2>1 DEF InStepBut
<1> QED BY <1>5, <1>6

(* The layouts of a model's operators, and what names they may come to use.*)
Laid(m, t) ==
    /\ \A j \in DOMAIN m.nodes : VarsApart(m.nodes[j]) /\ Follows(m.nodes[j])
    /\ FieldsApart(m.types) /\ FieldsApart(t.types)

ModelFields == {"nodes", "types", "consts", "contracts", "machines", "acts", "main"}

LEMMA ModelDomain ==
    ASSUME NEW m
    PROVE  IsModel(m) <=>
              /\ DOMAIN m = ModelFields
              /\ IsNodes(m.nodes) /\ IsTypes(m.types) /\ IsTable(m.consts) /\ IsContracts(m.contracts)
              /\ IsTable(m.machines) /\ IsTable(m.acts)
<1> QED BY DEF IsModel, ModelFields

(* Names once, list by list.                                               *)
LEMMA OnceParts ==
    ASSUME NEW m, IsModel(m), NEW t, IsTypesFile(t)
    PROVE  /\ Distinct(m.types \o t.types) <=>
                 Distinct(m.types) /\ Distinct(t.types) /\ Fields(m.types) \cap Fields(t.types) = {}
           /\ Distinct(m.consts \o t.consts) <=>
                 Distinct(m.consts) /\ Distinct(t.consts) /\ Fields(m.consts) \cap Fields(t.consts) = {}
           /\ Fields(m.types \o t.types) = Fields(m.types) \cup Fields(t.types)
           /\ Fields(m.consts \o t.consts) = Fields(m.consts) \cup Fields(t.consts)
<1>1. IsTable(m.types) /\ IsTable(m.consts) /\ IsTable(t.types) /\ IsTable(t.consts)
    BY ModelDomain DEF IsTypesFile, IsTypes
<1> QED BY <1>1, ConcatTable

(* What becomes of a model when n2 takes the place of its operator n, x.   *)
NodeReplaced(m, t, x, n, n2, m2) ==
    /\ IsModel(m2)
    /\ Once(m, t) => Once(m2, t)
    /\ Placed(n, n2) /\ Laid(m, t) => Laid(m2, t)
    /\ x \in Fields(m2.nodes)
    /\ m2.types = m.types /\ m2.consts = m.consts /\ m2.contracts = m.contracts
    /\ m2.machines = m.machines /\ m2.acts = m.acts
    /\ Distinct(m.nodes) /\ InStep(m) => Distinct(m2.nodes) /\ InStepBut(m2, {x})
    /\ Distinct(m.nodes) /\ InStep(m) /\ n2.ins = n.ins /\ n2.outs = n.outs => InStep(m2)

LEMMA NodeEdit ==
    ASSUME NEW m, IsModel(m), NEW t, IsTypesFile(t), NEW x \in Fields(m.nodes),
           NEW n, n = Named(m.nodes, x), NEW n2, Sound(n, n2),
           NEW m2, m2 = WithNode(m, n2)
    PROVE  NodeReplaced(m, t, x, n, n2, m2)
<1> DEFINE nodes == [j \in DOMAIN m.nodes |-> IF m.nodes[j].name = n2.name THEN n2 ELSE m.nodes[j]]
<1>1. /\ DOMAIN m = ModelFields
      /\ IsTable(m.nodes) /\ \A j \in DOMAIN m.nodes : IsNodeDef(m.nodes[j])
      /\ IsTypes(m.types) /\ IsTable(m.consts) /\ IsContracts(m.contracts)
      /\ IsTable(m.machines) /\ IsTable(m.acts)
    BY ModelDomain DEF IsNodes
<1>2. PICK i \in DOMAIN m.nodes : m.nodes[i].name = x /\ n = m.nodes[i]
    BY <1>1, NamedFacts
<1>3. /\ IsNodeDef(n2) /\ n2.name = x /\ n2.contract = n.contract
      /\ VarsOnce(n) => VarsOnce(n2)
    BY <1>2 DEF Sound
<1>4. "name" \in DOMAIN n2
    BY <1>3, NodeDomain DEF NodeFields
<1>5. /\ DOMAIN m2 = ModelFields /\ m2.nodes = nodes
      /\ m2.types = m.types /\ m2.consts = m.consts /\ m2.contracts = m.contracts
      /\ m2.machines = m.machines /\ m2.acts = m.acts
    <2>1. m2 = [m EXCEPT !.nodes = nodes]
        BY DEF WithNode
    <2> HIDE DEF nodes
    <2> QED BY <1>1, <2>1 DEF ModelFields
<1>6. /\ DOMAIN nodes = DOMAIN m.nodes
      /\ \A j \in DOMAIN m.nodes :
            \/ m.nodes[j].name = x /\ nodes[j] = n2
            \/ m.nodes[j].name # x /\ nodes[j] = m.nodes[j]
    BY <1>3
<1>7. nodes = [j \in DOMAIN m.nodes |-> nodes[j]]
    OBVIOUS
<1> HIDE DEF nodes
<1>8. /\ IsTable(nodes) /\ Fields(nodes) = Fields(m.nodes)
      /\ Distinct(m.nodes) => Distinct(nodes)
    <2>1. \A j \in DOMAIN m.nodes : "name" \in DOMAIN nodes[j] /\ nodes[j].name = m.nodes[j].name
        BY <1>1, <1>3, <1>4, <1>6 DEF IsTable
    <2> QED BY <1>1, <1>7, <2>1, MappedTable
<1>9. IsModel(m2)
    <2>1. IsNodes(nodes)
        BY <1>1, <1>3, <1>6, <1>8 DEF IsNodes
    <2> QED BY <1>1, <1>5, <2>1, ModelDomain
<1>10. Once(m, t) => Once(m2, t)
    <2>1. ASSUME \A j \in DOMAIN m.nodes : VarsOnce(m.nodes[j])
          PROVE  \A j \in DOMAIN nodes : VarsOnce(nodes[j])
        BY <1>2, <1>3, <1>6, <2>1
    <2> QED BY <1>5, <1>8, <2>1 DEF Once
<1>11. ASSUME Placed(n, n2), Laid(m, t) PROVE Laid(m2, t)
    <2>1. VarsApart(n2) /\ Follows(n2)
        BY <1>2, <1>11 DEF Placed, Laid
    <2>2. \A j \in DOMAIN nodes : VarsApart(nodes[j]) /\ Follows(nodes[j])
        BY <1>6, <1>11, <2>1 DEF Laid
    <2> QED BY <1>5, <1>11, <2>2 DEF Laid
<1>12. ASSUME Distinct(m.nodes), InStep(m)
       PROVE  /\ Distinct(nodes) /\ InStepBut(m2, {x})
              /\ n2.ins = n.ins /\ n2.outs = n.outs => InStep(m2)
    <2>1. InStepBut(m, {})
        BY <1>1, <1>12, InStepByIndex
    <2>2. \A j \in DOMAIN m.nodes : nodes[j].contract = m.nodes[j].contract /\ nodes[j].name = m.nodes[j].name
        <3> SUFFICES ASSUME NEW j \in DOMAIN m.nodes
                     PROVE  nodes[j].contract = m.nodes[j].contract /\ nodes[j].name = m.nodes[j].name
            OBVIOUS
        <3>1. m.nodes[j].name = x => j = i
            BY <1>2, <1>12 DEF Distinct
        <3> QED BY <1>2, <1>3, <1>6, <3>1
    <2>3. ASSUME NEW k \in DOMAIN m2.contracts, NEW j \in DOMAIN m2.nodes, Sole(m2, k, j)
          PROVE  /\ k \in DOMAIN m.contracts /\ j \in DOMAIN m.nodes
                 /\ m.contracts[k].ins = m.nodes[j].ins /\ m.contracts[k].outs = m.nodes[j].outs
        <3>1. k \in DOMAIN m.contracts /\ j \in DOMAIN m.nodes /\ Sole(m, k, j)
            BY <1>5, <1>6, <2>2, <2>3 DEF Sole
        <3> QED BY <2>1, <3>1 DEF InStepBut
    <2>4. InStepBut(m2, {x})
        <3> SUFFICES ASSUME NEW k \in DOMAIN m2.contracts, NEW j \in DOMAIN m2.nodes, Sole(m2, k, j),
                            m2.nodes[j].name # x
                     PROVE  m2.contracts[k].ins = m2.nodes[j].ins /\ m2.contracts[k].outs = m2.nodes[j].outs
            BY DEF InStepBut
        <3>1. m2.nodes[j] = m.nodes[j] /\ m2.contracts[k] = m.contracts[k]
            BY <1>3, <1>5, <1>6
        <3> QED BY <2>3, <3>1
    <2>5. ASSUME n2.ins = n.ins, n2.outs = n.outs PROVE InStepBut(m2, {})
        <3> SUFFICES ASSUME NEW k \in DOMAIN m2.contracts, NEW j \in DOMAIN m2.nodes, Sole(m2, k, j)
                     PROVE  m2.contracts[k].ins = m2.nodes[j].ins /\ m2.contracts[k].outs = m2.nodes[j].outs
            BY DEF InStepBut
        <3>1. m2.nodes[j].ins = m.nodes[j].ins /\ m2.nodes[j].outs = m.nodes[j].outs
            <4>1. m.nodes[j].name = x => j = i
                BY <1>2, <1>5, <1>6, <1>12 DEF Distinct
            <4> QED BY <1>2, <1>5, <1>6, <2>5, <4>1
        <3> QED BY <1>5, <2>3, <3>1
    <2>6. InStepBut(m2, {}) <=> InStep(m2)
        BY <1>5, <1>8, <1>12, InStepByIndex
    <2> QED BY <1>8, <1>12, <2>4, <2>5, <2>6
<1> QED BY <1>5, <1>8, <1>9, <1>10, <1>11, <1>12 DEF NodeReplaced

(* The contract of the operator x follows.                                 *)
LEMMA SyncFacts ==
    ASSUME NEW m, IsModel(m), NEW x \in Fields(m.nodes), NEW old, NEW new,
           NEW m2, m2 = SyncAttachedContract(m, x, old, new)
    PROVE  /\ IsModel(m2)
           /\ m2.nodes = m.nodes /\ m2.types = m.types /\ m2.consts = m.consts
           /\ m2.machines = m.machines /\ m2.acts = m.acts
           /\ Distinct(m.contracts) => Distinct(m2.contracts)
           /\ Distinct(m.nodes) /\ InStepBut(m, {x}) => InStep(m2)
<1> DEFINE n == Named(m.nodes, x)
           users == {j \in DOMAIN m.nodes : m.nodes[j].contract = n.contract}
           e(clause) == IF old = new THEN clause ELSE RenameVar(clause, Renaming(old, new))
           all(clauses) == [k \in DOMAIN clauses |-> e(clauses[k])]
           ghost(g) == [g EXCEPT !.def = e(@)]
           mode(k) == [k EXCEPT !.requires = all(@), !.ensures = all(@)]
           follow(c) == [c EXCEPT
               !.ins = n.ins, !.outs = n.outs,
               !.ghosts = [g \in DOMAIN @ |-> ghost(@[g])],
               !.assumes = all(@), !.guarantees = all(@),
               !.modes = [k \in DOMAIN @ |-> mode(@[k])]]
           contracts == [j \in DOMAIN m.contracts |->
                            IF m.contracts[j].name = n.contract THEN follow(m.contracts[j])
                            ELSE m.contracts[j]]
<1>1. /\ DOMAIN m = ModelFields /\ IsTable(m.nodes) /\ IsContracts(m.contracts)
      /\ IsNodes(m.nodes) /\ IsTypes(m.types) /\ IsTable(m.consts)
      /\ IsTable(m.machines) /\ IsTable(m.acts)
    BY ModelDomain DEF IsNodes
<1>2. m2 = IF n.contract = << >> \/ Cardinality(users) # 1 THEN m
           ELSE [m EXCEPT !.contracts = contracts]
    BY DEF SyncAttachedContract
<1>3. ASSUME NEW c, {"name", "ins", "outs", "imports"} \subseteq DOMAIN c
      PROVE  /\ DOMAIN follow(c) = DOMAIN c /\ follow(c).name = c.name
             /\ follow(c).ins = n.ins /\ follow(c).outs = n.outs
    <2> DEFINE ghosts == [g \in DOMAIN c.ghosts |-> ghost(c.ghosts[g])]
               assumes == all(c.assumes)
               guarantees == all(c.guarantees)
               modes == [k \in DOMAIN c.modes |-> mode(c.modes[k])]
    <2>1. follow(c) = [c EXCEPT !.ins = n.ins, !.outs = n.outs, !.ghosts = ghosts,
                                !.assumes = assumes, !.guarantees = guarantees, !.modes = modes]
        OBVIOUS
    <2> HIDE DEF n, follow, ghosts, assumes, guarantees, modes
    <2> QED BY <1>3, <2>1
<1>4. ASSUME NEW j \in DOMAIN m.nodes, Distinct(m.nodes), m.nodes[j].name = x PROVE m.nodes[j] = n
    BY <1>1, <1>4, NamedFacts
<1>5. \A k \in DOMAIN m.contracts :
         /\ {"name", "ins", "outs", "imports"} \subseteq DOMAIN m.contracts[k]
         /\ m.contracts[k].name # << >>
    BY <1>1 DEF IsContracts, IsTable
<1>6. ASSUME NEW k \in DOMAIN m.contracts, NEW i \in DOMAIN m.nodes, Sole(m, k, i),
             Distinct(m.nodes), m.nodes[i].name = x
      PROVE  m.contracts[k].name = n.contract /\ n.contract # << >> /\ Cardinality(users) = 1
    <2>1. m.nodes[i] = n
        BY <1>4, <1>6
    <2>2. m.contracts[k].name = n.contract /\ n.contract # << >>
        BY <1>5, <1>6, <2>1 DEF Sole
    <2>3. users = {i}
        BY <1>6, <2>2 DEF Sole
    <2> HIDE DEF users
    <2>4. Cardinality(users) = 1
        BY <2>3, FS_Singleton
    <2> QED BY <2>2, <2>4
<1> HIDE DEF users
<1>7. CASE n.contract = << >> \/ Cardinality(users) # 1
    <2>1. m2 = m
        BY <1>2, <1>7
    <2>2. ASSUME Distinct(m.nodes), InStepBut(m, {x}) PROVE InStep(m)
        <3>1. InStepBut(m, {})
            <4> HIDE DEF n
            <4> QED BY <1>6, <1>7, <2>2 DEF InStepBut
        <3> QED BY <1>1, <2>2, <3>1, InStepByIndex
    <2> QED BY <2>1, <2>2
<1>8. CASE ~(n.contract = << >> \/ Cardinality(users) # 1)
    <2>1. m2 = [m EXCEPT !.contracts = contracts]
        BY <1>2, <1>8
    <2> HIDE DEF follow
    <2>2. ASSUME NEW k \in DOMAIN m.contracts
          PROVE  /\ DOMAIN contracts[k] = DOMAIN m.contracts[k]
                 /\ contracts[k].name = m.contracts[k].name
                 /\ IF m.contracts[k].name = n.contract
                    THEN contracts[k].ins = n.ins /\ contracts[k].outs = n.outs
                    ELSE contracts[k] = m.contracts[k]
        <3> DEFINE c == m.contracts[k]
        <3>1. {"name", "ins", "outs", "imports"} \subseteq DOMAIN c
            BY <1>5
        <3>2. contracts[k] = IF c.name = n.contract THEN follow(c) ELSE c
            OBVIOUS
        <3> HIDE DEF c, n, contracts
        <3>3. /\ DOMAIN follow(c) = DOMAIN c /\ follow(c).name = c.name
              /\ follow(c).ins = n.ins /\ follow(c).outs = n.outs
            BY <1>3, <3>1
        <3>4. /\ DOMAIN contracts[k] = DOMAIN c /\ contracts[k].name = c.name
              /\ IF c.name = n.contract
                 THEN contracts[k].ins = n.ins /\ contracts[k].outs = n.outs
                 ELSE contracts[k] = c
            BY <3>2, <3>3
        <3> QED BY <3>4 DEF c
    <2>3. contracts = [j \in DOMAIN m.contracts |-> contracts[j]] /\ DOMAIN contracts = DOMAIN m.contracts
        OBVIOUS
    <2> HIDE DEF contracts
    <2>4. /\ DOMAIN m2 = ModelFields /\ m2.contracts = contracts
          /\ m2.nodes = m.nodes /\ m2.types = m.types /\ m2.consts = m.consts
          /\ m2.machines = m.machines /\ m2.acts = m.acts
        BY <1>1, <2>1 DEF ModelFields
    <2>5. /\ IsTable(contracts) /\ Fields(contracts) = Fields(m.contracts)
          /\ Distinct(m.contracts) => Distinct(contracts)
        <3>1. IsTable(m.contracts)
            BY <1>1 DEF IsContracts
        <3>2. \A j \in DOMAIN m.contracts : "name" \in DOMAIN contracts[j] /\ contracts[j].name = m.contracts[j].name
            BY <1>5, <2>2
        <3> QED BY <2>3, <3>1, <3>2, MappedTable
    <2>6. IsModel(m2)
        <3>1. IsContracts(contracts)
            BY <1>5, <2>2, <2>3, <2>5 DEF IsContracts
        <3> QED BY <1>1, <2>4, <3>1, ModelDomain
    <2>7. ASSUME Distinct(m.nodes), InStepBut(m, {x}) PROVE InStep(m2)
        <3>1. InStepBut(m2, {})
            <4> SUFFICES ASSUME NEW k \in DOMAIN m.contracts, NEW i \in DOMAIN m.nodes, Sole(m2, k, i)
                         PROVE  contracts[k].ins = m.nodes[i].ins /\ contracts[k].outs = m.nodes[i].outs
                BY <2>3, <2>4 DEF InStepBut
            <4>1. Sole(m, k, i)
                BY <2>2, <2>4 DEF Sole
            <4>2. CASE m.nodes[i].name = x
                <5>1. m.contracts[k].name = n.contract /\ m.nodes[i] = n
                    BY <1>4, <1>6, <2>7, <4>1, <4>2
                <5> HIDE DEF n
                <5> QED BY <2>2, <5>1
            <4>3. CASE m.nodes[i].name # x
                <5>1. m.contracts[k].ins = m.nodes[i].ins /\ m.contracts[k].outs = m.nodes[i].outs
                    BY <2>7, <4>1, <4>3 DEF InStepBut
                <5>2. m.contracts[k].name # n.contract
                    <6>1. \E j \in DOMAIN m.nodes : m.nodes[j].name = x /\ n = m.nodes[j]
                        BY <1>1, NamedFacts
                    <6> HIDE DEF n
                    <6> QED BY <4>1, <4>3, <6>1 DEF Sole
                <5> HIDE DEF n
                <5> QED BY <2>2, <5>1, <5>2
            <4> QED BY <4>2, <4>3
        <3> QED BY <1>1, <2>4, <2>7, <3>1, InStepByIndex
    <2> QED BY <2>4, <2>5, <2>6, <2>7
<1> QED BY <1>7, <1>8

(* What an edit keeps, of a model file m and a types file t.               *)
Keeps(r, m, t, m2, t2) ==
    /\ IsModel(m2) /\ IsTypesFile(t2)
    /\ Once(m, t) /\ RequestOnce(r) => Once(m2, t2)
    /\ Laid(m, t) /\ RequestApart(r) => Laid(m2, t2)
    /\ Once(m, t) /\ RequestOnce(r) /\ InStep(m) => InStep(m2)

(* An edit of the machines, the activations or the main operator.          *)
LEMMA ConstructEdit ==
    ASSUME NEW m, IsModel(m), NEW t, IsTypesFile(t), NEW r, NEW m2, DOMAIN m2 = DOMAIN m,
           m2.nodes = m.nodes, m2.types = m.types, m2.consts = m.consts, m2.contracts = m.contracts,
           IsTable(m2.machines), Distinct(m.machines) => Distinct(m2.machines),
           IsTable(m2.acts), Distinct(m.acts) => Distinct(m2.acts)
    PROVE  Keeps(r, m, t, m2, t)
<1>1. IsModel(m2)
    BY ModelDomain
<1> QED BY <1>1 DEF Keeps, Once, Laid, InStep

LEMMA MachineEdit ==
    ASSUME NEW m, IsModel(m), NEW t, IsTypesFile(t), NEW r, NEW machines,
           IsTable(machines), Distinct(m.machines) => Distinct(machines),
           NEW m2, m2 = [m EXCEPT !.machines = machines]
    PROVE  Keeps(r, m, t, m2, t)
<1>1. DOMAIN m = ModelFields /\ IsTable(m.acts)
    BY ModelDomain
<1>2. /\ DOMAIN m2 = DOMAIN m /\ m2.machines = machines /\ m2.acts = m.acts
      /\ m2.nodes = m.nodes /\ m2.types = m.types /\ m2.consts = m.consts /\ m2.contracts = m.contracts
    BY <1>1 DEF ModelFields
<1> QED BY <1>1, <1>2, ConstructEdit

LEMMA ActivationEdit ==
    ASSUME NEW m, IsModel(m), NEW t, IsTypesFile(t), NEW r, NEW acts,
           IsTable(acts), Distinct(m.acts) => Distinct(acts),
           NEW m2, m2 = [m EXCEPT !.acts = acts]
    PROVE  Keeps(r, m, t, m2, t)
<1>1. DOMAIN m = ModelFields /\ IsTable(m.machines)
    BY ModelDomain
<1>2. /\ DOMAIN m2 = DOMAIN m /\ m2.machines = m.machines /\ m2.acts = acts
      /\ m2.nodes = m.nodes /\ m2.types = m.types /\ m2.consts = m.consts /\ m2.contracts = m.contracts
    BY <1>1 DEF ModelFields
<1> QED BY <1>1, <1>2, ConstructEdit

(* A definition in the place of the one of its name.                       *)
LEMMA ReplacedTable ==
    ASSUME NEW defs, IsTable(defs), NEW d, "name" \in DOMAIN d
    PROVE  /\ IsTable(Replaced(defs, d))
           /\ Fields(Replaced(defs, d)) = Fields(defs)
           /\ Distinct(defs) => Distinct(Replaced(defs, d))
<1> DEFINE new == Replaced(defs, d)
<1>1. new = [j \in DOMAIN defs |-> IF defs[j].name = d.name THEN d ELSE defs[j]]
    BY DEF Replaced
<1>2. new = [j \in DOMAIN defs |-> new[j]]
    BY <1>1
<1>3. \A j \in DOMAIN defs : "name" \in DOMAIN new[j] /\ new[j].name = defs[j].name
    BY <1>1 DEF IsTable
<1> HIDE DEF new
<1>4. IsTable(new) /\ Fields(new) = Fields(defs) /\ (Distinct(defs) => Distinct(new))
    BY <1>2, <1>3, MappedTable
<1> QED BY <1>4 DEF new

(* The machines and activations of an operator follow.                     *)
Propagated(m, m2) ==
    /\ IsModel(m2)
    /\ m2.nodes = m.nodes /\ m2.types = m.types /\ m2.consts = m.consts
    /\ m2.contracts = m.contracts
    /\ Distinct(m.machines) => Distinct(m2.machines)
    /\ Distinct(m.acts) => Distinct(m2.acts)

LEMMA PropagateFacts ==
    ASSUME NEW m, IsModel(m), NEW owner, NEW old, NEW new, NEW retyped,
           NEW m2, m2 = PropagatePortChange(m, owner, old, new, retyped)
    PROVE  Propagated(m, m2)
<1> DEFINE renamed(sm) == [sm EXCEPT !.outputs = {IF o = old THEN new ELSE o : o \in @},
                                     !.states = RenameInStates(@, old, new)]
           machines == [j \in DOMAIN m.machines |->
                           IF m.machines[j].owner # owner THEN m.machines[j]
                           ELSE renamed(m.machines[j])]
           acts == [j \in DOMAIN m.acts |->
                       IF m.acts[j].owner # owner THEN m.acts[j]
                       ELSE RenamedActivation(m.acts[j], old, new, retyped)]
<1>1. /\ DOMAIN m = ModelFields /\ IsTable(m.machines) /\ IsTable(m.acts)
      /\ IsNodes(m.nodes) /\ IsTypes(m.types) /\ IsTable(m.consts) /\ IsContracts(m.contracts)
    BY ModelDomain
<1>2. m2 = [m EXCEPT !.machines = machines, !.acts = acts]
    BY DEF PropagatePortChange
<1>3. ASSUME NEW sm, "name" \in DOMAIN sm
      PROVE  "name" \in DOMAIN renamed(sm) /\ renamed(sm).name = sm.name
    <2> DEFINE outputs == {IF o = old THEN new ELSE o : o \in sm.outputs}
               states == RenameInStates(sm.states, old, new)
    <2>1. renamed(sm) = [sm EXCEPT !.outputs = outputs, !.states = states]
        OBVIOUS
    <2> HIDE DEF renamed, outputs, states
    <2> QED BY <1>3, <2>1
<1>4. ASSUME NEW act, "name" \in DOMAIN act
      PROVE  /\ "name" \in DOMAIN RenamedActivation(act, old, new, retyped)
             /\ RenamedActivation(act, old, new, retyped).name = act.name
    <2>1. \E outputs, types, otherwise, branches :
             RenamedActivation(act, old, new, retyped) =
                 [act EXCEPT !.outputs = outputs, !.types = types,
                             !.otherwise = otherwise, !.branches = branches]
        BY DEF RenamedActivation
    <2> QED BY <1>4, <2>1
<1> HIDE DEF renamed
<1>5. \A j \in DOMAIN m.machines : "name" \in DOMAIN machines[j] /\ machines[j].name = m.machines[j].name
    BY <1>1, <1>3 DEF IsTable
<1>6. \A j \in DOMAIN m.acts : "name" \in DOMAIN acts[j] /\ acts[j].name = m.acts[j].name
    BY <1>1, <1>4 DEF IsTable
<1>7. /\ machines = [j \in DOMAIN m.machines |-> machines[j]]
      /\ acts = [j \in DOMAIN m.acts |-> acts[j]]
    OBVIOUS
<1> HIDE DEF machines, acts
<1>8. /\ IsTable(machines) /\ (Distinct(m.machines) => Distinct(machines))
      /\ IsTable(acts) /\ (Distinct(m.acts) => Distinct(acts))
    BY <1>1, <1>5, <1>6, <1>7, MappedTable
<1>9. /\ DOMAIN m2 = ModelFields /\ m2.machines = machines /\ m2.acts = acts
      /\ m2.nodes = m.nodes /\ m2.types = m.types /\ m2.consts = m.consts /\ m2.contracts = m.contracts
    BY <1>1, <1>2 DEF ModelFields
<1>10. IsModel(m2)
    BY <1>1, <1>8, <1>9, ModelDomain
<1> QED BY <1>8, <1>9, <1>10 DEF Propagated

-------------------------------------------------------------------------------
(* An edit of one operator that leaves its interface as it is.             *)
LEMMA OperatorEdit ==
    ASSUME NEW m, IsModel(m), NEW t, IsTypesFile(t), NEW r, NEW x \in Fields(m.nodes),
           NEW n, n = Named(m.nodes, x), NEW n2, Sound(n, n2), n2.ins = n.ins, n2.outs = n.outs,
           Laid(m, t) /\ RequestApart(r) => Placed(n, n2),
           NEW m2, m2 = WithNode(m, n2)
    PROVE  Keeps(r, m, t, m2, t)
<1>1. NodeReplaced(m, t, x, n, n2, m2)
    BY NodeEdit
<1> QED BY <1>1 DEF NodeReplaced, Keeps, Once

(* An edit of one operator and its interface, which its contract follows.  *)
LEMMA InterfaceEdit ==
    ASSUME NEW m, IsModel(m), NEW t, IsTypesFile(t), NEW r, NEW x \in Fields(m.nodes),
           NEW n, n = Named(m.nodes, x), NEW n2, Sound(n, n2),
           Laid(m, t) /\ RequestApart(r) => Placed(n, n2),
           NEW w, w = WithNode(m, n2),
           NEW m1, Propagated(w, m1),
           NEW old, NEW new, NEW m2, m2 = SyncAttachedContract(m1, x, old, new)
    PROVE  Keeps(r, m, t, m2, t)
<1>0. NodeReplaced(m, t, x, n, n2, w)
    BY NodeEdit
<1>1. /\ IsModel(w) /\ (Once(m, t) => Once(w, t))
      /\ Placed(n, n2) /\ Laid(m, t) => Laid(w, t)
      /\ x \in Fields(w.nodes)
      /\ Distinct(m.nodes) /\ InStep(m) => Distinct(w.nodes) /\ InStepBut(w, {x})
    BY <1>0 DEF NodeReplaced
<1>2. /\ IsModel(m1) /\ m1.nodes = w.nodes /\ m1.types = w.types /\ m1.consts = w.consts
      /\ m1.contracts = w.contracts /\ (Distinct(w.machines) => Distinct(m1.machines))
      /\ Distinct(w.acts) => Distinct(m1.acts)
      /\ x \in Fields(m1.nodes) /\ (InStepBut(w, {x}) => InStepBut(m1, {x}))
    BY <1>1 DEF Propagated, InStepBut, Sole
<1>3. /\ IsModel(m2)
      /\ m2.nodes = m1.nodes /\ m2.types = m1.types /\ m2.consts = m1.consts
      /\ m2.machines = m1.machines /\ m2.acts = m1.acts
      /\ Distinct(m1.contracts) => Distinct(m2.contracts)
      /\ Distinct(m1.nodes) /\ InStepBut(m1, {x}) => InStep(m2)
    BY <1>2, SyncFacts
<1>4. Once(m, t) => Once(m2, t)
    BY <1>1, <1>2, <1>3 DEF Once
<1>5. Laid(m, t) /\ RequestApart(r) => Laid(m2, t)
    BY <1>1, <1>2, <1>3 DEF Laid
<1>6. Once(m, t) /\ InStep(m) => InStep(m2)
    BY <1>1, <1>2, <1>3 DEF Once
<1> QED BY <1>3, <1>4, <1>5, <1>6 DEF Keeps

(* Operators more, none of which has a contract or a layout.               *)
NodesJoined(m, new, m2) ==
    /\ IsModel(m2)
    /\ m2.types = m.types /\ m2.consts = m.consts /\ m2.contracts = m.contracts
    /\ m2.machines = m.machines /\ m2.acts = m.acts
    /\ Distinct(m.nodes) /\ Distinct(new) /\ Fields(new) \cap Fields(m.nodes) = {}
          => Distinct(m2.nodes)
    /\ \A k \in DOMAIN m2.nodes :
          \/ \E j \in DOMAIN m.nodes : m2.nodes[k] = m.nodes[j]
          \/ \E j \in DOMAIN new : m2.nodes[k] = new[j]
    /\ Distinct(m.nodes) /\ Distinct(m2.nodes) /\ InStep(m) => InStep(m2)

LEMMA NodesAdded ==
    ASSUME NEW m, IsModel(m), NEW new, IsNodes(new), \A k \in DOMAIN new : Bare(new[k]),
           NEW m2, m2 = [m EXCEPT !.nodes = m.nodes \o new]
    PROVE  NodesJoined(m, new, m2)
<1> DEFINE nodes == m.nodes \o new
           old == m.nodes
<1>1. /\ DOMAIN m = ModelFields /\ IsTable(old) /\ \A j \in DOMAIN m.nodes : IsNodeDef(m.nodes[j])
      /\ IsTypes(m.types) /\ IsTable(m.consts) /\ IsContracts(m.contracts)
      /\ IsTable(m.machines) /\ IsTable(m.acts)
    BY ModelDomain DEF IsNodes
<1>2. IsTable(new) /\ \A j \in DOMAIN new : IsNodeDef(new[j])
    BY DEF IsNodes
<1>3. /\ IsTable(old \o new)
      /\ Distinct(old \o new) <=> Distinct(old) /\ Distinct(new) /\ Fields(old) \cap Fields(new) = {}
    BY <1>1, <1>2, ConcatTable
<1>4. /\ DOMAIN old \subseteq DOMAIN (old \o new)
      /\ \A j \in DOMAIN old : (old \o new)[j] = old[j]
      /\ \A k \in DOMAIN (old \o new) :
            \/ k \in DOMAIN old /\ (old \o new)[k] = old[k]
            \/ \E j \in DOMAIN new : (old \o new)[k] = new[j]
    <2>1. IsSeq(old) /\ IsSeq(new)
        BY <1>1, <1>2 DEF IsTable
    <2> HIDE DEF old
    <2>2. Len(old) \in Nat /\ DOMAIN old = 1 .. Len(old) /\ Len(new) \in Nat /\ DOMAIN new = 1 .. Len(new)
        BY <2>1, SeqFacts
    <2>3. DOMAIN (old \o new) = 1 .. Len(old) + Len(new) /\ \A j \in DOMAIN old : (old \o new)[j] = old[j]
        BY <2>1, ConcatSeq
    <2>4. ASSUME NEW k \in DOMAIN (old \o new)
          PROVE  \/ k \in DOMAIN old /\ (old \o new)[k] = old[k]
                 \/ \E j \in DOMAIN new : (old \o new)[k] = new[j]
        BY <2>1, ConcatParts
    <2> QED BY <2>2, <2>3, <2>4
<1>5. nodes = old \o new
    OBVIOUS
<1>6. m2 = [m EXCEPT !.nodes = nodes]
    OBVIOUS
<1> HIDE DEF nodes
<1>7. /\ DOMAIN m2 = ModelFields /\ m2.nodes = nodes
      /\ m2.types = m.types /\ m2.consts = m.consts /\ m2.contracts = m.contracts
      /\ m2.machines = m.machines /\ m2.acts = m.acts
    BY <1>1, <1>6 DEF ModelFields
<1>8. \A k \in DOMAIN nodes :
         \/ k \in DOMAIN m.nodes /\ nodes[k] = m.nodes[k]
         \/ \E j \in DOMAIN new : nodes[k] = new[j]
    BY <1>4, <1>5
<1>9. IsModel(m2)
    <2>1. IsNodes(nodes)
        BY <1>1, <1>2, <1>3, <1>5, <1>8 DEF IsNodes
    <2> QED BY <1>1, <1>7, <2>1, ModelDomain
<1>10. ASSUME Distinct(m.nodes), Distinct(m2.nodes), InStep(m) PROVE InStep(m2)
    <2>1. InStepBut(m, {})
        BY <1>1, <1>10, InStepByIndex
    <2>2. InStepBut(m2, {})
        <3> SUFFICES ASSUME NEW k \in DOMAIN m.contracts, NEW i \in DOMAIN nodes, Sole(m2, k, i)
                     PROVE  m.contracts[k].ins = nodes[i].ins /\ m.contracts[k].outs = nodes[i].outs
            BY <1>7 DEF InStepBut
        <3>1. m.contracts[k].name # << >>
            BY <1>1 DEF IsContracts
        <3>2. nodes[i].contract = m.contracts[k].name
            BY <1>7 DEF Sole
        <3>3. i \in DOMAIN m.nodes /\ nodes[i] = m.nodes[i]
            BY <1>8, <3>1, <3>2 DEF Bare
        <3>4. \A j \in DOMAIN m.nodes : j \in DOMAIN nodes /\ nodes[j] = m.nodes[j]
            BY <1>4, <1>5
        <3>5. Sole(m, k, i)
            BY <1>7, <3>3, <3>4 DEF Sole
        <3> QED BY <2>1, <3>3, <3>5 DEF InStepBut
    <2>3. IsTable(m2.nodes)
        BY <1>3, <1>5, <1>7
    <2> QED BY <1>10, <2>2, <2>3, InStepByIndex
<1>11. Distinct(m.nodes) /\ Distinct(new) /\ Fields(new) \cap Fields(m.nodes) = {} => Distinct(m2.nodes)
    BY <1>3, <1>5, <1>7
<1>12. \A k \in DOMAIN m2.nodes :
          \/ \E j \in DOMAIN m.nodes : m2.nodes[k] = m.nodes[j]
          \/ \E j \in DOMAIN new : m2.nodes[k] = new[j]
    BY <1>7, <1>8
<1> QED BY <1>7, <1>9, <1>10, <1>11, <1>12 DEF NodesJoined

-------------------------------------------------------------------------------
(* What the request r does to the two files.                               *)
Kept(r) == Keeps(r, model, typesFile, model', typesFile')

LEMMA NodeOfFacts ==
    ASSUME IsModel(model), NEW x \in Fields(model.nodes)
    PROVE  IsNodeDef(Named(model.nodes, x)) /\ IsName(x)
<1>1. IsTable(model.nodes) /\ \A j \in DOMAIN model.nodes : IsNodeDef(model.nodes[j])
    BY ModelDomain DEF IsNodes
<1>2. PICK j \in DOMAIN model.nodes : model.nodes[j].name = x /\ Named(model.nodes, x) = model.nodes[j]
    BY <1>1, NamedFacts
<1>3. IsName(model.nodes[j].name)
    BY <1>1, NodeDomain
<1> QED BY <1>1, <1>2, <1>3

LEMMA EditedKeeps ==
    ASSUME IsModel(model), IsTypesFile(typesFile), NEW r, IsNode(r.node),
           NEW n2, Edited(n2), Sound(NodeOf(r), n2),
           n2.ins = NodeOf(r).ins, n2.outs = NodeOf(r).outs,
           Laid(model, typesFile) /\ RequestApart(r) => Placed(NodeOf(r), n2)
    PROVE  Kept(r)
<1>1. model' = WithNode(model, n2) /\ typesFile' = typesFile
    BY DEF Edited, Saved
<1> DEFINE x == r.node
           n == Named(model.nodes, x)
           m2 == model'
<1>2. x \in Fields(model.nodes) /\ n = NodeOf(r)
    BY DEF IsNode, NodeOf
<1>3. /\ Sound(n, n2) /\ n2.ins = n.ins /\ n2.outs = n.outs
      /\ Laid(model, typesFile) /\ RequestApart(r) => Placed(n, n2)
    BY <1>2
<1>4. m2 = WithNode(model, n2)
    BY <1>1
<1> HIDE DEF x, m2
<1>5. Keeps(r, model, typesFile, m2, typesFile)
    BY <1>2, <1>3, <1>4, OperatorEdit
<1> QED BY <1>1, <1>5 DEF Kept, m2

LEMMA AddNodeKeeps ==
    ASSUME IsModel(model), IsTypesFile(typesFile), NEW r, IsRequest(r), r.edit = "add node", AddNode(r)
    PROVE  Kept(r)
<1> DEFINE e == EmptyNode(r.node, r.kind)
           new == <<e>>
<1>1. IsName(r.node) /\ r.kind \in Kinds
    BY DEF IsRequest
<1>2. r.node \notin Fields(model.nodes) /\ typesFile' = typesFile
      /\ model' = [model EXCEPT !.nodes = Append(model.nodes, e)]
    BY DEF AddNode, Saved, IsNode
<1>3. /\ DOMAIN e = NodeFields /\ e.name = r.node /\ e.kind = r.kind
      /\ e.ins = << >> /\ e.outs = << >> /\ e.locals = << >> /\ e.eqs = << >>
      /\ e.contract = << >> /\ e.pos = << >>
    BY DEF EmptyNode, NodeFields
<1> HIDE DEF e
<1>4. IsPorts(<< >>)
    BY EmptyTable, PortNames
<1>5. IsNodeDef(e)
    BY <1>1, <1>3, <1>4, EmptyTable, NodeDomain
<1>6. VarsOnce(e) /\ VarsApart(e) /\ Follows(e)
    <2>1. VarsOnce(e)
        BY <1>3, <1>4, EmptyTable, VarsParts
    <2>2. Vars(e) = {}
        BY <1>3, <1>4, EmptyTable, VarsParts
    <2>3. VarsApart(e)
        BY <1>3, <1>4, <2>2, VarsParts
    <2>4. Follows(e)
        BY <1>3, EmptyTable DEF Follows
    <2> QED BY <2>1, <2>3, <2>4
<1>7. IsSeq(new) /\ DOMAIN new = {1} /\ new[1] = e
    BY OneSeq
<1>8. Append(model.nodes, e) = model.nodes \o new
    <2>1. IsSeq(model.nodes)
        BY ModelDomain DEF IsNodes, IsTable
    <2> QED BY <2>1, AppendOne
<1> HIDE DEF new
<1>9. IsNodes(new) /\ (\A k \in DOMAIN new : Bare(new[k])) /\ Distinct(new) /\ Fields(new) = {r.node}
    <2>1. "name" \in DOMAIN e
        BY <1>3 DEF NodeFields
    <2> QED BY <1>3, <1>5, <1>7, <2>1 DEF IsNodes, IsTable, Bare, Distinct, Fields
<1> DEFINE m2 == model'
<1>10. m2 = [model EXCEPT !.nodes = model.nodes \o new]
    BY <1>2, <1>8
<1> HIDE DEF m2
<1>11. NodesJoined(model, new, m2)
    BY <1>9, <1>10, NodesAdded
<1>12. Distinct(model.nodes) => Distinct(m2.nodes)
    BY <1>2, <1>9, <1>11 DEF NodesJoined
<1>13. Once(model, typesFile) => Once(m2, typesFile)
    BY <1>6, <1>7, <1>11, <1>12 DEF Once, NodesJoined
<1>14. Laid(model, typesFile) => Laid(m2, typesFile)
    BY <1>6, <1>7, <1>11 DEF Laid, NodesJoined
<1>15. Keeps(r, model, typesFile, m2, typesFile)
    BY <1>11, <1>12, <1>13, <1>14 DEF Keeps, Once, NodesJoined
<1> QED BY <1>2, <1>15 DEF Kept, m2

LEMMA AddLocalKeeps ==
    ASSUME IsModel(model), IsTypesFile(typesFile), NEW r, IsRequest(r), r.edit = "add local", AddLocal(r)
    PROVE  Kept(r)
<1> DEFINE n == NodeOf(r)
           n2 == [n EXCEPT !.locals = Append(@, Port(r.name, r.type))]
<1>1. IsNode(r.node) /\ r.name \notin Vars(n) /\ Edited(n2)
    BY DEF AddLocal
<1>2. IsNodeDef(n)
    BY <1>1, NodeOfFacts DEF IsNode, NodeOf
<1>3. IsName(r.name) /\ (RequestApart(r) => NoKey(r.name))
    BY DEF IsRequest, RequestApart
<1> HIDE DEF n
<1>4. n2.ins = n.ins /\ n2.outs = n.outs
    <2>1. DOMAIN n = NodeFields
        BY <1>2, NodeDomain
    <2> QED BY <2>1 DEF NodeFields
<1> HIDE DEF n2
<1>5. n2 = [n EXCEPT !.locals = Append(@, Port(r.name, r.type))]
    BY DEF n2
<1>6. Sound(n, n2) /\ (NoKey(r.name) => Placed(n, n2))
    BY <1>1, <1>2, <1>3, <1>5, PortAppended
<1> QED BY <1>1, <1>3, <1>4, <1>6, EditedKeeps DEF n

(* An edit of the equations alone.                                         *)
LEMMA EqsEditKeeps ==
    ASSUME IsModel(model), IsTypesFile(typesFile), NEW r, IsNode(r.node),
           NEW eqs, IsSeq(eqs), \A j \in DOMAIN eqs : {"lhs", "rhs", "tag"} \subseteq DOMAIN eqs[j],
           \A j \in DOMAIN NodeOf(r).eqs : j \in DOMAIN eqs /\ eqs[j].tag = NodeOf(r).eqs[j].tag,
           Edited([NodeOf(r) EXCEPT !.eqs = eqs])
    PROVE  Kept(r)
<1> DEFINE n == NodeOf(r)
           n2 == [n EXCEPT !.eqs = eqs]
<1>1. IsNodeDef(n) /\ DOMAIN n = NodeFields
    BY NodeOfFacts, NodeDomain DEF IsNode, NodeOf
<1>2. Edited(n2) /\ \A j \in DOMAIN n.eqs : j \in DOMAIN eqs /\ eqs[j].tag = n.eqs[j].tag
    OBVIOUS
<1> HIDE DEF n
<1>3. /\ DOMAIN n2 = DOMAIN n /\ n2.name = n.name /\ n2.kind = n.kind /\ n2.contract = n.contract
      /\ n2.ins = n.ins /\ n2.outs = n.outs /\ n2.locals = n.locals /\ n2.pos = n.pos
      /\ n2.eqs = eqs
    BY <1>1 DEF NodeFields
<1> HIDE DEF n2
<1>4. Sound(n, n2) /\ Placed(n, n2)
    BY <1>1, <1>2, <1>3, EqsEdit
<1> QED BY <1>2, <1>3, <1>4, EditedKeeps DEF n

LEMMA EqsOf ==
    ASSUME IsModel(model), NEW r, IsNode(r.node)
    PROVE  /\ IsNodeDef(NodeOf(r)) /\ DOMAIN NodeOf(r) = NodeFields
           /\ IsSeq(NodeOf(r).eqs)
           /\ \A j \in DOMAIN NodeOf(r).eqs : {"lhs", "rhs", "tag"} \subseteq DOMAIN NodeOf(r).eqs[j]
<1>1. IsNodeDef(NodeOf(r))
    BY NodeOfFacts DEF IsNode, NodeOf
<1> QED BY <1>1, NodeDomain

LEMMA AddEquationKeeps ==
    ASSUME IsModel(model), IsTypesFile(typesFile), NEW r, AddEquation(r)
    PROVE  Kept(r)
<1> DEFINE e == [lhs |-> r.lhs, rhs |-> r.rhs, tag |-> Tag(0)]
           old == NodeOf(r).eqs
           eqs == Append(old, e)
<1>1. IsNode(r.node) /\ Edited([NodeOf(r) EXCEPT !.eqs = eqs])
    BY DEF AddEquation
<1>2. IsSeq(old) /\ \A j \in DOMAIN old : {"lhs", "rhs", "tag"} \subseteq DOMAIN old[j]
    BY <1>1, EqsOf
<1>3. {"lhs", "rhs", "tag"} \subseteq DOMAIN e
    OBVIOUS
<1> HIDE DEF e, old
<1>4. /\ IsSeq(eqs) /\ Len(old) \in Nat /\ DOMAIN old = 1 .. Len(old) /\ DOMAIN eqs = 1 .. Len(old) + 1
      /\ \A k \in DOMAIN old : eqs[k] = old[k]
      /\ eqs[Len(old) + 1] = e
    BY <1>2, AppendSeq, SeqFacts
<1> HIDE DEF eqs
<1>5. \A j \in DOMAIN eqs : j \in DOMAIN old \/ j = Len(old) + 1
    BY <1>4
<1>6. /\ \A j \in DOMAIN eqs : {"lhs", "rhs", "tag"} \subseteq DOMAIN eqs[j]
      /\ \A j \in DOMAIN old : j \in DOMAIN eqs /\ eqs[j].tag = old[j].tag
    BY <1>2, <1>3, <1>4, <1>5
<1> QED BY <1>1, <1>4, <1>6, EqsEditKeeps DEF old

LEMMA UpdateEquationKeeps ==
    ASSUME IsModel(model), IsTypesFile(typesFile), NEW r, UpdateEquation(r)
    PROVE  Kept(r)
<1> DEFINE n == NodeOf(r)
           old == n.eqs
           e == [old[r.index] EXCEPT !.lhs = r.lhs, !.rhs = r.rhs]
           eqs == [old EXCEPT ![r.index] = e]
<1>1. IsNode(r.node) /\ r.index \in DOMAIN old
      /\ Edited([n EXCEPT !.eqs[r.index].lhs = r.lhs, !.eqs[r.index].rhs = r.rhs])
    BY DEF UpdateEquation
<1>2. /\ DOMAIN n = NodeFields /\ IsSeq(old)
      /\ \A j \in DOMAIN old : {"lhs", "rhs", "tag"} \subseteq DOMAIN old[j]
    BY <1>1, EqsOf
<1>3. [n EXCEPT !.eqs[r.index].lhs = r.lhs, !.eqs[r.index].rhs = r.rhs] = [n EXCEPT !.eqs = eqs]
    <2> HIDE DEF n
    <2> QED BY <1>1, <1>2 DEF NodeFields
<1> HIDE DEF old
<1>4. /\ DOMAIN eqs = DOMAIN old
      /\ \A j \in DOMAIN old : DOMAIN eqs[j] = DOMAIN old[j] /\ eqs[j].tag = old[j].tag
    BY <1>1, <1>2
<1>5. IsSeq(eqs)
    <2>1. Len(old) \in Nat /\ DOMAIN old = 1 .. Len(old)
        BY <1>2, SeqFacts
    <2>2. eqs = [j \in 1 .. Len(old) |-> eqs[j]]
        BY <2>1
    <2> HIDE DEF eqs
    <2> QED BY <2>1, <2>2, TupleSeq
<1> HIDE DEF eqs
<1> QED BY <1>1, <1>2, <1>3, <1>4, <1>5, EqsEditKeeps DEF old

LEMMA SetOperationInputsKeeps ==
    ASSUME IsModel(model), IsTypesFile(typesFile), NEW r, SetOperationInputs(r)
    PROVE  Kept(r)
<1> DEFINE n == NodeOf(r)
           old == n.eqs
<1>1. PICK rhs : IsNode(r.node) /\ r.index \in DOMAIN old /\ Edited([n EXCEPT !.eqs[r.index].rhs = rhs])
    BY DEF SetOperationInputs
<1> DEFINE e == [old[r.index] EXCEPT !.rhs = rhs]
           eqs == [old EXCEPT ![r.index] = e]
<1>2. /\ DOMAIN n = NodeFields /\ IsSeq(old)
      /\ \A j \in DOMAIN old : {"lhs", "rhs", "tag"} \subseteq DOMAIN old[j]
    BY <1>1, EqsOf
<1>3. [n EXCEPT !.eqs[r.index].rhs = rhs] = [n EXCEPT !.eqs = eqs]
    <2> HIDE DEF n
    <2> QED BY <1>1, <1>2 DEF NodeFields
<1> HIDE DEF old
<1>4. /\ DOMAIN eqs = DOMAIN old
      /\ \A j \in DOMAIN old : DOMAIN eqs[j] = DOMAIN old[j] /\ eqs[j].tag = old[j].tag
    BY <1>1, <1>2
<1>5. IsSeq(eqs)
    <2>1. Len(old) \in Nat /\ DOMAIN old = 1 .. Len(old)
        BY <1>2, SeqFacts
    <2>2. eqs = [j \in 1 .. Len(old) |-> eqs[j]]
        BY <2>1
    <2> HIDE DEF eqs
    <2> QED BY <2>1, <2>2, TupleSeq
<1> HIDE DEF eqs
<1> QED BY <1>1, <1>2, <1>3, <1>4, <1>5, EqsEditKeeps DEF old

LEMMA RemoveEquationKeeps ==
    ASSUME IsModel(model), IsTypesFile(typesFile), NEW r, RemoveEquation(r)
    PROVE  Kept(r)
<1> DEFINE n == NodeOf(r)
           n2 == [n EXCEPT !.eqs = RemoveAt(@, r.index), !.pos = Rekeyed(@, r.index)]
<1>1. IsNode(r.node) /\ r.index \in DOMAIN n.eqs /\ Edited(n2)
    BY DEF RemoveEquation
<1>2. IsNodeDef(n) /\ DOMAIN n = NodeFields
    BY <1>1, EqsOf
<1> HIDE DEF n
<1>3. n2.ins = n.ins /\ n2.outs = n.outs
    BY <1>2 DEF NodeFields
<1>4. Sound(n, n2) /\ Placed(n, n2)
    BY <1>1, <1>2, RemovalIsSound
<1> HIDE DEF n2
<1> QED BY <1>1, <1>3, <1>4, EditedKeeps DEF n

LEMMA SetLayoutKeeps ==
    ASSUME IsModel(model), IsTypesFile(typesFile), NEW r, SetLayout(r)
    PROVE  Kept(r)
<1> DEFINE n == NodeOf(r)
           keys == {EqKey(i) : i \in DOMAIN n.eqs} \cup Vars(n)
           pos == [k \in keys |-> IF k \in Vars(n) THEN Tag(0) ELSE n.eqs[k[2]].tag]
           n2 == [n EXCEPT !.pos = pos]
<1>1. IsNode(r.node) /\ Edited(n2)
    BY DEF SetLayout
<1>2. IsNodeDef(n) /\ DOMAIN n = NodeFields
    BY <1>1, EqsOf
<1> HIDE DEF n
<1>3. DOMAIN pos = keys /\ \A k \in keys : k \notin Vars(n) => pos[k] = n.eqs[k[2]].tag
    OBVIOUS
<1>4. keys = {EqKey(i) : i \in DOMAIN n.eqs} \cup Vars(n)
    OBVIOUS
<1> HIDE DEF pos, keys
<1>5. n2.ins = n.ins /\ n2.outs = n.outs
    BY <1>2 DEF NodeFields
<1>6. n2 = [n EXCEPT !.pos = pos]
    OBVIOUS
<1> HIDE DEF n2
<1>7. Sound(n, n2) /\ Placed(n, n2)
    BY <1>2, <1>3, <1>4, <1>6, LayoutIsSound
<1> QED BY <1>1, <1>5, <1>7, EditedKeeps DEF n

LEMMA ProbesKeep ==
    ASSUME IsModel(model), IsTypesFile(typesFile), NEW r, AddProbe(r) \/ RemoveProbe(r)
    PROVE  Kept(r)
<1> DEFINE n == NodeOf(r)
<1>1. PICK probes : IsNode(r.node) /\ Edited([n EXCEPT !.probes = probes])
    BY DEF AddProbe, RemoveProbe
<1> DEFINE n2 == [n EXCEPT !.probes = probes]
<1>2. /\ IsNodeDef(n) /\ DOMAIN n = NodeFields /\ IsSeq(n.eqs)
      /\ \A j \in DOMAIN n.eqs : {"lhs", "rhs", "tag"} \subseteq DOMAIN n.eqs[j]
    BY <1>1, EqsOf
<1> HIDE DEF n
<1>3. /\ DOMAIN n2 = DOMAIN n /\ n2.name = n.name /\ n2.kind = n.kind /\ n2.contract = n.contract
      /\ n2.ins = n.ins /\ n2.outs = n.outs /\ n2.locals = n.locals /\ n2.pos = n.pos
      /\ n2.eqs = n.eqs
    BY <1>2 DEF NodeFields
<1>4. Edited(n2)
    BY <1>1
<1> HIDE DEF n2
<1>5. Sound(n, n2) /\ Placed(n, n2)
    BY <1>2, <1>3, EqsEdit
<1> QED BY <1>1, <1>3, <1>4, <1>5, EditedKeeps DEF n

LEMMA SetMainKeeps ==
    ASSUME IsModel(model), IsTypesFile(typesFile), NEW r, SetMain(r)
    PROVE  Kept(r)
<1> DEFINE m2 == model'
<1>1. m2 = [model EXCEPT !.main = r.node] /\ typesFile' = typesFile
    BY DEF SetMain, Saved
<1>2. DOMAIN model = ModelFields /\ IsTable(model.machines) /\ IsTable(model.acts)
    BY ModelDomain
<1> HIDE DEF m2
<1>3. /\ DOMAIN m2 = DOMAIN model /\ m2.machines = model.machines /\ m2.acts = model.acts
      /\ m2.nodes = model.nodes /\ m2.types = model.types /\ m2.consts = model.consts
      /\ m2.contracts = model.contracts
    BY <1>1, <1>2 DEF ModelFields
<1>4. Keeps(r, model, typesFile, m2, typesFile)
    BY <1>2, <1>3, ConstructEdit
<1> QED BY <1>1, <1>4 DEF Kept, m2

-------------------------------------------------------------------------------
(* An edit of an interface.                                                *)
LEMMA InterfaceKeeps ==
    ASSUME IsModel(model), IsTypesFile(typesFile), NEW r, IsNode(r.node), NEW n2,
           Sound(NodeOf(r), n2),
           Laid(model, typesFile) /\ RequestApart(r) => Placed(NodeOf(r), n2),
           NEW old, NEW new,
           Saved(SyncAttachedContract(WithNode(model, n2), r.node, old, new))
    PROVE  Kept(r)
<1> DEFINE x == r.node
           n == Named(model.nodes, x)
           w == WithNode(model, n2)
           m2 == model'
<1>1. x \in Fields(model.nodes) /\ n = NodeOf(r)
    BY DEF IsNode, NodeOf
<1>2. Sound(n, n2) /\ (Laid(model, typesFile) /\ RequestApart(r) => Placed(n, n2))
    BY <1>1
<1>3. m2 = SyncAttachedContract(w, x, old, new) /\ typesFile' = typesFile
    BY DEF Saved
<1>4. w = WithNode(model, n2)
    OBVIOUS
<1> HIDE DEF x, w, m2
<1>5. IsModel(w)
    <2>1. NodeReplaced(model, typesFile, x, n, n2, w)
        BY <1>1, <1>2, <1>4, NodeEdit
    <2> QED BY <2>1 DEF NodeReplaced
<1>6. Propagated(w, w)
    BY <1>5 DEF Propagated
<1>7. Keeps(r, model, typesFile, m2, typesFile)
    BY <1>1, <1>2, <1>3, <1>4, <1>6, InterfaceEdit
<1> QED BY <1>3, <1>7 DEF Kept, m2

LEMMA AddPortKeeps ==
    ASSUME IsModel(model), IsTypesFile(typesFile), NEW r, IsRequest(r), r.edit = "add port", AddPort(r)
    PROVE  Kept(r)
<1> DEFINE n == NodeOf(r)
           n2 == IF r.side = "input" THEN [n EXCEPT !.ins = Append(@, Port(r.name, r.type))]
                 ELSE [n EXCEPT !.outs = Append(@, Port(r.name, r.type))]
<1>1. /\ IsNode(r.node) /\ r.name \notin Vars(n)
      /\ Saved(SyncAttachedContract(WithNode(model, n2), r.node, r.name, r.name))
    BY DEF AddPort
<1>2. IsNodeDef(n)
    BY <1>1, EqsOf
<1>3. IsName(r.name) /\ (RequestApart(r) => NoKey(r.name))
    BY DEF IsRequest, RequestApart
<1>4. \/ n2 = [n EXCEPT !.ins = Append(@, Port(r.name, r.type))]
      \/ n2 = [n EXCEPT !.outs = Append(@, Port(r.name, r.type))]
    OBVIOUS
<1> HIDE DEF n, n2
<1>5. Sound(n, n2) /\ (NoKey(r.name) => Placed(n, n2))
    BY <1>1, <1>2, <1>3, <1>4, PortAppended
<1> QED BY <1>1, <1>3, <1>5, InterfaceKeeps DEF n

LEMMA RemovePortKeeps ==
    ASSUME IsModel(model), IsTypesFile(typesFile), NEW r, RemovePort(r)
    PROVE  Kept(r)
<1> DEFINE n == NodeOf(r)
           n2 == [n EXCEPT !.ins = Without(@, r.name), !.outs = Without(@, r.name),
                           !.locals = Without(@, r.name),
                           !.pos = [k \in DOMAIN @ \ {r.name} |-> @[k]]]
<1>1. /\ IsNode(r.node)
      /\ Saved(SyncAttachedContract(WithNode(model, n2), r.node, r.name, r.name))
    BY DEF RemovePort
<1>2. IsNodeDef(n)
    BY <1>1, EqsOf
<1>3. n2 = [n EXCEPT !.ins = Without(@, r.name), !.outs = Without(@, r.name),
                     !.locals = Without(@, r.name),
                     !.pos = [k \in DOMAIN @ \ {r.name} |-> @[k]]]
    OBVIOUS
<1> HIDE DEF n, n2
<1>4. Sound(n, n2) /\ Placed(n, n2)
    BY <1>2, <1>3, VarRemovalIsSound
<1> QED BY <1>1, <1>4, InterfaceKeeps DEF n

LEMMA UpdatePortKeeps ==
    ASSUME IsModel(model), IsTypesFile(typesFile), NEW r, IsRequest(r), r.edit = "update port",
           UpdatePort(r)
    PROVE  Kept(r)
<1> DEFINE n == NodeOf(r)
           named == IF r.to = r.name THEN n ELSE RenamedIn(n, r.name, r.to)
           typed == IF r.type = {} THEN named ELSE Retyped(named, r.to, The(r.type))
           n2 == InRole(typed, r.to, r.role)
           w == WithNode(model, n2)
           m1 == PropagatePortChange(w, r.node, r.name, r.to, r.type)
           m2 == model'
<1>1. /\ IsNode(r.node) /\ r.name \in Vars(n) /\ (r.to = r.name \/ r.to \notin Vars(n))
      /\ m2 = SyncAttachedContract(m1, r.node, r.name, r.to) /\ typesFile' = typesFile
    BY DEF UpdatePort, Saved
<1>2. IsNodeDef(n)
    BY <1>1, EqsOf
<1>3. IsName(r.to) /\ r.role \in Roles /\ (RequestApart(r) => NoKey(r.to))
    BY DEF IsRequest, RequestApart
<1>4. Sound(n, named) /\ (NoKey(r.to) => Placed(n, named)) /\ r.to \in Vars(named)
    <2>1. CASE r.to = r.name
        <3>1. named = n
            BY <2>1
        <3> HIDE DEF n, named
        <3> QED BY <1>1, <1>2, <2>1, <3>1, SoundSame
    <2>2. CASE r.to # r.name
        <3>1. named = RenamedIn(n, r.name, r.to)
            BY <2>2
        <3> HIDE DEF n, named
        <3> QED BY <1>1, <1>2, <1>3, <2>2, <3>1, RenamingIsSound
    <2> QED BY <2>1, <2>2
<1>5. Sound(named, typed) /\ Placed(named, typed) /\ r.to \in Vars(typed)
    <2>0. IsNodeDef(named)
        BY <1>4 DEF Sound
    <2>1. CASE r.type = {}
        <3>1. typed = named
            BY <2>1
        <3> HIDE DEF named, typed
        <3> QED BY <1>4, <2>0, <3>1, SoundSame
    <2>2. CASE r.type # {}
        <3> DEFINE y == r.to
                   type == The(r.type)
        <3>1. typed = Retyped(named, y, type)
            BY <2>2
        <3> HIDE DEF named, typed, y, type
        <3>2. Sound(named, typed) /\ Placed(named, typed) /\ Vars(typed) = Vars(named)
            BY <2>0, <3>1, RetypedIsSound
        <3> QED BY <1>4, <3>2
    <2> QED BY <2>1, <2>2
<1> HIDE DEF n, named, typed
<1>6. Sound(typed, n2) /\ Placed(typed, n2)
    <2>1. IsNodeDef(typed)
        BY <1>5 DEF Sound
    <2>2. n2 = InRole(typed, r.to, r.role)
        OBVIOUS
    <2> HIDE DEF n2
    <2> QED BY <1>3, <1>5, <2>1, <2>2, RoleIsSound
<1> HIDE DEF n2
<1>7. Sound(n, n2) /\ (NoKey(r.to) => Placed(n, n2))
    BY <1>4, <1>5, <1>6, SoundSteps
<1>8. r.node \in Fields(model.nodes) /\ n = Named(model.nodes, r.node)
    BY <1>1 DEF IsNode, NodeOf, n
<1>9. w = WithNode(model, n2) /\ m1 = PropagatePortChange(w, r.node, r.name, r.to, r.type)
    OBVIOUS
<1> DEFINE x == r.node
<1>10. x \in Fields(model.nodes) /\ n = Named(model.nodes, x)
    BY <1>8
<1>11. m2 = SyncAttachedContract(m1, x, r.name, r.to)
    BY <1>1
<1> HIDE DEF w, m1, m2, x
<1>12. IsModel(w)
    <2>1. NodeReplaced(model, typesFile, x, n, n2, w)
        BY <1>7, <1>9, <1>10, NodeEdit
    <2> QED BY <2>1 DEF NodeReplaced
<1>13. Propagated(w, m1)
    BY <1>9, <1>12, PropagateFacts
<1>14. Laid(model, typesFile) /\ RequestApart(r) => Placed(n, n2)
    BY <1>3, <1>7
<1>15. Keeps(r, model, typesFile, m2, typesFile)
    BY <1>7, <1>9, <1>10, <1>11, <1>13, <1>14, InterfaceEdit
<1> QED BY <1>1, <1>15 DEF Kept, m2

-------------------------------------------------------------------------------
(* Drops.  What is dropped declares locals and adds equations.             *)
LEMMA DropKeepsInterface ==
    ASSUME NEW n, IsNodeDef(n), NEW names, NEW types, NEW eqs,
           NEW n2, n2 = Dropped(n, names, types, eqs)
    PROVE  n2.ins = n.ins /\ n2.outs = n.outs
<1>1. DOMAIN n = NodeFields
    BY NodeDomain
<1>2. \E locals, more, pos : n2 = [n EXCEPT !.locals = locals, !.eqs = more, !.pos = pos]
    BY DEF Dropped
<1> QED BY <1>1, <1>2 DEF NodeFields

LEMMA DropOneKeeps ==
    ASSUME IsModel(model), IsTypesFile(typesFile), NEW r, IsNode(r.node),
           NEW base, IsName(base), NoKey(base), NEW type, NEW rhs,
           Edited(DroppedOne(NodeOf(r), base, type, rhs))
    PROVE  Kept(r)
<1> DEFINE n == NodeOf(r)
           n2 == DroppedOne(n, base, type, rhs)
<1>1. Edited(n2) /\ IsNodeDef(n)
    BY EqsOf
<1>2. n2 = DroppedOne(n, base, type, rhs)
    OBVIOUS
<1> HIDE DEF n, n2
<1>3. n2.ins = n.ins /\ n2.outs = n.outs
    <2>1. \E names, types, eqs : n2 = Dropped(n, names, types, eqs)
        BY <1>2 DEF DroppedOne
    <2> QED BY <1>1, <2>1, DropKeepsInterface
<1>4. Sound(n, n2) /\ Placed(n, n2)
    BY <1>1, <1>2, DropOneIsSound
<1> QED BY <1>1, <1>3, <1>4, EditedKeeps DEF n

(* The names that drops start from.                                        *)
LEMMA OneName ==
    ASSUME NEW a
    PROVE  IsName(<<a>>) /\ NoKey(<<a>>)
<1> DEFINE s == <<a>>
<1>1. Len(s) = 1 /\ s # << >>
    OBVIOUS
<1>2. IsSeq(s)
    BY OneSeq
<1> HIDE DEF s
<1>3. IsName(s) /\ NoKey(s)
    BY <1>1, <1>2 DEF IsName, NoKey
<1> QED BY <1>3 DEF s

LEMMA TwoName ==
    ASSUME NEW a, NEW b
    PROVE  IsName(<<a, b>>) /\ (a # "eq" => NoKey(<<a, b>>))
<1> DEFINE s == <<a, b>>
<1>1. s \in Seq({a, b}) /\ s[1] = a /\ s # << >>
    OBVIOUS
<1> HIDE DEF s
<1>2. IsSeq(s)
    BY <1>1, SeqIsSeq
<1>3. IsName(s) /\ (a # "eq" => NoKey(s))
    BY <1>1, <1>2 DEF IsName, NoKey
<1> QED BY <1>3 DEF s

LEMMA ThreeName ==
    ASSUME NEW a, NEW b, NEW c
    PROVE  IsName(<<a, b, c>>) /\ NoKey(<<a, b, c>>)
<1> DEFINE s == <<a, b, c>>
<1>1. s \in Seq({a, b, c}) /\ Len(s) = 3 /\ s # << >>
    OBVIOUS
<1> HIDE DEF s
<1>2. IsSeq(s)
    BY <1>1, SeqIsSeq
<1>3. IsName(s) /\ NoKey(s)
    BY <1>1, <1>2 DEF IsName, NoKey
<1> QED BY <1>3 DEF s

LEMMA OperationsAreNoKeys ==
    "eq" \notin Operations /\ "eq" \notin Iterators
<1>1. "eq" \notin DOMAIN Variadic
    BY DEF Variadic
<1>2. "eq" \notin DOMAIN Dyadic
    BY DEF Dyadic
<1>3. "eq" \notin DOMAIN Powers
    BY DEF Powers
<1> QED BY <1>1, <1>2, <1>3 DEF Operations, Iterators

LEMMA AddOperationKeeps ==
    ASSUME IsModel(model), IsTypesFile(typesFile), NEW r, AddOperation(r)
    PROVE  Kept(r)
<1> DEFINE i == Len(NodeOf(r).eqs) + 1
           body == OperationBody(r, Pins(i, r.inputs))
           base == <<r.op, i>>
<1>1. IsNode(r.node) /\ r.op \in Operations /\ Edited(DroppedOne(NodeOf(r), base, body.type, body.rhs))
    BY DEF AddOperation, OperationAccepted
<1>2. r.op # "eq"
    BY <1>1, OperationsAreNoKeys
<1> HIDE DEF i, body
<1>3. IsName(base) /\ NoKey(base)
    BY <1>2, TwoName
<1> HIDE DEF base
<1> QED BY <1>1, <1>3, DropOneKeeps

LEMMA AddIteratorKeeps ==
    ASSUME IsModel(model), IsTypesFile(typesFile), NEW r, AddIterator(r)
    PROVE  Kept(r)
<1> DEFINE i == Len(NodeOf(r).eqs) + 1
           base == <<r.op, i>>
<1>1. PICK type, rhs : IsNode(r.node) /\ r.op \in Iterators /\ Edited(DroppedOne(NodeOf(r), base, type, rhs))
    BY DEF AddIterator
<1>2. r.op # "eq"
    BY <1>1, OperationsAreNoKeys
<1> HIDE DEF i
<1>3. IsName(base) /\ NoKey(base)
    BY <1>2, TwoName
<1> HIDE DEF base
<1> QED BY <1>1, <1>3, DropOneKeeps

LEMMA AddExpressionKeeps ==
    ASSUME IsModel(model), IsTypesFile(typesFile), NEW r, AddExpression(r)
    PROVE  Kept(r)
<1> DEFINE base == <<"expr">>
           type == The(InferInNode(Full, r.node, r.rhs))
<1>1. IsNode(r.node) /\ Edited(DroppedOne(NodeOf(r), base, type, r.rhs))
    BY DEF AddExpression
<1> HIDE DEF type
<1>2. IsName(base) /\ NoKey(base)
    BY OneName
<1> HIDE DEF base
<1> QED BY <1>1, <1>2, DropOneKeeps

(* A drop of several locals.                                               *)
LEMMA DropManyKeeps ==
    ASSUME IsModel(model), IsTypesFile(typesFile), NEW r, IsNode(r.node),
           NEW bases, IsSeq(bases), \A k \in DOMAIN bases : IsName(bases[k]),
           Laid(model, typesFile) => \A k \in DOMAIN bases : NoKey(bases[k]),
           NEW names, names = FreshNames(bases, Vars(NodeOf(r))), NEW types, NEW eqs, IsSeq(eqs),
           \A k \in DOMAIN eqs : {"lhs", "rhs", "tag"} \subseteq DOMAIN eqs[k],
           Edited(Dropped(NodeOf(r), names, types, eqs))
    PROVE  Kept(r)
<1> DEFINE n == NodeOf(r)
           n2 == Dropped(n, names, types, eqs)
           known == Vars(n)
<1>1. Edited(n2) /\ IsNodeDef(n)
    BY EqsOf
<1>2. n2 = Dropped(n, names, types, eqs) /\ names = FreshNames(bases, known) /\ known = Vars(n)
    OBVIOUS
<1> HIDE DEF n, n2, known
<1>3. n2.ins = n.ins /\ n2.outs = n.outs
    BY <1>1, <1>2, DropKeepsInterface
<1>4. IsFiniteSet(known)
    BY <1>1, <1>2, VarsFinite
<1>5. /\ IsSeq(names)
      /\ \A k \in DOMAIN names : IsName(names[k]) /\ names[k] \notin known
      /\ \A j, k \in DOMAIN names : names[j] = names[k] => j = k
      /\ (\A k \in DOMAIN bases : NoKey(bases[k])) => \A k \in DOMAIN names : NoKey(names[k])
    BY <1>2, <1>4, FreshNamesAreFree
<1>6. Sound(n, n2) /\ ((\A k \in DOMAIN names : NoKey(names[k])) => Placed(n, n2))
    BY <1>1, <1>2, <1>5, DropIsSound
<1>7. Laid(model, typesFile) /\ RequestApart(r) => Placed(n, n2)
    BY <1>5, <1>6
<1> QED BY <1>1, <1>3, <1>6, <1>7, EditedKeeps DEF n

(* The name of an output of a called operator.                             *)
LEMMA CallName ==
    ASSUME NEW a, IsName(a), NEW b, IsName(b)
    PROVE  IsName(a \o <<"_">> \o b) /\ NoKey(a \o <<"_">> \o b)
<1> DEFINE u == <<"_">>
           c == a \o u
           d == c \o b
<1>1. ASSUME NEW s, IsName(s) PROVE IsSeq(s) /\ Len(s) \in Nat /\ Len(s) # 0
    <2>1. IsSeq(s) /\ s # << >>
        BY <1>1 DEF IsName
    <2>2. Len(s) \in Nat /\ s = [k \in 1 .. Len(s) |-> s[k]]
        BY <2>1 DEF IsSeq
    <2>3. Len(<< >>) = 0 /\ << >> = [k \in 1 .. 0 |-> s[k]]
        OBVIOUS
    <2> QED BY <2>1, <2>2, <2>3
<1>2. IsName(u)
    BY OneName
<1> HIDE DEF u
<1>3. IsSeq(c) /\ Len(c) = Len(a) + Len(u)
    BY <1>1, <1>2, ConcatSeq
<1> HIDE DEF c
<1>4. IsSeq(d) /\ Len(d) = Len(c) + Len(b)
    BY <1>1, <1>3, ConcatSeq
<1> HIDE DEF d
<1>5. Len(d) \in Nat /\ Len(d) >= 3
    BY <1>1, <1>2, <1>3, <1>4
<1>6. d # << >>
    <2>1. Len(<< >>) = 0
        OBVIOUS
    <2> QED BY <1>5, <2>1
<1>7. IsName(d) /\ NoKey(d)
    BY <1>4, <1>5, <1>6 DEF IsName, NoKey
<1> QED BY <1>7 DEF d, c, u

LEMMA AddBlockCallKeeps ==
    ASSUME IsModel(model), IsTypesFile(typesFile), NEW r, AddBlockCall(r)
    PROVE  Kept(r)
<1> DEFINE callee == Named(Full.nodes, r.callee)
           n == NodeOf(r)
           bases == [k \in DOMAIN callee.outs |-> r.callee \o <<"_">> \o callee.outs[k].name]
           names == FreshNames(bases, Vars(n))
           args == [j \in DOMAIN callee.ins |-> Var(callee.ins[j].name)]
           types == [k \in DOMAIN callee.outs |-> callee.outs[k].type]
           eq == [lhs |-> names, rhs |-> Tree("call", r.callee, 0, args), tag |-> Tag(0)]
           eqs == <<eq>>
<1>1. IsNode(r.node) /\ r.callee \in Fields(Full.nodes) /\ Edited(Dropped(n, names, types, eqs))
    BY DEF AddBlockCall
<1>2. {"lhs", "rhs", "tag"} \subseteq DOMAIN eq
    OBVIOUS
<1> HIDE DEF eq
<1>3. IsSeq(eqs) /\ DOMAIN eqs = {1} /\ eqs[1] = eq
    BY OneSeq
<1> HIDE DEF eqs
<1>4. Full.nodes = model.nodes
    <2>1. DOMAIN model = ModelFields
        BY ModelDomain
    <2>2. \E ts, cs : Full = [model EXCEPT !.types = ts, !.consts = cs]
        BY DEF Full
    <2> QED BY <2>1, <2>2 DEF ModelFields
<1>5. IsNodeDef(callee) /\ IsName(r.callee)
    BY <1>1, <1>4, NodeOfFacts
<1> HIDE DEF callee
<1>6. /\ Len(callee.outs) \in Nat /\ DOMAIN callee.outs = 1 .. Len(callee.outs)
      /\ \A k \in DOMAIN callee.outs : IsName(callee.outs[k].name)
    <2>1. IsSeq(callee.outs) /\ \A k \in DOMAIN callee.outs : IsName(callee.outs[k].name)
        BY <1>5, NodeDomain DEF IsPorts, IsTable
    <2> QED BY <2>1, SeqFacts
<1>7. /\ DOMAIN bases = DOMAIN callee.outs
      /\ \A k \in DOMAIN bases : bases[k] = r.callee \o <<"_">> \o callee.outs[k].name
      /\ bases = [k \in 1 .. Len(callee.outs) |-> bases[k]]
    BY <1>6
<1> HIDE DEF bases
<1>8. IsSeq(bases)
    BY <1>6, <1>7, TupleSeq
<1>9. ASSUME NEW k \in DOMAIN bases PROVE IsName(bases[k]) /\ NoKey(bases[k])
    <2> DEFINE a == r.callee
               b == callee.outs[k].name
    <2>1. IsName(a) /\ IsName(b) /\ bases[k] = a \o <<"_">> \o b
        BY <1>5, <1>6, <1>7
    <2> HIDE DEF a, b
    <2>2. IsName(a \o <<"_">> \o b) /\ NoKey(a \o <<"_">> \o b)
        BY <2>1, CallName
    <2> QED BY <2>1, <2>2
<1>10. \A k \in DOMAIN eqs : {"lhs", "rhs", "tag"} \subseteq DOMAIN eqs[k]
    BY <1>2, <1>3
<1>11. names = FreshNames(bases, Vars(NodeOf(r))) /\ Edited(Dropped(NodeOf(r), names, types, eqs))
    BY <1>1
<1> HIDE DEF names, types, n
<1> QED BY <1>1, <1>3, <1>8, <1>9, <1>10, <1>11, DropManyKeeps

-------------------------------------------------------------------------------
(* The templates of an action of a type, and the names they start from.    *)
Specs(specs, apart) ==
    /\ IsSeq(specs)
    /\ \A k \in DOMAIN specs : IsName(specs[k].base) /\ (apart => NoKey(specs[k].base))

LEMMA SpecsParts ==
    ASSUME NEW apart
    PROVE  /\ Specs(<< >>, apart)
           /\ \A base, type, rhs : IsName(base) /\ NoKey(base) => Specs(<<Template(base, type, rhs)>>, apart)
           /\ \A s, t : Specs(s, apart) /\ Specs(t, apart) => Specs(s \o t, apart)
<1>1. Specs(<< >>, apart)
    BY EmptyTable DEF Specs
<1>2. ASSUME NEW base, NEW type, NEW rhs, IsName(base), NoKey(base)
      PROVE  Specs(<<Template(base, type, rhs)>>, apart)
    <2> DEFINE e == Template(base, type, rhs)
               s == <<e>>
    <2>1. e.base = base
        BY DEF Template
    <2> HIDE DEF e
    <2>2. IsSeq(s) /\ DOMAIN s = {1} /\ s[1] = e
        BY OneSeq
    <2> HIDE DEF s
    <2>3. Specs(s, apart)
        BY <1>2, <2>1, <2>2 DEF Specs
    <2> QED BY <2>3 DEF s, e
<1>3. ASSUME NEW s, NEW t, Specs(s, apart), Specs(t, apart) PROVE Specs(s \o t, apart)
    <2>1. IsSeq(s) /\ IsSeq(t)
        BY <1>3 DEF Specs
    <2>2. IsSeq(s \o t)
        BY <2>1, ConcatSeq
    <2>3. ASSUME NEW k \in DOMAIN (s \o t)
          PROVE  IsName((s \o t)[k].base) /\ (apart => NoKey((s \o t)[k].base))
        <3>1. \/ k \in DOMAIN s /\ (s \o t)[k] = s[k]
              \/ k - Len(s) \in DOMAIN t /\ (s \o t)[k] = t[k - Len(s)]
            BY <2>1, ConcatParts
        <3> QED BY <1>3, <3>1 DEF Specs
    <2> QED BY <2>2, <2>3 DEF Specs
<1> QED BY <1>1, <1>2, <1>3

LEMMA RecordSpecs ==
    ASSUME NEW d, IsPorts(d.fields), NEW action \in DOMAIN RecordActions(d)
    PROVE  Specs(RecordActions(d)[action], NoKeys(d.fields))
<1> DEFINE apart == NoKeys(d.fields)
           read(k) == Template(d.fields[k].name, d.fields[k].type,
                               Tree("field", d.fields[k].name, 0, <<Var(Source)>>))
           reads == [k \in DOMAIN d.fields |-> read(k)]
           names == [k \in DOMAIN d.fields |-> d.fields[k].name[1]]
           holes == [k \in DOMAIN d.fields |-> Hole(k)]
           rhs == Tree("struct", <<d.name>> \o names, 0, holes)
<1>1. RecordActions(d)
          = [make |-> <<Template(<<"make">>, Scalar(d.name), rhs)>>,
             flatten |-> <<Template(<<d.name, "_", "in">>, Scalar(d.name), Hole(1))>> \o reads]
    BY DEF RecordActions
<1> HIDE DEF rhs
<1>2. Specs(<<Template(<<"make">>, Scalar(d.name), rhs)>>, apart)
    BY OneName, SpecsParts
<1>3. Specs(<<Template(<<d.name, "_", "in">>, Scalar(d.name), Hole(1))>>, apart)
    BY ThreeName, SpecsParts
<1>4. Len(d.fields) \in Nat /\ DOMAIN d.fields = 1 .. Len(d.fields)
    BY SeqFacts DEF IsPorts, IsTable
<1>5. \A k \in DOMAIN d.fields : read(k).base = d.fields[k].name
    BY DEF Template
<1> HIDE DEF read
<1>6. /\ reads = [k \in 1 .. Len(d.fields) |-> reads[k]]
      /\ \A k \in 1 .. Len(d.fields) : reads[k].base = d.fields[k].name
    BY <1>4, <1>5
<1> HIDE DEF reads
<1>7. Specs(reads, apart)
    <2>1. \A k \in 1 .. Len(d.fields) : IsName(reads[k].base) /\ (apart => NoKey(reads[k].base))
        BY <1>4, <1>6 DEF IsPorts, NoKeys
    <2>2. IsSeq(reads) /\ DOMAIN reads = 1 .. Len(d.fields)
        BY <1>4, <1>6, TupleSeq
    <2> QED BY <2>1, <2>2 DEF Specs
<1>8. Specs(<<Template(<<d.name, "_", "in">>, Scalar(d.name), Hole(1))>> \o reads, apart)
    BY <1>3, <1>7, SpecsParts
<1> DEFINE s1 == <<Template(<<"make">>, Scalar(d.name), rhs)>>
           s2 == <<Template(<<d.name, "_", "in">>, Scalar(d.name), Hole(1))>> \o reads
<1>9. Specs(s1, apart) /\ Specs(s2, apart) /\ RecordActions(d) = [make |-> s1, flatten |-> s2]
    BY <1>1, <1>2, <1>8
<1> HIDE DEF s1, s2, apart
<1> QED BY <1>9 DEF apart

LEMMA EnumSpecs ==
    ASSUME NEW d, NEW r, NEW apart, NEW action \in DOMAIN EnumActions(d, r)
    PROVE  Specs(EnumActions(d, r)[action], apart)
<1> DEFINE n == Len(d.variants)
           known == r.param \in ToSet(d.variants)
           t1 == <<Template(<<"variant">>, Scalar(d.name), Var(r.param))>>
           t2 == <<Template(<<"is">>, BoolType, Is(Hole(1), Var(r.param)))>>
           cases == FoldRight(LAMBDA k, rest : If(Is(Hole(1), Var(d.variants[k])), Hole(k + 1), rest),
                              [k \in 1 .. n - 1 |-> k], Hole(n + 1))
           t3 == <<Template(<<"match">>, Scalar(r.result), cases)>>
<1>1. EnumActions(d, r) = [variant |-> IF known THEN t1 ELSE << >>,
                           compare |-> IF known THEN t2 ELSE << >>, match |-> t3]
    BY DEF EnumActions
<1> HIDE DEF cases, known
<1>2. Specs(t1, apart) /\ Specs(t2, apart) /\ Specs(t3, apart)
    BY OneName, SpecsParts
<1>3. Specs(<< >>, apart)
    BY SpecsParts
<1> HIDE DEF t1, t2, t3
<1> QED BY <1>1, <1>2, <1>3

LEMMA ArraySpecs ==
    ASSUME NEW d, d.target.dims[1] \in Nat, NEW r, NEW apart, NEW action \in DOMAIN ArrayActions(d, r)
    PROVE  Specs(ArrayActions(d, r)[action], apart)
<1> DEFINE len == d.target.dims[1]
           elem == Type(d.target.base, Tail(d.target.dims))
           array(n) == Type(elem.base, <<n>> \o elem.dims)
           read(k) == Template(<<"elem", k>>, elem, Tree("index", << >>, 0, <<Var(Source), Const(k - 1)>>))
           reads == [k \in 1 .. len |-> read(k)]
           a1 == array(len)
           a2 == array(r.param[2])
           rhs1 == Tree("array", << >>, 0, [k \in 1 .. len |-> Hole(k)])
           rhs3 == Tree("array", << >>, 0,
                        [k \in 1 .. r.param[2] |->
                            Tree("index", << >>, 0, <<Hole(1), Const(r.param[1] + k - 1)>>)])
           s1 == <<Template(<<"make">>, a1, rhs1)>>
           s2 == <<Template(<<d.name, "_", "in">>, a1, Hole(1))>> \o reads
           s3 == <<Template(<<"slice">>, a2, rhs3)>>
           out == r.param[2] = 0 \/ r.param[1] + r.param[2] > len
<1>0. len \in Nat
    OBVIOUS
<1>1. ArrayActions(d, r) = [make |-> s1, flatten |-> s2, slice |-> IF out THEN << >> ELSE s3]
    BY DEF ArrayActions
<1> HIDE DEF out
<1>2. Specs(s1, apart) /\ Specs(s3, apart)
    <2> HIDE DEF a1, a2, rhs1, rhs3
    <2> QED BY OneName, SpecsParts
<1>3. Specs(<<Template(<<d.name, "_", "in">>, a1, Hole(1))>>, apart)
    <2> HIDE DEF a1
    <2> QED BY ThreeName, SpecsParts
<1>4. \A k \in 1 .. len : read(k).base = <<"elem", k>>
    BY DEF Template
<1>5. ASSUME NEW k PROVE IsName(<<"elem", k>>) /\ NoKey(<<"elem", k>>)
    <2> "elem" # "eq"
        OBVIOUS
    <2> QED BY TwoName
<1> HIDE DEF read
<1>6. /\ reads = [k \in 1 .. len |-> reads[k]]
      /\ \A k \in 1 .. len : reads[k].base = <<"elem", k>>
    BY <1>4
<1> HIDE DEF reads
<1>7. Specs(reads, apart)
    <2>1. \A k \in 1 .. len : IsName(reads[k].base) /\ (apart => NoKey(reads[k].base))
        BY <1>5, <1>6
    <2>2. IsSeq(reads) /\ DOMAIN reads = 1 .. len
        <3> HIDE DEF len
        <3> QED BY <1>0, <1>6, TupleSeq
    <2> QED BY <2>1, <2>2 DEF Specs
<1>8. Specs(s2, apart)
    <2> HIDE DEF a1
    <2> QED BY <1>3, <1>7, SpecsParts
<1>9. Specs(<< >>, apart)
    BY SpecsParts
<1> HIDE DEF s1, s2, s3
<1> QED BY <1>1, <1>2, <1>8, <1>9

(* The actions of a type.                                                  *)
LEMMA TypeSpecs ==
    ASSUME NEW d, IsTypeDef(d), NEW r, NEW action \in DOMAIN TypeActions(d, r)
    PROVE  Specs(TypeActions(d, r)[action], d.kind = "record" => NoKeys(d.fields))
<1> DEFINE apart == d.kind = "record" => NoKeys(d.fields)
<1>1. CASE d.kind = "record"
    <2>1. TypeActions(d, r) = RecordActions(d) /\ IsPorts(d.fields)
        BY <1>1 DEF TypeActions, IsTypeDef
    <2>2. Specs(RecordActions(d)[action], NoKeys(d.fields))
        BY <2>1, RecordSpecs
    <2> QED BY <1>1, <2>1, <2>2 DEF Specs
<1>2. CASE d.kind = "enum"
    <2>1. TypeActions(d, r) = EnumActions(d, r)
        BY <1>2 DEF TypeActions
    <2> HIDE DEF apart
    <2>2. Specs(EnumActions(d, r)[action], apart)
        BY <2>1, EnumSpecs
    <2> QED BY <2>1, <2>2 DEF apart
<1>3. CASE d.kind = "alias"
    <2>1. TypeActions(d, r) = IF IsArray(d.target) THEN ArrayActions(d, r) ELSE << >>
        BY <1>3 DEF TypeActions
    <2>2. IsArray(d.target) /\ TypeActions(d, r) = ArrayActions(d, r)
        BY <2>1, EmptyTable
    <2>3. d.target.dims[1] \in Nat
        <3> DEFINE dims == d.target.dims
        <3>1. dims # << >> /\ IsSeq(dims) /\ \A j \in DOMAIN dims : dims[j] \in Nat
            BY <1>3, <2>2 DEF IsTypeDef, IsArray
        <3> HIDE DEF dims
        <3>2. IsName(dims)
            BY <3>1 DEF IsName
        <3>3. Len(dims) \in Nat /\ DOMAIN dims = 1 .. Len(dims) /\ dims = [k \in 1 .. Len(dims) |-> dims[k]]
            BY <3>1, SeqFacts DEF IsSeq
        <3>4. Len(dims) # 0
            <4>1. << >> = [k \in 1 .. 0 |-> dims[k]]
                OBVIOUS
            <4> QED BY <3>1, <3>3, <4>1
        <3> QED BY <3>1, <3>3, <3>4 DEF dims
    <2> HIDE DEF apart
    <2>4. Specs(ArrayActions(d, r)[action], apart)
        BY <2>2, <2>3, ArraySpecs
    <2> QED BY <2>2, <2>4 DEF apart
<1> QED BY <1>1, <1>2, <1>3 DEF IsTypeDef

LEMMA AddTypeOpKeeps ==
    ASSUME IsModel(model), IsTypesFile(typesFile), NEW r, AddTypeOp(r)
    PROVE  Kept(r)
<1> DEFINE n == NodeOf(r)
           d == Named(Full.types, r.type)
           specs == TypeActions(d, r)[r.action]
           bases == [k \in DOMAIN specs |-> specs[k].base]
           names == FreshNames(bases, Vars(n))
           types == [k \in DOMAIN specs |-> specs[k].type]
           eq(k) == [lhs |-> <<names[k]>>, tag |-> Tag(k),
                     rhs |-> Filled(Len(n.eqs) + k, specs[k], names[k], names[1])]
           eqs == [k \in DOMAIN specs |-> eq(k)]
<1>1. /\ IsNode(r.node) /\ r.type \in Fields(Full.types) /\ r.action \in DOMAIN TypeActions(d, r)
      /\ Edited(Dropped(n, names, types, eqs))
    BY DEF AddTypeOp
<1>2. /\ IsTable(Full.types) /\ \A j \in DOMAIN Full.types :
            /\ IsTypeDef(Full.types[j])
            /\ Laid(model, typesFile) /\ Full.types[j].kind = "record" => NoKeys(Full.types[j].fields)
    <2> DEFINE both == model.types \o typesFile.types
    <2>1. DOMAIN model = ModelFields /\ IsTypes(model.types) /\ IsTypes(typesFile.types)
        BY ModelDomain DEF IsTypesFile
    <2>2. Full.types = both
        <3> DEFINE consts == model.consts \o typesFile.consts
        <3>1. Full = [model EXCEPT !.types = both, !.consts = consts]
            BY DEF Full
        <3> HIDE DEF both, consts
        <3> QED BY <2>1, <3>1 DEF ModelFields
    <2>3. IsTable(model.types) /\ IsTable(typesFile.types) /\ IsSeq(model.types) /\ IsSeq(typesFile.types)
        BY <2>1 DEF IsTypes, IsTable
    <2>4. IsTable(both)
        BY <2>3, ConcatTable
    <2>5. ASSUME NEW j \in DOMAIN both
          PROVE  /\ IsTypeDef(both[j])
                 /\ Laid(model, typesFile) /\ both[j].kind = "record" => NoKeys(both[j].fields)
        <3> DEFINE a == model.types
                   b == typesFile.types
        <3>0. IsSeq(a) /\ IsSeq(b) /\ both = a \o b
            BY <2>3
        <3> HIDE DEF both, a, b
        <3>1. \/ j \in DOMAIN a /\ both[j] = a[j]
              \/ j - Len(a) \in DOMAIN b /\ both[j] = b[j - Len(a)]
            BY <3>0, ConcatParts
        <3> USE DEF a, b
        <3> QED BY <2>1, <3>1 DEF IsTypes, Laid, FieldsApart
    <2> HIDE DEF both
    <2> QED BY <2>2, <2>4, <2>5
<1>3. IsTypeDef(d) /\ (Laid(model, typesFile) => (d.kind = "record" => NoKeys(d.fields)))
    <2>1. PICK j \in DOMAIN Full.types : d = Full.types[j]
        BY <1>1, <1>2, NamedFacts
    <2> HIDE DEF d
    <2> QED BY <1>2, <2>1
<1> HIDE DEF d
<1>4. Specs(specs, d.kind = "record" => NoKeys(d.fields))
    BY <1>1, <1>3, TypeSpecs
<1> HIDE DEF specs
<1>5. /\ IsSeq(specs) /\ \A k \in DOMAIN specs : IsName(specs[k].base)
      /\ Laid(model, typesFile) => \A k \in DOMAIN specs : NoKey(specs[k].base)
    BY <1>3, <1>4 DEF Specs
<1>6. Len(specs) \in Nat /\ DOMAIN specs = 1 .. Len(specs)
    BY <1>5, SeqFacts
<1>7. \A k : {"lhs", "rhs", "tag"} \subseteq DOMAIN eq(k)
    OBVIOUS
<1> HIDE DEF eq
<1>8. /\ eqs = [k \in 1 .. Len(specs) |-> eqs[k]] /\ DOMAIN eqs = DOMAIN specs
      /\ \A k \in DOMAIN eqs : {"lhs", "rhs", "tag"} \subseteq DOMAIN eqs[k]
    BY <1>6, <1>7
<1>9. /\ bases = [k \in 1 .. Len(specs) |-> bases[k]] /\ DOMAIN bases = DOMAIN specs
      /\ \A k \in DOMAIN bases : bases[k] = specs[k].base
    BY <1>6
<1>10. names = FreshNames(bases, Vars(NodeOf(r))) /\ Edited(Dropped(NodeOf(r), names, types, eqs))
    BY <1>1
<1> HIDE DEF eqs, bases, names, types, n
<1>11. IsSeq(eqs) /\ IsSeq(bases)
    BY <1>6, <1>8, <1>9, TupleSeq
<1>12. /\ \A k \in DOMAIN bases : IsName(bases[k])
       /\ Laid(model, typesFile) => \A k \in DOMAIN bases : NoKey(bases[k])
    BY <1>5, <1>9
<1> QED BY <1>1, <1>8, <1>10, <1>11, <1>12, DropManyKeeps

-------------------------------------------------------------------------------
(* Machines and activations.                                               *)
LEMMA MachineKeeps ==
    ASSUME IsModel(model), IsTypesFile(typesFile), NEW r, NEW machines,
           IsTable(machines), Distinct(model.machines) => Distinct(machines),
           Saved([model EXCEPT !.machines = machines])
    PROVE  Kept(r)
<1> DEFINE m2 == model'
<1>1. m2 = [model EXCEPT !.machines = machines] /\ typesFile' = typesFile
    BY DEF Saved
<1> HIDE DEF m2
<1>2. Keeps(r, model, typesFile, m2, typesFile)
    BY <1>1, MachineEdit
<1> QED BY <1>1, <1>2 DEF Kept, m2

LEMMA ActivationKeeps ==
    ASSUME IsModel(model), IsTypesFile(typesFile), NEW r, NEW acts,
           IsTable(acts), Distinct(model.acts) => Distinct(acts),
           Saved([model EXCEPT !.acts = acts])
    PROVE  Kept(r)
<1> DEFINE m2 == model'
<1>1. m2 = [model EXCEPT !.acts = acts] /\ typesFile' = typesFile
    BY DEF Saved
<1> HIDE DEF m2
<1>2. Keeps(r, model, typesFile, m2, typesFile)
    BY <1>1, ActivationEdit
<1> QED BY <1>1, <1>2 DEF Kept, m2

LEMMA ConstructTables ==
    ASSUME IsModel(model)
    PROVE  /\ DOMAIN model = ModelFields
           /\ IsTable(model.machines) /\ IsTable(model.acts)
           /\ MachineNames(model) = Fields(model.machines)
           /\ \A x \in MachineNames(model) :
                 \E j \in DOMAIN model.machines :
                    ByName(model)[x] = model.machines[j] /\ model.machines[j].name = x
<1>1. DOMAIN model = ModelFields /\ IsTable(model.machines) /\ IsTable(model.acts)
    BY ModelDomain
<1>2. MachineNames(model) = Fields(model.machines)
    BY DEF MachineNames, Fields
<1>3. ASSUME NEW x \in MachineNames(model)
      PROVE  \E j \in DOMAIN model.machines :
                ByName(model)[x] = model.machines[j] /\ model.machines[j].name = x
    <2> DEFINE j == CHOOSE j \in DOMAIN model.machines : model.machines[j].name = x
    <2>1. \E k \in DOMAIN model.machines : model.machines[k].name = x
        BY DEF MachineNames
    <2>2. j \in DOMAIN model.machines /\ model.machines[j].name = x
        BY <2>1
    <2>3. ByName(model)[x] = model.machines[j]
        BY DEF ByName
    <2> QED BY <2>2, <2>3
<1> QED BY <1>1, <1>2, <1>3

LEMMA SaveConstructKeeps ==
    ASSUME IsModel(model), IsTypesFile(typesFile), NEW r, IsRequest(r), SaveConstruct(r)
    PROVE  Kept(r)
<1>0. IsTable(model.machines) /\ IsTable(model.acts)
    BY ConstructTables
<1>1. CASE r.edit = "add machine" /\ AddStateMachine(r)
    <2> DEFINE sm == r.machine
               machines == Append(model.machines, sm)
    <2>1. "name" \in DOMAIN sm /\ Saved([model EXCEPT !.machines = machines])
        BY <1>1 DEF AddStateMachine, IsRequest
    <2>2. sm.name \notin Fields(model.machines)
        <3>1. sm.name \notin MachineNames(model)
            BY <1>1 DEF AddStateMachine
        <3> QED BY <3>1, ConstructTables
    <2> HIDE DEF sm
    <2>3. IsTable(machines) /\ (Distinct(model.machines) => Distinct(machines))
        BY <1>0, <2>1, <2>2, AppendTable
    <2> HIDE DEF machines
    <2> QED BY <2>1, <2>3, MachineKeeps
<1>2. CASE r.edit = "update machine" /\ UpdateStateMachine(r)
    <2>1. PICK placed : Saved([model EXCEPT !.machines =
                                  Replaced(@, [r.machine EXCEPT !.layout = placed])])
        BY <1>2 DEF UpdateStateMachine
    <2> DEFINE sm == [r.machine EXCEPT !.layout = placed]
               machines == Replaced(model.machines, sm)
    <2>2. "name" \in DOMAIN sm /\ Saved([model EXCEPT !.machines = machines])
        BY <1>2, <2>1 DEF IsRequest
    <2> HIDE DEF sm
    <2>3. IsTable(machines) /\ (Distinct(model.machines) => Distinct(machines))
        BY <1>0, <2>2, ReplacedTable
    <2> HIDE DEF machines
    <2> QED BY <2>2, <2>3, MachineKeeps
<1>3. CASE r.edit = "add activation" /\ AddActivation(r)
    <2> DEFINE act == r.act
               acts == Append(model.acts, act)
    <2>1. "name" \in DOMAIN act /\ Saved([model EXCEPT !.acts = acts])
        BY <1>3 DEF AddActivation, IsRequest
    <2>2. act.name \notin Fields(model.acts)
        BY <1>3 DEF AddActivation, AllNames, Fields
    <2> HIDE DEF act
    <2>3. IsTable(acts) /\ (Distinct(model.acts) => Distinct(acts))
        BY <1>0, <2>1, <2>2, AppendTable
    <2> HIDE DEF acts
    <2> QED BY <2>1, <2>3, ActivationKeeps
<1>4. CASE r.edit = "update activation" /\ UpdateActivation(r)
    <2> DEFINE act == r.act
               acts == Replaced(model.acts, act)
    <2>1. "name" \in DOMAIN act /\ Saved([model EXCEPT !.acts = acts])
        BY <1>4 DEF UpdateActivation, IsRequest
    <2> HIDE DEF act
    <2>2. IsTable(acts) /\ (Distinct(model.acts) => Distinct(acts))
        BY <1>0, <2>1, ReplacedTable
    <2> HIDE DEF acts
    <2> QED BY <2>1, <2>2, ActivationKeeps
<1> QED BY <1>1, <1>2, <1>3, <1>4 DEF SaveConstruct

LEMMA SetFsmLayoutKeeps ==
    ASSUME IsModel(model), IsTypesFile(typesFile), NEW r, SetFsmLayout(r)
    PROVE  Kept(r)
<1> DEFINE old == ByName(model)[r.machine]
           sm == [old EXCEPT !.layout = r.placed]
           machines == Replaced(model.machines, sm)
<1>1. r.machine \in MachineNames(model) /\ Saved([model EXCEPT !.machines = machines])
    BY DEF SetFsmLayout
<1>2. IsTable(model.machines) /\ "name" \in DOMAIN old
    BY <1>1, ConstructTables DEF IsTable
<1>3. "name" \in DOMAIN sm
    <2> HIDE DEF old
    <2> QED BY <1>2
<1> HIDE DEF sm
<1>4. IsTable(machines) /\ (Distinct(model.machines) => Distinct(machines))
    BY <1>2, <1>3, ReplacedTable
<1> HIDE DEF machines
<1> QED BY <1>1, <1>4, MachineKeeps

LEMMA RemoveStateMachineKeeps ==
    ASSUME IsModel(model), IsTypesFile(typesFile), NEW r, RemoveStateMachine(r)
    PROVE  Kept(r)
<1> DEFINE machines == Without(model.machines, r.machine)
<1>1. Saved([model EXCEPT !.machines = machines])
    BY DEF RemoveStateMachine
<1>2. IsTable(machines) /\ (Distinct(model.machines) => Distinct(machines))
    BY ConstructTables, WithoutTable
<1> HIDE DEF machines
<1> QED BY <1>1, <1>2, MachineKeeps

LEMMA RemoveActivationKeeps ==
    ASSUME IsModel(model), IsTypesFile(typesFile), NEW r, RemoveActivation(r)
    PROVE  Kept(r)
<1> DEFINE acts == Without(model.acts, r.act)
<1>1. Saved([model EXCEPT !.acts = acts])
    BY DEF RemoveActivation
<1>2. IsTable(acts) /\ (Distinct(model.acts) => Distinct(acts))
    BY ConstructTables, WithoutTable
<1> HIDE DEF acts
<1> QED BY <1>1, <1>2, ActivationKeeps

-------------------------------------------------------------------------------
(* Contracts.  What an edit of the contracts keeps, where it changes of the*)
(* operators no more than which contract they have.                        *)
Rebound(m, t, m2) ==
    /\ IsModel(m2)
    /\ Once(m, t) => Once(m2, t)
    /\ Laid(m, t) => Laid(m2, t)

\* The same operator, but for its contract.
Bound(a, b) == b = a \/ \E c : b = [a EXCEPT !.contract = c]

LEMMA NodesRebound ==
    ASSUME NEW m, IsModel(m), NEW t, NEW m2, DOMAIN m2 = ModelFields,
           DOMAIN m2.nodes = DOMAIN m.nodes, m2.nodes = [j \in DOMAIN m.nodes |-> m2.nodes[j]],
           \A j \in DOMAIN m.nodes : m2.nodes[j].name = m.nodes[j].name,
           \A j \in DOMAIN m.nodes : \E i \in DOMAIN m.nodes : Bound(m.nodes[i], m2.nodes[j]),
           m2.types = m.types, m2.consts = m.consts, m2.machines = m.machines, m2.acts = m.acts,
           IsContracts(m2.contracts), Distinct(m.contracts) => Distinct(m2.contracts)
    PROVE  Rebound(m, t, m2)
<1> DEFINE nodes == m2.nodes
<1>1. IsTable(m.nodes) /\ \A j \in DOMAIN m.nodes : IsNodeDef(m.nodes[j])
    BY ModelDomain DEF IsNodes
<1>2. ASSUME NEW j \in DOMAIN m.nodes
      PROVE  /\ IsNodeDef(nodes[j])
             /\ \E i \in DOMAIN m.nodes :
                   /\ VarsOnce(m.nodes[i]) => VarsOnce(nodes[j])
                   /\ VarsApart(m.nodes[i]) /\ Follows(m.nodes[i]) => VarsApart(nodes[j]) /\ Follows(nodes[j])
    <2>1. PICK i \in DOMAIN m.nodes : Bound(m.nodes[i], nodes[j])
        OBVIOUS
    <2> DEFINE a == m.nodes[i]
               b == nodes[j]
    <2>2. IsNodeDef(a)
        BY <1>1
    <2>3. b = a \/ \E c : b = [a EXCEPT !.contract = c]
        BY <2>1 DEF Bound
    <2> HIDE DEF a, b
    <2>4. DOMAIN a = NodeFields
        BY <2>2, NodeDomain
    <2>5. /\ DOMAIN b = NodeFields /\ b.name = a.name /\ b.kind = a.kind
          /\ b.ins = a.ins /\ b.outs = a.outs /\ b.locals = a.locals
          /\ b.eqs = a.eqs /\ b.pos = a.pos
        BY <2>3, <2>4 DEF NodeFields
    <2>6. IsNodeDef(b)
        BY <2>2, <2>5, NodeDomain
    <2>7. VarsOnce(a) => VarsOnce(b)
        BY <2>5 DEF VarsOnce
    <2>8. VarsApart(a) /\ Follows(a) => VarsApart(b) /\ Follows(b)
        BY <2>5 DEF VarsApart, Follows, Vars
    <2> QED BY <2>6, <2>7, <2>8 DEF a, b
<1>3. /\ DOMAIN nodes = DOMAIN m.nodes
      /\ nodes = [j \in DOMAIN m.nodes |-> nodes[j]]
      /\ \A j \in DOMAIN m.nodes : "name" \in DOMAIN nodes[j] /\ nodes[j].name = m.nodes[j].name
    <2>1. \A j \in DOMAIN m.nodes : "name" \in DOMAIN nodes[j]
        BY <1>2, NodeDomain DEF NodeFields
    <2> QED BY <2>1
<1>4. m2.nodes = nodes
    OBVIOUS
<1> HIDE DEF nodes
<1>5. IsTable(nodes) /\ (Distinct(m.nodes) => Distinct(nodes))
    BY <1>1, <1>3, MappedTable
<1>6. IsModel(m2)
    <2>1. IsNodes(nodes)
        BY <1>2, <1>3, <1>5 DEF IsNodes
    <2> QED BY <1>4, <2>1, ModelDomain
<1>7. Once(m, t) => Once(m2, t)
    BY <1>2, <1>3, <1>4, <1>5 DEF Once
<1>8. Laid(m, t) => Laid(m2, t)
    BY <1>2, <1>3, <1>4 DEF Laid
<1> QED BY <1>6, <1>7, <1>8 DEF Rebound

(* A contract d in its table, at its end or in the place of its namesake.  *)
Put(old, d, new) ==
    \/ new = Append(old, d) /\ d.name \notin Fields(old)
    \/ new = Replaced(old, d)

LEMMA ContractPut ==
    ASSUME NEW old, IsContracts(old), NEW d, {"name", "ins", "outs", "imports"} \subseteq DOMAIN d,
           d.name # << >>, NEW new, Put(old, d, new)
    PROVE  /\ IsContracts(new) /\ (Distinct(old) => Distinct(new))
           /\ \A k \in DOMAIN new :
                 \/ new[k] = d
                 \/ k \in DOMAIN old /\ new[k] = old[k] /\ old[k].name # d.name
<1>1. IsTable(old) /\ "name" \in DOMAIN d
    BY DEF IsContracts
<1>2. IsTable(new) /\ (Distinct(old) => Distinct(new))
    <2>1. CASE new = Append(old, d) /\ d.name \notin Fields(old)
        BY <1>1, <2>1, AppendTable
    <2>2. CASE new = Replaced(old, d)
        BY <1>1, <2>2, ReplacedTable
    <2> QED BY <2>1, <2>2 DEF Put
<1>3. ASSUME NEW k \in DOMAIN new
      PROVE  \/ new[k] = d
             \/ k \in DOMAIN old /\ new[k] = old[k] /\ old[k].name # d.name
    <2>1. CASE new = Append(old, d) /\ d.name \notin Fields(old)
        <3>1. IsSeq(old) /\ Len(old) \in Nat /\ DOMAIN old = 1 .. Len(old)
            BY <1>1, SeqFacts DEF IsTable
        <3>2. /\ DOMAIN new = 1 .. Len(old) + 1 /\ new[Len(old) + 1] = d
              /\ \A j \in DOMAIN old : new[j] = old[j]
            BY <2>1, <3>1, AppendSeq
        <3>3. k \in DOMAIN old \/ k = Len(old) + 1
            BY <3>1, <3>2
        <3> QED BY <2>1, <3>2, <3>3 DEF Fields
    <2>2. CASE new = Replaced(old, d)
        BY <2>2 DEF Replaced
    <2> QED BY <2>1, <2>2 DEF Put
<1>4. IsContracts(new)
    BY <1>2, <1>3 DEF IsContracts
<1> QED BY <1>2, <1>3, <1>4

(* A contract is put, and is the operator x's.                             *)
InPlace(m, x, n2) == [j \in DOMAIN m.nodes |-> IF m.nodes[j].name = x THEN n2 ELSE m.nodes[j]]

LEMMA ContractAttached ==
    ASSUME NEW m, IsModel(m), NEW t, IsTypesFile(t), NEW r, NEW x \in Fields(m.nodes),
           NEW n, n = Named(m.nodes, x), NEW d, {"name", "ins", "outs", "imports"} \subseteq DOMAIN d,
           d.name # << >>, d.ins = n.ins, d.outs = n.outs, n.contract \in {<< >>, d.name},
           NEW n2, n2 = [n EXCEPT !.contract = d.name],
           NEW nodes, nodes = InPlace(m, x, n2), NEW contracts, Put(m.contracts, d, contracts),
           NEW m2, DOMAIN m2 = ModelFields, m2.nodes = nodes, m2.contracts = contracts,
           m2.types = m.types, m2.consts = m.consts, m2.machines = m.machines, m2.acts = m.acts
    PROVE  Keeps(r, m, t, m2, t)
<1>0. nodes = [j \in DOMAIN m.nodes |-> IF m.nodes[j].name = x THEN n2 ELSE m.nodes[j]]
    BY DEF InPlace
<1>1. IsTable(m.nodes) /\ IsContracts(m.contracts) /\ \A j \in DOMAIN m.nodes : IsNodeDef(m.nodes[j])
    BY ModelDomain DEF IsNodes
<1>2. PICK at \in DOMAIN m.nodes : m.nodes[at].name = x /\ n = m.nodes[at]
    BY <1>1, NamedFacts
<1>3. DOMAIN n = NodeFields /\ \A j \in DOMAIN m.nodes : DOMAIN m.nodes[j] = NodeFields
    BY <1>1, <1>2, NodeDomain
<1>4. /\ n2.name = x /\ n2.contract = d.name /\ n2.ins = n.ins /\ n2.outs = n.outs
    BY <1>2, <1>3 DEF NodeFields
<1>5. /\ IsContracts(contracts) /\ (Distinct(m.contracts) => Distinct(contracts))
      /\ \A k \in DOMAIN contracts :
            \/ contracts[k] = d
            \/ k \in DOMAIN m.contracts /\ contracts[k] = m.contracts[k] /\ m.contracts[k].name # d.name
    BY <1>1, ContractPut
<1>6. Rebound(m, t, m2)
    <2>1. /\ DOMAIN m2.nodes = DOMAIN m.nodes
          /\ \A j \in DOMAIN m.nodes : m2.nodes[j].name = m.nodes[j].name
          /\ m2.nodes = [j \in DOMAIN m.nodes |-> m2.nodes[j]]
        <3> DEFINE f == nodes
        <3>1. DOMAIN f = DOMAIN m.nodes /\ f = [j \in DOMAIN m.nodes |-> f[j]]
            BY <1>0
        <3>2. \A j \in DOMAIN m.nodes : f[j] = IF m.nodes[j].name = x THEN n2 ELSE m.nodes[j]
            BY <1>0
        <3>3. m2.nodes = f
            OBVIOUS
        <3> HIDE DEF f
        <3>4. \A j \in DOMAIN m.nodes : f[j].name = m.nodes[j].name
            BY <1>4, <3>2
        <3> QED BY <3>1, <3>3, <3>4
    <2>2. ASSUME NEW j \in DOMAIN m.nodes
          PROVE  \E i \in DOMAIN m.nodes : Bound(m.nodes[i], m2.nodes[j])
        <3>1. m2.nodes[j] = IF m.nodes[j].name = x THEN n2 ELSE m.nodes[j]
            BY <1>0
        <3>2. Bound(n, n2) /\ Bound(m.nodes[j], m.nodes[j])
            BY DEF Bound
        <3> QED BY <1>2, <3>1, <3>2
    <2> QED BY <1>5, <2>1, <2>2, NodesRebound
<1>7. ASSUME Once(m, t), InStep(m) PROVE InStep(m2)
    <2>1. Distinct(m.nodes) /\ Distinct(nodes) /\ IsTable(nodes)
        BY <1>6, <1>7, ModelDomain DEF Rebound, Once, IsNodes
    <2>2. InStepBut(m, {})
        BY <1>1, <1>7, <2>1, InStepByIndex
    <2>3. InStepBut(m2, {})
        <3> SUFFICES ASSUME NEW k \in DOMAIN m2.contracts, NEW i \in DOMAIN m2.nodes, Sole(m2, k, i)
                     PROVE  m2.contracts[k].ins = m2.nodes[i].ins /\ m2.contracts[k].outs = m2.nodes[i].outs
            BY DEF InStepBut
        <3>0. k \in DOMAIN contracts /\ i \in DOMAIN nodes
            BY <1>5
        <3>1. /\ nodes[i].contract = contracts[k].name
              /\ \A j \in DOMAIN nodes : nodes[j].contract = contracts[k].name => j = i
            BY DEF Sole
        <3>2. CASE contracts[k] = d
            <4>1. at \in DOMAIN nodes /\ nodes[at] = n2
                BY <1>0, <1>2
            <4>3. nodes[at].contract = contracts[k].name
                BY <1>4, <3>2, <4>1
            <4>2. at = i
                BY <3>1, <4>1, <4>3
            <4> QED BY <1>4, <3>2, <4>1, <4>2
        <3>3. CASE k \in DOMAIN m.contracts /\ contracts[k] = m.contracts[k] /\ m.contracts[k].name # d.name
            <4>1. nodes[i] = m.nodes[i] /\ i \in DOMAIN m.nodes
                BY <1>0, <1>4, <3>1, <3>3
            <4>2. ASSUME NEW j \in DOMAIN m.nodes, m.nodes[j].contract = m.contracts[k].name PROVE j = i
                <5>1. m.contracts[k].name # << >>
                    BY <1>1, <3>3 DEF IsContracts
                <5>2. m.nodes[j].name # x
                    <6>1. m.nodes[j].name = x => m.nodes[j] = n
                        BY <1>1, <2>1, NamedFacts
                    <6> QED BY <3>3, <4>2, <5>1, <6>1
                <5>3. nodes[j] = m.nodes[j] /\ j \in DOMAIN nodes
                    BY <1>0, <5>2
                <5> QED BY <3>1, <3>3, <4>2, <5>3
            <4>3. Sole(m, k, i)
                BY <3>1, <3>3, <4>1, <4>2 DEF Sole
            <4> QED BY <2>2, <3>3, <4>1, <4>3 DEF InStepBut
        <3> QED BY <1>5, <3>2, <3>3
    <2> QED BY <2>1, <2>3, InStepByIndex
<1> QED BY <1>6, <1>7 DEF Keeps, Rebound

(* The project that is loaded, of the two files.                           *)
LEMMA FullFields ==
    ASSUME IsModel(model)
    PROVE  /\ DOMAIN Full = ModelFields /\ DOMAIN model = ModelFields
           /\ Full.nodes = model.nodes /\ Full.contracts = model.contracts
           /\ Full.machines = model.machines /\ Full.acts = model.acts
           /\ Full.types = model.types \o typesFile.types
           /\ Full.consts = model.consts \o typesFile.consts
<1> DEFINE types == model.types \o typesFile.types
           consts == model.consts \o typesFile.consts
<1>1. DOMAIN model = ModelFields
    BY ModelDomain
<1>2. Full = [model EXCEPT !.types = types, !.consts = consts]
    BY DEF Full
<1> HIDE DEF types, consts
<1>3. /\ DOMAIN Full = ModelFields /\ Full.nodes = model.nodes /\ Full.contracts = model.contracts
      /\ Full.machines = model.machines /\ Full.acts = model.acts
      /\ Full.types = types /\ Full.consts = consts
    BY <1>1, <1>2 DEF ModelFields
<1> QED BY <1>1, <1>3 DEF types, consts

LEMMA EditContractKeeps ==
    ASSUME IsModel(model), IsTypesFile(typesFile), NEW r, IsRequest(r),
           r.edit \in {"add contract", "update contract"}, EditContract(r)
    PROVE  Kept(r)
<1> DEFINE x == r.node
           n == Named(model.nodes, x)
           c == ParseContract(r)
           n2 == [n EXCEPT !.contract = c.name]
           old == {j \in DOMAIN Full.contracts : Full.contracts[j].name = c.name}
           imports == Full.contracts[Min(old)].imports
           kept == [c EXCEPT !.imports = imports]
           d == IF old = {} THEN c ELSE kept
           nodes == [j \in DOMAIN model.nodes |-> IF model.nodes[j].name = x THEN n2 ELSE model.nodes[j]]
           attached == WithNode(Full, n2)
           contracts == IF old = {} THEN Append(attached.contracts, c) ELSE Replaced(attached.contracts, kept)
           candidate == [attached EXCEPT !.contracts = contracts]
           m2 == model'
<1>1. /\ x \in Fields(model.nodes)
      /\ n.contract \in {<< >>, r.contract.name}
    BY DEF EditContract, AddContract, UpdateContract, IsNode, NodeOf
<1>2. m2 = OfFile(WithContract(Full, c, x)) /\ typesFile' = typesFile
    BY DEF EditContract, SaveContract, Saved
<1>3. /\ {"name", "ins", "outs", "imports"} \subseteq DOMAIN c
      /\ c.name = r.contract.name /\ c.ins = n.ins /\ c.outs = n.outs
    BY DEF ParseContract, NodeOf
<1>4. r.contract.name # << >>
    BY DEF IsRequest
<1>5. WithContract(Full, c, x) = candidate
    <2>1. Named(Full.nodes, x) = n
        BY FullFields
    <2> HIDE DEF c
    <2> QED BY <2>1 DEF WithContract
<1>6. /\ IsTable(model.nodes) /\ \A j \in DOMAIN model.nodes : IsNodeDef(model.nodes[j])
    BY ModelDomain DEF IsNodes
<1>7. DOMAIN n = NodeFields /\ n.name = x
    <2>1. PICK j \in DOMAIN model.nodes : model.nodes[j].name = x /\ n = model.nodes[j]
        BY <1>1, <1>6, NamedFacts
    <2> HIDE DEF n
    <2> QED BY <1>6, <2>1, NodeDomain
<1> HIDE DEF c
<1>8. n2.name = x
    <2> HIDE DEF n
    <2> QED BY <1>7 DEF NodeFields
<1>9. /\ DOMAIN attached = ModelFields /\ attached.nodes = nodes /\ attached.contracts = model.contracts
      /\ attached.machines = model.machines /\ attached.acts = model.acts
    <2> HIDE DEF n2
    <2>1. attached = [Full EXCEPT !.nodes = nodes]
        BY <1>8, FullFields DEF WithNode
    <2> HIDE DEF attached, nodes
    <2> QED BY <2>1, FullFields DEF ModelFields
<1>10. /\ {"name", "ins", "outs", "imports"} \subseteq DOMAIN d
       /\ d.name = r.contract.name /\ d.ins = n.ins /\ d.outs = n.outs
    <2> HIDE DEF n, old, imports
    <2> QED BY <1>3
<1>11. Put(model.contracts, d, contracts)
    <2>1. CASE old = {}
        <3>1. d = c /\ contracts = Append(model.contracts, d)
            BY <1>9, <2>1
        <3>2. \A j \in DOMAIN model.contracts : model.contracts[j].name # c.name
            BY <2>1, FullFields
        <3> HIDE DEF d, contracts, old
        <3> QED BY <3>1, <3>2 DEF Fields, Put
    <2>2. CASE old # {}
        <3>1. d = kept /\ contracts = Replaced(model.contracts, d)
            BY <1>9, <2>2
        <3> QED BY <3>1 DEF Put
    <2> QED BY <2>1, <2>2
<1>12. /\ DOMAIN m2 = ModelFields /\ m2.nodes = nodes /\ m2.contracts = contracts
       /\ m2.types = model.types /\ m2.consts = model.consts
       /\ m2.machines = model.machines /\ m2.acts = model.acts
    <2>1. m2 = [candidate EXCEPT !.types = model.types, !.consts = model.consts]
        BY <1>2, <1>5 DEF OfFile
    <2> HIDE DEF attached, nodes, contracts, m2
    <2> QED BY <1>9, <2>1 DEF ModelFields
<1>13. n2 = [n EXCEPT !.contract = d.name]
    BY <1>3, <1>10
<1>14. nodes = InPlace(model, x, n2)
    BY DEF InPlace
<1>15. n = Named(model.nodes, x)
    OBVIOUS
<1> HIDE DEF x, n, n2, d, nodes, contracts, m2
<1>16. /\ x \in Fields(model.nodes) /\ {"name", "ins", "outs", "imports"} \subseteq DOMAIN d
       /\ d.name # << >> /\ d.ins = n.ins /\ d.outs = n.outs /\ n.contract \in {<< >>, d.name}
    BY <1>1, <1>4, <1>10
<1>17. Keeps(r, model, typesFile, m2, typesFile)
    BY <1>11, <1>12, <1>13, <1>14, <1>15, <1>16, ContractAttached
<1> QED BY <1>2, <1>17 DEF Kept, m2

LEMMA RemoveContractKeeps ==
    ASSUME IsModel(model), IsTypesFile(typesFile), NEW r, RemoveContract(r)
    PROVE  Kept(r)
<1> DEFINE detached(n) == IF n.contract = r.name THEN [n EXCEPT !.contract = << >>] ELSE n
           nodes == [j \in DOMAIN model.nodes |-> detached(model.nodes[j])]
           contracts == Without(model.contracts, r.name)
           m2 == model'
<1>1. m2 = [model EXCEPT !.contracts = contracts, !.nodes = nodes] /\ typesFile' = typesFile
    BY DEF RemoveContract, Saved
<1>2. /\ DOMAIN model = ModelFields /\ IsTable(model.nodes) /\ IsContracts(model.contracts)
      /\ \A j \in DOMAIN model.nodes : DOMAIN model.nodes[j] = NodeFields
    BY ModelDomain, NodeDomain DEF IsNodes
<1>3. ASSUME NEW a, DOMAIN a = NodeFields
      PROVE  /\ Bound(a, detached(a)) /\ detached(a).name = a.name
             /\ detached(a).ins = a.ins /\ detached(a).outs = a.outs
             /\ IF a.contract = r.name THEN detached(a).contract = << >> ELSE detached(a) = a
    BY <1>3 DEF Bound, NodeFields
<1> HIDE DEF detached
<1>4. /\ DOMAIN nodes = DOMAIN model.nodes /\ nodes = [j \in DOMAIN model.nodes |-> nodes[j]]
      /\ \A j \in DOMAIN model.nodes :
            /\ Bound(model.nodes[j], nodes[j]) /\ nodes[j].name = model.nodes[j].name
            /\ nodes[j].ins = model.nodes[j].ins /\ nodes[j].outs = model.nodes[j].outs
            /\ IF model.nodes[j].contract = r.name THEN nodes[j].contract = << >>
               ELSE nodes[j] = model.nodes[j]
    BY <1>2, <1>3
<1>5. IsTable(model.contracts)
    BY <1>2 DEF IsContracts
<1>6. /\ IsTable(contracts) /\ (Distinct(model.contracts) => Distinct(contracts))
      /\ Fields(contracts) = Fields(model.contracts) \ {r.name}
      /\ \A k \in DOMAIN contracts : \E j \in DOMAIN model.contracts : contracts[k] = model.contracts[j]
    BY <1>5, WithoutTable
<1> HIDE DEF nodes, contracts, m2
<1>7. /\ DOMAIN m2 = ModelFields /\ m2.nodes = nodes /\ m2.contracts = contracts
      /\ m2.types = model.types /\ m2.consts = model.consts
      /\ m2.machines = model.machines /\ m2.acts = model.acts
    BY <1>1, <1>2 DEF ModelFields
<1>8. IsContracts(contracts)
    BY <1>2, <1>6 DEF IsContracts
<1>9. Rebound(model, typesFile, m2)
    <2>1. \A j \in DOMAIN model.nodes : \E i \in DOMAIN model.nodes : Bound(model.nodes[i], nodes[j])
        BY <1>4
    <2> QED BY <1>4, <1>6, <1>7, <1>8, <2>1, NodesRebound
<1>10. ASSUME Once(model, typesFile), InStep(model) PROVE InStep(m2)
    <2>1. Distinct(model.nodes) /\ Distinct(nodes) /\ IsTable(nodes)
        BY <1>7, <1>9, <1>10, ModelDomain DEF Rebound, Once, IsNodes
    <2>2. InStepBut(model, {})
        BY <1>2, <1>10, <2>1, InStepByIndex
    <2>3. InStepBut(m2, {})
        <3> SUFFICES ASSUME NEW k \in DOMAIN m2.contracts, NEW i \in DOMAIN m2.nodes, Sole(m2, k, i)
                     PROVE  m2.contracts[k].ins = m2.nodes[i].ins /\ m2.contracts[k].outs = m2.nodes[i].outs
            BY DEF InStepBut
        <3>0. k \in DOMAIN contracts /\ i \in DOMAIN nodes /\ i \in DOMAIN model.nodes
            BY <1>4, <1>7
        <3>1. /\ nodes[i].contract = contracts[k].name
              /\ \A j \in DOMAIN nodes : nodes[j].contract = contracts[k].name => j = i
            BY <1>7 DEF Sole
        <3>2. PICK l \in DOMAIN model.contracts : contracts[k] = model.contracts[l]
            BY <1>6, <3>0
        <3>3. model.contracts[l].name # r.name /\ model.contracts[l].name # << >>
            <4>1. contracts[k].name \in Fields(contracts)
                BY <3>0 DEF Fields
            <4> QED BY <1>2, <1>6, <3>2, <4>1 DEF IsContracts
        <3>4. model.nodes[i].contract = model.contracts[l].name
            BY <1>4, <3>0, <3>1, <3>2, <3>3
        <3>5. ASSUME NEW j \in DOMAIN model.nodes, model.nodes[j].contract = model.contracts[l].name
              PROVE  j = i
            <4>1. nodes[j] = model.nodes[j] /\ j \in DOMAIN nodes
                BY <1>4, <3>3, <3>5
            <4> QED BY <3>1, <3>2, <3>5, <4>1
        <3>6. Sole(model, l, i)
            BY <3>4, <3>5 DEF Sole
        <3>7. model.contracts[l].ins = model.nodes[i].ins /\ model.contracts[l].outs = model.nodes[i].outs
            BY <2>2, <3>0, <3>6 DEF InStepBut
        <3> QED BY <1>4, <1>7, <3>0, <3>2, <3>7
    <2> QED BY <1>7, <2>1, <2>3, InStepByIndex
<1>11. Keeps(r, model, typesFile, m2, typesFile)
    BY <1>9, <1>10 DEF Keeps, Rebound
<1> QED BY <1>1, <1>11 DEF Kept, m2

-------------------------------------------------------------------------------
(* Types and constants, of two files.                                      *)
LEMMA TablesJoined ==
    ASSUME NEW a, IsTable(a), NEW b, IsTable(b), NEW c, IsTable(c),
           Distinct(a \o b), Distinct(c), Fields(c) \cap Fields(a \o b) = {}
    PROVE  Distinct(a \o (b \o c))
<1>1. /\ Distinct(a) /\ Distinct(b) /\ Fields(a) \cap Fields(b) = {}
      /\ Fields(a \o b) = Fields(a) \cup Fields(b)
    BY ConcatTable
<1> DEFINE bc == b \o c
<1>2. IsTable(bc) /\ Fields(bc) = Fields(b) \cup Fields(c) /\ Distinct(bc)
    BY <1>1, ConcatTable
<1> HIDE DEF bc
<1>3. Distinct(a \o bc)
    BY <1>1, <1>2, ConcatTable
<1> QED BY <1>3 DEF bc

LEMMA TablesLess ==
    ASSUME NEW a, IsTable(a), NEW b, IsTable(b), NEW x, Distinct(a \o b)
    PROVE  Distinct(a \o Without(b, x)) /\ Distinct(Without(a, x) \o b)
<1>1. Distinct(a) /\ Distinct(b) /\ Fields(a) \cap Fields(b) = {}
    BY ConcatTable
<1> DEFINE a2 == Without(a, x)
           b2 == Without(b, x)
<1>2. /\ IsTable(a2) /\ Fields(a2) = Fields(a) \ {x} /\ Distinct(a2)
      /\ IsTable(b2) /\ Fields(b2) = Fields(b) \ {x} /\ Distinct(b2)
    BY <1>1, WithoutTable
<1> HIDE DEF a2, b2
<1>3. Distinct(a \o b2) /\ Distinct(a2 \o b)
    BY <1>1, <1>2, ConcatTable
<1> QED BY <1>3 DEF a2, b2

LEMMA TypesJoined ==
    ASSUME NEW a, IsTypes(a), NEW b, IsTypes(b)
    PROVE  IsTypes(a \o b) /\ (FieldsApart(a) /\ FieldsApart(b) => FieldsApart(a \o b))
<1>1. IsTable(a) /\ IsTable(b) /\ IsSeq(a) /\ IsSeq(b)
    BY DEF IsTypes, IsTable
<1> DEFINE c == a \o b
<1>2. IsTable(c)
    BY <1>1, ConcatTable
<1>3. ASSUME NEW k \in DOMAIN c
      PROVE  (\E j \in DOMAIN a : c[k] = a[j]) \/ (\E j \in DOMAIN b : c[k] = b[j])
    BY <1>1, ConcatParts
<1> HIDE DEF c
<1>4. IsTypes(c)
    BY <1>2, <1>3 DEF IsTypes
<1>5. FieldsApart(a) /\ FieldsApart(b) => FieldsApart(c)
    BY <1>3 DEF FieldsApart
<1> QED BY <1>4, <1>5 DEF c

LEMMA TypesLess ==
    ASSUME NEW a, IsTypes(a), NEW x
    PROVE  IsTypes(Without(a, x)) /\ (FieldsApart(a) => FieldsApart(Without(a, x)))
<1> DEFINE c == Without(a, x)
<1>1. IsTable(c) /\ \A k \in DOMAIN c : \E j \in DOMAIN a : c[k] = a[j]
    BY WithoutTable DEF IsTypes
<1> HIDE DEF c
<1>2. IsTypes(c)
    BY <1>1 DEF IsTypes
<1>3. FieldsApart(a) => FieldsApart(c)
    BY <1>1 DEF FieldsApart
<1> QED BY <1>2, <1>3 DEF c

(* An edit of the types and constants of the two files.                    *)
LEMMA TablesKeep ==
    ASSUME IsModel(model), IsTypesFile(typesFile), NEW r,
           DOMAIN model' = ModelFields, model'.nodes = model.nodes,
           model'.contracts = model.contracts, model'.machines = model.machines,
           model'.acts = model.acts,
           IsTypes(model'.types), IsTable(model'.consts), IsTypesFile(typesFile'),
           Distinct(model.types \o typesFile.types) => Distinct(model'.types \o typesFile'.types),
           Distinct(model.consts \o typesFile.consts) => Distinct(model'.consts \o typesFile'.consts),
           FieldsApart(model.types) /\ FieldsApart(typesFile.types) /\ RequestApart(r)
               => FieldsApart(model'.types) /\ FieldsApart(typesFile'.types)
    PROVE  Kept(r)
<1>1. IsModel(model')
    BY ModelDomain
<1>2. Once(model, typesFile) => Once(model', typesFile')
    BY DEF Once
<1>3. Laid(model, typesFile) /\ RequestApart(r) => Laid(model', typesFile')
    BY DEF Laid
<1>4. InStep(model) => InStep(model')
    BY DEF InStep
<1> QED BY <1>1, <1>2, <1>3, <1>4 DEF Kept, Keeps

LEMMA FileFacts ==
    ASSUME IsModel(model), IsTypesFile(typesFile)
    PROVE  /\ DOMAIN model = ModelFields /\ DOMAIN typesFile = {"types", "consts"}
           /\ IsTypes(model.types) /\ IsTable(model.types) /\ IsTable(model.consts)
           /\ IsTypes(typesFile.types) /\ IsTable(typesFile.types) /\ IsTable(typesFile.consts)
           /\ IsSeq(typesFile.types) /\ IsSeq(typesFile.consts)
BY ModelDomain DEF IsTypesFile, IsTypes, IsTable

LEMMA AddTypeKeeps ==
    ASSUME IsModel(model), IsTypesFile(typesFile), NEW r, IsRequest(r), r.edit = "add type", AddType(r)
    PROVE  Kept(r)
<1> DEFINE d == r.type
           new == <<d>>
           types == typesFile.types \o new
           t2 == typesFile'
<1>1. /\ IsTypes(new) /\ (RequestApart(r) => FieldsApart(new))
      /\ d.name \notin Fields(Full.types)
      /\ t2 = [typesFile EXCEPT !.types = Append(typesFile.types, d)] /\ model' = model
    BY DEF AddType, IsRequest, RequestApart, LoadedTypes
<1>2. IsSeq(new) /\ DOMAIN new = {1} /\ new[1] = d
    BY OneSeq
<1> HIDE DEF d, t2
<1>3. Append(typesFile.types, d) = types
    BY FileFacts, AppendOne
<1> HIDE DEF new
<1>4. IsTable(new) /\ Distinct(new) /\ Fields(new) = {d.name}
    BY <1>1, <1>2 DEF IsTypes, Distinct, Fields
<1>5. Distinct(model.types \o typesFile.types) => Distinct(model.types \o types)
    <2>1. Fields(new) \cap Fields(model.types \o typesFile.types) = {}
        BY <1>1, <1>4, FullFields
    <2> QED BY <1>4, <2>1, FileFacts, TablesJoined
<1>6. IsTypes(types) /\ (FieldsApart(typesFile.types) /\ FieldsApart(new) => FieldsApart(types))
    BY <1>1, FileFacts, TypesJoined
<1> HIDE DEF types
<1>7. DOMAIN t2 = {"types", "consts"} /\ t2.types = types /\ t2.consts = typesFile.consts
    BY <1>1, <1>3, FileFacts
<1>8. IsTypesFile(t2)
    BY <1>6, <1>7, FileFacts DEF IsTypesFile
<1> QED BY <1>1, <1>5, <1>6, <1>7, <1>8, FileFacts, TablesKeep DEF t2

LEMMA RemoveTypeKeeps ==
    ASSUME IsModel(model), IsTypesFile(typesFile), NEW r, RemoveType(r)
    PROVE  Kept(r)
<1>1. CASE typesFile' = [typesFile EXCEPT !.types = Without(@, r.type)] /\ model' = model
    <2> DEFINE types == Without(typesFile.types, r.type)
    <2>1. IsTypes(types) /\ (FieldsApart(typesFile.types) => FieldsApart(types))
        BY FileFacts, TypesLess
    <2>2. Distinct(model.types \o typesFile.types) => Distinct(model.types \o types)
        BY FileFacts, TablesLess
    <2>3. typesFile' = [typesFile EXCEPT !.types = types]
        BY <1>1
    <2> HIDE DEF types
    <2>4. /\ DOMAIN typesFile' = {"types", "consts"} /\ typesFile'.types = types
          /\ typesFile'.consts = typesFile.consts
        BY <2>3, FileFacts
    <2>5. IsTypesFile(typesFile')
        BY <2>1, <2>4, FileFacts DEF IsTypesFile
    <2> QED BY <1>1, <2>1, <2>2, <2>4, <2>5, FileFacts, TablesKeep
<1>2. CASE Saved([model EXCEPT !.types = Without(@, r.type)])
    <2> DEFINE types == Without(model.types, r.type)
    <2>1. IsTypes(types) /\ (FieldsApart(model.types) => FieldsApart(types))
        BY FileFacts, TypesLess
    <2>2. Distinct(model.types \o typesFile.types) => Distinct(types \o typesFile.types)
        BY FileFacts, TablesLess
    <2>3. model' = [model EXCEPT !.types = types] /\ typesFile' = typesFile
        BY <1>2 DEF Saved
    <2> HIDE DEF types
    <2>4. /\ DOMAIN model' = ModelFields /\ model'.types = types /\ model'.consts = model.consts
          /\ model'.nodes = model.nodes /\ model'.contracts = model.contracts
          /\ model'.machines = model.machines /\ model'.acts = model.acts
        BY <2>3, FileFacts DEF ModelFields
    <2> QED BY <2>1, <2>2, <2>3, <2>4, FileFacts, TablesKeep
<1> QED BY <1>1, <1>2 DEF RemoveType

LEMMA AddConstantKeeps ==
    ASSUME IsModel(model), IsTypesFile(typesFile), NEW r, IsRequest(r), r.edit = "add constant",
           AddConstant(r)
    PROVE  Kept(r)
<1> DEFINE d == r.const
           new == <<d>>
           consts == typesFile.consts \o new
           t2 == typesFile'
<1>1. /\ "name" \in DOMAIN d /\ d.name \notin Fields(Full.consts)
      /\ t2 = [typesFile EXCEPT !.consts = Append(typesFile.consts, d)] /\ model' = model
    BY DEF AddConstant, IsRequest
<1>2. IsSeq(new) /\ DOMAIN new = {1} /\ new[1] = d
    BY OneSeq
<1> HIDE DEF d, t2
<1>3. Append(typesFile.consts, d) = consts
    BY FileFacts, AppendOne
<1> HIDE DEF new
<1>4. IsTable(new) /\ Distinct(new) /\ Fields(new) = {d.name}
    BY <1>1, <1>2 DEF IsTable, Distinct, Fields
<1>5. Distinct(model.consts \o typesFile.consts) => Distinct(model.consts \o consts)
    <2>1. Fields(new) \cap Fields(model.consts \o typesFile.consts) = {}
        BY <1>1, <1>4, FullFields
    <2> QED BY <1>4, <2>1, FileFacts, TablesJoined
<1>6. IsTable(consts)
    BY <1>4, FileFacts, ConcatTable
<1> HIDE DEF consts
<1>7. DOMAIN t2 = {"types", "consts"} /\ t2.consts = consts /\ t2.types = typesFile.types
    BY <1>1, <1>3, FileFacts
<1>8. IsTypesFile(t2)
    BY <1>6, <1>7, FileFacts DEF IsTypesFile
<1> QED BY <1>1, <1>5, <1>7, <1>8, FileFacts, TablesKeep DEF t2

LEMMA RemoveConstantKeeps ==
    ASSUME IsModel(model), IsTypesFile(typesFile), NEW r, RemoveConstant(r)
    PROVE  Kept(r)
<1>1. CASE typesFile' = [typesFile EXCEPT !.consts = Without(@, r.name)] /\ model' = model
    <2> DEFINE consts == Without(typesFile.consts, r.name)
    <2>1. IsTable(consts)
        BY FileFacts, WithoutTable
    <2>2. Distinct(model.consts \o typesFile.consts) => Distinct(model.consts \o consts)
        BY FileFacts, TablesLess
    <2>3. typesFile' = [typesFile EXCEPT !.consts = consts]
        BY <1>1
    <2> HIDE DEF consts
    <2>4. /\ DOMAIN typesFile' = {"types", "consts"} /\ typesFile'.consts = consts
          /\ typesFile'.types = typesFile.types
        BY <2>3, FileFacts
    <2>5. IsTypesFile(typesFile')
        BY <2>1, <2>4, FileFacts DEF IsTypesFile
    <2> QED BY <1>1, <2>2, <2>4, <2>5, FileFacts, TablesKeep
<1>2. CASE Saved([model EXCEPT !.consts = Without(@, r.name)])
    <2> DEFINE consts == Without(model.consts, r.name)
    <2>1. IsTable(consts)
        BY FileFacts, WithoutTable
    <2>2. Distinct(model.consts \o typesFile.consts) => Distinct(consts \o typesFile.consts)
        BY FileFacts, TablesLess
    <2>3. model' = [model EXCEPT !.consts = consts] /\ typesFile' = typesFile
        BY <1>2 DEF Saved
    <2> HIDE DEF consts
    <2>4. /\ DOMAIN model' = ModelFields /\ model'.consts = consts /\ model'.types = model.types
          /\ model'.nodes = model.nodes /\ model'.contracts = model.contracts
          /\ model'.machines = model.machines /\ model'.acts = model.acts
        BY <2>3, FileFacts DEF ModelFields
    <2> QED BY <2>1, <2>2, <2>3, <2>4, FileFacts, TablesKeep
<1> QED BY <1>1, <1>2 DEF RemoveConstant

LEMMA ImportLustreKeeps ==
    ASSUME IsModel(model), IsTypesFile(typesFile), NEW r, IsRequest(r), r.edit = "import lustre",
           ImportLustre(r)
    PROVE  Kept(r)
<1> DEFINE types == typesFile.types \o r.types
           consts == typesFile.consts \o r.consts
           t2 == typesFile'
           m2 == model'
<1>1. /\ m2 = [model EXCEPT !.nodes = model.nodes \o r.nodes]
      /\ t2 = [types |-> types, consts |-> consts]
      /\ Fields(r.nodes) \cap Fields(Full.nodes) = {}
      /\ Fields(r.types) \cap Fields(Full.types) = {}
      /\ Fields(r.consts) \cap Fields(Full.consts) = {}
    BY DEF ImportLustre, LoadedTypes
<1>2. /\ IsNodes(r.nodes) /\ IsTypes(r.types) /\ IsTable(r.consts) /\ IsTable(r.types)
      /\ \A j \in DOMAIN r.nodes : Bare(r.nodes[j])
    BY DEF IsRequest, IsTypes
<1>3. IsTypes(types) /\ (FieldsApart(typesFile.types) /\ FieldsApart(r.types) => FieldsApart(types))
    BY <1>2, FileFacts, TypesJoined
<1>4. IsTable(consts)
    BY <1>2, FileFacts, ConcatTable
<1>5. Distinct(model.types \o typesFile.types) /\ Distinct(r.types) => Distinct(model.types \o types)
    <2>1. Fields(r.types) \cap Fields(model.types \o typesFile.types) = {}
        BY <1>1, FullFields
    <2> QED BY <1>2, <2>1, FileFacts, TablesJoined
<1>6. Distinct(model.consts \o typesFile.consts) /\ Distinct(r.consts) => Distinct(model.consts \o consts)
    <2>1. Fields(r.consts) \cap Fields(model.consts \o typesFile.consts) = {}
        BY <1>1, FullFields
    <2> QED BY <1>2, <2>1, FileFacts, TablesJoined
<1> HIDE DEF types, consts, t2, m2
<1>7. DOMAIN t2 = {"types", "consts"} /\ t2.types = types /\ t2.consts = consts
    BY <1>1
<1>8. IsTypesFile(t2)
    BY <1>3, <1>4, <1>7 DEF IsTypesFile
<1>9. NodesJoined(model, r.nodes, m2)
    BY <1>1, <1>2, NodesAdded
<1>10. Fields(r.nodes) \cap Fields(model.nodes) = {}
    BY <1>1, FullFields
<1>11. ASSUME RequestOnce(r), Once(model, typesFile) PROVE Once(m2, t2)
    <2>1. /\ Distinct(r.nodes) /\ (\A k \in DOMAIN r.nodes : VarsOnce(r.nodes[k]))
          /\ Distinct(r.types) /\ Distinct(r.consts)
        BY <1>11 DEF RequestOnce
    <2>2. Distinct(m2.nodes)
        BY <1>9, <1>10, <1>11, <2>1 DEF NodesJoined, Once
    <2>3. \A k \in DOMAIN m2.nodes : VarsOnce(m2.nodes[k])
        BY <1>9, <1>11, <2>1 DEF NodesJoined, Once
    <2>4. Distinct(m2.types \o t2.types) /\ Distinct(m2.consts \o t2.consts)
        BY <1>5, <1>6, <1>7, <1>9, <1>11, <2>1 DEF NodesJoined, Once
    <2> QED BY <1>9, <1>11, <2>2, <2>3, <2>4 DEF NodesJoined, Once
<1>12. ASSUME RequestApart(r), Laid(model, typesFile) PROVE Laid(m2, t2)
    <2>1. /\ FieldsApart(r.types) /\ \A k \in DOMAIN r.nodes : VarsApart(r.nodes[k])
        BY <1>12 DEF RequestApart
    <2>2. \A k \in DOMAIN r.nodes : Follows(r.nodes[k])
        BY <1>2, EmptyTable DEF Bare, Follows
    <2>3. \A k \in DOMAIN m2.nodes : VarsApart(m2.nodes[k]) /\ Follows(m2.nodes[k])
        BY <1>9, <1>12, <2>1, <2>2 DEF NodesJoined, Laid
    <2>4. FieldsApart(m2.types) /\ FieldsApart(t2.types)
        BY <1>3, <1>7, <1>9, <1>12, <2>1 DEF NodesJoined, Laid
    <2> QED BY <2>3, <2>4 DEF Laid
<1>13. ASSUME RequestOnce(r), Once(model, typesFile), InStep(model) PROVE InStep(m2)
    <2>1. Distinct(model.nodes) /\ Distinct(m2.nodes)
        BY <1>11, <1>13 DEF Once
    <2> QED BY <1>9, <1>13, <2>1 DEF NodesJoined
<1>14. IsModel(m2)
    BY <1>9 DEF NodesJoined
<1>15. Keeps(r, model, typesFile, m2, t2)
    BY <1>8, <1>11, <1>12, <1>13, <1>14 DEF Keeps
<1> QED BY <1>15 DEF Kept, m2, t2

-------------------------------------------------------------------------------
(* A step grants one request, and does to the two files what it asks for.  *)
Shape ==
    /\ left \in 0 .. MaxEdits
    /\ IsModel(model) /\ IsTypesFile(typesFile)
    /\ \E s \in Sessions : requests = s.requests

Serves(j) == j \in DOMAIN requests /\ Granted(j) /\ Kept(requests[j])

LEMMA OperatorsServe ==
    ASSUME IsModel(model), IsTypesFile(typesFile),
           \A j \in DOMAIN requests : IsRequest(requests[j]), EditOperators
    PROVE  \E j : Serves(j)
<1>1. CASE \E j \in Asked("add node") : Granted(j) /\ AddNode(requests[j])
    BY <1>1, AddNodeKeeps DEF Asked, Serves
<1>2. CASE \E j \in Asked("add port") : Granted(j) /\ AddPort(requests[j])
    BY <1>2, AddPortKeeps DEF Asked, Serves
<1>3. CASE \E j \in Asked("add local") : Granted(j) /\ AddLocal(requests[j])
    BY <1>3, AddLocalKeeps DEF Asked, Serves
<1>4. CASE \E j \in Asked("update port") : Granted(j) /\ UpdatePort(requests[j])
    BY <1>4, UpdatePortKeeps DEF Asked, Serves
<1>5. CASE \E j \in Asked("remove port") : Granted(j) /\ RemovePort(requests[j])
    BY <1>5, RemovePortKeeps DEF Asked, Serves
<1>6. CASE \E j \in Asked("add equation") : Granted(j) /\ AddEquation(requests[j])
    BY <1>6, AddEquationKeeps DEF Asked, Serves
<1>7. CASE \E j \in Asked("update equation") : Granted(j) /\ UpdateEquation(requests[j])
    BY <1>7, UpdateEquationKeeps DEF Asked, Serves
<1>8. CASE \E j \in Asked("remove equation") : Granted(j) /\ RemoveEquation(requests[j])
    BY <1>8, RemoveEquationKeeps DEF Asked, Serves
<1>9. CASE \E j \in Asked("set layout") : Granted(j) /\ SetLayout(requests[j])
    BY <1>9, SetLayoutKeeps DEF Asked, Serves
<1>10. CASE \E j \in Asked("add probe") : Granted(j) /\ AddProbe(requests[j])
    BY <1>10, ProbesKeep DEF Asked, Serves
<1>11. CASE \E j \in Asked("remove probe") : Granted(j) /\ RemoveProbe(requests[j])
    BY <1>11, ProbesKeep DEF Asked, Serves
<1>12. CASE \E j \in Asked("set main") : Granted(j) /\ SetMain(requests[j])
    BY <1>12, SetMainKeeps DEF Asked, Serves
<1> QED BY <1>1, <1>2, <1>3, <1>4, <1>5, <1>6, <1>7, <1>8, <1>9, <1>10, <1>11, <1>12
        DEF EditOperators

LEMMA DropsServe ==
    ASSUME IsModel(model), IsTypesFile(typesFile), DropBlocks
    PROVE  \E j : Serves(j)
<1>1. CASE \E j \in Asked("add block call") : Granted(j) /\ AddBlockCall(requests[j])
    BY <1>1, AddBlockCallKeeps DEF Asked, Serves
<1>2. CASE \E j \in Asked("add operation") : Granted(j) /\ AddOperation(requests[j])
    BY <1>2, AddOperationKeeps DEF Asked, Serves
<1>3. CASE \E j \in Asked("add iterator") : Granted(j) /\ AddIterator(requests[j])
    BY <1>3, AddIteratorKeeps DEF Asked, Serves
<1>4. CASE \E j \in Asked("add type op") : Granted(j) /\ AddTypeOp(requests[j])
    BY <1>4, AddTypeOpKeeps DEF Asked, Serves
<1>5. CASE \E j \in Asked("add expression") : Granted(j) /\ AddExpression(requests[j])
    BY <1>5, AddExpressionKeeps DEF Asked, Serves
<1>6. CASE \E j \in Asked("set operation inputs") : Granted(j) /\ SetOperationInputs(requests[j])
    BY <1>6, SetOperationInputsKeeps DEF Asked, Serves
<1> QED BY <1>1, <1>2, <1>3, <1>4, <1>5, <1>6 DEF DropBlocks

LEMMA ConstructsServe ==
    ASSUME IsModel(model), IsTypesFile(typesFile),
           \A j \in DOMAIN requests : IsRequest(requests[j]), EditConstructs
    PROVE  \E j : Serves(j)
<1>1. CASE \E j \in UNION {Asked(edit) : edit \in Construct} : Granted(j) /\ SaveConstruct(requests[j])
    BY <1>1, SaveConstructKeeps DEF Asked, Serves
<1>2. CASE \E j \in Asked("set fsm layout") : Granted(j) /\ SetFsmLayout(requests[j])
    BY <1>2, SetFsmLayoutKeeps DEF Asked, Serves
<1>3. CASE \E j \in Asked("remove machine") : Granted(j) /\ RemoveStateMachine(requests[j])
    BY <1>3, RemoveStateMachineKeeps DEF Asked, Serves
<1>4. CASE \E j \in Asked("remove activation") : Granted(j) /\ RemoveActivation(requests[j])
    BY <1>4, RemoveActivationKeeps DEF Asked, Serves
<1>5. CASE \E j \in Asked("add contract") \cup Asked("update contract") :
              Granted(j) /\ EditContract(requests[j])
    BY <1>5, EditContractKeeps DEF Asked, Serves
<1>6. CASE \E j \in Asked("remove contract") : Granted(j) /\ RemoveContract(requests[j])
    BY <1>6, RemoveContractKeeps DEF Asked, Serves
<1> QED BY <1>1, <1>2, <1>3, <1>4, <1>5, <1>6 DEF EditConstructs

LEMMA TypesServe ==
    ASSUME IsModel(model), IsTypesFile(typesFile),
           \A j \in DOMAIN requests : IsRequest(requests[j]), EditTypes
    PROVE  \E j : Serves(j)
<1>1. CASE \E j \in Asked("add type") : Granted(j) /\ AddType(requests[j])
    BY <1>1, AddTypeKeeps DEF Asked, Serves
<1>2. CASE \E j \in Asked("remove type") : Granted(j) /\ RemoveType(requests[j])
    BY <1>2, RemoveTypeKeeps DEF Asked, Serves
<1>3. CASE \E j \in Asked("add constant") : Granted(j) /\ AddConstant(requests[j])
    BY <1>3, AddConstantKeeps DEF Asked, Serves
<1>4. CASE \E j \in Asked("remove constant") : Granted(j) /\ RemoveConstant(requests[j])
    BY <1>4, RemoveConstantKeeps DEF Asked, Serves
<1>5. CASE \E j \in Asked("import lustre") : Granted(j) /\ ImportLustre(requests[j])
    BY <1>5, ImportLustreKeeps DEF Asked, Serves
<1> QED BY <1>1, <1>2, <1>3, <1>4, <1>5 DEF EditTypes

(* Every step is a request served, or leaves all as it is.                 *)
LEMMA StepServes ==
    ASSUME Shape, [Next]_vars
    PROVE  /\ Shape'
           /\ \/ model' = model /\ typesFile' = typesFile
              \/ \E s \in Sessions : \E j \in DOMAIN s.requests :
                    Keeps(s.requests[j], model, typesFile, model', typesFile')
<1>1. CASE UNCHANGED vars
    BY <1>1 DEF Shape, vars
<1>2. CASE Next
    <2>1. PICK s \in Sessions : requests = s.requests
        BY DEF Shape
    <2>2. \A j \in DOMAIN requests : IsRequest(requests[j])
        BY <2>1, SessionsAssumption
    <2>3. IsModel(model) /\ IsTypesFile(typesFile)
        BY DEF Shape
    <2>4. PICK j : Serves(j)
        BY <1>2, <2>2, <2>3, OperatorsServe, DropsServe, ConstructsServe, TypesServe DEF Next
    <2>5. IsModel(model') /\ IsTypesFile(typesFile')
        BY <2>4 DEF Serves, Kept, Keeps
    <2>6. left' \in 0 .. MaxEdits /\ requests' = s.requests
        BY <2>1, <2>4, SessionsAssumption DEF Serves, Granted, Shape
    <2>7. Shape'
        BY <2>1, <2>5, <2>6 DEF Shape
    <2> QED BY <2>1, <2>4, <2>7 DEF Serves, Kept
<1> QED BY <1>1, <1>2

LEMMA ShapeHolds ==
    Spec => []Shape
<1>1. Init => Shape
    BY SessionsAssumption DEF Init, Shape
<1>2. Shape /\ [Next]_vars => Shape'
    BY StepServes
<1> QED BY <1>1, <1>2, PTL DEF Spec
-------------------------------------------------------------------------------
(* Whatever sessions there are, as long as what they begin with and what   *)
(* they import has no name twice, both files stay well formed and no name  *)
(* of a definition, nor of a variable in an operator, comes to be twice.   *)
THEOREM TypeCorrect ==
    ASSUME NamesGivenOnce
    PROVE  Spec => []TypeOK
<1> DEFINE Inv == Shape /\ Once(model, typesFile)
<1>1. Init => Inv
    <2> SUFFICES ASSUME Init PROVE Inv
        OBVIOUS
    <2>1. PICK s \in Sessions : model = s.model /\ typesFile = s.typesFile /\ requests = s.requests /\ left = MaxEdits
        BY DEF Init
    <2>2. Shape
        BY <2>1, SessionsAssumption DEF Shape
    <2> QED BY <2>1, <2>2 DEF NamesGivenOnce
<1>2. Inv /\ [Next]_vars => Inv'
    <2> SUFFICES ASSUME Inv, [Next]_vars PROVE Inv'
        OBVIOUS
    <2>1. /\ Shape'
          /\ \/ model' = model /\ typesFile' = typesFile
             \/ \E s \in Sessions : \E j \in DOMAIN s.requests :
                   Keeps(s.requests[j], model, typesFile, model', typesFile')
        BY StepServes
    <2>2. \A s \in Sessions : \A j \in DOMAIN s.requests : RequestOnce(s.requests[j])
        BY DEF NamesGivenOnce
    <2>3. Once(model', typesFile')
        BY <2>1, <2>2 DEF Keeps
    <2> QED BY <2>1, <2>3
<1>3. Inv => TypeOK
    BY DEF Shape, TypeOK
<1> QED BY <1>1, <1>2, <1>3, PTL DEF Spec

(* No sequence of edits leaves in an operator's layout an equation's place *)
(* to another equation, or the place of something that is not there, as    *)
(* long as no variable is given an equation's key for a name.              *)
THEOREM LayoutFollowsEdits ==
    ASSUME LayoutsGiven, KeysApart
    PROVE  Spec => []LayoutFollows
<1> DEFINE Inv == Shape /\ Laid(model, typesFile)
<1>1. Init => Inv
    <2> SUFFICES ASSUME Init PROVE Inv
        OBVIOUS
    <2>1. PICK s \in Sessions : model = s.model /\ typesFile = s.typesFile /\ requests = s.requests /\ left = MaxEdits
        BY DEF Init
    <2>2. Shape
        BY <2>1, SessionsAssumption DEF Shape
    <2>3. Laid(s.model, s.typesFile)
        BY DEF LayoutsGiven, KeysApart, Laid
    <2> QED BY <2>1, <2>2, <2>3
<1>2. Inv /\ [Next]_vars => Inv'
    <2> SUFFICES ASSUME Inv, [Next]_vars PROVE Inv'
        OBVIOUS
    <2>1. /\ Shape'
          /\ \/ model' = model /\ typesFile' = typesFile
             \/ \E s \in Sessions : \E j \in DOMAIN s.requests :
                   Keeps(s.requests[j], model, typesFile, model', typesFile')
        BY StepServes
    <2>2. \A s \in Sessions : \A j \in DOMAIN s.requests : RequestApart(s.requests[j])
        BY DEF KeysApart
    <2>3. Laid(model', typesFile')
        BY <2>1, <2>2 DEF Keeps
    <2> QED BY <2>1, <2>3
<1>3. Inv => LayoutFollows
    BY DEF Laid, LayoutFollows, ToSet
<1> QED BY <1>1, <1>2, <1>3, PTL DEF Spec

(* A contract that one operator has keeps that operator's inputs and       *)
(* outputs through every edit of the ports, the contracts and what is      *)
(* imported; two operators of one name would not do.                       *)
THEOREM ContractsAreInStep ==
    ASSUME NamesGivenOnce, ContractsGiven
    PROVE  Spec => []ContractInStep
<1> DEFINE Inv == Shape /\ Once(model, typesFile) /\ InStep(model)
<1>1. Init => Inv
    <2> SUFFICES ASSUME Init PROVE Inv
        OBVIOUS
    <2>1. PICK s \in Sessions : model = s.model /\ typesFile = s.typesFile /\ requests = s.requests /\ left = MaxEdits
        BY DEF Init
    <2>2. Shape
        BY <2>1, SessionsAssumption DEF Shape
    <2> QED BY <2>1, <2>2 DEF NamesGivenOnce, ContractsGiven
<1>2. Inv /\ [Next]_vars => Inv'
    <2> SUFFICES ASSUME Inv, [Next]_vars PROVE Inv'
        OBVIOUS
    <2>1. /\ Shape'
          /\ \/ model' = model /\ typesFile' = typesFile
             \/ \E s \in Sessions : \E j \in DOMAIN s.requests :
                   Keeps(s.requests[j], model, typesFile, model', typesFile')
        BY StepServes
    <2>2. \A s \in Sessions : \A j \in DOMAIN s.requests : RequestOnce(s.requests[j])
        BY DEF NamesGivenOnce
    <2>3. Once(model', typesFile') /\ InStep(model')
        BY <2>1, <2>2 DEF Keeps
    <2> QED BY <2>1, <2>3
<1>3. Inv => ContractInStep
    BY DEF ContractInStep
<1> QED BY <1>1, <1>2, <1>3, PTL DEF Spec
===============================================================================
