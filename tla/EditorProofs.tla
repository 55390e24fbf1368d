------------------------------ MODULE EditorProofs ------------------------------
(***************************************************************************)
(* With one editing thread, and any number of requests of the dock beside  *)
(* it, the server's files and journal are the Editor: an edit, an undo and *)
(* a redo happen at once and go along one line of contents.                *)
(*                                                                         *)
(* A request of that thread is at a place n of its handler.  ReadAt is the *)
(* place where a handler reads the files for its snapshot and WriteAt the  *)
(* first at which it writes one; between the two the snapshot is what the  *)
(* files hold, and after WriteAt it is what the Editor still shows.        *)
(***************************************************************************)
EXTENDS StudioServerProofs

\* One thread edits.  With two the code is no such editor.
OneEditor == Editors = {Editing}

DockOps == {"start", "step", "stop", "c_on", "c_off"}

\* The next step of a handler with the steps s left.
Place(s, l) == Len(Steps[l.op]) - Len(s) + 1

\* s is what is left of its handler.
Follows(s, l) ==
  s # << >> => /\ l.op \in DOMAIN Steps
               /\ Len(s) <= Len(Steps[l.op])
               /\ \A k \in 1 .. Len(s) : s[k] = Steps[l.op][Place(s, l) - 1 + k]

ReadAt ==
  [ edit |-> 4, insert |-> 3, declare |-> 9, remove |-> 6, import |-> 7, build |-> 7,
    undo |-> 4, redo |-> 4 ]
WriteAt ==
  [ edit |-> 6, insert |-> 7, declare |-> 11, remove |-> 7, import |-> 12, build |-> 11,
    undo |-> 6, redo |-> 6 ]

\* The place after which the path is one of the open document's.
PathAt ==
  [ edit |-> 1, insert |-> 4, declare |-> 1, remove |-> 3, import |-> 1, build |-> 1, save |-> 1 ]

\* Where a step of an editing handler is.
Places ==
  [ model_path |-> {<<"edit", 2>>, <<"insert", 1>>, <<"declare", 7>>, <<"remove", 2>>, <<"remove", 4>>,
                    <<"import", 5>>, <<"build", 5>>, <<"undo", 2>>, <<"redo", 2>>},
    types_path |-> {<<"edit", 3>>, <<"insert", 2>>, <<"declare", 5>>, <<"declare", 8>>,
                    <<"remove", 1>>, <<"remove", 5>>, <<"import", 6>>, <<"import", 8>>,
                    <<"build", 6>>, <<"undo", 3>>, <<"redo", 3>>},
    read |-> {<<"edit", 4>>, <<"insert", 3>>, <<"declare", 9>>, <<"remove", 6>>, <<"import", 7>>,
              <<"build", 7>>, <<"undo", 4>>, <<"redo", 4>>},
    path |-> {<<"edit", 1>>, <<"insert", 4>>, <<"insert", 6>>, <<"import", 9>>, <<"import", 11>>,
              <<"build", 8>>, <<"build", 10>>, <<"save", 1>>, <<"save", 3>>},
    types_target |-> {<<"declare", 6>>, <<"import", 13>>},
    load_raw |-> {<<"edit", 5>>, <<"insert", 5>>, <<"declare", 10>>, <<"import", 10>>,
                  <<"import", 14>>, <<"build", 9>>, <<"save", 2>>},
    save |-> {<<"edit", 6>>, <<"insert", 7>>, <<"declare", 11>>, <<"remove", 7>>, <<"import", 12>>,
              <<"import", 15>>, <<"build", 11>>, <<"save", 4>>},
    record |-> {<<"edit", 7>>, <<"insert", 8>>, <<"declare", 12>>, <<"remove", 8>>,
                <<"import", 16>>, <<"build", 12>>},
    find |-> {<<"remove", 3>>},
    collide |-> {<<"declare", 4>>, <<"import", 4>>},
    set_root |-> {<<"build", 4>>},
    pop |-> {<<"undo", 1>>, <<"redo", 1>>},
    push |-> {<<"undo", 5>>, <<"redo", 5>>},
    restore |-> {<<"undo", 6>>, <<"redo", 6>>},
    open |-> {<<"open", 1>>}, clear_journal |-> {<<"open", 2>>},
    clear_sim |-> {<<"open", 3>>}, clear_cache |-> {<<"open", 4>>},
    load_path |-> {<<"declare", 1>>, <<"import", 1>>, <<"build", 1>>},
    load_model |-> {<<"declare", 2>>, <<"import", 2>>, <<"build", 2>>},
    load_types |-> {<<"declare", 3>>, <<"import", 3>>, <<"build", 3>>} ]

\* The steps a request answers with, and no other is the last of a handler.
Lasts == {"record", "restore", "clear_cache", "store", "run", "stop", "detach", "attach"}

Placed(op, s) ==
  /\ \A k \in 1 .. Len(s) :
        /\ s[k] \in DOMAIN Places /\ op \notin DockOps => <<op, k>> \in Places[s[k]]
        /\ s[k] \notin DOMAIN Places => op \in DockOps
        /\ op \in DockOps => s[k] \in {"load_path", "load_model", "load_types"}
                             \/ s[k] \notin DOMAIN Places
        /\ k = Len(s) => s[k] \in Lasts \/ op = "save"
        /\ s[k] = "lookup" => op = "c_on"
  /\ Len(s) \in Nat \ {0}
-----------------------------------------------------------------------------
(* Where the steps of the handlers are.                                    *)
LEMMA HandlersPlaced == \A op \in DOMAIN Steps : Placed(op, Steps[op])
<1>1. Placed("edit", EditSteps)
  BY DEF EditSteps, Placed, Places, DockOps, Lasts
<1>2. Placed("insert", InsertSteps)
  BY DEF InsertSteps, Placed, Places, DockOps, Lasts
<1>3. Placed("declare", DeclareSteps)
  BY DEF DeclareSteps, Placed, Places, DockOps, Lasts
<1>4. Placed("remove", RemoveSteps)
  BY DEF RemoveSteps, Placed, Places, DockOps, Lasts
<1>5. Placed("import", ImportSteps)
  BY DEF ImportSteps, Placed, Places, DockOps, Lasts
<1>6. Placed("build", BuildSteps)
  BY DEF BuildSteps, Placed, Places, DockOps, Lasts
<1>7. Placed("save", SaveSteps)
  BY DEF SaveSteps, Placed, Places, DockOps, Lasts
<1>8. Placed("undo", HistorySteps) /\ Placed("redo", HistorySteps)
  BY DEF HistorySteps, Placed, Places, DockOps, Lasts
<1>9. Placed("open", OpenSteps)
  BY DEF OpenSteps, Placed, Places, DockOps, Lasts
<1>10. Placed("start", StartSteps) /\ Placed("step", StepSteps)
  BY DEF StartSteps, StepSteps, Placed, Places, DockOps, Lasts
<1>11. Placed("stop", <<"stop">>) /\ Placed("c_off", <<"detach">>)
  BY DEF Placed, Places, DockOps, Lasts
<1>12. Placed("c_on", LoopSteps)
  BY DEF LoopSteps, Placed, Places, DockOps, Lasts
<1> QED BY <1>1, <1>2, <1>3, <1>4, <1>5, <1>6, <1>7, <1>8, <1>9, <1>10, <1>11, <1>12 DEF Steps

(* A handler at its first step.                                            *)
LEMMA AtBegin ==
  ASSUME NEW l, l.op \in DOMAIN Steps
  PROVE  /\ Follows(Steps[l.op], l) /\ Place(Steps[l.op], l) = 1
         /\ Steps[l.op] # << >>
<1>1. Len(Steps[l.op]) \in Nat \ {0}
  BY HandlersPlaced DEF Placed
<1>2. Place(Steps[l.op], l) = 1
  BY <1>1 DEF Place
<1>3. \A k \in 1 .. Len(Steps[l.op]) : 1 - 1 + k = k
  BY <1>1
<1>4. Len(<< >>) = 0
  BY EmptySeq
<1> QED BY <1>1, <1>2, <1>3, <1>4 DEF Follows

(* A step on.                                                              *)
LEMMA OneOn ==
  ASSUME NEW s \in Seq(StepNames), NEW l, s # << >>, Follows(s, l),
         NEW m, m.op = l.op
  PROVE  /\ l.op \in DOMAIN Steps
         /\ Place(s, l) \in 1 .. Len(Steps[l.op]) /\ Steps[l.op][Place(s, l)] = s[1]
         /\ Head(s) = s[1]
         /\ Follows(s, m) /\ Place(s, m) = Place(s, l)
         /\ Follows(Tail(s), m) /\ Place(Tail(s), m) = Place(s, l) + 1
         /\ Tail(s) = << >> <=> Place(s, l) = Len(Steps[l.op])
<1> DEFINE t == Tail(s)
           n == Place(s, l)
           N == Len(Steps[l.op])
<1>1. /\ Len(s) \in Nat /\ Len(s) # 0 /\ Len(t) = Len(s) - 1
      /\ \A k \in 1 .. Len(t) : t[k] = s[k + 1]
      /\ Head(s) = s[1] /\ t \in Seq(StepNames)
  BY LenProperties, EmptySeq, HeadTailProperties
<1>2. t = << >> <=> Len(t) = 0
  BY <1>1, EmptySeq
<1>3. /\ l.op \in DOMAIN Steps /\ Len(s) <= N /\ N \in Nat
      /\ \A k \in 1 .. Len(s) : s[k] = Steps[l.op][n - 1 + k]
  BY HandlersPlaced DEF Follows, Placed
<1>4. n = N - Len(s) + 1 /\ Place(t, m) = N - Len(t) + 1 /\ Place(s, m) = n
  BY DEF Place
<1> HIDE DEF t, n, N
<1>5. n \in 1 .. N /\ n - 1 + 1 = n /\ 1 \in 1 .. Len(s)
  BY <1>1, <1>3, <1>4
<1>6. Steps[l.op][n] = s[1]
  BY <1>3, <1>5
<1>7. Place(t, m) = n + 1
  BY <1>1, <1>3, <1>4
<1>8. ASSUME NEW k \in 1 .. Len(t) PROVE t[k] = Steps[l.op][Place(t, m) - 1 + k]
  <2>1. k + 1 \in 1 .. Len(s) /\ n - 1 + (k + 1) = (n + 1) - 1 + k
    BY <1>1, <1>5
  <2> QED BY <1>1, <1>3, <1>7, <2>1
<1>9. t = << >> <=> n = N
  BY <1>1, <1>2, <1>3, <1>4
<1>10. Follows(t, m)
  BY <1>1, <1>3, <1>8 DEF Follows, N
<1>11. Follows(s, m)
  BY <1>3, <1>4 DEF Follows, N
<1> QED BY <1>1, <1>3, <1>4, <1>5, <1>6, <1>7, <1>9, <1>10, <1>11 DEF t, n, N
-----------------------------------------------------------------------------
(* What a snapshot says.                                                   *)

ModelOf(w) == <<w, "model">>
TypesOf(w) == <<w, "types">>
Both(w, x, y) == << <<ModelOf(w), x>>, <<TypesOf(w), y>> >>
Pair(x, y) == [k \in Kinds |-> IF k = "model" THEN x ELSE y]

\* A snapshot of all of document w.
Whole(t, w) == \E x, y \in Text : t = Both(w, x, y)
AllWhole(stack, w) == \A j \in 1 .. Len(stack) : Whole(stack[j], w)

Contents(t) == [k \in Kinds |-> TextIn(t, k)]

\* Shown, of a request's snapshot and the files.
Present(snap, f) ==
  [d \in Documents |-> [k \in Kinds |->
     IF \E j \in DOMAIN snap : snap[j][1] = <<d, k>> THEN TextIn(snap, k) ELSE f[<<d, k>>]]]

\* The Editor's step: only document w changes, to c.
Changed(before, after, w, c) == after = [before EXCEPT ![w] = c]

(* The texts of a whole snapshot.                                          *)
LEMMA WholeContents ==
  ASSUME NEW w, NEW x, NEW y
  PROVE  /\ Contents(Both(w, x, y)) = Pair(x, y)
         /\ TextIn(Both(w, x, y), "model") = x
         /\ TextIn(Both(w, x, y), "types") = y
<1> DEFINE t == Both(w, x, y)
<1>1. /\ DOMAIN t = {1, 2}
      /\ t[1][1][2] = "model" /\ t[1][2] = x
      /\ t[2][1][2] = "types" /\ t[2][2] = y
  BY DEF Both, ModelOf, TypesOf
<1> HIDE DEF t
<1>2. TextIn(t, "model") = x
  <2>1. \A j \in DOMAIN t : t[j][1][2] = "model" <=> j = 1
    BY <1>1
  <2>2. (CHOOSE j \in DOMAIN t : t[j][1][2] = "model") = 1
    BY <1>1, <2>1
  <2> QED BY <1>1, <2>2 DEF TextIn
<1>3. TextIn(t, "types") = y
  <2>1. \A j \in DOMAIN t : t[j][1][2] = "types" <=> j = 2
    BY <1>1
  <2>2. (CHOOSE j \in DOMAIN t : t[j][1][2] = "types") = 2
    BY <1>1, <2>1
  <2> QED BY <1>1, <2>2 DEF TextIn
<1>4. Contents(t) = Pair(x, y)
  BY <1>2, <1>3 DEF Contents, Pair, Kinds
<1> QED BY <1>2, <1>3, <1>4 DEF t

(* Without a snapshot the files show, and so they do beside what it has    *)
(* read of the model's file so far; a whole one hides its document.        *)
LEMMA PresentIs ==
  ASSUME NEW f, NEW w \in Documents, NEW x, NEW y
  PROVE  /\ Present(<< >>, f) = [d \in Documents |-> [k \in Kinds |-> f[<<d, k>>]]]
         /\ Present(<< <<ModelOf(w), f[ModelOf(w)]>> >>, f) = Present(<< >>, f)
         /\ Changed(Present(<< >>, f), Present(Both(w, x, y), f), w, Pair(x, y))
         /\ Present(Both(w, f[ModelOf(w)], f[TypesOf(w)]), f) = Present(<< >>, f)
<1>1. Present(<< >>, f) = [d \in Documents |-> [k \in Kinds |-> f[<<d, k>>]]]
  <2>1. DOMAIN << >> = {}
    OBVIOUS
  <2> QED BY <2>1 DEF Present
<1>2. Present(<< <<ModelOf(w), f[ModelOf(w)]>> >>, f) = Present(<< >>, f)
  <2> DEFINE t == << <<ModelOf(w), f[ModelOf(w)]>> >>
  <2>1. DOMAIN t = {1} /\ t[1][1] = <<w, "model">> /\ t[1][1][2] = "model" /\ t[1][2] = f[<<w, "model">>]
    BY DEF ModelOf
  <2> HIDE DEF t
  <2>2. (CHOOSE j \in DOMAIN t : t[j][1][2] = "model") = 1
    BY <2>1
  <2>3. TextIn(t, "model") = f[<<w, "model">>]
    BY <2>1, <2>2 DEF TextIn
  <2>4. ASSUME NEW d \in Documents, NEW k \in Kinds
        PROVE  (IF \E j \in DOMAIN t : t[j][1] = <<d, k>> THEN TextIn(t, k) ELSE f[<<d, k>>])
                 = f[<<d, k>>]
    BY <2>1, <2>3
  <2>5. Present(t, f) = [d \in Documents |-> [k \in Kinds |-> f[<<d, k>>]]]
    BY <2>4 DEF Present
  <2> QED BY <1>1, <2>5 DEF t
<1>3. ASSUME NEW a, NEW b
      PROVE  Present(Both(w, a, b), f) = [Present(<< >>, f) EXCEPT ![w] = Pair(a, b)]
  <2> DEFINE t == Both(w, a, b)
  <2>1. DOMAIN t = {1, 2} /\ t[1][1] = <<w, "model">> /\ t[2][1] = <<w, "types">>
    BY DEF Both, ModelOf, TypesOf
  <2>2. TextIn(t, "model") = a /\ TextIn(t, "types") = b
    BY WholeContents
  <2> HIDE DEF t
  <2>3. ASSUME NEW d \in Documents, NEW k \in Kinds
        PROVE  (IF \E j \in DOMAIN t : t[j][1] = <<d, k>> THEN TextIn(t, k) ELSE f[<<d, k>>])
                 = IF d = w THEN Pair(a, b)[k] ELSE f[<<d, k>>]
    <3>1. k = "model" \/ k = "types"
      BY DEF Kinds
    <3>2. (\E j \in DOMAIN t : t[j][1] = <<d, k>>) <=> d = w
      BY <2>1, <3>1
    <3>3. Pair(a, b)[k] = TextIn(t, k)
      BY <2>2, <3>1 DEF Pair, Kinds
    <3> QED BY <3>2, <3>3
  <2>4. Present(t, f) = [d \in Documents |-> [k \in Kinds |->
                           IF d = w THEN Pair(a, b)[k] ELSE f[<<d, k>>]]]
    BY <2>3 DEF Present
  <2>5. [k \in Kinds |-> Pair(a, b)[k]] = Pair(a, b)
    BY DEF Pair
  <2>6. Present(t, f) = [d \in Documents |-> IF d = w THEN Pair(a, b) ELSE [k \in Kinds |-> f[<<d, k>>]]]
    BY <2>4, <2>5
  <2> QED BY <1>1, <2>6 DEF t
<1>4. Present(Both(w, f[ModelOf(w)], f[TypesOf(w)]), f) = Present(<< >>, f)
  <2>1. Pair(f[ModelOf(w)], f[TypesOf(w)]) = [k \in Kinds |-> f[<<w, k>>]]
    BY DEF Pair, Kinds, ModelOf, TypesOf
  <2>2. Present(Both(w, f[ModelOf(w)], f[TypesOf(w)]), f)
          = [Present(<< >>, f) EXCEPT ![w] = [k \in Kinds |-> f[<<w, k>>]]]
    BY <1>3, <2>1
  <2>3. Present(<< >>, f)[w] = [k \in Kinds |-> f[<<w, k>>]]
    BY <1>1
  <2>4. ASSUME NEW g, g = [d \in Documents |-> [k \in Kinds |-> f[<<d, k>>]]]
        PROVE  [g EXCEPT ![w] = g[w]] = g
    BY <2>4
  <2>5. [Present(<< >>, f) EXCEPT ![w] = Present(<< >>, f)[w]] = Present(<< >>, f)
    BY <1>1, <2>4
  <2> QED BY <2>2, <2>3, <2>5
<1> QED BY <1>1, <1>2, <1>3, <1>4 DEF Changed

(* The contents of a stack that grows or shrinks at an end.                *)
LEMMA StackContents ==
  ASSUME NEW u \in Seq(Snapshots), NEW t \in Snapshots
  PROVE  /\ AsContents(<< >>) = << >>
         /\ AsContents(u) \in Seq({Contents(q) : q \in Snapshots}) /\ Len(AsContents(u)) = Len(u)
         /\ AsContents(Append(u, t)) = Append(AsContents(u), Contents(t))
         /\ u # << >> => /\ AsContents(Tail(u)) = Tail(AsContents(u))
                         /\ AsContents(Front(u)) = Front(AsContents(u))
                         /\ Last(AsContents(u)) = Contents(Last(u))
                         /\ u = Append(Front(u), Last(u))
                         /\ AsContents(u) # << >>
<1> DEFINE C == {Contents(q) : q \in Snapshots}
<1>1. AsContents(<< >>) = << >>
  <2>1. DOMAIN << >> = {} /\ << >> = [j \in {} |-> j]
    OBVIOUS
  <2> QED BY <2>1 DEF AsContents
<1>2. ASSUME NEW q \in Seq(Snapshots)
      PROVE  /\ Len(q) \in Nat /\ AsContents(q) \in Seq(C) /\ Len(AsContents(q)) = Len(q)
             /\ \A j \in 1 .. Len(q) : q[j] \in Snapshots /\ AsContents(q)[j] = Contents(q[j])
  <2>1. Len(q) \in Nat /\ DOMAIN q = 1 .. Len(q) /\ \A j \in 1 .. Len(q) : q[j] \in Snapshots
    BY LenProperties, ElementOfSeq
  <2>2. AsContents(q) = [j \in 1 .. Len(q) |-> Contents(q[j])]
    BY <2>1 DEF AsContents, Contents
  <2>3. \A j \in 1 .. Len(q) : Contents(q[j]) \in C
    BY <2>1
  <2> HIDE DEF C
  <2>4. AsContents(q) \in [1 .. Len(q) -> C]
    BY <2>2, <2>3
  <2>5. AsContents(q) \in Seq(C) /\ Len(AsContents(q)) = Len(q)
    BY <2>1, <2>4, SeqDef, LenProperties
  <2> QED BY <2>1, <2>2, <2>5
<1> HIDE DEF C
<1>3. AsContents(Append(u, t)) = Append(AsContents(u), Contents(t))
  <2>1. /\ Append(u, t) \in Seq(Snapshots) /\ Len(Append(u, t)) = Len(u) + 1
        /\ \A j \in 1 .. Len(u) : Append(u, t)[j] = u[j]
        /\ Append(u, t)[Len(u) + 1] = t
    BY AppendProperties
  <2>2. Contents(t) \in C /\ AsContents(u) \in Seq(C) /\ Len(AsContents(u)) = Len(u)
    BY <1>2 DEF C
  <2>3. /\ Append(AsContents(u), Contents(t)) \in Seq(C)
        /\ Len(Append(AsContents(u), Contents(t))) = Len(u) + 1
        /\ \A j \in 1 .. Len(u) : Append(AsContents(u), Contents(t))[j] = AsContents(u)[j]
        /\ Append(AsContents(u), Contents(t))[Len(u) + 1] = Contents(t)
    BY <2>2, AppendProperties
  <2>4. AsContents(Append(u, t)) \in Seq(C) /\ Len(AsContents(Append(u, t))) = Len(u) + 1
    BY <1>2, <2>1
  <2>5. ASSUME NEW j \in 1 .. Len(u) + 1
        PROVE  AsContents(Append(u, t))[j] = Append(AsContents(u), Contents(t))[j]
    <3>0. Len(u) \in Nat
      BY <1>2
    <3>1. j \in 1 .. Len(u) \/ j = Len(u) + 1
      BY <3>0
    <3>2. AsContents(Append(u, t))[j] = Contents(Append(u, t)[j])
      BY <1>2, <2>1
    <3>3. CASE j \in 1 .. Len(u)
      BY <1>2, <2>1, <2>3, <3>2, <3>3
    <3>4. CASE j = Len(u) + 1
      BY <2>1, <2>3, <3>2, <3>4
    <3> QED BY <3>1, <3>3, <3>4
  <2> QED BY <2>3, <2>4, <2>5, SeqEqual
<1>4. ASSUME u # << >>
      PROVE  /\ AsContents(Tail(u)) = Tail(AsContents(u))
             /\ AsContents(Front(u)) = Front(AsContents(u))
             /\ Last(AsContents(u)) = Contents(Last(u))
             /\ u = Append(Front(u), Last(u))
             /\ AsContents(u) # << >>
  <2>1. Len(u) \in Nat /\ Len(u) # 0 /\ AsContents(u) \in Seq(C) /\ Len(AsContents(u)) = Len(u)
        /\ \A j \in 1 .. Len(u) : u[j] \in Snapshots /\ AsContents(u)[j] = Contents(u[j])
    BY <1>2, <1>4, EmptySeq
  <2>2. AsContents(u) # << >>
    BY <2>1, EmptySeq
  <2>3. /\ Tail(u) \in Seq(Snapshots) /\ Len(Tail(u)) = Len(u) - 1
        /\ \A j \in 1 .. Len(Tail(u)) : Tail(u)[j] = u[j + 1]
        /\ Tail(AsContents(u)) \in Seq(C) /\ Len(Tail(AsContents(u))) = Len(u) - 1
        /\ \A j \in 1 .. Len(Tail(AsContents(u))) : Tail(AsContents(u))[j] = AsContents(u)[j + 1]
    BY <1>4, <2>1, <2>2, HeadTailProperties
  <2>4. AsContents(Tail(u)) = Tail(AsContents(u))
    <3>1. AsContents(Tail(u)) \in Seq(C) /\ Len(AsContents(Tail(u))) = Len(u) - 1
      BY <1>2, <2>3
    <3>2. ASSUME NEW j \in 1 .. Len(u) - 1 PROVE AsContents(Tail(u))[j] = Tail(AsContents(u))[j]
      <4>1. j + 1 \in 1 .. Len(u)
        BY <2>1
      <4>2. AsContents(Tail(u))[j] = Contents(u[j + 1])
        BY <1>2, <2>3, ZenonT(60)
      <4> QED BY <2>1, <2>3, <4>1, <4>2
    <3> QED BY <2>3, <3>1, <3>2, SeqEqual
  <2>5. ASSUME NEW D, NEW q \in Seq(D), Len(q) = Len(u)
        PROVE  /\ Front(q) \in Seq(D) /\ Len(Front(q)) = Len(u) - 1 /\ Last(q) = q[Len(u)]
               /\ \A j \in 1 .. Len(u) - 1 : Front(q)[j] = q[j]
    <3>1. Len(u) - 1 \in Int /\ 1 \in Int /\ \A j \in 1 .. Len(u) - 1 : q[j] \in D
      BY <2>1, <2>5, ElementOfSeq
    <3>2. (IF 1 <= Len(u) - 1 THEN Len(u) - 1 - 1 + 1 ELSE 0) = Len(u) - 1
      <4>1. \A n \in Nat : n # 0 => (IF 1 <= n - 1 THEN n - 1 - 1 + 1 ELSE 0) = n - 1
        OBVIOUS
      <4> QED BY <2>1, <4>1
    <3>3. /\ SubSeq(q, 1, Len(u) - 1) \in Seq(D)
          /\ Len(SubSeq(q, 1, Len(u) - 1)) = Len(u) - 1
          /\ \A j \in 1 .. Len(u) - 1 : SubSeq(q, 1, Len(u) - 1)[j] = q[1 + j - 1]
      BY <3>1, <3>2, SubSeqProperties
    <3>4. \A j \in 1 .. Len(u) - 1 : 1 + j - 1 = j
      BY <2>1
    <3> QED BY <2>5, <3>3, <3>4 DEF Front, Last
  <2>6. /\ Front(u) \in Seq(Snapshots) /\ Len(Front(u)) = Len(u) - 1 /\ Last(u) = u[Len(u)]
        /\ \A j \in 1 .. Len(u) - 1 : Front(u)[j] = u[j]
    BY <2>5
  <2>7. /\ Front(AsContents(u)) \in Seq(C) /\ Len(Front(AsContents(u))) = Len(u) - 1
        /\ Last(AsContents(u)) = AsContents(u)[Len(u)]
        /\ \A j \in 1 .. Len(u) - 1 : Front(AsContents(u))[j] = AsContents(u)[j]
    BY <2>1, <2>5
  <2>8. Len(u) \in 1 .. Len(u) /\ \A j \in 1 .. Len(u) - 1 : j \in 1 .. Len(u)
    BY <2>1
  <2>9. Last(AsContents(u)) = Contents(Last(u)) /\ Last(u) \in Snapshots
    BY <2>1, <2>6, <2>7, <2>8
  <2>10. AsContents(Front(u)) = Front(AsContents(u))
    <3>1. AsContents(Front(u)) \in Seq(C) /\ Len(AsContents(Front(u))) = Len(u) - 1
      BY <1>2, <2>6
    <3>2. ASSUME NEW j \in 1 .. Len(u) - 1 PROVE AsContents(Front(u))[j] = Front(AsContents(u))[j]
      <4>1. AsContents(Front(u))[j] = Contents(u[j])
        BY <1>2, <2>6
      <4> QED BY <2>1, <2>7, <2>8, <4>1
    <3> QED BY <2>7, <3>1, <3>2, SeqEqual
  <2>11. u = Append(Front(u), Last(u))
    <3>1. /\ Append(Front(u), Last(u)) \in Seq(Snapshots)
          /\ Len(Append(Front(u), Last(u))) = Len(Front(u)) + 1
          /\ \A j \in 1 .. Len(Front(u)) : Append(Front(u), Last(u))[j] = Front(u)[j]
          /\ Append(Front(u), Last(u))[Len(Front(u)) + 1] = Last(u)
      BY <2>6, <2>9, AppendProperties
    <3>2. Len(Front(u)) + 1 = Len(u)
      BY <2>1, <2>6
    <3>3. ASSUME NEW j \in 1 .. Len(u) PROVE Append(Front(u), Last(u))[j] = u[j]
      <4>1. j \in 1 .. Len(u) - 1 \/ j = Len(u)
        BY <2>1
      <4> QED BY <2>6, <3>1, <3>2, <4>1
    <3> QED BY <3>1, <3>2, <3>3, SeqEqual
  <2> QED BY <2>2, <2>4, <2>9, <2>10, <2>11
<1> QED BY <1>1, <1>2, <1>3, <1>4 DEF C
-----------------------------------------------------------------------------
(* The variables of the editing thread at place n of a handler: the open   *)
(* document w, the files f, the stacks u and v of the journal.             *)

\* The paths put together before a place.
Gathered(op, n, w) ==
  CASE op = "remove" /\ n = 2 -> {<<TypesOf(w)>>}
    [] op = "remove" /\ n = 3 -> {<<TypesOf(w), ModelOf(w)>>, <<ModelOf(w)>>}
    [] op = "declare" /\ n = 6 -> {<<TypesOf(w)>>}
    [] OTHER -> {<< >>}

Collects(n, l, w) ==
  /\ l.op \in DOMAIN ReadAt =>
       /\ n <= ReadAt[l.op] - 2 => l.pending \in Gathered(l.op, n, w)
       /\ n = ReadAt[l.op] - 1 => l.pending = <<ModelOf(w)>>
  /\ l.op = "import" =>
       /\ n = 8 => l.pending = << >>
       /\ n \in 9 .. 13 => l.pending = <<TypesOf(w)>>

\* No file has been written.
Untouched(n, l) ==
  \/ n < WriteAt[l.op]
  \/ n = WriteAt[l.op] /\ (l.op \in {"undo", "redo"} => l.pending = l.restored)

\* Before the read there is no snapshot, then it is what the files are.
Shows(n, l, w, f) ==
  IF l.op \notin DOMAIN ReadAt THEN l.snap = << >>
  ELSE
  /\ n < ReadAt[l.op] => l.snap = << >>
  /\ n = ReadAt[l.op] =>
       \/ l.pending = <<ModelOf(w), TypesOf(w)>> /\ l.snap = << >>
       \/ l.pending = <<TypesOf(w)>> /\ l.snap = << <<ModelOf(w), f[ModelOf(w)]>> >>
  /\ n > ReadAt[l.op] => Whole(l.snap, w)
  /\ n > ReadAt[l.op] /\ Untouched(n, l) => l.snap = Both(w, f[ModelOf(w)], f[TypesOf(w)])

\* What is written is a file of the open document.  An import has seen its
\* types file to be readable, so that it is not refused after its first write.
Knows(n, l, w, f) ==
  /\ l.op \in DOMAIN PathAt /\ n > PathAt[l.op] => l.path \in {ModelOf(w), TypesOf(w)}
  /\ l.op = "save" /\ n > 1 => l.path = ModelOf(w)
  /\ l.op = "save" /\ n > 2 => l.text = f[ModelOf(w)]
  /\ l.op \in {"declare", "import", "build"} /\ n \in 2 .. 3 => l.path = ModelOf(w)
  /\ l.op = "import" /\ n \in 2 .. 13 => l.path = ModelOf(w)
  /\ l.op = "import" /\ n > 13 => l.path = TypesOf(w)
  /\ l.op = "import" /\ n \in 4 .. 14 => f[TypesOf(w)] # Broken

\* An undo or a redo has popped a snapshot of the open document, and once it
\* has pushed, its own is on top of the other stack.
Restores(n, l, w, f, u, v) ==
  IF l.op \notin {"undo", "redo"} \/ n = 1 THEN l.restored = << >>
  ELSE
  /\ Whole(l.restored, w)
  /\ n = 6 => \/ l.pending = l.restored
              \/ l.pending = Tail(l.restored) /\ f[ModelOf(w)] = l.restored[1][2]
  /\ n = 6 /\ l.op = "undo" => v # << >> /\ Last(v) = l.snap
  /\ n = 6 /\ l.op = "redo" => u # << >> /\ Last(u) = l.snap

Handling(n, l, w, f, u, v) ==
  Collects(n, l, w) /\ Shows(n, l, w, f) /\ Knows(n, l, w, f) /\ Restores(n, l, w, f, u, v)

\* What undo and redo can reach, as ShownPast and ShownFuture have it.
PastOf(n, l, u) ==
  IF l.op = "open" /\ n = 2 THEN << >>
  ELSE IF l.restored # << >> /\ l.op = "undo" THEN Append(u, l.restored)
  ELSE IF n = 6 /\ l.op = "redo" THEN Front(u) ELSE u
FutureOf(n, l, v) ==
  IF l.op = "open" /\ n = 2 THEN << >>
  ELSE IF l.restored # << >> /\ l.op = "redo" THEN Append(v, l.restored)
  ELSE IF n = 6 /\ l.op = "undo" THEN Front(v) ELSE v

\* A step of the handler that the Editor does not see.
Unseen(n, l, k, m, f, u, v) ==
  /\ Present(m.snap, f) = Present(l.snap, f)
  /\ PastOf(k, m, u) = PastOf(n, l, u)
  /\ FutureOf(k, m, v) = FutureOf(n, l, v)
-----------------------------------------------------------------------------
(* Sequences of one and two.                                               *)
LEMMA Short ==
  ASSUME NEW a, NEW b
  PROVE  /\ Append(<< >>, a) = <<a>> /\ Append(<<a>>, b) = <<a, b>>
         /\ Head(<<a>>) = a /\ Head(<<a, b>>) = a
         /\ Tail(<<a>>) = << >> /\ Tail(<<a, b>>) = <<b>>
         /\ Len(<<a>>) = 1 /\ Len(<<a, b>>) = 2 /\ Len(<< >>) = 0
         /\ <<a>> # << >> /\ <<a, b>> # << >>
<1>1. Append(<< >>, a) = <<a>> /\ Append(<<a>>, b) = <<a, b>>
  <2>1. << >> \in Seq({a, b}) /\ <<a>> \in Seq({a, b}) /\ <<a, b>> \in Seq({a, b})
    OBVIOUS
  <2>2. Len(<< >>) = 0 /\ Len(<<a>>) = 1 /\ Len(<<a, b>>) = 2
    OBVIOUS
  <2>3. Append(<< >>, a) \in Seq({a, b}) /\ Len(Append(<< >>, a)) = 1 /\ Append(<< >>, a)[1] = a
    BY <2>1, <2>2, AppendProperties
  <2>4. /\ Append(<<a>>, b) \in Seq({a, b}) /\ Len(Append(<<a>>, b)) = 2
        /\ Append(<<a>>, b)[1] = a /\ Append(<<a>>, b)[2] = b
    BY <2>1, <2>2, AppendProperties
  <2>5. \A k \in 1 .. 1 : Append(<< >>, a)[k] = <<a>>[k]
    BY <2>3
  <2>6. \A k \in 1 .. 2 : Append(<<a>>, b)[k] = <<a, b>>[k]
    BY <2>4
  <2> QED BY <2>1, <2>2, <2>3, <2>4, <2>5, <2>6, SeqEqual
<1>2. Head(<<a>>) = a /\ Head(<<a, b>>) = a
  OBVIOUS
<1>3. Len(<<a>>) = 1 /\ Len(<<a, b>>) = 2 /\ Len(<< >>) = 0
  OBVIOUS
<1>4. <<a>> # << >> /\ <<a, b>> # << >>
  OBVIOUS
<1>5. Tail(<<a>>) = << >>
  OBVIOUS
<1>6. Tail(<<a, b>>) = <<b>>
  OBVIOUS
<1> QED BY <1>1, <1>2, <1>3, <1>4, <1>5, <1>6

(* A request that is done, or of the dock, or opens a document, has no     *)
(* snapshot.                                                               *)
LEMMA OthersHandling ==
  ASSUME NEW n, NEW l, NEW w, NEW f, NEW u, NEW v,
         l.op \in DockOps \cup {"open", "none"}
  PROVE  Handling(n, l, w, f, u, v) <=> l.snap = << >> /\ l.restored = << >>
BY DEF Handling, Collects, Shows, Knows, Restores, DockOps, ReadAt, PathAt

(* So has an idle one.                                                     *)
LEMMA IdleHandling ==
  ASSUME NEW n, NEW w, NEW f, NEW u, NEW v
  PROVE  /\ Handling(n, Idle, w, f, u, v) /\ Idle.snap = << >>
         /\ PastOf(n, Idle, u) = u /\ FutureOf(n, Idle, v) = v
<1>1. Idle.op = "none" /\ Idle.snap = << >> /\ Idle.restored = << >>
  BY DEF Idle
<1> QED BY <1>1, OthersHandling DEF PastOf, FutureOf

(* The steps that add a path to those to read.                             *)
LEMMA CollectOn ==
  ASSUME NEW n, NEW l, NEW w, NEW f, NEW u, NEW v, Handling(n, l, w, f, u, v),
         NEW m, m.op = l.op, m.snap = l.snap, m.path = l.path, m.text = l.text,
         m.restored = l.restored,
         \/ <<l.op, n>> \in Places["model_path"] /\ m.pending = Append(l.pending, ModelOf(w))
         \/ <<l.op, n>> \in Places["types_path"] /\ m.pending = Append(l.pending, TypesOf(w))
  PROVE  Handling(n + 1, m, w, f, u, v) /\ Unseen(n, l, n + 1, m, f, u, v)
<1>1. ASSUME <<l.op, n>> \in Places["model_path"], m.pending = Append(l.pending, ModelOf(w))
      PROVE  Collects(n + 1, m, w) /\ Shows(n + 1, m, w, f)
  <2>1. \/ l.op = "remove" /\ n = 2 /\ l.pending = <<TypesOf(w)>>
        \/ /\ l.op \in DOMAIN ReadAt /\ n + 1 = ReadAt[l.op] - 1 /\ n \in Nat
           /\ l.op = "import" => n = 5
           /\ l.pending = << >>
    BY <1>1 DEF Handling, Collects, Gathered, Places, ReadAt
  <2>2. \/ l.op = "remove" /\ n = 2 /\ m.pending = <<TypesOf(w), ModelOf(w)>>
        \/ /\ l.op \in DOMAIN ReadAt /\ n + 1 = ReadAt[l.op] - 1 /\ n \in Nat
           /\ l.op = "import" => n = 5
           /\ m.pending = <<ModelOf(w)>>
    BY <1>1, <2>1, Short
  <2>3. Collects(n + 1, m, w)
    <3>1. CASE l.op = "remove" /\ n = 2 /\ m.pending = <<TypesOf(w), ModelOf(w)>>
      BY <3>1 DEF Collects, Gathered, ReadAt
    <3>2. CASE /\ l.op \in DOMAIN ReadAt /\ n + 1 = ReadAt[l.op] - 1 /\ n \in Nat
               /\ l.op = "import" => n = 5
               /\ m.pending = <<ModelOf(w)>>
      <4>1. ReadAt[l.op] \in Nat /\ ~(n + 1 <= ReadAt[l.op] - 2)
        BY <3>2 DEF ReadAt
      <4>2. l.op = "import" => n + 1 # 8 /\ ~(n + 1 \in 9 .. 13)
        BY <3>2
      <4> QED BY <3>2, <4>1, <4>2 DEF Collects
    <3> QED BY <2>2, <3>1, <3>2
  <2>4. Shows(n + 1, m, w, f)
    BY <2>2 DEF Handling, Shows, ReadAt
  <2> QED BY <2>3, <2>4
<1>2. ASSUME <<l.op, n>> \in Places["types_path"], m.pending = Append(l.pending, TypesOf(w))
      PROVE  Collects(n + 1, m, w) /\ Shows(n + 1, m, w, f)
  <2>1. \/ <<l.op, n>> \in {<<"remove", 1>>, <<"declare", 5>>, <<"import", 8>>} /\ l.pending = << >>
        \/ /\ l.op \in DOMAIN ReadAt /\ n + 1 = ReadAt[l.op] /\ n \in Nat
           /\ l.op = "import" => n = 6
           /\ l.pending = <<ModelOf(w)>>
    BY <1>2 DEF Handling, Collects, Gathered, Places, ReadAt
  <2>2. \/ <<l.op, n>> \in {<<"remove", 1>>, <<"declare", 5>>, <<"import", 8>>}
           /\ m.pending = <<TypesOf(w)>>
        \/ /\ l.op \in DOMAIN ReadAt /\ n + 1 = ReadAt[l.op] /\ n \in Nat
           /\ l.op = "import" => n = 6
           /\ m.pending = <<ModelOf(w), TypesOf(w)>>
    BY <1>2, <2>1, Short
  <2>3. Collects(n + 1, m, w)
    <3>1. CASE l.op = "remove" /\ n = 1 /\ m.pending = <<TypesOf(w)>>
      BY <3>1 DEF Collects, Gathered, ReadAt
    <3>2. CASE l.op = "declare" /\ n = 5 /\ m.pending = <<TypesOf(w)>>
      BY <3>2 DEF Collects, Gathered, ReadAt
    <3>3. CASE l.op = "import" /\ n = 8 /\ m.pending = <<TypesOf(w)>>
      BY <3>3 DEF Collects, ReadAt
    <3>4. CASE /\ l.op \in DOMAIN ReadAt /\ n + 1 = ReadAt[l.op] /\ n \in Nat
               /\ l.op = "import" => n = 6
      BY <3>4 DEF Collects, ReadAt
    <3> QED BY <2>2, <3>1, <3>2, <3>3, <3>4
  <2>4. Shows(n + 1, m, w, f)
    BY <2>2 DEF Handling, Shows, ReadAt, Untouched, WriteAt
  <2> QED BY <2>3, <2>4
<1>3. Knows(n + 1, m, w, f)
  BY DEF Handling, Knows, Places, PathAt
<1>4. Restores(n + 1, m, w, f, u, v)
  BY DEF Handling, Restores, Places
<1>5. Unseen(n, l, n + 1, m, f, u, v)
  BY DEF Unseen, PastOf, FutureOf, Places
<1> QED BY <1>1, <1>2, <1>3, <1>4, <1>5 DEF Handling

(* A file read for the snapshot: the model's, then the types'.             *)
LEMMA ReadOn ==
  ASSUME NEW n, NEW l, NEW w \in Documents, NEW f \in [Paths -> Text], NEW u, NEW v,
         Handling(n, l, w, f, u, v), <<l.op, n>> \in Places["read"],
         NEW m, m.op = l.op, m.path = l.path, m.text = l.text, m.restored = l.restored,
         m.snap = Append(l.snap, <<Head(l.pending), f[Head(l.pending)]>>),
         m.pending = Tail(l.pending)
  PROVE  IF Len(l.pending) = 1
         THEN Handling(n + 1, m, w, f, u, v) /\ Unseen(n, l, n + 1, m, f, u, v)
         ELSE Handling(n, m, w, f, u, v) /\ Unseen(n, l, n, m, f, u, v)
<1>1. /\ l.op \in DOMAIN ReadAt /\ n = ReadAt[l.op] /\ n \in Nat /\ n # 1
      /\ l.op \in {"undo", "redo"} => n = 4
      /\ l.op = "import" => n = 7
      /\ l.op # "open"
  BY DEF Places, ReadAt
<1>2. f[ModelOf(w)] \in Text /\ f[TypesOf(w)] \in Text
  BY DEF ModelOf, TypesOf, Paths, Kinds
<1>3. CASE l.pending = <<ModelOf(w), TypesOf(w)>> /\ l.snap = << >>
  <2>1. /\ Len(l.pending) # 1 /\ m.pending = <<TypesOf(w)>>
        /\ m.snap = << <<ModelOf(w), f[ModelOf(w)]>> >>
    BY <1>3, Short
  <2>2. Collects(n, m, w) /\ Shows(n, m, w, f)
    <3>1. ~(n <= n - 2) /\ n # n - 1 /\ ~(n < n) /\ ~(n > n)
      BY <1>1
    <3>2. l.op = "import" => n # 8 /\ ~(n \in 9 .. 13)
      BY <1>1
    <3>3. Collects(n, m, w)
      BY <1>1, <3>1, <3>2 DEF Collects
    <3>4. Shows(n, m, w, f)
      BY <1>1, <2>1, <3>1 DEF Shows
    <3> QED BY <3>3, <3>4
  <2>3. Knows(n, m, w, f) /\ Restores(n, m, w, f, u, v)
    BY <1>1 DEF Handling, Knows, Restores
  <2>4. Unseen(n, l, n, m, f, u, v)
    <3>1. Present(m.snap, f) = Present(l.snap, f)
      BY <1>3, <2>1, PresentIs
    <3> QED BY <3>1 DEF Unseen, PastOf, FutureOf
  <2> QED BY <2>1, <2>2, <2>3, <2>4 DEF Handling
<1>4. CASE l.pending = <<TypesOf(w)>> /\ l.snap = << <<ModelOf(w), f[ModelOf(w)]>> >>
  <2>1. /\ Len(l.pending) = 1 /\ m.pending = << >>
        /\ m.snap = Both(w, f[ModelOf(w)], f[TypesOf(w)])
    <3>1. Len(l.pending) = 1 /\ Tail(l.pending) = << >> /\ Head(l.pending) = TypesOf(w)
      BY <1>4, Short
    <3>2. m.snap = Append(<< <<ModelOf(w), f[ModelOf(w)]>> >>, <<TypesOf(w), f[TypesOf(w)]>>)
      BY <1>4, <3>1
    <3> QED BY <3>1, <3>2, Short DEF Both
  <2>0. ~(n + 1 <= n - 2) /\ n + 1 # n - 1 /\ ~(n + 1 < n) /\ n + 1 # n
    BY <1>1
  <2>2. Collects(n + 1, m, w)
    <3>1. l.op = "import" => ~(n + 1 \in 9 .. 13)
      BY <1>1
    <3> QED BY <1>1, <2>0, <2>1, <3>1 DEF Collects
  <2>3. Shows(n + 1, m, w, f)
    BY <1>1, <1>2, <2>0, <2>1 DEF Shows, Whole
  <2>4. Knows(n + 1, m, w, f)
    BY DEF Handling, Knows, Places, PathAt
  <2>5. Restores(n + 1, m, w, f, u, v)
    BY DEF Handling, Restores, Places
  <2>6. Present(m.snap, f) = Present(l.snap, f)
    BY <1>4, <2>1, PresentIs
  <2>7. Unseen(n, l, n + 1, m, f, u, v)
    BY <2>6 DEF Unseen, PastOf, FutureOf, Places
  <2> QED BY <2>1, <2>2, <2>3, <2>4, <2>5, <2>7 DEF Handling
<1> QED BY <1>1, <1>3, <1>4 DEF Handling, Shows

(* The steps that resolve the file to edit.                                *)
LEMMA ResolveOn ==
  ASSUME NEW n, NEW l, NEW w, NEW f, NEW u, NEW v, Handling(n, l, w, f, u, v),
         NEW m, m.op = l.op, m.snap = l.snap, m.text = l.text, m.restored = l.restored,
         \/ <<l.op, n>> \in Places["path"] /\ m.pending = l.pending /\ m.path = ModelOf(w)
         \/ <<l.op, n>> \in Places["types_target"] /\ m.pending = << >> /\ m.path = Head(l.pending)
  PROVE  Handling(n + 1, m, w, f, u, v) /\ Unseen(n, l, n + 1, m, f, u, v)
<1>1. ASSUME <<l.op, n>> \in Places["path"], m.pending = l.pending, m.path = ModelOf(w)
      PROVE  Collects(n + 1, m, w) /\ Shows(n + 1, m, w, f) /\ Knows(n + 1, m, w, f)
  <2>1. Collects(n + 1, m, w)
    BY <1>1 DEF Handling, Collects, Gathered, Places, ReadAt
  <2>2. Shows(n + 1, m, w, f)
    BY <1>1 DEF Handling, Shows, Places, ReadAt, WriteAt, Untouched
  <2>3. Knows(n + 1, m, w, f)
    BY <1>1 DEF Handling, Knows, Places, PathAt
  <2> QED BY <2>1, <2>2, <2>3
<1>2. ASSUME <<l.op, n>> \in Places["types_target"], m.pending = << >>, m.path = Head(l.pending)
      PROVE  Collects(n + 1, m, w) /\ Shows(n + 1, m, w, f) /\ Knows(n + 1, m, w, f)
  <2>1. l.pending = <<TypesOf(w)>>
    BY <1>2 DEF Handling, Collects, Gathered, Places, ReadAt
  <2>2. m.path = TypesOf(w)
    BY <1>2, <2>1, Short
  <2>3. Collects(n + 1, m, w)
    BY <1>2 DEF Collects, Gathered, Places, ReadAt
  <2>4. Shows(n + 1, m, w, f)
    BY <1>2 DEF Handling, Shows, Places, ReadAt, WriteAt, Untouched
  <2>5. Knows(n + 1, m, w, f)
    BY <1>2, <2>2 DEF Handling, Knows, Places, PathAt
  <2> QED BY <2>3, <2>4, <2>5
<1>3. Restores(n + 1, m, w, f, u, v)
  BY DEF Handling, Restores, Places
<1>4. Unseen(n, l, n + 1, m, f, u, v)
  BY DEF Unseen, PastOf, FutureOf, Places
<1> QED BY <1>1, <1>2, <1>3, <1>4 DEF Handling

(* The steps that read the file to edit: a removal may look further.       *)
LEMMA LookOn ==
  ASSUME NEW n, NEW l, NEW w, NEW f, NEW u, NEW v, Handling(n, l, w, f, u, v),
         NEW m, m.op = l.op, m.snap = l.snap, m.restored = l.restored
  PROVE  /\ /\ <<l.op, n>> \in Places["load_raw"] /\ m.path = l.path /\ m.pending = l.pending
            /\ l.op = "save" => m.text = f[l.path]
            => Handling(n + 1, m, w, f, u, v) /\ Unseen(n, l, n + 1, m, f, u, v)
         /\ <<l.op, n>> \in Places["find"] /\ m.path = Head(l.pending) /\ m.pending = << >>
            => Handling(n + 1, m, w, f, u, v) /\ Unseen(n, l, n + 1, m, f, u, v)
         /\ /\ <<l.op, n>> \in Places["find"] /\ m.path = l.path
            /\ m.pending = Tail(l.pending) /\ Len(l.pending) # 1
            => Handling(n, m, w, f, u, v) /\ Unseen(n, l, n, m, f, u, v)
<1>1. ASSUME <<l.op, n>> \in Places["load_raw"], m.path = l.path, m.pending = l.pending,
             l.op = "save" => m.text = f[l.path]
      PROVE  Handling(n + 1, m, w, f, u, v) /\ Unseen(n, l, n + 1, m, f, u, v)
  <2>1. Collects(n + 1, m, w)
    BY <1>1 DEF Handling, Collects, Gathered, Places, ReadAt
  <2>2. Shows(n + 1, m, w, f)
    BY <1>1 DEF Handling, Shows, Places, ReadAt, WriteAt, Untouched
  <2>3. Knows(n + 1, m, w, f)
    BY <1>1 DEF Handling, Knows, Places, PathAt
  <2>4. Restores(n + 1, m, w, f, u, v)
    BY <1>1 DEF Handling, Restores, Places
  <2>5. Unseen(n, l, n + 1, m, f, u, v)
    BY <1>1 DEF Unseen, PastOf, FutureOf, Places
  <2> QED BY <2>1, <2>2, <2>3, <2>4, <2>5 DEF Handling
<1>2. ASSUME <<l.op, n>> \in Places["find"]
      PROVE  /\ l.op = "remove" /\ n = 3 /\ l.snap = << >> /\ l.restored = << >>
             /\ l.pending \in {<<TypesOf(w), ModelOf(w)>>, <<ModelOf(w)>>}
             /\ Head(l.pending) \in {ModelOf(w), TypesOf(w)}
             /\ Len(l.pending) # 1 => Tail(l.pending) = <<ModelOf(w)>>
  <2>1. l.op = "remove" /\ n = 3
    BY <1>2 DEF Places
  <2>2. l.snap = << >> /\ l.restored = << >>
    BY <2>1 DEF Handling, Shows, Restores, ReadAt
  <2>3. l.pending \in {<<TypesOf(w), ModelOf(w)>>, <<ModelOf(w)>>}
    BY <2>1 DEF Handling, Collects, Gathered, ReadAt
  <2>4. CASE l.pending = <<TypesOf(w), ModelOf(w)>>
    <3>1. Head(l.pending) = TypesOf(w) /\ Tail(l.pending) = <<ModelOf(w)>>
      BY <2>4, Short
    <3> QED BY <2>1, <2>2, <2>3, <3>1
  <2>5. CASE l.pending = <<ModelOf(w)>>
    <3>1. Head(l.pending) = ModelOf(w) /\ Len(l.pending) = 1
      BY <2>5, Short
    <3> QED BY <2>1, <2>2, <2>3, <3>1
  <2> QED BY <2>3, <2>4, <2>5
<1>3. ASSUME l.op = "remove", l.snap = << >>, l.restored = << >>, m.path \in {ModelOf(w), TypesOf(w)},
             m.pending = << >>
      PROVE  Handling(4, m, w, f, u, v)
  BY <1>3 DEF Handling, Collects, Gathered, Shows, Knows, Restores, ReadAt, PathAt
<1>4. ASSUME l.op = "remove", l.snap = << >>, l.restored = << >>, m.pending = <<ModelOf(w)>>
      PROVE  Handling(3, m, w, f, u, v)
  BY <1>4 DEF Handling, Collects, Gathered, Shows, Knows, Restores, ReadAt, PathAt
<1>5. ASSUME l.op = "remove", NEW k
      PROVE  Unseen(n, l, k, m, f, u, v)
  BY <1>5 DEF Unseen, PastOf, FutureOf
<1>6. ASSUME <<l.op, n>> \in Places["find"], m.path = Head(l.pending), m.pending = << >>
      PROVE  Handling(n + 1, m, w, f, u, v) /\ Unseen(n, l, n + 1, m, f, u, v)
  BY <1>2, <1>3, <1>5, <1>6
<1>7. ASSUME <<l.op, n>> \in Places["find"], m.path = l.path, m.pending = Tail(l.pending), Len(l.pending) # 1
      PROVE  Handling(n, m, w, f, u, v) /\ Unseen(n, l, n, m, f, u, v)
  BY <1>2, <1>4, <1>5, <1>7
<1> QED BY <1>1, <1>6, <1>7

(* The steps that load the project before it is edited, and what is        *)
(* decided from it.                                                        *)
LEMMA LoadOn ==
  ASSUME NEW n, NEW l, NEW w, NEW f, NEW u, NEW v, Handling(n, l, w, f, u, v),
         NEW m, m.op = l.op, m.snap = l.snap, m.text = l.text, m.restored = l.restored,
         m.pending = l.pending,
         \/ <<l.op, n>> \in Places["load_path"] /\ m.path = ModelOf(w)
         \/ <<l.op, n>> \in Places["load_model"] \cup Places["collide"] \cup Places["set_root"]
            /\ m.path = l.path
         \/ <<l.op, n>> \in Places["load_types"] /\ m.path = l.path
            /\ f[<<l.path[1], "types">>] # Broken
  PROVE  Handling(n + 1, m, w, f, u, v) /\ Unseen(n, l, n + 1, m, f, u, v)
<1>1. n \in 1 .. 4 /\ l.op \in {"declare", "import", "build"}
  BY DEF Places
<1>2. Collects(n + 1, m, w)
  BY <1>1 DEF Handling, Collects, Gathered, ReadAt
<1>3. Shows(n + 1, m, w, f)
  BY <1>1 DEF Handling, Shows, ReadAt
<1>4. Knows(n + 1, m, w, f)
  <2>1. ModelOf(w)[1] = w /\ TypesOf(w) = <<w, "types">>
    BY DEF ModelOf, TypesOf
  <2> QED BY <1>1, <2>1 DEF Handling, Knows, PathAt, Places
<1>5. Restores(n + 1, m, w, f, u, v)
  BY <1>1 DEF Handling, Restores
<1>6. Unseen(n, l, n + 1, m, f, u, v)
  BY <1>1 DEF Unseen, PastOf, FutureOf
<1> QED BY <1>2, <1>3, <1>4, <1>5, <1>6 DEF Handling
-----------------------------------------------------------------------------
(* Writing files.                                                          *)

\* g is f but for a file of document w.
Written(f, g, w) == \E p \in {ModelOf(w), TypesOf(w)} : \A q \in Paths \ {p} : g[q] = f[q]

(* A write is behind a whole snapshot of its document; without one it      *)
(* changes what is shown of that document only.                            *)
LEMMA WriteShows ==
  ASSUME NEW w \in Documents, NEW f \in [Paths -> Text], NEW g \in [Paths -> Text], Written(f, g, w)
  PROVE  /\ \A t : Whole(t, w) => Present(t, g) = Present(t, f)
         /\ \A t : Whole(t, w) \/ t = << >> =>
              Changed(Present(t, f), Present(<< >>, g), w, Present(<< >>, g)[w])
         /\ \A t : Whole(t, w) => Present(t, f)[w] = Contents(t)
         /\ Present(<< >>, g)[w] \in [Kinds -> Text]
         /\ Present(<< >>, g)[w] = Pair(g[ModelOf(w)], g[TypesOf(w)])
<1> DEFINE F == Present(<< >>, f)
           G == Present(<< >>, g)
<1>1. /\ F = [d \in Documents |-> [k \in Kinds |-> f[<<d, k>>]]]
      /\ G = [d \in Documents |-> [k \in Kinds |-> g[<<d, k>>]]]
  BY PresentIs
<1>2. ASSUME NEW d \in Documents, d # w PROVE F[d] = G[d]
  <2>1. \A k \in Kinds : <<d, k>> \in Paths /\ <<d, k>> # ModelOf(w) /\ <<d, k>> # TypesOf(w)
    BY <1>2 DEF Paths, ModelOf, TypesOf
  <2>2. \A k \in Kinds : f[<<d, k>>] = g[<<d, k>>]
    BY <2>1 DEF Written
  <2>3. [k \in Kinds |-> f[<<d, k>>]] = [k \in Kinds |-> g[<<d, k>>]]
    BY <2>2
  <2>4. F[d] = [k \in Kinds |-> f[<<d, k>>]] /\ G[d] = [k \in Kinds |-> g[<<d, k>>]]
    BY <1>1
  <2> QED BY <2>3, <2>4
<1>3. ASSUME NEW c, NEW h, h = [F EXCEPT ![w] = c]
      PROVE  /\ [h EXCEPT ![w] = G[w]] = G
             /\ h = [G EXCEPT ![w] = c]
             /\ h[w] = c
  <2>1. DOMAIN F = Documents /\ DOMAIN G = Documents /\ DOMAIN h = Documents
    BY <1>1, <1>3
  <2>2. \A d \in Documents : h[d] = IF d = w THEN c ELSE F[d]
    BY <1>1, <1>3
  <2>3. h = [d \in Documents |-> IF d = w THEN c ELSE F[d]]
    BY <1>1, <1>3
  <2>4. F = [d \in Documents |-> F[d]] /\ G = [d \in Documents |-> G[d]]
    BY <1>1
  <2> HIDE DEF F, G
  <2>5. [h EXCEPT ![w] = G[w]] = [d \in Documents |-> IF d = w THEN G[w] ELSE h[d]]
    BY <2>1, <2>3
  <2>6. \A d \in Documents : (IF d = w THEN G[w] ELSE h[d]) = G[d]
    BY <1>2, <2>2
  <2>7. [h EXCEPT ![w] = G[w]] = [d \in Documents |-> G[d]]
    BY <2>5, <2>6
  <2>8. [G EXCEPT ![w] = c] = [d \in Documents |-> IF d = w THEN c ELSE G[d]]
    BY <2>4
  <2>9. \A d \in Documents : (IF d = w THEN c ELSE F[d]) = (IF d = w THEN c ELSE G[d])
    BY <1>2
  <2> QED BY <2>2, <2>3, <2>4, <2>7, <2>8, <2>9
<1>4. ASSUME NEW t, Whole(t, w)
      PROVE  Present(t, f) = [F EXCEPT ![w] = Contents(t)] /\ Present(t, g) = [G EXCEPT ![w] = Contents(t)]
  <2>1. PICK x, y \in Text : t = Both(w, x, y)
    BY <1>4 DEF Whole
  <2>2. Contents(t) = Pair(x, y)
    BY <2>1, WholeContents
  <2>3. /\ Changed(Present(<< >>, f), Present(Both(w, x, y), f), w, Pair(x, y))
        /\ Changed(Present(<< >>, g), Present(Both(w, x, y), g), w, Pair(x, y))
    BY PresentIs
  <2> QED BY <2>1, <2>2, <2>3 DEF Changed
<1>5. F = [F EXCEPT ![w] = F[w]]
  BY <1>1
<1>6. G[w] \in [Kinds -> Text] /\ G[w] = Pair(g[ModelOf(w)], g[TypesOf(w)])
  <2>1. \A k \in Kinds : <<w, k>> \in Paths
    BY DEF Paths
  <2>2. G[w] = [k \in Kinds |-> g[<<w, k>>]]
    BY <1>1
  <2>3. G[w] \in [Kinds -> Text]
    BY <2>1, <2>2
  <2> QED BY <2>2, <2>3 DEF Pair, Kinds, ModelOf, TypesOf
<1> HIDE DEF F, G
<1>7. ASSUME NEW t, Whole(t, w) \/ t = << >>
      PROVE  [Present(t, f) EXCEPT ![w] = G[w]] = G
  <2>1. \E c : Present(t, f) = [F EXCEPT ![w] = c]
    BY <1>4, <1>5, <1>7 DEF F
  <2> QED BY <1>3, <2>1
<1>8. ASSUME NEW t, Whole(t, w)
      PROVE  Present(t, g) = Present(t, f) /\ Present(t, f)[w] = Contents(t)
  BY <1>3, <1>4, <1>8
<1> QED BY <1>6, <1>7, <1>8 DEF F, G, Changed

(* What can be undone, without what was pushed.                            *)
LEMMA FrontOfAppend ==
  ASSUME NEW u \in Seq(Snapshots), NEW t \in Snapshots
  PROVE  /\ Append(u, t) \in Seq(Snapshots) /\ Append(u, t) # << >>
         /\ Front(Append(u, t)) = u /\ Last(Append(u, t)) = t
<1> DEFINE q == Append(u, t)
<1>1. q \in Seq(Snapshots) /\ q # << >>
  BY AppendProperties
<1>2. q = Append(Front(q), Last(q))
  BY <1>1, StackContents
<1>3. Front(q) \in Seq(Snapshots) /\ Last(q) \in Snapshots
  BY <1>1, FrontAndLast
<1>4. Front(q) = u /\ Last(q) = t
  <2> DEFINE a == Front(q)
             b == Last(q)
  <2>1. a \in Seq(Snapshots) /\ b \in Snapshots /\ Append(a, b) = Append(u, t)
    BY <1>2, <1>3
  <2> HIDE DEF a, b, q
  <2>2. a = u /\ b = t
    BY <2>1, AppendInjective
  <2> QED BY <2>2 DEF a, b
<1> QED BY <1>1, <1>4

(* An edit has written one of its files.                                   *)
LEMMA SaveOn ==
  ASSUME NEW n, NEW l, NEW w \in Documents, NEW f \in [Paths -> Text], NEW g \in [Paths -> Text],
         NEW u, NEW v,
         Handling(n, l, w, f, u, v), <<l.op, n>> \in Places["save"], l.op # "save",
         \A q \in Paths \ {l.path} : g[q] = f[q]
  PROVE  /\ Handling(n + 1, l, w, g, u, v) /\ Present(l.snap, g) = Present(l.snap, f)
         /\ PastOf(n + 1, l, u) = PastOf(n, l, u) /\ FutureOf(n + 1, l, v) = FutureOf(n, l, v)
         /\ Written(f, g, w) /\ Whole(l.snap, w)
         /\ PastOf(n, l, u) = u /\ FutureOf(n, l, v) = v
<1>1. /\ l.op \in {"edit", "insert", "declare", "remove", "import", "build"}
      /\ l.op = "import" => n = 12 \/ n = 15
      /\ n > ReadAt[l.op] /\ n + 1 > ReadAt[l.op] /\ n + 1 > WriteAt[l.op] /\ n > PathAt[l.op]
      /\ l.op \in DOMAIN ReadAt /\ l.op \in DOMAIN PathAt
      /\ l.op \in {"declare", "import", "build"} => n + 1 > 3
      /\ n \in Nat /\ WriteAt[l.op] \in Nat /\ ReadAt[l.op] \in Nat /\ PathAt[l.op] \in Nat
  BY DEF Places, ReadAt, WriteAt, PathAt
<1>2. l.path \in {ModelOf(w), TypesOf(w)} /\ Whole(l.snap, w)
  BY <1>1 DEF Handling, Knows, Shows
<1>3. Written(f, g, w)
  BY <1>2 DEF Written
<1>4. Collects(n + 1, l, w)
  <2>1. ~(n + 1 <= ReadAt[l.op] - 2) /\ n + 1 # ReadAt[l.op] - 1
    BY <1>1
  <2>2. l.op = "import" => n + 1 = 13 \/ n + 1 = 16
    BY <1>1
  <2> QED BY <1>1, <2>1, <2>2 DEF Handling, Collects
<1>5. Shows(n + 1, l, w, g)
  <2>1. ~Untouched(n + 1, l) /\ ~(n + 1 < ReadAt[l.op]) /\ n + 1 # ReadAt[l.op]
    BY <1>1 DEF Untouched
  <2> QED BY <1>1, <1>2, <2>1 DEF Shows
<1>6. Knows(n + 1, l, w, g)
  <2>1. /\ n + 1 > PathAt[l.op]
        /\ l.op \in {"declare", "import", "build"} => ~(n + 1 \in 2 .. 3)
        /\ l.op = "import" => (n = 12 /\ n + 1 = 13) \/ (n = 15 /\ n + 1 = 16)
    BY <1>1
  <2>2. ModelOf(w) # TypesOf(w) /\ TypesOf(w) \in Paths
    BY DEF ModelOf, TypesOf, Paths, Kinds
  <2>3. l.op = "import" /\ n = 12 => l.path = ModelOf(w) /\ g[TypesOf(w)] # Broken
    BY <2>2 DEF Handling, Knows
  <2>4. l.op = "import" /\ n = 15 => l.path = TypesOf(w)
    BY DEF Handling, Knows
  <2> QED BY <1>1, <1>2, <2>1, <2>3, <2>4 DEF Knows
<1>7. l.restored = << >>
  BY <1>1 DEF Handling, Restores
<1>8. Restores(n + 1, l, w, g, u, v)
  BY <1>1, <1>7 DEF Restores
<1>9. /\ PastOf(n + 1, l, u) = u /\ FutureOf(n + 1, l, v) = v
      /\ PastOf(n, l, u) = u /\ FutureOf(n, l, v) = v
  BY <1>1, <1>7 DEF PastOf, FutureOf
<1> QED BY <1>2, <1>3, <1>4, <1>5, <1>6, <1>8, <1>9, WriteShows DEF Handling

(* A whole snapshot is one, of two files.                                  *)
LEMMA WholeIs ==
  ASSUME NEW t, NEW w \in Documents, Whole(t, w)
  PROVE  /\ t \in Snapshots /\ t # << >> /\ Len(t) = 2 /\ Len(Tail(t)) = 1 /\ Tail(t) # t
         /\ t[1][1] = ModelOf(w) /\ Tail(t)[1][1] = TypesOf(w)
         /\ Contents(t) = Pair(t[1][2], Tail(t)[1][2])
<1>1. PICK x, y \in Text : t = Both(w, x, y)
  BY DEF Whole
<1> DEFINE a == <<ModelOf(w), x>>
           b == <<TypesOf(w), y>>
<1>2. a \in Entries /\ b \in Entries
  BY DEF Entries, Paths, ModelOf, TypesOf, Kinds
<1>3. a[1] = ModelOf(w) /\ a[2] = x /\ b[1] = TypesOf(w) /\ b[2] = y
  OBVIOUS
<1>4. t = <<a, b>>
  BY <1>1 DEF Both
<1> HIDE DEF a, b
<1>5. Len(t) = 2 /\ Tail(t) = <<b>> /\ t # << >> /\ Len(<<b>>) = 1
  BY <1>4, Short
<1>6. t \in Seq(Entries)
  BY <1>2, <1>4
<1>7. t[1] = a /\ Tail(t)[1] = b
  BY <1>4, <1>5
<1>8. Contents(t) = Pair(x, y)
  BY <1>1, WholeContents
<1> QED BY <1>3, <1>5, <1>6, <1>7, <1>8 DEF Snapshots

(* An undo or a redo has popped a snapshot: it is still shown where it was. *)
LEMMA PopOn ==
  ASSUME NEW n, NEW l, NEW w, NEW f, NEW u, NEW v, Handling(n, l, w, f, u, v),
         <<l.op, n>> \in Places["pop"], NEW t, Whole(t, w), t # << >>,
         NEW m, m.op = l.op, m.snap = l.snap, m.path = l.path, m.text = l.text,
         m.pending = l.pending, m.restored = t,
         NEW a, NEW b,
         IF l.op = "undo" THEN u = Append(a, t) /\ b = v ELSE v = Append(b, t) /\ a = u
  PROVE  /\ Handling(n + 1, m, w, f, a, b) /\ Present(m.snap, f) = Present(l.snap, f)
         /\ PastOf(n + 1, m, a) = PastOf(n, l, u) /\ FutureOf(n + 1, m, b) = FutureOf(n, l, v)
<1>1. n = 1 /\ n + 1 = 2 /\ l.op \in {"undo", "redo"}
  BY DEF Places
<1>2. l.restored = << >>
  BY <1>1 DEF Handling, Restores
<1>3. Collects(2, m, w) /\ Shows(2, m, w, f) /\ Knows(2, m, w, f)
  BY <1>1 DEF Handling, Collects, Gathered, Shows, Knows, ReadAt, PathAt
<1>4. Restores(2, m, w, f, a, b)
  BY <1>1 DEF Restores
<1>5. PastOf(2, m, a) = PastOf(1, l, u) /\ FutureOf(2, m, b) = FutureOf(1, l, v)
  BY <1>1, <1>2 DEF PastOf, FutureOf
<1> QED BY <1>1, <1>3, <1>4, <1>5 DEF Handling

(* What it will replace is pushed, and not yet shown.                      *)
LEMMA PushOn ==
  ASSUME NEW n, NEW l, NEW w \in Documents, NEW f, NEW u \in Seq(Snapshots), NEW v \in Seq(Snapshots),
         Handling(n, l, w, f, u, v), <<l.op, n>> \in Places["push"],
         NEW m, m.op = l.op, m.snap = l.snap, m.path = l.path, m.text = l.text,
         m.pending = l.restored, m.restored = l.restored,
         NEW a, NEW b,
         IF l.op = "undo" THEN b = Append(v, l.snap) /\ a = u ELSE a = Append(u, l.snap) /\ b = v
  PROVE  /\ Handling(n + 1, m, w, f, a, b) /\ Present(m.snap, f) = Present(l.snap, f)
         /\ PastOf(n + 1, m, a) = PastOf(n, l, u) /\ FutureOf(n + 1, m, b) = FutureOf(n, l, v)
         /\ Whole(l.snap, w)
<1>1. n = 5 /\ n + 1 = 6 /\ l.op \in {"undo", "redo"}
  BY DEF Places
<1>2. /\ Whole(l.snap, w) /\ l.snap = Both(w, f[ModelOf(w)], f[TypesOf(w)])
      /\ Whole(l.restored, w)
  BY <1>1 DEF Handling, Shows, Restores, ReadAt, WriteAt, Untouched
<1>3. l.snap \in Snapshots /\ l.restored # << >>
  BY <1>2, WholeIs
<1>4. IF l.op = "undo" THEN b # << >> /\ Last(b) = l.snap /\ Front(b) = v
      ELSE a # << >> /\ Last(a) = l.snap /\ Front(a) = u
  BY <1>3, FrontOfAppend
<1>5. Collects(6, m, w) /\ Shows(6, m, w, f) /\ Knows(6, m, w, f)
  BY <1>1, <1>2 DEF Collects, Shows, Knows, ReadAt, PathAt
<1>6. Restores(6, m, w, f, a, b)
  BY <1>1, <1>2, <1>4 DEF Restores
<1>7. PastOf(6, m, a) = PastOf(5, l, u) /\ FutureOf(6, m, b) = FutureOf(5, l, v)
  BY <1>1, <1>3, <1>4 DEF PastOf, FutureOf
<1> QED BY <1>1, <1>2, <1>5, <1>6, <1>7 DEF Handling

(* One file is restored; the last of them makes it an undo or a redo.      *)
LEMMA RestoreOn ==
  ASSUME NEW n, NEW l, NEW w \in Documents, NEW f \in [Paths -> Text], NEW g \in [Paths -> Text],
         NEW u \in Seq(Snapshots), NEW v \in Seq(Snapshots),
         Handling(n, l, w, f, u, v), <<l.op, n>> \in Places["restore"],
         NEW p, p = l.pending[1][1], \A q \in Paths \ {p} : g[q] = f[q]
  PROVE  /\ Written(f, g, w) /\ Whole(l.snap, w) /\ Whole(l.restored, w)
         /\ l.op = "undo" => /\ v # << >> /\ Last(v) = l.snap
                             /\ PastOf(n, l, u) = Append(u, l.restored) /\ FutureOf(n, l, v) = Front(v)
         /\ l.op = "redo" => /\ u # << >> /\ Last(u) = l.snap
                             /\ FutureOf(n, l, v) = Append(v, l.restored) /\ PastOf(n, l, u) = Front(u)
         /\ g[p] = l.pending[1][2] =>
              IF Len(l.pending) = 1
              THEN Present(<< >>, g)[w] = Contents(l.restored)
              ELSE \A m : m.op = l.op /\ m.snap = l.snap /\ m.restored = l.restored
                          /\ m.pending = Tail(l.pending)
                     => Handling(n, m, w, g, u, v) /\ PastOf(n, m, u) = PastOf(n, l, u)
                        /\ FutureOf(n, m, v) = FutureOf(n, l, v)
<1>1. n = 6 /\ l.op \in {"undo", "redo"}
  BY DEF Places
<1>2. /\ Whole(l.snap, w) /\ Whole(l.restored, w)
      /\ \/ l.pending = l.restored
         \/ l.pending = Tail(l.restored) /\ f[ModelOf(w)] = l.restored[1][2]
      /\ l.op = "undo" => v # << >> /\ Last(v) = l.snap
      /\ l.op = "redo" => u # << >> /\ Last(u) = l.snap
  BY <1>1 DEF Handling, Shows, Restores, ReadAt
<1> DEFINE t == l.restored
<1>3. /\ t # << >> /\ Len(t) = 2 /\ Len(Tail(t)) = 1 /\ Tail(t) # t
      /\ t[1][1] = ModelOf(w) /\ Tail(t)[1][1] = TypesOf(w)
      /\ Contents(t) = Pair(t[1][2], Tail(t)[1][2])
  BY <1>2, WholeIs
<1>4. /\ l.op = "undo" => PastOf(n, l, u) = Append(u, l.restored) /\ FutureOf(n, l, v) = Front(v)
      /\ l.op = "redo" => FutureOf(n, l, v) = Append(v, l.restored) /\ PastOf(n, l, u) = Front(u)
  BY <1>1, <1>3 DEF PastOf, FutureOf
<1>5. p \in {ModelOf(w), TypesOf(w)}
  BY <1>2, <1>3
<1>6. Written(f, g, w)
  BY <1>5 DEF Written
<1>7. ASSUME g[p] = l.pending[1][2], Len(l.pending) = 1
      PROVE  Present(<< >>, g)[w] = Contents(l.restored)
  <2>0. l.pending = Tail(t) /\ f[ModelOf(w)] = t[1][2]
    <3>0. Len(t) = 2 /\ Len(l.pending) = 1
      BY <1>3, <1>7
    <3> HIDE DEF t
    <3>1. l.pending # t
      <4> SUFFICES ASSUME l.pending = t PROVE 1 = 2
        OBVIOUS
      <4> QED BY <3>0, Zenon
    <3> QED BY <1>2, <3>1 DEF t
  <2>1. l.pending = Tail(t) /\ f[ModelOf(w)] = t[1][2] /\ p = TypesOf(w)
    BY <1>3, <2>0
  <2>2. ModelOf(w) \in Paths /\ ModelOf(w) # TypesOf(w)
    BY DEF ModelOf, TypesOf, Paths, Kinds
  <2>3. g[ModelOf(w)] = t[1][2] /\ g[TypesOf(w)] = Tail(t)[1][2]
    BY <1>7, <2>1, <2>2
  <2>4. Present(<< >>, g)[w] = Pair(g[ModelOf(w)], g[TypesOf(w)])
    BY <1>6, WriteShows
  <2> QED BY <1>3, <2>3, <2>4
<1>8. ASSUME g[p] = l.pending[1][2], Len(l.pending) # 1,
             NEW m, m.op = l.op, m.snap = l.snap, m.restored = l.restored, m.pending = Tail(l.pending)
      PROVE  Handling(n, m, w, g, u, v) /\ PastOf(n, m, u) = PastOf(n, l, u)
             /\ FutureOf(n, m, v) = FutureOf(n, l, v)
  <2>1. l.pending = t /\ p = ModelOf(w)
    BY <1>2, <1>3, <1>8
  <2>2. m.pending = Tail(t) /\ g[ModelOf(w)] = t[1][2]
    BY <1>8, <2>1
  <2>3. Collects(6, m, w) /\ Shows(6, m, w, g) /\ Knows(6, m, w, g)
    BY <1>1, <1>2, <1>3, <1>8, <2>2 DEF Collects, Shows, Untouched, Knows, ReadAt, PathAt, WriteAt
  <2>4. Restores(6, m, w, g, u, v)
    BY <1>1, <1>2, <1>8, <2>2 DEF Restores
  <2>5. PastOf(n, m, u) = PastOf(n, l, u) /\ FutureOf(n, m, v) = FutureOf(n, l, v)
    BY <1>1, <1>8 DEF PastOf, FutureOf
  <2> QED BY <1>1, <2>3, <2>4, <2>5 DEF Handling
<1> QED BY <1>2, <1>4, <1>6, <1>7, <1>8
-----------------------------------------------------------------------------
(* The invariant.                                                          *)

\* s is left of the editing thread's handler and l its variables.  Between the
\* opening of a document and the clearing of the journal, the journal is about
\* the document open before.
Edits(s, l, w, f, u, v) ==
  /\ Follows(s, l)
  /\ s = << >> => l = Idle
  /\ Handling(Place(s, l), l, w, f, u, v)
  /\ \/ s # << >> /\ Head(s) = "clear_journal"
     \/ AllWhole(u, w) /\ AllWhole(v, w)

EditInv ==
  /\ Edits(todo[Editing], local[Editing], workspace, files, undo, redo)
  /\ \A r \in Requests \ {Editing} : Follows(todo[r], local[r])
  /\ \A r \in Requests \ {Editing} : todo[r] # << >> => local[r].op \in DockOps

(* Where a request is, by its next step.                                   *)
LEMMA StandsAt ==
  ASSUME NEW s \in Seq(StepNames), NEW l, s # << >>, Follows(s, l), NEW x, Head(s) = x
  PROVE  /\ x \in DOMAIN Places /\ l.op \notin DockOps => <<l.op, Place(s, l)>> \in Places[x]
         /\ x \notin DOMAIN Places => l.op \in DockOps
         /\ l.op \in DockOps => x \in {"load_path", "load_model", "load_types"} \/ x \notin DOMAIN Places
         /\ Tail(s) = << >> => x \in Lasts \/ (l.op = "save" /\ x = "save")
         /\ x = "lookup" => l.op = "c_on"
         /\ l.op \in DOMAIN Steps
<1> DEFINE n == Place(s, l)
<1>1. /\ l.op \in DOMAIN Steps /\ n \in 1 .. Len(Steps[l.op]) /\ Steps[l.op][n] = x
      /\ Tail(s) = << >> <=> n = Len(Steps[l.op])
  BY OneOn
<1>2. Placed(l.op, Steps[l.op])
  BY <1>1, HandlersPlaced
<1> HIDE DEF n
<1>3. l.op = "save" /\ n = Len(Steps[l.op]) => x = "save"
  <2> SUFFICES ASSUME l.op = "save", n = Len(Steps[l.op]) PROVE x = "save"
    OBVIOUS
  <2>1. Steps[l.op] = SaveSteps
    BY DEF Steps
  <2>2. Len(SaveSteps) = 4 /\ SaveSteps[4] = "save"
    BY DEF SaveSteps
  <2> QED BY <1>1, <2>1, <2>2
<1> QED BY <1>1, <1>2, <1>3, SMTT(30) DEF Placed, n

(* Two steps that the view of the journal depends on.                      *)
LEMMA WhichStep ==
  ASSUME NEW s \in Seq(StepNames), NEW l, Follows(s, l), s = << >> => l = Idle
  PROVE  /\ s # << >> /\ Head(s) = "clear_journal" <=> l.op = "open" /\ Place(s, l) = 2
         /\ l.op \in {"undo", "redo"} => (s # << >> /\ Head(s) = "restore" <=> Place(s, l) = 6)
<1>1. CASE s = << >>
  <2>1. l.op = "none"
    BY <1>1 DEF Idle
  <2> QED BY <1>1, <2>1
<1>2. CASE s # << >>
  <2> DEFINE n == Place(s, l)
             x == Head(s)
  <2>1. n \in 1 .. Len(Steps[l.op]) /\ Steps[l.op][n] = x
    BY <1>2, OneOn
  <2>2. /\ x \in DOMAIN Places /\ l.op \notin DockOps => <<l.op, n>> \in Places[x]
        /\ l.op \in DockOps => x \in {"load_path", "load_model", "load_types"} \/ x \notin DOMAIN Places
    BY <1>2, StandsAt
  <2> HIDE DEF n, x
  <2>3. x = "clear_journal" => l.op = "open" /\ n = 2
    BY <2>2 DEF Places
  <2>4. l.op = "open" /\ n = 2 => x = "clear_journal"
    BY <2>1 DEF Steps, OpenSteps
  <2>5. x = "restore" => n = 6
    BY <2>2 DEF Places
  <2>6. l.op \in {"undo", "redo"} /\ n = 6 => x = "restore"
    BY <2>1 DEF Steps, HistorySteps
  <2> QED BY <1>2, <2>3, <2>4, <2>5, <2>6 DEF n, x
<1> QED BY <1>1, <1>2

(* What the Editor shows, by where its request is: now and a step later.   *)
LEMMA View ==
  ASSUME Threads, Threads', EditInv, Edits(todo'[Editing], local'[Editing], workspace', files', undo', redo'),
         Editing \in Requests
  PROVE  /\ Shown = Present(local[Editing].snap, files)
         /\ ShownPast = PastOf(Place(todo[Editing], local[Editing]), local[Editing], undo)
         /\ ShownFuture = FutureOf(Place(todo[Editing], local[Editing]), local[Editing], redo)
         /\ Shown' = Present(local'[Editing].snap, files')
         /\ ShownPast' = PastOf(Place(todo'[Editing], local'[Editing]), local'[Editing], undo')
         /\ ShownFuture' = FutureOf(Place(todo'[Editing], local'[Editing]), local'[Editing], redo')
<1> DEFINE s == todo[Editing]
           l == local[Editing]
           t == todo'[Editing]
           m == local'[Editing]
<1>1. s \in Seq(StepNames) /\ t \in Seq(StepNames)
  BY DEF Threads
<1>2. /\ s # << >> /\ Head(s) = "clear_journal" <=> l.op = "open" /\ Place(s, l) = 2
      /\ l.op \in {"undo", "redo"} => (s # << >> /\ Head(s) = "restore" <=> Place(s, l) = 6)
  BY <1>1, WhichStep DEF EditInv, Edits
<1>3. /\ t # << >> /\ Head(t) = "clear_journal" <=> m.op = "open" /\ Place(t, m) = 2
      /\ m.op \in {"undo", "redo"} => (t # << >> /\ Head(t) = "restore" <=> Place(t, m) = 6)
  BY <1>1, WhichStep DEF Edits
<1>4. Shown = Present(l.snap, files) /\ Shown' = Present(m.snap, files')
  BY DEF Shown, InSnapshot, Present
<1>5. ShownPast = PastOf(Place(s, l), l, undo) /\ ShownFuture = FutureOf(Place(s, l), l, redo)
  BY <1>2 DEF ShownPast, ShownFuture, Popped, Pushed, At, PastOf, FutureOf
<1>6. ShownPast' = PastOf(Place(t, m), m, undo') /\ ShownFuture' = FutureOf(Place(t, m), m, redo')
  BY <1>3 DEF ShownPast, ShownFuture, Popped, Pushed, At, PastOf, FutureOf
<1> QED BY <1>4, <1>5, <1>6
-----------------------------------------------------------------------------
(* The Editor's steps.                                                     *)

(* Nothing seen changes, or a request is answered that changed nothing.    *)
LEMMA QuietStep ==
  ASSUME UNCHANGED <<workspace, Shown, ShownPast, ShownFuture>>,
         outcome'[Editing] \in {outcome[Editing], "ok", "refused"}
  PROVE  [Abstract!Next]_Abstract!editor
<1>1. AsContents(ShownPast)' = AsContents(ShownPast) /\ AsContents(ShownFuture)' = AsContents(ShownFuture)
  OBVIOUS
<1>2. CASE outcome'[Editing] = outcome[Editing]
  BY <1>1, <1>2 DEF Abstract!editor
<1>3. CASE outcome'[Editing] \in {"ok", "refused"}
  <2>1. Abstract!Keep
    BY <1>1, <1>3 DEF Abstract!Keep
  <2> QED BY <2>1 DEF Abstract!Next
<1> QED BY <1>2, <1>3

(* An edit: what was shown goes on the past, cut to the cap.               *)
LEMMA EditStep ==
  ASSUME NEW t \in Snapshots, NEW u \in Seq(Snapshots),
         ShownPast = u, AsContents(ShownFuture)' = << >>,
         ShownPast' = (IF Len(Append(u, t)) > HistoryCap THEN Tail(Append(u, t)) ELSE Append(u, t)),
         Shown[workspace] = Contents(t),
         Changed(Shown, Shown', workspace, Shown'[workspace]), Shown'[workspace] \in [Kinds -> Text],
         workspace' = workspace, outcome'[Editing] = "ok"
  PROVE  [Abstract!Next]_Abstract!editor
<1> DEFINE q == Append(u, t)
           c == Append(AsContents(u), Contents(t))
<1>1. q \in Seq(Snapshots) /\ q # << >>
  BY FrontOfAppend
<1>2. AsContents(q) = c /\ Len(AsContents(q)) = Len(q) /\ AsContents(Tail(q)) = Tail(AsContents(q))
  BY <1>1, StackContents
<1>3. AsContents(ShownPast)' = (IF Len(c) > HistoryCap THEN Tail(c) ELSE c)
  BY <1>2
<1> HIDE DEF q
<1>4. c = Append(AsContents(ShownPast), Shown[workspace])
  OBVIOUS
<1> HIDE DEF c
<1>5. Abstract!Edit
  BY <1>3, <1>4 DEF Abstract!Edit, Abstract!Capped, Abstract!DocChanges, Changed
<1> QED BY <1>5 DEF Abstract!Next

(* An undo: the last of the past shows, what did goes on the future.       *)
LEMMA UndoStep ==
  ASSUME NEW t \in Snapshots, NEW x \in Snapshots, NEW u \in Seq(Snapshots), NEW v \in Seq(Snapshots),
         ShownPast = Append(u, t), ShownPast' = u, ShownFuture = v, ShownFuture' = Append(v, x),
         Shown[workspace] = Contents(x),
         Changed(Shown, Shown', workspace, Contents(t)),
         workspace' = workspace, outcome'[Editing] = "ok"
  PROVE  [Abstract!Next]_Abstract!editor
<1> DEFINE q == Append(u, t)
           p == AsContents(ShownPast)
<1>1. q \in Seq(Snapshots) /\ q # << >> /\ Front(q) = u /\ Last(q) = t
  BY FrontOfAppend
<1>2. /\ AsContents(q) # << >> /\ Last(AsContents(q)) = Contents(Last(q))
      /\ Front(AsContents(q)) = AsContents(Front(q))
  BY <1>1, StackContents
<1>3. p # << >> /\ Last(p) = Contents(t) /\ AsContents(ShownPast)' = Front(p)
  BY <1>1, <1>2
<1>4. AsContents(ShownFuture)' = Append(AsContents(ShownFuture), Shown[workspace])
  BY StackContents
<1>a. Shown' = [Shown EXCEPT ![workspace] = Last(p)]
  BY <1>3 DEF Changed
<1>5. Abstract!Undo
  BY <1>3, <1>4, <1>a DEF Abstract!Undo, Abstract!Last, Abstract!Front, Last, Front
<1> QED BY <1>5 DEF Abstract!Next

(* A redo, likewise from the future to the past.                           *)
LEMMA RedoStep ==
  ASSUME NEW t \in Snapshots, NEW x \in Snapshots, NEW u \in Seq(Snapshots), NEW v \in Seq(Snapshots),
         ShownFuture = Append(v, t), ShownFuture' = v, ShownPast = u, ShownPast' = Append(u, x),
         Shown[workspace] = Contents(x),
         Changed(Shown, Shown', workspace, Contents(t)),
         workspace' = workspace, outcome'[Editing] = "ok"
  PROVE  [Abstract!Next]_Abstract!editor
<1> DEFINE q == Append(v, t)
           p == AsContents(ShownFuture)
<1>1. q \in Seq(Snapshots) /\ q # << >> /\ Front(q) = v /\ Last(q) = t
  BY FrontOfAppend
<1>2. /\ AsContents(q) # << >> /\ Last(AsContents(q)) = Contents(Last(q))
      /\ Front(AsContents(q)) = AsContents(Front(q))
  BY <1>1, StackContents
<1>3. p # << >> /\ Last(p) = Contents(t) /\ AsContents(ShownFuture)' = Front(p)
  BY <1>1, <1>2
<1>4. AsContents(ShownPast)' = Append(AsContents(ShownPast), Shown[workspace])
  BY StackContents
<1>5. Shown' = [Shown EXCEPT ![workspace] = Last(p)]
  BY <1>3 DEF Changed
<1>6. Abstract!Redo
  BY <1>3, <1>4, <1>5 DEF Abstract!Redo, Abstract!Last, Abstract!Front, Last, Front
<1> QED BY <1>6 DEF Abstract!Next

\* The stacks stay, or t moves from stack p to q as what is shown does from q to p.
Traded(p, p2, q, q2, x) ==
  \E a, b \in Seq(Snapshots), t \in Snapshots :
    p = Append(a, t) /\ p2 = a /\ q = b /\ q2 = Append(b, x)

(* A write fails: the open document alone may be left different.           *)
LEMMA FailStep ==
  ASSUME Changed(Shown, Shown', workspace, Shown'[workspace]), Shown'[workspace] \in [Kinds -> Text],
         workspace' = workspace, outcome'[Editing] = "failed",
         \/ UNCHANGED <<ShownPast, ShownFuture>>
         \/ \E x \in Snapshots :
              /\ Shown[workspace] = Contents(x)
              /\ \/ Traded(ShownPast, ShownPast', ShownFuture, ShownFuture', x)
                 \/ Traded(ShownFuture, ShownFuture', ShownPast, ShownPast', x)
  PROVE  [Abstract!Next]_Abstract!editor
<1>1. Abstract!DocChanges
  BY DEF Abstract!DocChanges, Changed
<1>2. ASSUME NEW p, NEW p2, NEW q, NEW q2, NEW x \in Snapshots, Traded(p, p2, q, q2, x)
      PROVE  /\ AsContents(p) # << >> /\ AsContents(p2) = Front(AsContents(p))
             /\ AsContents(q2) = Append(AsContents(q), Contents(x))
  <2>1. PICK a \in Seq(Snapshots) :
           \E b \in Seq(Snapshots), t \in Snapshots :
             p = Append(a, t) /\ p2 = a /\ q = b /\ q2 = Append(b, x)
    BY <1>2 DEF Traded
  <2>2. PICK b \in Seq(Snapshots), t \in Snapshots :
             p = Append(a, t) /\ p2 = a /\ q = b /\ q2 = Append(b, x)
    BY <2>1
  <2>3. p \in Seq(Snapshots) /\ p # << >> /\ Front(p) = a
    BY <2>2, FrontOfAppend
  <2>4. AsContents(p) # << >> /\ Front(AsContents(p)) = AsContents(a)
    BY <2>3, StackContents
  <2>5. AsContents(q2) = Append(AsContents(q), Contents(x))
    BY <2>2, StackContents
  <2> QED BY <2>2, <2>4, <2>5
<1>3. \/ AsContents(ShownPast)' = AsContents(ShownPast) /\ AsContents(ShownFuture)' = AsContents(ShownFuture)
      \/ /\ AsContents(ShownPast) # << >> /\ AsContents(ShownPast)' = Front(AsContents(ShownPast))
         /\ AsContents(ShownFuture)' = Append(AsContents(ShownFuture), Shown[workspace])
      \/ /\ AsContents(ShownFuture) # << >> /\ AsContents(ShownFuture)' = Front(AsContents(ShownFuture))
         /\ AsContents(ShownPast)' = Append(AsContents(ShownPast), Shown[workspace])
  <2>1. CASE UNCHANGED <<ShownPast, ShownFuture>>
    BY <2>1
  <2>2. CASE \E x \in Snapshots : /\ Shown[workspace] = Contents(x)
                                  /\ Traded(ShownPast, ShownPast', ShownFuture, ShownFuture', x)
    <3>1. PICK x \in Snapshots : /\ Shown[workspace] = Contents(x)
                                 /\ Traded(ShownPast, ShownPast', ShownFuture, ShownFuture', x)
      BY <2>2
    <3>2. /\ AsContents(ShownPast) # << >> /\ AsContents(ShownPast') = Front(AsContents(ShownPast))
          /\ AsContents(ShownFuture') = Append(AsContents(ShownFuture), Contents(x))
      BY <1>2, <3>1
    <3> QED BY <3>1, <3>2
  <2>3. CASE \E x \in Snapshots : /\ Shown[workspace] = Contents(x)
                                  /\ Traded(ShownFuture, ShownFuture', ShownPast, ShownPast', x)
    <3>1. PICK x \in Snapshots : /\ Shown[workspace] = Contents(x)
                                 /\ Traded(ShownFuture, ShownFuture', ShownPast, ShownPast', x)
      BY <2>3
    <3>2. /\ AsContents(ShownFuture) # << >> /\ AsContents(ShownFuture') = Front(AsContents(ShownFuture))
          /\ AsContents(ShownPast') = Append(AsContents(ShownPast), Contents(x))
      BY <1>2, <3>1
    <3> QED BY <3>1, <3>2
  <2> QED BY <2>1, <2>2, <2>3
<1>4. Abstract!Fail
  BY <1>1, <1>3 DEF Abstract!Fail, Abstract!Front, Front
<1> QED BY <1>4 DEF Abstract!Next

(* A document is opened: nothing is left to undo or to redo.               *)
LEMMA OpenStep ==
  ASSUME workspace' \in Documents, Shown' = Shown, ShownPast' = << >>, ShownFuture' = << >>,
         outcome'[Editing] = outcome[Editing]
  PROVE  [Abstract!Next]_Abstract!editor
<1>1. AsContents(ShownPast)' = << >> /\ AsContents(ShownFuture)' = << >>
  <2>1. DOMAIN << >> = {} /\ << >> = [j \in {} |-> j]
    OBVIOUS
  <2> QED BY <2>1 DEF AsContents
<1>2. Abstract!Open
  BY <1>1 DEF Abstract!Open
<1> QED BY <1>2 DEF Abstract!Next
-----------------------------------------------------------------------------
(* What a step of one request changes.                                     *)

(* The other requests' variables stay.                                     *)
LEMMA OthersStay ==
  ASSUME Threads, NEW r \in Requests, Handle(r), NEW q \in Requests, q # r
  PROVE  todo'[q] = todo[q] /\ local'[q] = local[q] /\ outcome'[q] = outcome[q]
<1> DEFINE LocalStays == UNCHANGED local \/ \E m : local' = [local EXCEPT ![r] = m]
           OutcomeStays == UNCHANGED outcome \/ \E how : outcome' = [outcome EXCEPT ![r] = how]
<1>1. ASSUME NEW m, Set(r, m) PROVE LocalStays
  BY <1>1 DEF Set
<1>2. ASSUME NEW how, Answer(r, how) PROVE LocalStays /\ OutcomeStays
  BY <1>2 DEF Answer
<1>3. ASSUME NEW t, Goto(r, t) PROVE OutcomeStays
  BY <1>3 DEF Goto
<1>4. Continue(r) => OutcomeStays
  BY <1>3 DEF Continue
<1>5. UNCHANGED local => LocalStays
  OBVIOUS
<1>6. UNCHANGED outcome => OutcomeStays
  OBVIOUS
<1> HIDE DEF LocalStays, OutcomeStays
<1>7. LocalStays /\ OutcomeStays
  <2>1. CASE AddPath(r) \/ ResolvePath(r) \/ ReadForSnapshot(r)
    BY <1>1, <1>4, <1>6, <2>1 DEF AddPath, ResolvePath, ReadForSnapshot
  <2>2. CASE LoadRaw(r) \/ Find(r) \/ Record(r) \/ Collide(r) \/ SetRoot(r)
    BY <1>1, <1>2, <1>4, <1>5, <1>6, <2>2 DEF LoadRaw, Find, Record, Collide, SetRoot
  <2>3. CASE Save(r) \/ Restore(r)
    BY <1>1, <1>2, <1>3, <2>3 DEF Save, Restore, Write
  <2>5. CASE Pop(r) \/ Push(r) \/ Open(r) \/ ClearJournal(r) \/ ClearSim(r) \/ ClearCache(r)
    BY <1>1, <1>2, <1>4, <1>5, <2>5 DEF Pop, Push, Open, ClearJournal, ClearSim, ClearCache
  <2>6. CASE LoadPath(r) \/ LoadModel(r) \/ LoadTypes(r)
    BY <1>1, <1>2, <1>4, <1>5, <2>6 DEF LoadPath, LoadModel, LoadTypes
  <2>7. CASE StoreSession(r) \/ LockSim(r) \/ Run(r) \/ StopSim(r) \/ DetachC(r)
    BY <1>2, <1>4, <1>5, <2>7 DEF StoreSession, LockSim, Run, StopSim, DetachC
  <2>8. CASE Peek(r) \/ CheckFresh(r) \/ LookUp(r) \/ Compile(r) \/ AttachC(r)
    BY <1>1, <1>2, <1>3, <1>4, <1>5, <2>8 DEF Peek, CheckFresh, LookUp, Compile, AttachC
  <2> QED BY <2>1, <2>2, <2>3, <2>5, <2>6, <2>7, <2>8 DEF Handle
<1>8. local'[q] = local[q] /\ outcome'[q] = outcome[q]
  <2>1. local \in [Requests -> Locals] /\ outcome \in [Requests -> Outcomes]
    BY DEF Threads
  <2> QED BY <1>7, <2>1 DEF LocalStays, OutcomeStays
<1> QED BY <1>8, ListMoves

\* m says of the files and the journal what l does.
Alike(m, l) == m.op = l.op /\ m.snap = l.snap /\ m.restored = l.restored

\* Request r has answered, or gone on with t left and the variables m.
Done(r) == todo'[r] = << >> /\ local'[r] = Idle /\ outcome'[r] \in {"ok", "refused"}
WentOn(r, t, m) == todo'[r] = t /\ local'[r] = m /\ outcome'[r] = outcome[r]

(* The frame of a step.                                                    *)
LEMMA FrameMoves ==
  ASSUME Threads, NEW r \in Requests
  PROVE  /\ \A how : Answer(r, how) => todo'[r] = << >> /\ local'[r] = Idle /\ outcome'[r] = how
         /\ Answer(r, "ok") \/ Answer(r, "refused") => Done(r)
         /\ \A t, m : Goto(r, t) /\ Set(r, m) => WentOn(r, t, m)
         /\ \A m : Continue(r) /\ Set(r, m) => WentOn(r, Tail(todo[r]), m)
         /\ Continue(r) /\ UNCHANGED local => WentOn(r, Tail(todo[r]), local[r])
         /\ \A m : Set(r, m) /\ UNCHANGED <<todo, outcome>> => WentOn(r, todo[r], m)
<1>1. todo \in [Requests -> Seq(StepNames)] /\ local \in [Requests -> Locals]
      /\ outcome \in [Requests -> Outcomes]
  BY DEF Threads
<1> QED BY <1>1 DEF Answer, Done, Goto, Set, WentOn, Continue

(* The variables that the dock sets are not the edits'.                    *)
LEMMA DockSets ==
  ASSUME NEW l \in Locals, NEW x, NEW y
  PROVE  /\ Alike([l EXCEPT !.path = x], l) /\ Alike([l EXCEPT !.loaded = x], l)
         /\ Alike([l EXCEPT !.sig = x, !.root = y], l) /\ Alike([l EXCEPT !.build = x], l)
         /\ Alike(l, l)
BY DEF Locals, Alike

(* A request of the dock leaves the files and the journal.                 *)
LEMMA DockMoves ==
  ASSUME Threads, NEW r \in Requests, Handle(r), Follows(todo[r], local[r]), local[r].op \in DockOps
  PROVE  /\ UNCHANGED <<workspace, files, undo, redo>>
         /\ \/ Done(r)
            \/ \E t, m : /\ WentOn(r, t, m) /\ Alike(m, local[r])
                         /\ t # << >> /\ Follows(t, m)
<1> DEFINE s == todo[r]
           l == local[r]
           On == \E t, m : WentOn(r, t, m) /\ Alike(m, l) /\ t # << >> /\ Follows(t, m)
<1>1. s # << >> /\ s \in Seq(StepNames) /\ l \in Locals
  BY ListMoves DEF Threads
<1>2. ASSUME NEW x, At(r, x)
      PROVE  /\ x \in {"load_path", "load_model", "load_types"} \/ x \notin DOMAIN Places
             /\ Tail(s) = << >> => x \in Lasts
             /\ x = "lookup" => l.op = "c_on"
  BY <1>1, <1>2, StandsAt DEF At, DockOps
<1>3. ASSUME NEW m, Alike(m, l), WentOn(r, Tail(s), m), Tail(s) # << >>
      PROVE  On
  <2>1. Follows(Tail(s), m)
    BY <1>1, <1>3, OneOn DEF Alike
  <2> QED BY <1>3, <2>1
<1>4. ASSUME NEW m, Alike(m, l), WentOn(r, <<"attach">>, m), l.op = "c_on"
      PROVE  On
  <2> DEFINE t == <<"attach">>
  <2>1. t # << >> /\ Len(t) = 1 /\ t[1] = "attach"
    OBVIOUS
  <2>2. m.op = "c_on" /\ Steps[m.op] = LoopSteps /\ m.op \in DOMAIN Steps
    BY <1>4 DEF Alike, Steps
  <2>3. Len(LoopSteps) = 8 /\ LoopSteps[8] = "attach"
    BY DEF LoopSteps
  <2>4. Follows(t, m)
    <3>1. Place(t, m) = 8
      BY <2>1, <2>2, <2>3 DEF Place
    <3> HIDE DEF t
    <3> QED BY <2>1, <2>2, <2>3, <3>1 DEF Follows
  <2> QED BY <1>4, <2>1, <2>4
<1> HIDE DEF On, s, l
<1>5. /\ ~AddPath(r) /\ ~ResolvePath(r) /\ ~ReadForSnapshot(r) /\ ~LoadRaw(r) /\ ~Find(r)
      /\ ~Save(r) /\ ~Record(r) /\ ~Collide(r) /\ ~SetRoot(r) /\ ~Pop(r) /\ ~Push(r) /\ ~Restore(r)
      /\ ~Open(r) /\ ~ClearJournal(r) /\ ~ClearSim(r) /\ ~ClearCache(r)
  BY <1>2 DEF Places, AddPath, ResolvePath, ReadForSnapshot, LoadRaw, Find, Save, Record, Collide,
              SetRoot, Pop, Push, Restore, Open, ClearJournal, ClearSim, ClearCache
<1>6. UNCHANGED <<workspace, files, undo, redo>>
  BY <1>5, JournalChanges, FileChanges
<1> SUFFICES Done(r) \/ On
  BY <1>6 DEF On, l
<1>7. ASSUME NEW x, At(r, x), x \notin Lasts, Continue(r),
             NEW m, Alike(m, l), Set(r, m)
      PROVE  On
  <2>1. Tail(s) # << >>
    BY <1>2, <1>7
  <2>2. WentOn(r, Tail(s), m)
    BY <1>7, FrameMoves DEF s
  <2> QED BY <1>3, <1>7, <2>1, <2>2
<1>8. ASSUME NEW x, At(r, x), x \notin Lasts, Continue(r), UNCHANGED local
      PROVE  On
  <2>1. Tail(s) # << >>
    BY <1>2, <1>8
  <2>2. WentOn(r, Tail(s), l)
    BY <1>8, FrameMoves DEF s, l
  <2> QED BY <1>1, <1>3, <2>1, <2>2, DockSets
<1>9. Answer(r, "ok") \/ Answer(r, "refused") => Done(r)
  BY FrameMoves
<1>10. \A x, y : /\ Alike([l EXCEPT !.path = x], l) /\ Alike([l EXCEPT !.loaded = x], l)
                 /\ Alike([l EXCEPT !.sig = x, !.root = y], l) /\ Alike([l EXCEPT !.build = x], l)
  BY <1>1, DockSets
<1>11. CASE LoadPath(r) \/ LoadModel(r) \/ LoadTypes(r)
  BY <1>7, <1>9, <1>10, <1>11 DEF LoadPath, LoadModel, LoadTypes, Lasts, l
<1>12. CASE StoreSession(r) \/ Run(r) \/ StopSim(r) \/ DetachC(r) \/ AttachC(r)
  BY <1>9, <1>12 DEF StoreSession, Run, StopSim, DetachC, AttachC
<1>13. CASE LockSim(r) \/ CheckFresh(r)
  BY <1>8, <1>9, <1>13 DEF LockSim, CheckFresh, Lasts
<1>14. CASE Peek(r) \/ Compile(r)
  BY <1>7, <1>9, <1>10, <1>14 DEF Peek, Compile, Lasts, l
<1>15. CASE LookUp(r)
  <2>1. CASE IsFor(cache, r) /\ Set(r, [local[r] EXCEPT !.build = cache.exe]) /\ Goto(r, <<"attach">>)
    <3>1. WentOn(r, <<"attach">>, [l EXCEPT !.build = cache.exe])
      BY <2>1, FrameMoves DEF l
    <3>a. At(r, "lookup")
      BY <1>15 DEF LookUp
    <3>2. l.op = "c_on"
      BY <1>2, <3>a
    <3> QED BY <1>4, <1>10, <3>1, <3>2
  <2> QED BY <1>8, <1>9, <1>15, <2>1 DEF LookUp, Lasts
<1> QED BY <1>5, <1>11, <1>12, <1>13, <1>14, <1>15 DEF Handle
-----------------------------------------------------------------------------
(* The steps of the editing thread.                                        *)

\* Where it is.
Now == Place(todo[Editing], local[Editing])

\* The step keeps the invariant, and is one of the Editor's or none.
AsEditor ==
  /\ Edits(todo'[Editing], local'[Editing], workspace', files', undo', redo')
  /\ [Abstract!Next]_Abstract!editor

(* The request has answered: the files and the journal show as they are.   *)
LEMMA AnswerShows ==
  ASSUME Threads, Threads', EditInv, Editing \in Requests,
         todo'[Editing] = << >>, local'[Editing] = Idle,
         AllWhole(undo', workspace'), AllWhole(redo', workspace')
  PROVE  /\ Edits(todo'[Editing], local'[Editing], workspace', files', undo', redo')
         /\ Shown = Present(local[Editing].snap, files)
         /\ ShownPast = PastOf(Now, local[Editing], undo)
         /\ ShownFuture = FutureOf(Now, local[Editing], redo)
         /\ Shown' = Present(<< >>, files') /\ ShownPast' = undo' /\ ShownFuture' = redo'
<1>1. Edits(todo'[Editing], local'[Editing], workspace', files', undo', redo')
  BY IdleHandling DEF Edits, Follows
<1>2. Idle.snap = << >> /\ \A n, u, v : PastOf(n, Idle, u) = u /\ FutureOf(n, Idle, v) = v
  BY IdleHandling
<1> QED BY <1>1, <1>2, View DEF Now

(* It goes on, or stays where it is, and the Editor does not notice.       *)
LEMMA QuietOn ==
  ASSUME Threads, Threads', EditInv, Editing \in Requests, todo[Editing] # << >>,
         NEW m, m.op = local[Editing].op, NEW k, NEW t, WentOn(Editing, t, m),
         \/ t = Tail(todo[Editing]) /\ t # << >> /\ k = Now + 1
         \/ t = todo[Editing] /\ k = Now,
         UNCHANGED workspace,
         Handling(k, m, workspace, files', undo', redo'),
         Present(m.snap, files') = Present(local[Editing].snap, files),
         PastOf(k, m, undo') = PastOf(Now, local[Editing], undo),
         FutureOf(k, m, redo') = FutureOf(Now, local[Editing], redo),
         AllWhole(undo', workspace), AllWhole(redo', workspace)
  PROVE  AsEditor
<1> DEFINE s == todo[Editing]
           l == local[Editing]
<1>1. s \in Seq(StepNames) /\ Follows(s, l)
  BY DEF Threads, EditInv, Edits
<1>2. Follows(t, m) /\ Place(t, m) = k
  <2>1. m.op = l.op /\ s # << >>
    OBVIOUS
  <2> HIDE DEF s, l
  <2>2. /\ Follows(s, m) /\ Place(s, m) = Place(s, l)
        /\ Follows(Tail(s), m) /\ Place(Tail(s), m) = Place(s, l) + 1
    BY <1>1, <2>1, OneOn
  <2> QED BY <2>2 DEF Now, s, l
<1>3. todo'[Editing] = t /\ local'[Editing] = m /\ outcome'[Editing] = outcome[Editing]
  BY DEF WentOn
<1>4. Edits(t, m, workspace', files', undo', redo')
  BY <1>2 DEF Edits
<1>5. UNCHANGED <<Shown, ShownPast, ShownFuture>>
  BY <1>2, <1>3, <1>4, View DEF Now
<1> QED BY <1>3, <1>4, <1>5, QuietStep DEF AsEditor

(* It answers, and the Editor has kept what it shows.                      *)
LEMMA QuietAnswer ==
  ASSUME Threads, Threads', EditInv, Editing \in Requests, Done(Editing),
         UNCHANGED workspace,
         Present(<< >>, files') = Present(local[Editing].snap, files),
         undo' = PastOf(Now, local[Editing], undo),
         redo' = FutureOf(Now, local[Editing], redo),
         AllWhole(undo', workspace), AllWhole(redo', workspace)
  PROVE  AsEditor
<1>1. Edits(todo'[Editing], local'[Editing], workspace', files', undo', redo')
      /\ UNCHANGED <<Shown, ShownPast, ShownFuture>>
  BY AnswerShows DEF Done
<1>2. outcome'[Editing] \in {"ok", "refused"}
  BY DEF Done
<1> QED BY <1>1, <1>2, QuietStep DEF AsEditor

(* Where it stands, by its next step.                                      *)
LEMMA EditingAt ==
  ASSUME ServerInv, EditInv, Editing \in Requests, NEW x, At(Editing, x),
         local[Editing].op \notin DockOps
  PROVE  /\ x \in DOMAIN Places /\ <<local[Editing].op, Now>> \in Places[x]
         /\ todo[Editing] # << >> /\ local[Editing] \in Locals
         /\ Tail(todo[Editing]) = << >> => x \in Lasts \/ (local[Editing].op = "save" /\ x = "save")
         /\ Handling(Now, local[Editing], workspace, files, undo, redo)
         /\ x # "clear_journal" => AllWhole(undo, workspace) /\ AllWhole(redo, workspace)
         /\ workspace \in Documents /\ files \in [Paths -> Text] /\ undo \in Seq(Snapshots)
         /\ redo \in Seq(Snapshots) /\ Threads
<1>1. todo[Editing] \in Seq(StepNames) /\ local[Editing] \in Locals /\ Threads
      /\ workspace \in Documents /\ files \in [Paths -> Text] /\ undo \in Seq(Snapshots)
      /\ redo \in Seq(Snapshots)
  BY DEF ServerInv, Threads, Shared
<1>2. todo[Editing] # << >> /\ Head(todo[Editing]) = x
  BY DEF At
<1>3. Follows(todo[Editing], local[Editing])
      /\ Handling(Now, local[Editing], workspace, files, undo, redo)
      /\ (x # "clear_journal" => AllWhole(undo, workspace) /\ AllWhole(redo, workspace))
  BY <1>2 DEF EditInv, Edits, Now
<1> QED BY <1>1, <1>2, <1>3, StandsAt DEF Now

\* What the steps of an editing request start from.
Serving ==
  ServerInv /\ ServerInv' /\ EditInv /\ Editing \in Requests /\ local[Editing].op \notin DockOps

\* The variables assigned by the steps of an edit.
Assigned(m, l, path, pending, text) ==
  /\ m.op = l.op /\ m.snap = l.snap /\ m.restored = l.restored
  /\ m.path = path /\ m.pending = pending /\ m.text = text

(* The variables after an assignment.                                      *)
LEMMA Assignments ==
  ASSUME NEW l \in Locals, NEW m, NEW p, NEW q, NEW x
  PROVE  /\ m = [l EXCEPT !.pending = q] => Assigned(m, l, l.path, q, l.text)
         /\ m = [l EXCEPT !.path = p] => Assigned(m, l, p, l.pending, l.text)
         /\ m = [l EXCEPT !.path = p, !.pending = q] => Assigned(m, l, p, q, l.text)
         /\ m = [l EXCEPT !.text = x] => Assigned(m, l, l.path, l.pending, x)
         /\ m = [l EXCEPT !.path = p, !.pending = q, !.text = x] => Assigned(m, l, p, q, x)
         /\ m = [l EXCEPT !.loaded = x] => Assigned(m, l, l.path, l.pending, l.text)
         /\ Assigned(l, l, l.path, l.pending, l.text)
BY DEF Locals, Assigned

(* A step that changes no file and no stack, and that the Editor does not  *)
(* notice.                                                                 *)
LEMMA Unnoticed ==
  ASSUME Serving, NEW x, At(Editing, x), x # "clear_journal",
         NEW m, m.op = local[Editing].op, NEW k, NEW t, WentOn(Editing, t, m),
         \/ t = Tail(todo[Editing]) /\ k = Now + 1 /\ x \notin Lasts /\ x # "save"
         \/ t = todo[Editing] /\ k = Now,
         UNCHANGED <<workspace, files, undo, redo>>,
         Handling(k, m, workspace, files, undo, redo),
         Unseen(Now, local[Editing], k, m, files, undo, redo)
  PROVE  AsEditor
<1>1. /\ todo[Editing] # << >> /\ (x \notin Lasts /\ x # "save" => Tail(todo[Editing]) # << >>)
      /\ AllWhole(undo, workspace) /\ AllWhole(redo, workspace)
  BY EditingAt DEF Serving
<1>2. Threads /\ Threads' /\ EditInv /\ Editing \in Requests
  BY DEF Serving, ServerInv
<1> QED BY <1>1, <1>2, QuietOn DEF Unseen

\* An edit that has written nothing, and is not reading its snapshot.
Early(n, l) ==
  l.op \in DOMAIN PathAt /\ (l.op # "save" => n \in Nat /\ n # ReadAt[l.op] /\ Untouched(n, l))

(* A request refused before it has written shows what the files do.        *)
LEMMA RefuseOn ==
  ASSUME NEW n, NEW l, NEW w \in Documents, NEW f, NEW u, NEW v, Handling(n, l, w, f, u, v),
         Early(n, l)
  PROVE  /\ Present(<< >>, f) = Present(l.snap, f)
         /\ PastOf(n, l, u) = u /\ FutureOf(n, l, v) = v
<1>1. l.op \notin {"undo", "redo", "open"}
  BY DEF PathAt, Early
<1>2. l.restored = << >>
  BY <1>1 DEF Handling, Restores
<1>3. PastOf(n, l, u) = u /\ FutureOf(n, l, v) = v
  BY <1>1, <1>2 DEF PastOf, FutureOf
<1>4. l.snap = << >> \/ l.snap = Both(w, f[ModelOf(w)], f[TypesOf(w)])
  <2>1. CASE l.op = "save"
    BY <2>1 DEF Handling, Shows, ReadAt
  <2>2. CASE l.op # "save"
    <3>1. l.op \in DOMAIN ReadAt /\ ReadAt[l.op] \in Nat
      BY <2>2 DEF Early, PathAt, ReadAt
    <3>2. n < ReadAt[l.op] \/ n > ReadAt[l.op]
      BY <2>2, <3>1 DEF Early
    <3> QED BY <2>2, <3>1, <3>2 DEF Early, Handling, Shows
  <2> QED BY <2>1, <2>2
<1> QED BY <1>3, <1>4, PresentIs

(* So the Editor keeps what it shows.                                      *)
LEMMA Refused ==
  ASSUME Serving, NEW x, At(Editing, x), Done(Editing), UNCHANGED <<workspace, files, undo, redo>>,
         Early(Now, local[Editing])
  PROVE  AsEditor
<1>1. x # "clear_journal"
  <2>1. x \in DOMAIN Places /\ <<local[Editing].op, Now>> \in Places[x]
    BY EditingAt DEF Serving
  <2> QED BY <2>1 DEF Early, Places, PathAt
<1>2. /\ AllWhole(undo, workspace) /\ AllWhole(redo, workspace) /\ workspace \in Documents
      /\ Handling(Now, local[Editing], workspace, files, undo, redo)
  BY <1>1, EditingAt DEF Serving
<1>3. /\ Present(<< >>, files) = Present(local[Editing].snap, files)
      /\ PastOf(Now, local[Editing], undo) = undo /\ FutureOf(Now, local[Editing], redo) = redo
  BY <1>2, RefuseOn
<1>4. Threads /\ Threads' /\ EditInv /\ Editing \in Requests
  BY DEF Serving, ServerInv
<1> QED BY <1>2, <1>3, <1>4, QuietAnswer

(* A path added to those to read.                                          *)
LEMMA CollectStep ==
  ASSUME Serving, AddPath(Editing)
  PROVE  AsEditor
<1> DEFINE s == todo[Editing]
           l == local[Editing]
           n == Now
<1>a. PICK x \in {"model_path", "types_path"}, p \in {ModelOf(workspace), TypesOf(workspace)} :
        /\ At(Editing, x) /\ Set(Editing, [l EXCEPT !.pending = Append(l.pending, p)])
        /\ p = IF x = "model_path" THEN ModelOf(workspace) ELSE TypesOf(workspace)
  BY DEF AddPath, ModelOf, TypesOf
<1>1. PICK m : /\ At(Editing, x) /\ Set(Editing, m)
               /\ p = IF x = "model_path" THEN ModelOf(workspace) ELSE TypesOf(workspace)
               /\ m = [l EXCEPT !.pending = Append(l.pending, p)]
  BY <1>a
<1>2. x # "clear_journal" /\ x \notin Lasts /\ x # "save"
  BY DEF Lasts
<1>3. /\ <<l.op, n>> \in Places[x] /\ l \in Locals
      /\ Handling(n, l, workspace, files, undo, redo) /\ Threads
  BY <1>1, <1>2, EditingAt DEF Serving
<1>4. WentOn(Editing, Tail(s), m) /\ UNCHANGED <<workspace, files, undo, redo>>
  BY <1>1, <1>3, FrameMoves DEF Serving, AddPath, journal
<1>5. Assigned(m, l, l.path, Append(l.pending, p), l.text)
  BY <1>1, <1>3, Assignments
<1>6. Handling(n + 1, m, workspace, files, undo, redo) /\ Unseen(n, l, n + 1, m, files, undo, redo)
  <2> HIDE DEF s, l, n
  <2> QED BY <1>1, <1>3, <1>5, CollectOn DEF Assigned
<1> QED BY <1>1, <1>2, <1>4, <1>5, <1>6, Unnoticed DEF Assigned

(* The path of the file to edit.                                           *)
LEMMA ResolveStep ==
  ASSUME Serving, ResolvePath(Editing)
  PROVE  AsEditor
<1> DEFINE s == todo[Editing]
           l == local[Editing]
           n == Now
<1>1. PICK x, m :
        /\ x \in {"path", "types_target"}
        /\ At(Editing, x) /\ Set(Editing, m)
        /\ \/ x = "path" /\ m = [l EXCEPT !.path = ModelOf(workspace)]
           \/ x = "types_target" /\ m = [l EXCEPT !.path = Head(l.pending), !.pending = << >>]
  BY DEF ResolvePath, ModelOf
<1>2. x # "clear_journal" /\ x \notin Lasts /\ x # "save"
  BY <1>1 DEF Lasts
<1>3. /\ <<l.op, n>> \in Places[x] /\ l \in Locals
      /\ Handling(n, l, workspace, files, undo, redo) /\ Threads
  BY <1>1, <1>2, EditingAt DEF Serving
<1>4. WentOn(Editing, Tail(s), m) /\ UNCHANGED <<workspace, files, undo, redo>>
  BY <1>1, <1>3, FrameMoves DEF Serving, ResolvePath, journal
<1>5. \/ x = "path" /\ Assigned(m, l, ModelOf(workspace), l.pending, l.text)
      \/ x = "types_target" /\ Assigned(m, l, Head(l.pending), << >>, l.text)
  BY <1>1, <1>3, Assignments
<1>6. m.op = l.op /\ Handling(n + 1, m, workspace, files, undo, redo)
      /\ Unseen(n, l, n + 1, m, files, undo, redo)
  <2> HIDE DEF s, l, n
  <2> QED BY <1>1, <1>3, <1>5, ResolveOn DEF Assigned
<1> QED BY <1>1, <1>2, <1>4, <1>6, Unnoticed

(* The files read for the snapshot.                                        *)
LEMMA ReadStep ==
  ASSUME Serving, ReadForSnapshot(Editing)
  PROVE  AsEditor
<1> DEFINE s == todo[Editing]
           l == local[Editing]
           n == Now
<1>1. PICK m :
        /\ At(Editing, "read") /\ Set(Editing, m)
        /\ m = [l EXCEPT !.snap = Append(l.snap, <<Head(l.pending), files[Head(l.pending)]>>),
                         !.pending = Tail(l.pending)]
  BY DEF ReadForSnapshot
<1>3. /\ <<l.op, n>> \in Places["read"] /\ l \in Locals
      /\ Handling(n, l, workspace, files, undo, redo) /\ Threads
      /\ workspace \in Documents /\ files \in [Paths -> Text]
  BY <1>1, EditingAt DEF Serving
<1>4. /\ Len(l.pending) = 1 => WentOn(Editing, Tail(s), m)
      /\ Len(l.pending) # 1 => WentOn(Editing, s, m)
      /\ UNCHANGED <<workspace, files, undo, redo>>
  BY <1>1, <1>3, FrameMoves DEF Serving, ReadForSnapshot, journal
<1>5. /\ m.op = l.op /\ m.path = l.path /\ m.text = l.text /\ m.restored = l.restored
      /\ m.snap = Append(l.snap, <<Head(l.pending), files[Head(l.pending)]>>)
      /\ m.pending = Tail(l.pending)
  BY <1>1, <1>3 DEF Locals
<1>6. IF Len(l.pending) = 1
      THEN Handling(n + 1, m, workspace, files, undo, redo) /\ Unseen(n, l, n + 1, m, files, undo, redo)
      ELSE Handling(n, m, workspace, files, undo, redo) /\ Unseen(n, l, n, m, files, undo, redo)
  <2> HIDE DEF s, l, n
  <2> QED BY <1>3, <1>5, ReadOn
<1>7. "read" # "clear_journal" /\ "read" \notin Lasts /\ "read" # "save"
  BY DEF Lasts
<1> QED BY <1>1, <1>4, <1>5, <1>6, <1>7, Unnoticed

(* The file to edit is loaded, or the edit refused.                        *)
LEMMA LoadRawStep ==
  ASSUME Serving, LoadRaw(Editing)
  PROVE  AsEditor
<1> DEFINE s == todo[Editing]
           l == local[Editing]
           n == Now
           text == files[l.path]
<1>1. At(Editing, "load_raw") /\ UNCHANGED <<workspace, files, undo, redo>>
  BY DEF LoadRaw, journal
<1>2. /\ <<l.op, n>> \in Places["load_raw"] /\ l \in Locals
      /\ Handling(n, l, workspace, files, undo, redo) /\ Threads
  BY <1>1, EditingAt DEF Serving
<1>3. ASSUME text = Broken \/ Rejects(l, text), Done(Editing)
      PROVE  AsEditor
    <2>1. ~(l.op = "import" /\ n = 14)
      <3> SUFFICES ASSUME l.op = "import", n = 14 PROVE FALSE
        OBVIOUS
      <3>1. text # Broken
        BY <1>2 DEF Handling, Knows
      <3>2. ~Rejects(l, text)
        BY DEF Rejects
      <3> QED BY <1>3, <3>1, <3>2
    <2>2. Early(n, l)
      BY <1>2, <2>1 DEF Early, Places, PathAt, ReadAt, Untouched, WriteAt
    <2> QED BY <1>1, <1>3, <2>2, Refused
<1>4. ASSUME NEW m, m = [l EXCEPT !.text = Edited(l, text)], WentOn(Editing, Tail(s), m)
      PROVE  AsEditor
  <2>1. Assigned(m, l, l.path, l.pending, Edited(l, text))
    BY <1>2, <1>4, Assignments
  <2>2. l.op = "save" => m.text = files[l.path]
    BY <2>1 DEF Assigned, Edited
  <2>3. Handling(n + 1, m, workspace, files, undo, redo) /\ Unseen(n, l, n + 1, m, files, undo, redo)
    <3> HIDE DEF s, l, n
    <3> QED BY <1>2, <2>1, <2>2, LookOn DEF Assigned
  <2>4. "load_raw" # "clear_journal" /\ "load_raw" \notin Lasts /\ "load_raw" # "save"
    BY DEF Lasts
  <2> QED BY <1>1, <1>4, <2>1, <2>3, <2>4, Unnoticed DEF Assigned
<1>5. CASE text = Broken \/ Rejects(l, text)
  <2>1. Done(Editing)
    BY <1>2, <1>5, FrameMoves DEF LoadRaw, Serving
  <2> QED BY <1>3, <1>5, <2>1
<1>6. CASE ~(text = Broken \/ Rejects(l, text))
  <2>1. PICK m : m = [l EXCEPT !.text = Edited(l, text)] /\ Set(Editing, m) /\ Continue(Editing)
    BY <1>6 DEF LoadRaw
  <2>2. WentOn(Editing, Tail(s), m)
    BY <1>2, <2>1, FrameMoves DEF Serving
  <2> QED BY <1>4, <2>1, <2>2
<1> QED BY <1>5, <1>6

(* A removal finds its declaration, looks further, or is refused.          *)
LEMMA FindStep ==
  ASSUME Serving, Find(Editing)
  PROVE  AsEditor
<1> DEFINE s == todo[Editing]
           l == local[Editing]
           n == Now
           p == Head(l.pending)
<1>1. At(Editing, "find") /\ UNCHANGED <<workspace, files, undo, redo>>
  BY DEF Find, journal
<1>2. /\ <<l.op, n>> \in Places["find"] /\ l \in Locals
      /\ Handling(n, l, workspace, files, undo, redo) /\ Threads /\ Editing \in Requests
  BY <1>1, EditingAt DEF Serving
<1>3. "find" # "clear_journal" /\ "find" \notin Lasts /\ "find" # "save"
  BY DEF Lasts
<1>4. CASE files[p] # Broken /\ l.name \in files[p]
  <2>1. PICK m : m = [l EXCEPT !.path = p, !.pending = << >>, !.text = Edited(l, files[p])]
                 /\ Set(Editing, m) /\ Continue(Editing)
    BY <1>4 DEF Find
  <2>2. WentOn(Editing, Tail(s), m)
    BY <1>2, <2>1, FrameMoves
  <2>3. Assigned(m, l, p, << >>, Edited(l, files[p]))
    BY <1>2, <2>1, Assignments
  <2>4. Handling(n + 1, m, workspace, files, undo, redo) /\ Unseen(n, l, n + 1, m, files, undo, redo)
    <3> HIDE DEF s, l, n
    <3> QED BY <1>2, <2>3, LookOn DEF Assigned
  <2> QED BY <1>1, <1>3, <2>2, <2>3, <2>4, Unnoticed DEF Assigned
<1>5. CASE /\ ~(files[p] # Broken /\ l.name \in files[p])
           /\ files[p] = Broken \/ Len(l.pending) = 1
  <2>1. Done(Editing)
    BY <1>2, <1>5, FrameMoves DEF Find
  <2>2. Early(n, l)
    BY <1>2 DEF Early, Places, PathAt, ReadAt, Untouched, WriteAt
  <2> QED BY <1>1, <2>1, <2>2, Refused
<1>6. CASE /\ ~(files[p] # Broken /\ l.name \in files[p])
           /\ ~(files[p] = Broken \/ Len(l.pending) = 1)
  <2>1. PICK m : m = [l EXCEPT !.pending = Tail(l.pending)]
                 /\ Set(Editing, m) /\ UNCHANGED <<todo, outcome>>
    BY <1>6 DEF Find
  <2>2. WentOn(Editing, s, m)
    BY <1>2, <2>1, FrameMoves
  <2>3. Assigned(m, l, l.path, Tail(l.pending), l.text)
    BY <1>2, <2>1, Assignments
  <2>4. Handling(n, m, workspace, files, undo, redo) /\ Unseen(n, l, n, m, files, undo, redo)
    <3> HIDE DEF s, l, n
    <3> QED BY <1>2, <1>6, <2>3, LookOn DEF Assigned
  <2> QED BY <1>1, <1>3, <2>2, <2>3, <2>4, Unnoticed DEF Assigned
<1> QED BY <1>4, <1>5, <1>6

(* The project loaded before an edit, and what is decided from it.         *)
LEMMA LoadStep ==
  ASSUME Serving, LoadPath(Editing) \/ LoadModel(Editing) \/ LoadTypes(Editing)
                  \/ Collide(Editing) \/ SetRoot(Editing)
  PROVE  AsEditor
<1> DEFINE s == todo[Editing]
           l == local[Editing]
           n == Now
           Loads == {"load_path", "load_model", "load_types", "collide", "set_root"}
<1>1. UNCHANGED <<workspace, files, undo, redo>>
  BY DEF LoadPath, LoadModel, LoadTypes, Collide, SetRoot, journal
<1>2. ASSUME NEW x \in Loads, At(Editing, x)
      PROVE  /\ <<l.op, n>> \in Places[x] /\ l \in Locals
             /\ Handling(n, l, workspace, files, undo, redo) /\ Threads /\ Editing \in Requests
             /\ x # "clear_journal" /\ x \notin Lasts /\ x # "save"
  BY <1>2, EditingAt DEF Serving, Lasts
<1>3. Threads /\ Editing \in Requests
  BY DEF Serving, ServerInv
<1>4. ASSUME NEW x \in Loads, At(Editing, x), Done(Editing), x # "load_path", x # "load_model"
      PROVE  AsEditor
  <2>1. Early(n, l)
    BY <1>2, <1>4 DEF Early, Places, PathAt, ReadAt, Untouched, WriteAt
  <2> QED BY <1>1, <1>4, <2>1, Refused
<1>5. ASSUME NEW x \in Loads, At(Editing, x), NEW m, WentOn(Editing, Tail(s), m),
             NEW p, Assigned(m, l, p, l.pending, l.text),
             \/ x = "load_path" /\ p = ModelOf(workspace)
             \/ x \in {"load_model", "collide", "set_root"} /\ p = l.path
             \/ x = "load_types" /\ p = l.path /\ files[<<l.path[1], "types">>] # Broken
      PROVE  AsEditor
  <2>1. m.op = l.op /\ Handling(n + 1, m, workspace, files, undo, redo)
        /\ Unseen(n, l, n + 1, m, files, undo, redo)
    <3>1. /\ <<l.op, n>> \in Places[x]
          /\ Handling(n, l, workspace, files, undo, redo)
      BY <1>2, <1>5
    <3> HIDE DEF s, l, n
    <3> QED BY <1>5, <3>1, LoadOn DEF Assigned
  <2> QED BY <1>1, <1>2, <1>5, <2>1, Unnoticed
<1>6. CASE LoadPath(Editing)
  <2>1. PICK m : m = [l EXCEPT !.path = ModelOf(workspace)] /\ Set(Editing, m) /\ Continue(Editing)
                 /\ At(Editing, "load_path")
    BY <1>6 DEF LoadPath, ModelOf
  <2>2. WentOn(Editing, Tail(s), m)
    BY <1>3, <2>1, FrameMoves
  <2>3. Assigned(m, l, ModelOf(workspace), l.pending, l.text)
    BY <1>2, <2>1, Assignments
  <2> QED BY <1>5, <2>1, <2>2, <2>3
<1>7. CASE LoadModel(Editing)
  <2>1. PICK m : m = [l EXCEPT !.loaded = [model |-> files[l.path]]] /\ Set(Editing, m)
                 /\ Continue(Editing) /\ At(Editing, "load_model")
    BY <1>7 DEF LoadModel
  <2>2. WentOn(Editing, Tail(s), m)
    BY <1>3, <2>1, FrameMoves
  <2>3. Assigned(m, l, l.path, l.pending, l.text)
    BY <1>2, <2>1, Assignments
  <2> QED BY <1>5, <2>1, <2>2, <2>3
<1>8. CASE LoadTypes(Editing)
  <2> DEFINE texts == [model |-> l.loaded.model, types |-> files[<<l.path[1], "types">>]]
  <2>1. At(Editing, "load_types")
    BY <1>8 DEF LoadTypes
  <2>2. CASE Readable(texts)
    <3>1. PICK m : m = [l EXCEPT !.loaded = texts] /\ Set(Editing, m) /\ Continue(Editing)
      BY <1>8, <2>2 DEF LoadTypes
    <3>2. WentOn(Editing, Tail(s), m)
      BY <1>3, <3>1, FrameMoves
    <3>3. Assigned(m, l, l.path, l.pending, l.text)
      BY <1>2, <2>1, <3>1, Assignments
    <3>4. files[<<l.path[1], "types">>] # Broken
      BY <2>2 DEF Readable, Kinds
    <3> QED BY <1>5, <2>1, <3>2, <3>3, <3>4
  <2>3. CASE ~Readable(texts)
    <3>1. Done(Editing)
      BY <1>3, <1>8, <2>3, FrameMoves DEF LoadTypes
    <3> QED BY <1>4, <2>1, <3>1
  <2> QED BY <2>2, <2>3
<1>9. CASE Collide(Editing) \/ SetRoot(Editing)
  <2>1. PICK x \in {"collide", "set_root"} :
          /\ At(Editing, x)
          /\ Answer(Editing, "refused") \/ Answer(Editing, "ok") \/ (Continue(Editing) /\ UNCHANGED local)
    BY <1>9 DEF Collide, SetRoot
  <2>2. Done(Editing) \/ WentOn(Editing, Tail(s), l)
    BY <1>3, <2>1, FrameMoves
  <2>3. Assigned(l, l, l.path, l.pending, l.text)
    BY DEF Assigned
  <2> QED BY <1>4, <1>5, <2>1, <2>2, <2>3
<1> QED BY <1>6, <1>7, <1>8, <1>9

(* A file is saved, not at all, in part or in full.                        *)
LEMMA SaveStep ==
  ASSUME Serving, Save(Editing)
  PROVE  AsEditor
<1> DEFINE s == todo[Editing]
           l == local[Editing]
           n == Now
           w == workspace
<1>1. At(Editing, "save") /\ UNCHANGED <<workspace, undo, redo>>
  BY DEF Save, journal
<1>2. /\ <<l.op, n>> \in Places["save"] /\ l \in Locals /\ s # << >>
      /\ Handling(n, l, workspace, files, undo, redo)
      /\ AllWhole(undo, workspace) /\ AllWhole(redo, workspace)
      /\ w \in Documents /\ files \in [Paths -> Text]
      /\ l.op # "save" => Tail(s) # << >>
  BY <1>1, EditingAt DEF Serving, Lasts
<1>3. Threads /\ Threads' /\ EditInv /\ Editing \in Requests /\ files' \in [Paths -> Text]
  BY DEF Serving, ServerInv, Shared
<1>4. l.op = "save" => Tail(s) = << >> /\ l.path = ModelOf(w) /\ l.text = files[ModelOf(w)] /\ l.snap = << >>
  <2> SUFFICES ASSUME l.op = "save"
               PROVE  Tail(s) = << >> /\ l.path = ModelOf(w) /\ l.text = files[ModelOf(w)] /\ l.snap = << >>
    OBVIOUS
  <2>1. n = 4
    BY <1>2 DEF Places
  <2>2. l.path = ModelOf(w) /\ l.text = files[ModelOf(w)] /\ l.snap = << >>
    BY <1>2, <2>1 DEF Handling, Knows, Shows, ReadAt
  <2>3. s \in Seq(StepNames) /\ Follows(s, l) /\ l.op = l.op
    BY <1>3 DEF Threads, EditInv, Edits
  <2>4. Tail(s) = << >> <=> n = Len(Steps[l.op])
    <3>1. n = Place(s, l)
      BY DEF Now
    <3> HIDE DEF s, l, n
    <3>2. PICK m : m.op = l.op
      OBVIOUS
    <3>3. Tail(s) = << >> <=> Place(s, l) = Len(Steps[l.op])
      BY <1>2, <2>3, <3>2, OneOn
    <3> QED BY <3>1, <3>3
  <2>5. Steps[l.op] = SaveSteps /\ Len(SaveSteps) = 4
    BY DEF Steps, SaveSteps
  <2> QED BY <2>1, <2>2, <2>4, <2>5
<1>5. ASSUME \/ l.op = "save"
             \/ l.path \in Native \X {"model"}
      PROVE  Early(n, l)
  <2>1. l.op = "import" /\ n = 15 => l.path = TypesOf(w)
    BY <1>2 DEF Handling, Knows
  <2>2. ~(l.op = "import" /\ n = 15)
    BY <1>5, <2>1 DEF TypesOf
  <2> QED BY <1>2, <2>2 DEF Early, Places, PathAt, ReadAt, Untouched, WriteAt
<1>6. CASE l.path \in Native \X {"model"}
  <2>1. Done(Editing) /\ UNCHANGED files
    BY <1>3, <1>6, FrameMoves DEF Save
  <2> QED BY <1>1, <1>5, <1>6, <2>1, Refused
<1>7. ASSUME l.op # "save", \A q \in Paths \ {l.path} : files'[q] = files[q]
      PROVE  /\ Handling(n + 1, l, w, files', undo, redo) /\ Present(l.snap, files') = Present(l.snap, files)
             /\ PastOf(n + 1, l, undo) = PastOf(n, l, undo) /\ FutureOf(n + 1, l, redo) = FutureOf(n, l, redo)
             /\ Written(files, files', w) /\ Whole(l.snap, w)
             /\ PastOf(n, l, undo) = undo /\ FutureOf(n, l, redo) = redo
  <2> HIDE DEF s, l, n, w
  <2> QED BY <1>2, <1>3, <1>7, SaveOn DEF w
<1>8. CASE l.path \notin Native \X {"model"} /\ files' = [files EXCEPT ![l.path] = l.text]
           /\ (IF Tail(s) = << >> THEN Answer(Editing, "ok") ELSE Goto(Editing, Tail(s)) /\ Set(Editing, l))
  <2>1. \A q \in Paths \ {l.path} : files'[q] = files[q]
    BY <1>2, <1>8
  <2>2. CASE l.op # "save"
    <3>1. WentOn(Editing, Tail(s), l)
      BY <1>2, <1>3, <1>8, <2>2, FrameMoves
    <3> QED BY <1>1, <1>2, <1>3, <1>7, <2>1, <2>2, <3>1, QuietOn
  <2>3. CASE l.op = "save"
    <3>1. Done(Editing)
      BY <1>3, <1>4, <1>8, <2>3, FrameMoves
    <3>2. files' = files
      BY <1>2, <1>4, <1>8, <2>3
    <3> QED BY <1>1, <1>5, <2>3, <3>1, <3>2, Refused
  <2> QED BY <2>2, <2>3
<1>9. CASE files' \in {files, [files EXCEPT ![l.path] = Broken]} /\ Answer(Editing, "failed")
  <2>1. \A q \in Paths \ {l.path} : files'[q] = files[q]
    BY <1>2, <1>9
  <2>2. /\ Written(files, files', w) /\ (Whole(l.snap, w) \/ l.snap = << >>)
        /\ PastOf(n, l, undo) = undo /\ FutureOf(n, l, redo) = redo
    <3>1. CASE l.op # "save"
      BY <1>7, <2>1, <3>1
    <3>2. CASE l.op = "save"
      <4>1. Written(files, files', w)
        BY <1>4, <2>1, <3>2 DEF Written
      <4> QED BY <1>2, <1>4, <1>5, <3>2, <4>1, RefuseOn
    <3> QED BY <3>1, <3>2
  <2>3. todo'[Editing] = << >> /\ local'[Editing] = Idle /\ outcome'[Editing] = "failed"
    BY <1>3, <1>9, FrameMoves
  <2>4. /\ Edits(todo'[Editing], local'[Editing], workspace', files', undo', redo')
        /\ Shown = Present(l.snap, files) /\ Shown' = Present(<< >>, files')
        /\ UNCHANGED <<ShownPast, ShownFuture>>
    BY <1>1, <1>2, <1>3, <2>2, <2>3, AnswerShows
  <2>5. Changed(Shown, Shown', w, Shown'[w]) /\ Shown'[w] \in [Kinds -> Text]
    <3>1. /\ Changed(Present(l.snap, files), Present(<< >>, files'), w, Present(<< >>, files')[w])
          /\ Present(<< >>, files')[w] \in [Kinds -> Text]
      <4> HIDE DEF s, l, n, w
      <4> QED BY <1>2, <1>3, <2>2, WriteShows
    <3> QED BY <2>4, <3>1
  <2> QED BY <1>1, <2>3, <2>4, <2>5, FailStep DEF AsEditor
<1> QED BY <1>6, <1>8, <1>9 DEF Save, Write

(* Whole snapshots, after one comes or goes.                               *)
LEMMA StackWhole ==
  ASSUME NEW u \in Seq(Snapshots), NEW w \in Documents, AllWhole(u, w)
  PROVE  /\ AllWhole(<< >>, w)
         /\ \A t : Whole(t, w) => AllWhole(Append(u, t), w)
         /\ u # << >> => AllWhole(Tail(u), w) /\ AllWhole(Front(u), w) /\ Whole(Last(u), w)
<1>1. Len(u) \in Nat /\ (u # << >> => Len(u) # 0)
  BY LenProperties, EmptySeq
<1>2. AllWhole(<< >>, w)
  BY EmptySeq DEF AllWhole
<1>3. ASSUME NEW t, Whole(t, w) PROVE AllWhole(Append(u, t), w)
  <2>1. t \in Snapshots
    BY <1>3, WholeIs
  <2>2. /\ Len(Append(u, t)) = Len(u) + 1 /\ Append(u, t)[Len(u) + 1] = t
        /\ \A j \in 1 .. Len(u) : Append(u, t)[j] = u[j]
    BY <2>1, AppendProperties
  <2>3. \A j \in 1 .. Len(u) + 1 : j \in 1 .. Len(u) \/ j = Len(u) + 1
    BY <1>1
  <2> QED BY <1>3, <2>2, <2>3 DEF AllWhole
<1>4. ASSUME u # << >> PROVE AllWhole(Tail(u), w)
  <2>1. Len(Tail(u)) = Len(u) - 1 /\ \A j \in 1 .. Len(Tail(u)) : Tail(u)[j] = u[j + 1]
    BY <1>4, HeadTailProperties
  <2>2. \A j \in 1 .. Len(u) - 1 : j + 1 \in 1 .. Len(u)
    BY <1>1
  <2> QED BY <2>1, <2>2 DEF AllWhole
<1>5. ASSUME u # << >> PROVE AllWhole(Front(u), w) /\ Whole(Last(u), w)
  <2>1. u = Append(Front(u), Last(u)) /\ Front(u) \in Seq(Snapshots) /\ Last(u) \in Snapshots
    BY <1>5, StackContents, FrontAndLast
  <2> DEFINE a == Front(u)
             b == Last(u)
  <2>2. u = Append(a, b) /\ a \in Seq(Snapshots) /\ b \in Snapshots
    BY <2>1
  <2> HIDE DEF a, b
  <2>3. /\ Len(u) = Len(a) + 1 /\ u[Len(a) + 1] = b /\ Len(a) \in Nat
        /\ \A j \in 1 .. Len(a) : u[j] = a[j]
    BY <2>2, AppendProperties, LenProperties
  <2>4. /\ \A j \in 1 .. Len(a) : j \in 1 .. Len(u)
        /\ Len(a) + 1 \in 1 .. Len(u)
    BY <2>3
  <2> QED BY <2>3, <2>4 DEF AllWhole, a, b
<1> QED BY <1>2, <1>3, <1>4, <1>5

(* The edit recorded: the Editor's edit.                                   *)
LEMMA RecordStep ==
  ASSUME Serving, Record(Editing)
  PROVE  AsEditor
<1> DEFINE l == local[Editing]
           n == Now
           w == workspace
           pushed == Append(undo, l.snap)
<1>a. At(Editing, "record")
  BY DEF Record
<1>1. /\ UNCHANGED <<workspace, files>> /\ Answer(Editing, "ok")
      /\ undo' = (IF Len(pushed) > HistoryCap THEN Tail(pushed) ELSE pushed) /\ redo' = << >>
  BY DEF Record
<1>2. /\ <<l.op, n>> \in Places["record"] /\ Handling(n, l, workspace, files, undo, redo)
      /\ AllWhole(undo, workspace) /\ AllWhole(redo, workspace) /\ undo \in Seq(Snapshots)
      /\ w \in Documents /\ files \in [Paths -> Text]
  <2>1. ServerInv /\ EditInv /\ Editing \in Requests /\ l.op \notin DockOps
    BY DEF Serving
  <2>2. <<l.op, n>> \in Places["record"]
    BY <1>a, <2>1, EditingAt
  <2>3. Handling(n, l, workspace, files, undo, redo) /\ undo \in Seq(Snapshots)
    BY <1>a, <2>1, EditingAt
  <2>4. AllWhole(undo, workspace) /\ AllWhole(redo, workspace) 
    BY <1>a, <2>1, EditingAt
  <2>5. w \in Documents /\ files \in [Paths -> Text]
    BY <1>a, <2>1, EditingAt
  <2> QED BY <2>2, <2>3, <2>4, <2>5
<1>3. Threads /\ Threads' /\ EditInv /\ Editing \in Requests
  BY DEF Serving, ServerInv
<1>4. Whole(l.snap, w) /\ l.restored = << >> /\ l.op \notin {"open", "undo", "redo"}
  BY <1>2 DEF Places, Handling, Shows, Restores, ReadAt
<1>5. l.snap \in Snapshots
  BY <1>2, <1>4, WholeIs
<1>6. PastOf(n, l, undo) = undo /\ FutureOf(n, l, redo) = redo
  BY <1>4 DEF PastOf, FutureOf
<1>7. AllWhole(undo', workspace') /\ AllWhole(redo', workspace')
  <2>1. AllWhole(pushed, w) /\ AllWhole(<< >>, w) /\ pushed \in Seq(Snapshots) /\ pushed # << >>
    BY <1>2, <1>4, <1>5, StackWhole, FrontOfAppend
  <2> HIDE DEF pushed
  <2>2. AllWhole(Tail(pushed), w)
    BY <1>2, <2>1, StackWhole
  <2> QED BY <1>1, <2>1, <2>2
<1>8. todo'[Editing] = << >> /\ local'[Editing] = Idle /\ outcome'[Editing] = "ok"
  BY <1>1, <1>3, FrameMoves
<1>9. /\ Edits(todo'[Editing], local'[Editing], workspace', files', undo', redo')
      /\ Shown = Present(l.snap, files) /\ Shown' = Present(<< >>, files)
      /\ ShownPast = undo /\ ShownPast' = undo' /\ ShownFuture' = << >>
  BY <1>1, <1>3, <1>6, <1>7, <1>8, AnswerShows
<1>10. /\ Present(l.snap, files)[w] = Contents(l.snap)
       /\ Changed(Present(l.snap, files), Present(<< >>, files), w, Present(<< >>, files)[w])
       /\ Present(<< >>, files)[w] \in [Kinds -> Text]
  <2>1. Written(files, files, w)
    BY DEF Written
  <2> HIDE DEF l, w
  <2> QED BY <1>2, <1>4, <2>1, WriteShows
<1>11. AsContents(ShownFuture)' = << >>
  BY <1>2, <1>5, <1>9, StackContents
<1>12. [Abstract!Next]_Abstract!editor
  BY <1>1, <1>2, <1>5, <1>8, <1>9, <1>10, <1>11, EditStep
<1> QED BY <1>9, <1>12 DEF AsEditor

(* A snapshot popped, or nothing to pop.                                   *)
LEMMA PopStep ==
  ASSUME Serving, Pop(Editing)
  PROVE  AsEditor
<1> DEFINE s == todo[Editing]
           l == local[Editing]
           n == Now
           from == IF l.op = "undo" THEN undo ELSE redo
<1>1. At(Editing, "pop") /\ UNCHANGED <<workspace, files>>
  BY DEF Pop
<1>2. <<l.op, n>> \in Places["pop"] /\ Handling(n, l, workspace, files, undo, redo)
  BY <1>1, EditingAt DEF Serving
<1>3. AllWhole(undo, workspace) /\ AllWhole(redo, workspace) /\ l \in Locals /\ s # << >>
  BY <1>1, EditingAt DEF Serving
<1>4. undo \in Seq(Snapshots) /\ redo \in Seq(Snapshots) /\ workspace \in Documents
  BY DEF Serving, ServerInv, Shared
<1>5. Tail(s) # << >>
  BY <1>1, EditingAt DEF Serving, Lasts
<1>6. Threads /\ Threads' /\ EditInv /\ Editing \in Requests
  BY DEF Serving, ServerInv
<1>7. l.op \in {"undo", "redo"} /\ n = 1
  BY <1>2 DEF Places
<1>8. CASE from = << >>
  <2>1. Done(Editing) /\ UNCHANGED <<undo, redo>>
    BY <1>6, <1>8, FrameMoves DEF Pop, journal
  <2>2. l.snap = << >> /\ l.restored = << >>
    BY <1>2, <1>7 DEF Handling, Shows, Restores, ReadAt
  <2>3. undo' = PastOf(n, l, undo) /\ redo' = FutureOf(n, l, redo)
    BY <1>7, <2>1, <2>2 DEF PastOf, FutureOf
  <2> QED BY <1>1, <1>3, <1>6, <2>1, <2>2, <2>3, QuietAnswer
<1>9. CASE from # << >>
  <2> DEFINE t == Last(from)
  <2>1. PICK m : m = [l EXCEPT !.restored = t] /\ Set(Editing, m) /\ Continue(Editing)
    BY <1>9 DEF Pop
  <2>2. WentOn(Editing, Tail(s), m)
    BY <1>6, <2>1, FrameMoves
  <2>3. IF l.op = "undo" THEN undo' = Front(undo) /\ redo' = redo ELSE redo' = Front(redo) /\ undo' = undo
    BY <1>9 DEF Pop
  <2>4. from \in Seq(Snapshots) /\ AllWhole(from, workspace)
    BY <1>3, <1>4
  <2>5. Whole(t, workspace) /\ AllWhole(Front(from), workspace) /\ from = Append(Front(from), t)
        /\ t \in Snapshots
    <3> HIDE DEF from
    <3> QED BY <1>4, <1>9, <2>4, StackWhole, StackContents, FrontAndLast
  <2>6. t # << >>
    BY <2>5 DEF Snapshots
  <2>7. AllWhole(undo', workspace) /\ AllWhole(redo', workspace)
    BY <1>3, <2>3, <2>5
  <2>8. IF l.op = "undo" THEN undo = Append(undo', t) /\ redo' = redo ELSE redo = Append(redo', t) /\ undo' = undo
    BY <2>3, <2>5
  <2>9. /\ m.op = l.op /\ m.snap = l.snap /\ m.path = l.path /\ m.text = l.text
        /\ m.pending = l.pending /\ m.restored = t
    BY <1>3, <2>1 DEF Locals
  <2>10. /\ Handling(n + 1, m, workspace, files, undo', redo') /\ Present(m.snap, files) = Present(l.snap, files)
         /\ PastOf(n + 1, m, undo') = PastOf(n, l, undo) /\ FutureOf(n + 1, m, redo') = FutureOf(n, l, redo)
    <3> HIDE DEF s, l, n, t, from
    <3> QED BY <1>2, <2>5, <2>6, <2>8, <2>9, PopOn
  <2> QED BY <1>1, <1>3, <1>5, <1>6, <2>2, <2>7, <2>9, <2>10, QuietOn
<1> QED BY <1>8, <1>9

(* What the undo or redo will replace is pushed.                           *)
LEMMA PushStep ==
  ASSUME Serving, Push(Editing)
  PROVE  AsEditor
<1> DEFINE s == todo[Editing]
           l == local[Editing]
           n == Now
<1>1. At(Editing, "push") /\ UNCHANGED <<workspace, files>>
  BY DEF Push
<1>2. <<l.op, n>> \in Places["push"] /\ Handling(n, l, workspace, files, undo, redo)
  BY <1>1, EditingAt DEF Serving
<1>3. AllWhole(undo, workspace) /\ AllWhole(redo, workspace) /\ l \in Locals /\ s # << >>
  BY <1>1, EditingAt DEF Serving
<1>4. undo \in Seq(Snapshots) /\ redo \in Seq(Snapshots) /\ workspace \in Documents
  BY DEF Serving, ServerInv, Shared
<1>5. Tail(s) # << >>
  BY <1>1, EditingAt DEF Serving, Lasts
<1>6. Threads /\ Threads' /\ EditInv /\ Editing \in Requests
  BY DEF Serving, ServerInv
<1>7. PICK m : m = [l EXCEPT !.pending = l.restored] /\ Set(Editing, m) /\ Continue(Editing)
  BY DEF Push
<1>8. WentOn(Editing, Tail(s), m)
  BY <1>6, <1>7, FrameMoves
<1>9. Assigned(m, l, l.path, l.restored, l.text)
  BY <1>3, <1>7, Assignments
<1>10. IF l.op = "undo" THEN redo' = Append(redo, l.snap) /\ undo' = undo
       ELSE undo' = Append(undo, l.snap) /\ redo' = redo
  BY DEF Push
<1>11. /\ Handling(n + 1, m, workspace, files, undo', redo') /\ Present(m.snap, files) = Present(l.snap, files)
       /\ PastOf(n + 1, m, undo') = PastOf(n, l, undo) /\ FutureOf(n + 1, m, redo') = FutureOf(n, l, redo)
       /\ Whole(l.snap, workspace)
  <2> HIDE DEF s, l, n
  <2>1. /\ m.op = l.op /\ m.snap = l.snap /\ m.path = l.path /\ m.text = l.text
        /\ m.pending = l.restored /\ m.restored = l.restored
    BY <1>9 DEF Assigned
  <2> QED BY <1>2, <1>4, <1>10, <2>1, PushOn
<1>12. AllWhole(undo', workspace) /\ AllWhole(redo', workspace)
  BY <1>3, <1>4, <1>10, <1>11, StackWhole
<1> QED BY <1>1, <1>3, <1>5, <1>6, <1>8, <1>9, <1>11, <1>12, QuietOn DEF Assigned

(* A file restored: the last makes it the Editor's undo or redo.           *)
LEMMA RestoreStep ==
  ASSUME Serving, Restore(Editing)
  PROVE  AsEditor
<1> DEFINE s == todo[Editing]
           l == local[Editing]
           n == Now
           w == workspace
           p == l.pending[1][1]
<1>1. At(Editing, "restore") /\ UNCHANGED <<workspace, undo, redo>>
  BY DEF Restore, journal
<1>2. <<l.op, n>> \in Places["restore"] /\ Handling(n, l, workspace, files, undo, redo)
  BY <1>1, EditingAt DEF Serving
<1>3. AllWhole(undo, workspace) /\ AllWhole(redo, workspace) /\ l \in Locals /\ s # << >>
  BY <1>1, EditingAt DEF Serving
<1>4. /\ undo \in Seq(Snapshots) /\ redo \in Seq(Snapshots) /\ w \in Documents
      /\ files \in [Paths -> Text] /\ files' \in [Paths -> Text]
  BY DEF Serving, ServerInv, Shared
<1>5. Threads /\ Threads' /\ EditInv /\ Editing \in Requests
  BY DEF Serving, ServerInv
<1>6. Tail(s) = << >> /\ p \in Paths /\ l.op \in {"undo", "redo"}
  <2>1. Fits(s, l) /\ s[1] = "restore" /\ Orderly(s) /\ s \in Seq(StepNames)
    BY <1>1, <1>5, AtFirst
  <2>2. l.pending \in Seq(Entries) /\ l.pending # << >>
    BY <1>3, <2>1 DEF Fits, PendingFits, Starts, Snapshots
  <2>3. l.pending[1] \in Entries
    <3>1. 1 \in 1 .. Len(l.pending)
      BY <2>2, EmptySeq, LenProperties
    <3> QED BY <2>2, <3>1, ElementOfSeq
  <2>4. Tail(s) = << >>
    BY <1>3, <2>1, RestFacts
  <2> QED BY <1>2, <2>3, <2>4 DEF Entries, Places
<1>7. ASSUME \A q \in Paths \ {p} : files'[q] = files[q]
      PROVE  /\ Written(files, files', w) /\ Whole(l.snap, w) /\ Whole(l.restored, w)
             /\ l.op = "undo" => /\ redo # << >> /\ Last(redo) = l.snap
                                 /\ PastOf(n, l, undo) = Append(undo, l.restored)
                                 /\ FutureOf(n, l, redo) = Front(redo)
             /\ l.op = "redo" => /\ undo # << >> /\ Last(undo) = l.snap
                                 /\ FutureOf(n, l, redo) = Append(redo, l.restored)
                                 /\ PastOf(n, l, undo) = Front(undo)
             /\ files'[p] = l.pending[1][2] =>
                  IF Len(l.pending) = 1
                  THEN Present(<< >>, files')[w] = Contents(l.restored)
                  ELSE \A m : m.op = l.op /\ m.snap = l.snap /\ m.restored = l.restored
                              /\ m.pending = Tail(l.pending)
                         => Handling(n, m, w, files', undo, redo) /\ PastOf(n, m, undo) = PastOf(n, l, undo)
                            /\ FutureOf(n, m, redo) = FutureOf(n, l, redo)
  <2>1. p = l.pending[1][1]
    OBVIOUS
  <2>2. Handling(n, l, w, files, undo, redo) /\ <<l.op, n>> \in Places["restore"]
    BY <1>2
  <2>3. w \in Documents /\ files \in [Paths -> Text] /\ files' \in [Paths -> Text]
        /\ undo \in Seq(Snapshots) /\ redo \in Seq(Snapshots)
    BY <1>4
  <2> HIDE DEF s, l, n, w, p
  <2> QED BY <1>7, <2>1, <2>2, <2>3, RestoreOn, SMTT(30)
<1>8. ASSUME \A q \in Paths \ {p} : files'[q] = files[q], NEW how,
             todo'[Editing] = << >>, local'[Editing] = Idle, outcome'[Editing] = how
      PROVE  /\ Edits(todo'[Editing], local'[Editing], workspace', files', undo', redo')
             /\ Shown' = Present(<< >>, files')
             /\ Changed(Shown, Shown', w, Shown'[w]) /\ Shown'[w] \in [Kinds -> Text]
             /\ Shown[w] = Contents(l.snap) /\ l.snap \in Snapshots /\ l.restored \in Snapshots
             /\ ShownPast' = undo /\ ShownFuture' = redo
             /\ l.op = "undo" =>
                  /\ Front(redo) \in Seq(Snapshots) /\ redo = Append(Front(redo), l.snap)
                  /\ ShownPast = Append(undo, l.restored) /\ ShownFuture = Front(redo)
             /\ l.op = "redo" =>
                  /\ Front(undo) \in Seq(Snapshots) /\ undo = Append(Front(undo), l.snap)
                  /\ ShownFuture = Append(redo, l.restored) /\ ShownPast = Front(undo)
  <2>1. /\ Edits(todo'[Editing], local'[Editing], workspace', files', undo', redo')
        /\ Shown = Present(l.snap, files) /\ Shown' = Present(<< >>, files')
        /\ ShownPast = PastOf(n, l, undo) /\ ShownFuture = FutureOf(n, l, redo)
        /\ ShownPast' = undo /\ ShownFuture' = redo
    BY <1>1, <1>3, <1>5, <1>8, AnswerShows
  <2>2. Written(files, files', w) /\ Whole(l.snap, w) /\ Whole(l.restored, w)
    BY <1>7, <1>8
  <2>3. l.snap \in Snapshots /\ l.restored \in Snapshots
    BY <1>4, <2>2, WholeIs
  <2>4. /\ Changed(Present(l.snap, files), Present(<< >>, files'), w, Present(<< >>, files')[w])
        /\ Present(<< >>, files')[w] \in [Kinds -> Text]
        /\ Present(l.snap, files)[w] = Contents(l.snap)
    <3> HIDE DEF s, l, n, w
    <3> QED BY <1>4, <2>2, WriteShows
  <2>5. l.op = "undo" => Front(redo) \in Seq(Snapshots) /\ redo = Append(Front(redo), l.snap)
    BY <1>4, <1>7, <1>8, <2>3, StackContents, FrontAndLast
  <2>6. l.op = "redo" => Front(undo) \in Seq(Snapshots) /\ undo = Append(Front(undo), l.snap)
    BY <1>4, <1>7, <1>8, <2>3, StackContents, FrontAndLast
  <2> QED BY <1>7, <1>8, <2>1, <2>3, <2>4, <2>5, <2>6
<1>9. CASE /\ files' = [files EXCEPT ![p] = l.pending[1][2]] /\ Len(l.pending) = 1
           /\ Answer(Editing, "ok")
  <2>1. (\A q \in Paths \ {p} : files'[q] = files[q]) /\ files'[p] = l.pending[1][2]
    BY <1>4, <1>6, <1>9
  <2>2. todo'[Editing] = << >> /\ local'[Editing] = Idle /\ outcome'[Editing] = "ok"
    BY <1>5, <1>9, FrameMoves
  <2>3. Present(<< >>, files')[w] = Contents(l.restored)
    BY <1>7, <1>9, <2>1
  <2>4. /\ Edits(todo'[Editing], local'[Editing], workspace', files', undo', redo')
        /\ Changed(Shown, Shown', w, Contents(l.restored))
        /\ Shown[w] = Contents(l.snap) /\ l.snap \in Snapshots /\ l.restored \in Snapshots
        /\ ShownPast' = undo /\ ShownFuture' = redo
    BY <1>8, <2>1, <2>2, <2>3
  <2>5. CASE l.op = "undo"
    <3>1. /\ Front(redo) \in Seq(Snapshots) /\ redo = Append(Front(redo), l.snap)
          /\ ShownPast = Append(undo, l.restored) /\ ShownFuture = Front(redo)
      BY <1>8, <2>1, <2>2, <2>5
    <3>2. [Abstract!Next]_Abstract!editor
      BY <1>1, <1>4, <2>2, <2>4, <3>1, UndoStep
    <3> QED BY <2>4, <3>2 DEF AsEditor
  <2>6. CASE l.op = "redo"
    <3>1. /\ Front(undo) \in Seq(Snapshots) /\ undo = Append(Front(undo), l.snap)
          /\ ShownFuture = Append(redo, l.restored) /\ ShownPast = Front(undo)
      BY <1>8, <2>1, <2>2, <2>6
    <3>2. [Abstract!Next]_Abstract!editor
      BY <1>1, <1>4, <2>2, <2>4, <3>1, RedoStep
    <3> QED BY <2>4, <3>2 DEF AsEditor
  <2> QED BY <1>6, <2>5, <2>6
<1>10. CASE /\ files' = [files EXCEPT ![p] = l.pending[1][2]] /\ Len(l.pending) # 1
            /\ Goto(Editing, s) /\ Set(Editing, [l EXCEPT !.pending = Tail(@)])
  <2>1. (\A q \in Paths \ {p} : files'[q] = files[q]) /\ files'[p] = l.pending[1][2]
    BY <1>4, <1>6, <1>10
  <2>2. PICK m : m = [l EXCEPT !.pending = Tail(l.pending)] /\ Set(Editing, m)
    BY <1>10
  <2>3. WentOn(Editing, s, m)
    BY <1>5, <1>10, <2>2, FrameMoves
  <2>4. m.op = l.op /\ m.snap = l.snap /\ m.restored = l.restored /\ m.pending = Tail(l.pending)
    <3>1. Assigned(m, l, l.path, Tail(l.pending), l.text)
      BY <1>3, <2>2, Assignments
    <3> QED BY <3>1 DEF Assigned
  <2>5. Handling(n, m, w, files', undo, redo) /\ PastOf(n, m, undo) = PastOf(n, l, undo)
        /\ FutureOf(n, m, redo) = FutureOf(n, l, redo)
    BY <1>7, <1>10, <2>1, <2>4
  <2>6. Present(m.snap, files') = Present(l.snap, files)
    <3>1. Written(files, files', w) /\ Whole(l.snap, w)
      BY <1>7, <2>1
    <3> HIDE DEF s, l, n, w
    <3> QED BY <1>4, <2>4, <3>1, WriteShows
  <2> QED BY <1>1, <1>3, <1>5, <2>3, <2>4, <2>5, <2>6, QuietOn
<1>11. CASE files' \in {files, [files EXCEPT ![p] = Broken]} /\ Answer(Editing, "failed")
  <2>1. \A q \in Paths \ {p} : files'[q] = files[q]
    BY <1>4, <1>11
  <2>2. todo'[Editing] = << >> /\ local'[Editing] = Idle /\ outcome'[Editing] = "failed"
    BY <1>5, <1>11, FrameMoves
  <2>3. /\ Edits(todo'[Editing], local'[Editing], workspace', files', undo', redo')
        /\ Changed(Shown, Shown', w, Shown'[w]) /\ Shown'[w] \in [Kinds -> Text]
        /\ Shown[w] = Contents(l.snap) /\ l.snap \in Snapshots /\ l.restored \in Snapshots
        /\ ShownPast' = undo /\ ShownFuture' = redo
    BY <1>8, <2>1, <2>2
  <2>4. \/ Traded(ShownPast, ShownPast', ShownFuture, ShownFuture', l.snap)
        \/ Traded(ShownFuture, ShownFuture', ShownPast, ShownPast', l.snap)
    <3>1. CASE l.op = "undo"
      <4>1. /\ Front(redo) \in Seq(Snapshots) /\ redo = Append(Front(redo), l.snap)
            /\ ShownPast = Append(undo, l.restored) /\ ShownFuture = Front(redo)
        BY <1>8, <2>1, <2>2, <3>1
      <4> QED BY <1>4, <2>3, <4>1 DEF Traded
    <3>2. CASE l.op = "redo"
      <4>1. /\ Front(undo) \in Seq(Snapshots) /\ undo = Append(Front(undo), l.snap)
            /\ ShownFuture = Append(redo, l.restored) /\ ShownPast = Front(undo)
        BY <1>8, <2>1, <2>2, <3>2
      <4> QED BY <1>4, <2>3, <4>1 DEF Traded
    <3> QED BY <1>6, <3>1, <3>2
  <2>5. [Abstract!Next]_Abstract!editor
    BY <1>1, <2>2, <2>3, <2>4, FailStep
  <2> QED BY <2>3, <2>5 DEF AsEditor
<1> QED
  <2>1. Write(Editing, p, l.pending[1][2], IF Len(l.pending) = 1 THEN Tail(s) ELSE s,
              [l EXCEPT !.pending = Tail(@)])
    BY DEF Restore
  <2>2. CASE Len(l.pending) = 1
    BY <1>6, <1>9, <1>11, <2>1, <2>2 DEF Write
  <2>3. CASE Len(l.pending) # 1
    BY <1>3, <1>10, <1>11, <2>1, <2>3 DEF Write
  <2> QED BY <2>2, <2>3

(* A document opened, or not: then the journal is about another document   *)
(* until it is cleared, and the Editor's is clear already.                 *)
LEMMA OpenKeeps ==
  ASSUME Serving, Open(Editing)
  PROVE  AsEditor
<1> DEFINE s == todo[Editing]
           l == local[Editing]
           n == Now
<1>1. At(Editing, "open") /\ UNCHANGED <<files, undo, redo>>
  BY DEF Open, journal
<1>2. <<l.op, n>> \in Places["open"] /\ Handling(n, l, workspace, files, undo, redo)
  BY <1>1, EditingAt DEF Serving
<1>3. AllWhole(undo, workspace) /\ AllWhole(redo, workspace) /\ s # << >>
  BY <1>1, EditingAt DEF Serving
<1>4. Tail(s) # << >>
  BY <1>1, EditingAt DEF Serving, Lasts
<1>5. Threads /\ Threads' /\ EditInv /\ Editing \in Requests /\ workspace' \in Documents
  BY DEF Serving, ServerInv, Shared
<1>6. l.op = "open" /\ n = 1
  BY <1>2 DEF Places
<1>7. l.snap = << >> /\ l.restored = << >>
  BY <1>2, <1>6, OthersHandling
<1>8. CASE Answer(Editing, "refused") /\ UNCHANGED workspace
  <2>1. Done(Editing)
    BY <1>5, <1>8, FrameMoves
  <2>2. undo' = PastOf(n, l, undo) /\ redo' = FutureOf(n, l, redo)
    BY <1>1, <1>6, <1>7 DEF PastOf, FutureOf
  <2> QED BY <1>1, <1>3, <1>5, <1>7, <1>8, <2>1, <2>2, QuietAnswer
<1>9. CASE Continue(Editing) /\ UNCHANGED local
  <2>1. WentOn(Editing, Tail(s), l)
    BY <1>5, <1>9, FrameMoves
  <2>2. todo'[Editing] = Tail(s) /\ local'[Editing] = l /\ outcome'[Editing] = outcome[Editing]
    BY <2>1 DEF WentOn
  <2>3. Follows(Tail(s), l) /\ Place(Tail(s), l) = 2 /\ Tail(s) \in Seq(StepNames)
    <3>1. s \in Seq(StepNames) /\ Follows(s, l) /\ n = Place(s, l)
      BY <1>5 DEF Threads, EditInv, Edits, Now
    <3>2. Tail(s) \in Seq(StepNames)
      BY <1>3, <3>1, HeadTailProperties
    <3>3. PICK m : m = l /\ m.op = l.op
      OBVIOUS
    <3> HIDE DEF s, l, n
    <3>4. Follows(Tail(s), m) /\ Place(Tail(s), m) = Place(s, l) + 1
      BY <1>3, <3>1, <3>3, OneOn
    <3> QED BY <1>6, <3>1, <3>2, <3>3, <3>4
  <2>4. Head(Tail(s)) = "clear_journal"
    <3> HIDE DEF s, l
    <3> QED BY <1>4, <1>6, <2>3, WhichStep
  <2>5. Handling(2, l, workspace', files', undo', redo')
    BY <1>6, <1>7, OthersHandling
  <2>6. Edits(Tail(s), l, workspace', files', undo', redo')
    BY <1>4, <2>3, <2>4, <2>5 DEF Edits
  <2>7. /\ Shown = Present(<< >>, files) /\ Shown' = Present(<< >>, files')
        /\ ShownPast' = PastOf(2, l, undo') /\ ShownFuture' = FutureOf(2, l, redo')
    BY <1>5, <1>7, <2>2, <2>3, <2>6, View
  <2>8. ShownPast' = << >> /\ ShownFuture' = << >>
    BY <1>6, <2>7 DEF PastOf, FutureOf
  <2>9. [Abstract!Next]_Abstract!editor
    BY <1>1, <1>5, <2>2, <2>7, <2>8, OpenStep
  <2> QED BY <2>2, <2>6, <2>9 DEF AsEditor
<1> QED BY <1>8, <1>9 DEF Open

(* The journal cleared, then the session and the cache.                    *)
LEMMA ClearKeeps ==
  ASSUME Serving, ClearJournal(Editing) \/ ClearSim(Editing) \/ ClearCache(Editing)
  PROVE  AsEditor
<1> DEFINE s == todo[Editing]
           l == local[Editing]
           n == Now
<1>1. PICK x \in {"clear_journal", "clear_sim", "clear_cache"} : At(Editing, x)
  BY DEF ClearJournal, ClearSim, ClearCache
<1>2. <<l.op, n>> \in Places[x] /\ Handling(n, l, workspace, files, undo, redo) /\ s # << >>
  BY <1>1, EditingAt DEF Serving, Places
<1>3. x # "clear_journal" => AllWhole(undo, workspace) /\ AllWhole(redo, workspace)
  BY <1>1, EditingAt DEF Serving
<1>4. x # "clear_cache" => Tail(s) # << >>
  BY <1>1, EditingAt DEF Serving, Lasts
<1>5. Threads /\ Threads' /\ EditInv /\ Editing \in Requests
  BY DEF Serving, ServerInv
<1>6. /\ l.op = "open"
      /\ x = "clear_journal" => n = 2
      /\ x = "clear_sim" => n = 3
      /\ x = "clear_cache" => n = 4
  BY <1>2 DEF Places
<1>7. l.snap = << >> /\ l.restored = << >>
  BY <1>2, <1>6, OthersHandling
<1>8. ASSUME NEW k, NEW u, NEW v
      PROVE  /\ Handling(k, l, workspace, files, u, v)
             /\ k # 2 => PastOf(k, l, u) = u /\ FutureOf(k, l, v) = v
             /\ k = 2 => PastOf(k, l, u) = << >> /\ FutureOf(k, l, v) = << >>
  BY <1>6, <1>7, OthersHandling DEF PastOf, FutureOf
<1> HIDE DEF s, l, n
<1>9. CASE ClearJournal(Editing)
  <2>1. x = "clear_journal"
    BY <1>1, <1>9 DEF ClearJournal, At
  <2>2. UNCHANGED <<workspace, files>> /\ undo' = << >> /\ redo' = << >>
    BY <1>9 DEF ClearJournal
  <2>3. WentOn(Editing, Tail(s), l)
    BY <1>5, <1>9, FrameMoves DEF ClearJournal, s, l
  <2>4. AllWhole(undo', workspace) /\ AllWhole(redo', workspace)
    BY <2>2, EmptySeq DEF AllWhole
  <2>5. n + 1 = 3 /\ n + 1 # 2 /\ n = 2
    BY <1>6, <2>1
  <2>6. /\ Handling(n + 1, l, workspace, files', undo', redo')
        /\ PastOf(n + 1, l, undo') = PastOf(n, l, undo) /\ FutureOf(n + 1, l, redo') = FutureOf(n, l, redo)
        /\ Present(l.snap, files') = Present(l.snap, files)
    BY <1>8, <2>2, <2>5
  <2> QED BY <1>2, <1>4, <1>5, <2>1, <2>2, <2>3, <2>4, <2>6, QuietOn DEF s, l, n
<1>10. CASE ClearSim(Editing)
  <2>1. x = "clear_sim"
    BY <1>1, <1>10 DEF ClearSim, At
  <2>2. UNCHANGED <<workspace, files, undo, redo>>
    BY <1>10 DEF ClearSim, journal
  <2>3. WentOn(Editing, Tail(s), l)
    BY <1>5, <1>10, FrameMoves DEF ClearSim, s, l
  <2>4. n + 1 = 4 /\ n + 1 # 2 /\ n # 2
    BY <1>6, <2>1
  <2>5. Handling(n + 1, l, workspace, files, undo, redo) /\ Unseen(n, l, n + 1, l, files, undo, redo)
    BY <1>8, <2>4 DEF Unseen
  <2>6. x \notin Lasts /\ x # "save" /\ x # "clear_journal"
    BY <2>1 DEF Lasts
  <2> QED BY <1>1, <2>2, <2>3, <2>5, <2>6, Unnoticed DEF s, l, n
<1>11. CASE ClearCache(Editing)
  <2>1. x = "clear_cache"
    BY <1>1, <1>11 DEF ClearCache, At
  <2>2. UNCHANGED <<workspace, files, undo, redo>>
    BY <1>11 DEF ClearCache
  <2>3. Done(Editing)
    BY <1>5, <1>11, FrameMoves DEF ClearCache
  <2>4. n # 2
    BY <1>6, <2>1
  <2>5. undo' = PastOf(n, l, undo) /\ redo' = FutureOf(n, l, redo)
    BY <1>8, <2>2, <2>4, SMTT(30)
  <2>6. Present(<< >>, files') = Present(l.snap, files)
    BY <1>7, <2>2
  <2>7. AllWhole(undo', workspace) /\ AllWhole(redo', workspace)
    BY <1>3, <2>1, <2>2
  <2> QED BY <1>5, <2>2, <2>3, <2>5, <2>6, <2>7, QuietAnswer DEF l, n
<1> QED BY <1>9, <1>10, <1>11

(* Every step of an editing request is one of the Editor's, or none.       *)
LEMMA EditorHandles ==
  ASSUME Serving, Handle(Editing)
  PROVE  AsEditor
<1> DEFINE DockStep ==
             \/ StoreSession(Editing) \/ LockSim(Editing) \/ Run(Editing) \/ StopSim(Editing)
             \/ DetachC(Editing) \/ Peek(Editing) \/ CheckFresh(Editing) \/ LookUp(Editing)
             \/ Compile(Editing) \/ AttachC(Editing)
<1>1. ~DockStep
  <2> SUFFICES ASSUME DockStep PROVE FALSE
    OBVIOUS
  <2>1. PICK x : At(Editing, x) /\ x \in {"store", "lock_sim", "run", "stop", "detach", "peek", "fresh",
                                          "lookup", "compile", "attach"}
    BY DEF StoreSession, LockSim, Run, StopSim, DetachC, Peek, CheckFresh, LookUp, Compile, AttachC
  <2>2. x \in DOMAIN Places
    BY <2>1, EditingAt DEF Serving
  <2> QED BY <2>1, <2>2 DEF Places
<1> QED BY <1>1, CollectStep, ResolveStep, ReadStep, LoadRawStep, FindStep, SaveStep, RecordStep, LoadStep,
           PopStep, PushStep, RestoreStep, OpenKeeps, ClearKeeps DEF Handle

(* A request of the dock is none of the Editor's business.                 *)
LEMMA DockHandles ==
  ASSUME ServerInv, ServerInv', EditInv, Editing \in Requests, NEW r \in Requests, Handle(r),
         local[r].op \in DockOps
  PROVE  EditInv' /\ [Abstract!Next]_Abstract!editor
<1>1. Threads /\ Threads'
  BY DEF ServerInv
<1>2. Follows(todo[r], local[r])
  BY DEF EditInv, Edits
<1>3. /\ UNCHANGED <<workspace, files, undo, redo>>
      /\ \/ Done(r)
         \/ \E t, m : WentOn(r, t, m) /\ Alike(m, local[r]) /\ t # << >> /\ Follows(t, m)
  BY <1>1, <1>2, DockMoves
<1>4. \A q \in Requests : q # r => todo'[q] = todo[q] /\ local'[q] = local[q] /\ outcome'[q] = outcome[q]
  BY <1>1, OthersStay
<1>5. /\ Follows(todo'[r], local'[r])
      /\ todo'[r] # << >> => local'[r].op \in DockOps
      /\ todo'[r] = << >> => local'[r] = Idle
      /\ local'[r].op \in DockOps \cup {"none"} /\ outcome'[r] \in {outcome[r], "ok", "refused"}
  BY <1>3, IdleTyped DEF Done, WentOn, Alike, Follows
<1>6. CASE r # Editing
  <2>1. todo'[Editing] = todo[Editing] /\ local'[Editing] = local[Editing]
        /\ outcome'[Editing] = outcome[Editing]
    BY <1>4, <1>6
  <2>2. UNCHANGED <<workspace, files, undo, redo>>
    BY <1>3
  <2>3. Edits(todo'[Editing], local'[Editing], workspace', files', undo', redo')
    BY <2>1, <2>2 DEF EditInv
  <2>4. UNCHANGED <<Shown, ShownPast, ShownFuture>>
    BY <1>1, <2>1, <2>2, <2>3, View
  <2>5. EditInv'
    BY <1>4, <1>5, <2>3 DEF EditInv
  <2> QED BY <2>1, <2>2, <2>4, <2>5, QuietStep
<1>7. CASE r = Editing
  <2> DEFINE s == todo[Editing]
             l == local[Editing]
             t == todo'[Editing]
             m == local'[Editing]
  <2>0. UNCHANGED <<workspace, files, undo, redo>> /\ s # << >> /\ s \in Seq(StepNames) /\ t \in Seq(StepNames)
    BY <1>1, <1>3, <1>7, ListMoves DEF Threads
  <2>1. l.op \in DockOps /\ Handling(Place(s, l), l, workspace, files, undo, redo) /\ Follows(s, l)
    BY <1>7 DEF EditInv, Edits
  <2>2. l.snap = << >> /\ l.restored = << >>
    <3> HIDE DEF s, l
    <3> QED BY <2>1, OthersHandling
  <2>3. m.snap = << >> /\ m.restored = << >> /\ m.op \in DockOps \cup {"none"}
    BY <1>3, <1>5, <1>7, <2>2 DEF Done, WentOn, Alike, Idle
  <2>4. Handling(Place(t, m), m, workspace', files', undo', redo')
    <3> HIDE DEF t, m
    <3> QED BY <2>3, OthersHandling
  <2>5. ~(s # << >> /\ Head(s) = "clear_journal")
    <3>1. l.op # "open" /\ (s = << >> => l = Idle)
      BY <2>1 DEF DockOps, EditInv, Edits
    <3> HIDE DEF s, l
    <3> QED BY <2>0, <2>1, <3>1, WhichStep
  <2>6. AllWhole(undo', workspace') /\ AllWhole(redo', workspace')
    BY <2>0, <2>5 DEF EditInv, Edits
  <2>7. Edits(t, m, workspace', files', undo', redo')
    BY <1>5, <1>7, <2>4, <2>6 DEF Edits
  <2>8. /\ \A n, u : PastOf(n, l, u) = u /\ PastOf(n, m, u) = u
        /\ \A n, u : FutureOf(n, l, u) = u /\ FutureOf(n, m, u) = u
    BY <2>1, <2>2, <2>3 DEF PastOf, FutureOf, DockOps
  <2>9. UNCHANGED <<Shown, ShownPast, ShownFuture>>
    BY <1>1, <2>0, <2>2, <2>3, <2>7, <2>8, View
  <2>10. EditInv'
    BY <1>4, <1>7, <2>7 DEF EditInv
  <2> QED BY <1>5, <1>7, <2>0, <2>9, <2>10, QuietStep
<1> QED BY <1>6, <1>7

(* Every step of a handler.                                                *)
LEMMA EveryHandles ==
  ASSUME ServerInv, ServerInv', EditInv, Editing \in Requests, NEW r \in Requests, Handle(r)
  PROVE  EditInv' /\ [Abstract!Next]_Abstract!editor
<1>1. Threads /\ todo[r] # << >>
  BY ListMoves DEF ServerInv
<1>2. CASE local[r].op \in DockOps
  BY <1>2, DockHandles
<1>3. CASE local[r].op \notin DockOps
  <2>1. r = Editing
    BY <1>1, <1>3 DEF EditInv
  <2>2. Serving
    BY <1>3, <2>1 DEF Serving
  <2>3. AsEditor
    BY <2>1, <2>2, EditorHandles
  <2>4. \A q \in Requests \ {Editing} : todo'[q] = todo[q] /\ local'[q] = local[q]
    BY <1>1, <2>1, OthersStay
  <2> QED BY <2>3, <2>4 DEF AsEditor, EditInv
<1> QED BY <1>2, <1>3

-----------------------------------------------------------------------------
(* The start of a request.                                                 *)

\* The variables of a request that has done nothing.
Fresh(l) == l.op \in DOMAIN Steps /\ l.pending = << >> /\ l.snap = << >> /\ l.restored = << >>

(* It shows what the files and the journal are.                            *)
LEMMA FreshHandling ==
  ASSUME NEW l, Fresh(l), NEW w, NEW f, NEW u, NEW v
  PROVE  Handling(1, l, w, f, u, v) /\ PastOf(1, l, u) = u /\ FutureOf(1, l, v) = v
<1>1. Collects(1, l, w)
  BY DEF Fresh, Collects, Gathered, ReadAt
<1>2. Shows(1, l, w, f)
  BY DEF Fresh, Shows, ReadAt
<1>3. Knows(1, l, w, f)
  BY DEF Knows, PathAt
<1>4. Restores(1, l, w, f, u, v)
  BY DEF Fresh, Restores
<1>5. PastOf(1, l, u) = u /\ FutureOf(1, l, v) = v
  BY DEF Fresh, PastOf, FutureOf
<1> QED BY <1>1, <1>2, <1>3, <1>4, <1>5 DEF Handling

(* It begins, or is refused.                                               *)
LEMMA BeginHandles ==
  ASSUME ServerInv, ServerInv', EditInv, Editing \in Requests, NEW r \in Requests,
         NEW l, Fresh(l), Begin(r, l), r = Editing \/ l.op \in DockOps
  PROVE  EditInv' /\ [Abstract!Next]_Abstract!editor
<1>1. Threads /\ Threads' /\ todo[r] = << >>
  BY DEF ServerInv, Begin
<1>2. UNCHANGED <<workspace, files, undo, redo>>
  BY DEF Begin, journal
<1>3. /\ todo \in [Requests -> Seq(StepNames)] /\ local \in [Requests -> Locals]
      /\ outcome \in [Requests -> Outcomes]
  BY <1>1 DEF Threads
<1>4. \/ UNCHANGED <<todo, local>> /\ outcome' = [outcome EXCEPT ![r] = "refused"]
      \/ /\ todo' = [todo EXCEPT ![r] = Steps[l.op]]
         /\ local' = [local EXCEPT ![r] = l]
         /\ UNCHANGED outcome
  BY DEF Begin, Set
<1>5. outcome'[Editing] \in {outcome[Editing], "refused"}
  BY <1>3, <1>4
<1>6. \A q \in Requests : \/ todo'[q] = todo[q] /\ local'[q] = local[q]
                          \/ q = r /\ todo'[q] = Steps[l.op] /\ local'[q] = l
  BY <1>3, <1>4
<1>7. l.op \in DOMAIN Steps /\ Follows(Steps[l.op], l) /\ Place(Steps[l.op], l) = 1
      /\ Steps[l.op] # << >>
  BY AtBegin DEF Fresh
<1>8. \A q \in Requests \ {Editing} :
         Follows(todo'[q], local'[q]) /\ (todo'[q] # << >> => local'[q].op \in DockOps)
  BY <1>6, <1>7 DEF EditInv
<1>9. CASE todo'[Editing] = todo[Editing] /\ local'[Editing] = local[Editing]
  <2>1. Edits(todo'[Editing], local'[Editing], workspace', files', undo', redo')
    BY <1>2, <1>9 DEF EditInv
  <2>2. UNCHANGED <<Shown, ShownPast, ShownFuture>>
    BY <1>1, <1>2, <1>9, <2>1, View
  <2>3. EditInv'
    BY <1>8, <2>1 DEF EditInv
  <2> QED BY <1>2, <1>5, <2>2, <2>3, QuietStep
<1>10. CASE r = Editing /\ todo'[Editing] = Steps[l.op] /\ local'[Editing] = l
  <2>1. todo[Editing] = << >> /\ local[Editing] = Idle
    BY <1>1, <1>10 DEF EditInv, Edits
  <2>2. AllWhole(undo, workspace) /\ AllWhole(redo, workspace)
    BY <2>1 DEF EditInv, Edits
  <2>3. /\ Handling(1, l, workspace', files', undo', redo')
        /\ PastOf(1, l, undo') = undo' /\ FutureOf(1, l, redo') = redo'
    BY FreshHandling
  <2>4. Edits(Steps[l.op], l, workspace', files', undo', redo')
    BY <1>2, <1>7, <2>2, <2>3 DEF Edits
  <2>5. /\ Shown = Present(Idle.snap, files) /\ Shown' = Present(l.snap, files')
        /\ ShownPast = PastOf(Place(<< >>, Idle), Idle, undo) /\ ShownPast' = PastOf(1, l, undo')
        /\ ShownFuture = FutureOf(Place(<< >>, Idle), Idle, redo) /\ ShownFuture' = FutureOf(1, l, redo')
    BY <1>1, <1>7, <1>10, <2>1, <2>4, View
  <2>6. l.snap = << >> /\ Idle.snap = << >>
        /\ \A n, u, v : PastOf(n, Idle, u) = u /\ FutureOf(n, Idle, v) = v
    BY IdleHandling DEF Fresh
  <2>7. UNCHANGED <<Shown, ShownPast, ShownFuture>>
    BY <1>2, <2>3, <2>5, <2>6
  <2>8. EditInv'
    BY <1>8, <1>10, <2>4 DEF EditInv
  <2> QED BY <1>2, <1>5, <2>7, <2>8, QuietStep
<1> QED BY <1>6, <1>9, <1>10

(* What a request begins with.                                             *)
LEMMA RequestsFresh ==
  ASSUME NEW r
  PROVE  /\ EditRequest(r) => \E l : Fresh(l) /\ Begin(r, l)
         /\ SimRequest(r) => \E l : Fresh(l) /\ Begin(r, l) /\ l.op \in DockOps
<1>1. ASSUME NEW op \in DOMAIN Steps, NEW n, NEW a, NEW x,
             NEW l, l \in {[Idle EXCEPT !.op = op, !.name = n], [Idle EXCEPT !.op = op],
                           [Idle EXCEPT !.op = op, !.name = n, !.add = a],
                           [Idle EXCEPT !.op = op, !.doc = x], [Idle EXCEPT !.op = op, !.root = x]}
      PROVE  Fresh(l) /\ l.op = op
  BY <1>1 DEF Idle, Fresh
<1>2. /\ DockOps \subseteq DOMAIN Steps
      /\ {"edit", "insert", "declare", "import", "build", "remove", "save", "undo", "redo", "open"}
           \subseteq DOMAIN Steps
  BY DEF Steps, DockOps
<1>3. EditRequest(r) => \E l : Fresh(l) /\ Begin(r, l)
  <2>1. ASSUME NEW op \in {"edit", "insert", "declare", "import", "build"}, NEW n,
               Begin(r, [Idle EXCEPT !.op = op, !.name = n])
        PROVE  \E l : Fresh(l) /\ Begin(r, l)
    BY <1>1, <1>2, <2>1
  <2>2. ASSUME NEW op \in {"edit", "remove"}, NEW n,
               Begin(r, [Idle EXCEPT !.op = op, !.name = n, !.add = FALSE])
        PROVE  \E l : Fresh(l) /\ Begin(r, l)
    <3>1. PICK l : l = [Idle EXCEPT !.op = op, !.name = n, !.add = FALSE]
      OBVIOUS
    <3>2. Begin(r, l)
      BY <2>2, <3>1
    <3>3. Fresh(l)
      BY <1>2, <3>1 DEF Idle, Fresh
    <3> QED BY <3>2, <3>3
  <2>3. ASSUME NEW op \in {"save", "undo", "redo"}, Begin(r, [Idle EXCEPT !.op = op])
        PROVE  \E l : Fresh(l) /\ Begin(r, l)
    BY <1>1, <1>2, <2>3
  <2>4. ASSUME NEW d, Begin(r, [Idle EXCEPT !.op = "open", !.doc = d])
        PROVE  \E l : Fresh(l) /\ Begin(r, l)
    BY <1>1, <1>2, <2>4
  <2> QED BY <2>1, <2>2, <2>3, <2>4 DEF EditRequest
<1>4. SimRequest(r) => \E l : Fresh(l) /\ Begin(r, l) /\ l.op \in DockOps
  <2>1. ASSUME NEW x, Begin(r, [Idle EXCEPT !.op = "start", !.root = x])
        PROVE  \E l : Fresh(l) /\ Begin(r, l) /\ l.op \in DockOps
    <3>1. "start" \in DockOps
      BY DEF DockOps
    <3>2. PICK l : l = [Idle EXCEPT !.op = "start", !.root = x]
      OBVIOUS
    <3>3. Begin(r, l) /\ Fresh(l) /\ l.op \in DockOps
      BY <1>1, <1>2, <2>1, <3>1, <3>2
    <3> QED BY <3>3
  <2>2. ASSUME NEW op \in {"step", "stop", "c_on", "c_off"}, Begin(r, [Idle EXCEPT !.op = op])
        PROVE  \E l : Fresh(l) /\ Begin(r, l) /\ l.op \in DockOps
    <3>1. op \in DockOps
      BY DEF DockOps
    <3>2. PICK l : l = [Idle EXCEPT !.op = op]
      OBVIOUS
    <3>3. Begin(r, l) /\ Fresh(l) /\ l.op \in DockOps
      BY <1>1, <1>2, <2>2, <3>1, <3>2
    <3> QED BY <3>3
  <2> QED BY <2>1, <2>2 DEF SimRequest
<1> QED BY <1>3, <1>4
-----------------------------------------------------------------------------
(* At the start the Editor is as it should be.                             *)
LEMMA InitEditor ==
  ASSUME Init, Editing \in Requests
  PROVE  EditInv /\ Abstract!Init
<1>1. /\ todo[Editing] = << >> /\ local[Editing] = Idle
      /\ \A r \in Requests : todo[r] = << >>
      /\ undo = << >> /\ redo = << >> /\ workspace \in Documents /\ outcome[Editing] = "none"
      /\ files = [p \in Paths |-> {}]
  BY DEF Init
<1>2. EditInv
  <2>1. AllWhole(<< >>, workspace)
    BY EmptySeq DEF AllWhole
  <2>2. Edits(<< >>, Idle, workspace, files, << >>, << >>)
    BY <2>1, IdleHandling DEF Edits, Follows
  <2> QED BY <1>1, <2>2 DEF EditInv, Follows
<1>3. Shown \in [Documents -> [Kinds -> Text]]
  <2>1. local[Editing].snap = << >>
    BY <1>1, IdleHandling
  <2>2. ~\E p : InSnapshot(p)
    <3>1. DOMAIN << >> = {}
      OBVIOUS
    <3> QED BY <2>1, <3>1 DEF InSnapshot
  <2>3. \A d \in Documents, k \in Kinds : files[<<d, k>>] \in Text
    BY <1>1 DEF Paths, Text
  <2> QED BY <2>2, <2>3 DEF Shown
<1>4. ShownPast = << >> /\ ShownFuture = << >>
  <2>1. local[Editing].restored = << >> /\ ~At(Editing, "clear_journal") /\ ~At(Editing, "restore")
    BY <1>1 DEF Idle, At
  <2> QED BY <1>1, <2>1 DEF ShownPast, ShownFuture, Popped, Pushed
<1>5. AsContents(<< >>) = << >>
  <2>1. DOMAIN << >> = {} /\ << >> = [j \in {} |-> j]
    OBVIOUS
  <2> QED BY <2>1 DEF AsContents
<1> QED BY <1>1, <1>2, <1>3, <1>4, <1>5 DEF Abstract!Init

(* A step of the server is one of the Editor's, or none.                   *)
LEMMA NextEditor ==
  ASSUME OneEditor, ServerInv, ServerInv', EditInv, [Next]_vars
  PROVE  EditInv' /\ [Abstract!Next]_Abstract!editor
<1>1. Editing \in Requests
  BY DEF OneEditor, Requests
<1>2. CASE \E r \in Editors : EditRequest(r)
  <2>1. EditRequest(Editing)
    BY <1>2 DEF OneEditor
  <2>2. PICK l : Fresh(l) /\ Begin(Editing, l)
    BY <2>1, RequestsFresh
  <2> QED BY <1>1, <2>2, BeginHandles
<1>3. CASE \E r \in Clients : SimRequest(r)
  <2>1. PICK r \in Clients : SimRequest(r)
    BY <1>3
  <2>2. PICK l : Fresh(l) /\ Begin(r, l) /\ l.op \in DockOps
    BY <2>1, RequestsFresh
  <2> QED BY <1>1, <2>2, BeginHandles DEF Requests
<1>4. CASE \E r \in Requests : Handle(r)
  BY <1>1, <1>4, EveryHandles
<1>5. CASE UNCHANGED vars
  <2>1. UNCHANGED <<workspace, files, undo, redo, todo, local, outcome>>
    BY <1>5 DEF vars, journal
  <2>2. EditInv'
    BY <2>1 DEF EditInv
  <2>3. Edits(todo'[Editing], local'[Editing], workspace', files', undo', redo')
    BY <2>1 DEF EditInv
  <2>4. Threads /\ Threads'
    BY DEF ServerInv
  <2>5. UNCHANGED <<Shown, ShownPast, ShownFuture>>
    BY <1>1, <2>1, <2>3, <2>4, View
  <2> QED BY <2>1, <2>2, <2>5, QuietStep
<1> QED BY <1>2, <1>3, <1>4, <1>5 DEF Next

(* With one editing thread the server is the Editor: whatever the dock     *)
(* does meanwhile, a request that edits, undoes or redoes changes the open *)
(* document and the history at once, along one line, and a refused request *)
(* changes neither.                                                        *)
THEOREM EditingIsAnEditor == OneEditor => (Spec => EditorBehaviour)
<1> SUFFICES ASSUME OneEditor PROVE Spec => EditorBehaviour
  OBVIOUS
<1>1. Editing \in Requests
  BY DEF OneEditor, Requests
<1>2. Init => ServerInv /\ EditInv /\ Abstract!Init
  BY <1>1, InitServerInv, InitEditor
<1>3. ServerInv /\ EditInv /\ [Next]_vars
        => ServerInv' /\ EditInv' /\ [Abstract!Next]_Abstract!editor
  BY NextServerInv, NextEditor
<1> QED BY <1>2, <1>3, PTL DEF Spec, EditorBehaviour, Abstract!Spec
=================================================================================
