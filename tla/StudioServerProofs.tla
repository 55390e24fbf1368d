-------------------------- MODULE StudioServerProofs --------------------------
(***************************************************************************)
(* The Studio server, for every number of editing and simulating requests  *)
(* and every sequence of requests they make: the types of what they share, *)
(* the bound of the journal, and the build that is attached to a session.  *)
(*                                                                         *)
(* A request's thread runs a list of steps.  What makes a handler right is *)
(* the order of its steps: a path is known before a file is read, a mutex  *)
(* is held from one step to another.  Orderly and Supplied say this of a   *)
(* list; Fits says what of it a request's variables have so far.           *)
(***************************************************************************)
EXTENDS StudioServer, SequenceTheorems, TLAPS

StepNames ==
  {"path", "model_path", "types_path", "types_target", "read", "load_raw", "save", "record",
   "find", "collide", "set_root", "pop", "push", "restore", "open", "clear_journal",
   "clear_sim", "clear_cache", "load_path", "load_model", "load_types", "store", "lock_sim",
   "run", "stop", "detach", "peek", "fresh", "lookup", "compile", "attach"}

\* The step that a step can only come after.
Prior ==
  [ read |-> "types_path", find |-> "model_path", load_model |-> "load_path",
    load_types |-> "load_model", store |-> "load_types", run |-> "load_types",
    fresh |-> "load_types", lookup |-> "fresh", compile |-> "lookup", attach |-> "compile",
    push |-> "read", restore |-> "push" ]

Has(s, x) == \E k \in 1 .. Len(s) : s[k] = x

\* Between step a and step b of a handler, b still to come.
Within(s, a, b) == Has(s, b) /\ ~Has(s, a)

\* Whatever step needs it, a step before it brings it.
Supplied(s, users, setters) ==
  \A k \in 1 .. Len(s) : s[k] \in users => \E j \in 1 .. k - 1 : s[j] \in setters

Orderly(s) ==
  /\ \A k \in 2 .. Len(s) : s[k] \in DOMAIN Prior => s[k - 1] = Prior[s[k]]
  /\ \A k \in 1 .. Len(s) : s[k] \in {"clear_cache", "run", "restore"} => k = Len(s)
  /\ \A k \in 1 .. Len(s) : s[k] = "push" => k + 1 = Len(s) /\ s[k + 1] = "restore"
  /\ \A k, m \in 1 .. Len(s) :
        k < m /\ s[k] \in {"read", "find", "types_target"} /\ s[m] = "types_target"
          => \E j \in k + 1 .. m - 1 : s[j] = "types_path"

\* A handler before its first step.
Opening(s) ==
  /\ s \in Seq(StepNames) /\ s # << >> /\ s[1] \notin DOMAIN Prior /\ Orderly(s)
  /\ Supplied(s, {"types_target"}, {"types_path"})
  /\ Supplied(s, {"load_raw"}, {"path", "types_target"})
  /\ Supplied(s, {"record", "push"}, {"read"})
  /\ ~Within(s, "pop", "push") /\ ~Within(s, "clear_journal", "clear_cache")
  /\ ~Within(s, "lock_sim", "run")


-----------------------------------------------------------------------------
(* Every handler's list keeps the order its steps need.                    *)
LEMMA HandlersOpen == \A op \in DOMAIN Steps : Opening(Steps[op])
<1>1. Opening(EditSteps) /\ Opening(SaveSteps)
  BY DEF EditSteps, SaveSteps, Opening, Within, Supplied, Has, Orderly, Prior, StepNames
<1>2. Opening(InsertSteps)
  BY DEF InsertSteps, Opening, Within, Supplied, Has, Orderly, Prior, StepNames
<1>3. Opening(DeclareSteps)
  <2>1. DeclareSteps \in Seq(StepNames) /\ DeclareSteps # << >> /\ DeclareSteps[1] \notin DOMAIN Prior
    BY DEF DeclareSteps, StepNames, Prior
  <2>2. Orderly(DeclareSteps)
    BY DEF DeclareSteps, Orderly, Prior
  <2> QED BY <2>1, <2>2 DEF DeclareSteps, Opening, Within, Supplied, Has
<1>4. Opening(RemoveSteps)
  BY DEF RemoveSteps, Opening, Within, Supplied, Has, Orderly, Prior, StepNames
<1>5. Opening(ImportSteps)
  <2>1. ImportSteps \in Seq(StepNames) /\ ImportSteps # << >> /\ ImportSteps[1] \notin DOMAIN Prior
    BY DEF ImportSteps, StepNames, Prior
  <2>2. Orderly(ImportSteps)
    BY DEF ImportSteps, Orderly, Prior
  <2> QED BY <2>1, <2>2 DEF ImportSteps, Opening, Within, Supplied, Has
<1>6. Opening(BuildSteps)
  <2>1. BuildSteps \in Seq(StepNames) /\ BuildSteps # << >> /\ BuildSteps[1] \notin DOMAIN Prior
    BY DEF BuildSteps, StepNames, Prior
  <2>2. Orderly(BuildSteps)
    BY DEF BuildSteps, Orderly, Prior
  <2> QED BY <2>1, <2>2 DEF BuildSteps, Opening, Within, Supplied, Has
<1>7. Opening(HistorySteps) /\ Opening(OpenSteps)
  BY DEF HistorySteps, OpenSteps, Opening, Within, Supplied, Has, Orderly, Prior, StepNames
<1>8. Opening(StartSteps) /\ Opening(StepSteps) /\ Opening(<<"stop">>) /\ Opening(<<"detach">>)
  BY DEF StartSteps, StepSteps, Opening, Within, Supplied, Has, Orderly, Prior, StepNames
<1>9. Opening(LoopSteps)
  BY DEF LoopSteps, Opening, Within, Supplied, Has, Orderly, Prior, StepNames
<1> QED BY <1>1, <1>2, <1>3, <1>4, <1>5, <1>6, <1>7, <1>8, <1>9 DEF Steps

(* Who reads a file to edit it, and who runs or builds a model.            *)
LEMMA HandlersNeed ==
  /\ \A op \in DOMAIN Steps \ {"start"} :
        Supplied(Steps[op], {"store", "lookup", "compile", "attach"}, {"peek"})
  /\ \A op \in DOMAIN Steps \ {"edit", "insert", "declare", "remove", "import", "build", "save"} :
        ~Has(Steps[op], "load_raw") /\ ~Has(Steps[op], "find")
  /\ ~Has(Steps["save"], "find")
  /\ \A op \in DOMAIN Steps \ {"open"} : ~Has(Steps[op], "open")
<1> DEFINE Looks(s) == Supplied(s, {"store", "lookup", "compile", "attach"}, {"peek"})
           Edits(s) == Has(s, "load_raw") \/ Has(s, "find")
<1>1. Looks(EditSteps) /\ Looks(InsertSteps) /\ Looks(DeclareSteps) /\ Looks(RemoveSteps)
  BY DEF EditSteps, InsertSteps, DeclareSteps, RemoveSteps, Supplied
<1>2. Looks(ImportSteps) /\ Looks(BuildSteps) /\ Looks(SaveSteps)
  BY DEF ImportSteps, BuildSteps, SaveSteps, Supplied
<1>3. Looks(HistorySteps) /\ Looks(OpenSteps) /\ Looks(StepSteps) /\ Looks(LoopSteps)
      /\ Looks(<<"stop">>) /\ Looks(<<"detach">>)
  BY DEF HistorySteps, OpenSteps, StepSteps, LoopSteps, Supplied
<1>4. ~Edits(HistorySteps) /\ ~Edits(OpenSteps) /\ ~Edits(StartSteps) /\ ~Edits(StepSteps)
      /\ ~Edits(LoopSteps) /\ ~Edits(<<"stop">>) /\ ~Edits(<<"detach">>)
  BY DEF HistorySteps, OpenSteps, StartSteps, StepSteps, LoopSteps, Has
<1>5. ~Has(SaveSteps, "find")
  BY DEF SaveSteps, Has
<1>a. ~Has(EditSteps, "open") /\ ~Has(InsertSteps, "open") /\ ~Has(DeclareSteps, "open")
      /\ ~Has(RemoveSteps, "open") /\ ~Has(ImportSteps, "open") /\ ~Has(BuildSteps, "open")
  BY DEF EditSteps, InsertSteps, DeclareSteps, RemoveSteps, ImportSteps, BuildSteps, Has
<1>b. ~Has(SaveSteps, "open") /\ ~Has(HistorySteps, "open") /\ ~Has(StartSteps, "open")
      /\ ~Has(StepSteps, "open") /\ ~Has(LoopSteps, "open") /\ ~Has(<<"stop">>, "open")
      /\ ~Has(<<"detach">>, "open")
  BY DEF SaveSteps, HistorySteps, StartSteps, StepSteps, LoopSteps, Has
<1>c. \A op \in DOMAIN Steps \ {"open"} : ~Has(Steps[op], "open")
  BY <1>a, <1>b DEF Steps
<1> HIDE DEF Looks, Edits
<1>6. /\ \A op \in DOMAIN Steps \ {"start"} : Looks(Steps[op])
      /\ \A op \in DOMAIN Steps \ {"edit", "insert", "declare", "remove", "import", "build", "save"} :
            ~Edits(Steps[op])
      /\ ~Has(Steps["save"], "find")
  BY <1>1, <1>2, <1>3, <1>4, <1>5 DEF Steps
<1> QED BY <1>6, <1>c DEF Looks, Edits

(* Places in the rest of a list of length a are one lower than in it.      *)
LEMMA BeforeLast ==
  ASSUME NEW a \in Nat, NEW b \in Nat, a = b + 1, NEW k \in 1 .. b
  PROVE  /\ k + 1 = a => k = b
         /\ (k + 1) + 1 = a => k + 1 = b /\ k + 1 \in 1 .. b
OBVIOUS

(* What a list says of its rest, a step later.                             *)
LEMMA RestIsOrderly ==
  ASSUME NEW s \in Seq(StepNames), NEW t \in Seq(StepNames), Orderly(s),
         Len(s) \in Nat, Len(t) \in Nat, Len(s) = Len(t) + 1,
         \A k \in 1 .. Len(t) : t[k] = s[k + 1]
  PROVE  /\ Orderly(t)
         /\ Len(t) # 0 /\ t[1] \in DOMAIN Prior => s[1] = Prior[t[1]]
         /\ \A U, V : Supplied(s, U, V) /\ s[1] \notin V => Supplied(t, U, V)
         /\ \A x : Has(s, x) <=> s[1] = x \/ Has(t, x)
         /\ s[1] \in {"read", "find", "types_target"}
              => Supplied(t, {"types_target"}, {"types_path"})
         /\ s[1] \in {"clear_cache", "run", "restore"} => Len(t) = 0
         /\ s[1] = "push" => Len(t) = 1 /\ t[1] = "restore"
<1>1. /\ Len(s) \in Nat /\ Len(s) >= 1 /\ Len(t) = Len(s) - 1
      /\ \A k \in 1 .. Len(t) : t[k] = s[k + 1]
  OBVIOUS
<1>a. Len(s) \in Nat /\ Len(t) = Len(s) - 1
  OBVIOUS
<1>3. \A k \in 2 .. Len(s) : s[k] = t[k - 1] /\ k - 1 \in 1 .. Len(t)
  OBVIOUS
<1>4. Orderly(t)
  <2>1. \A k \in 2 .. Len(t) : t[k] \in DOMAIN Prior => t[k - 1] = Prior[t[k]]
    <3> TAKE k \in 2 .. Len(t)
    <3>1. k + 1 \in 2 .. Len(s) /\ t[k] = s[k + 1] /\ t[k - 1] = s[(k + 1) - 1]
      BY <1>1
    <3> QED BY <3>1 DEF Orderly
  <2>2. \A k \in 1 .. Len(t) : t[k] \in {"clear_cache", "run", "restore"} => k = Len(t)
    <3> TAKE k \in 1 .. Len(t)
    <3>1. k + 1 \in 1 .. Len(s) /\ t[k] = s[k + 1]
      BY <1>1
    <3>2. s[k + 1] \in {"clear_cache", "run", "restore"} => k + 1 = Len(s)
      BY <3>1 DEF Orderly
    <3>3. k + 1 = Len(s) => k = Len(t)
      BY BeforeLast
    <3> QED BY <3>1, <3>2, <3>3
  <2>3. \A k \in 1 .. Len(t) : t[k] = "push" => k + 1 = Len(t) /\ t[k + 1] = "restore"
    <3> TAKE k \in 1 .. Len(t)
    <3>1. k + 1 \in 1 .. Len(s) /\ t[k] = s[k + 1]
      BY <1>1
    <3>2. s[k + 1] = "push" => (k + 1) + 1 = Len(s) /\ s[(k + 1) + 1] = "restore"
      BY <3>1 DEF Orderly
    <3>3. (k + 1) + 1 = Len(s) => k + 1 = Len(t) /\ k + 1 \in 1 .. Len(t)
      BY BeforeLast
    <3>4. k + 1 \in 1 .. Len(t) => t[k + 1] = s[(k + 1) + 1]
      BY <1>1
    <3> QED BY <3>1, <3>2, <3>3, <3>4
  <2>4. \A k, m \in 1 .. Len(t) :
           k < m /\ t[k] \in {"read", "find", "types_target"} /\ t[m] = "types_target"
             => \E j \in k + 1 .. m - 1 : t[j] = "types_path"
    <3> TAKE k, m \in 1 .. Len(t)
    <3> HAVE k < m /\ t[k] \in {"read", "find", "types_target"} /\ t[m] = "types_target"
    <3>1. k + 1 \in 1 .. Len(s) /\ m + 1 \in 1 .. Len(s) /\ s[k + 1] = t[k] /\ s[m + 1] = t[m]
          /\ k + 1 < m + 1
      BY <1>1
    <3>2. PICK j \in (k + 1) + 1 .. (m + 1) - 1 : s[j] = "types_path"
      BY <3>1 DEF Orderly
    <3>3. j - 1 \in k + 1 .. m - 1 /\ t[j - 1] = "types_path"
      BY <1>1, <3>1, <3>2
    <3> QED BY <3>3
  <2> QED BY <2>1, <2>2, <2>3, <2>4 DEF Orderly
<1>5. Len(t) # 0 /\ t[1] \in DOMAIN Prior => s[1] = Prior[t[1]]
  <2> SUFFICES ASSUME Len(t) # 0, t[1] \in DOMAIN Prior PROVE s[1] = Prior[t[1]]
    OBVIOUS
  <2>1. 2 \in 2 .. Len(s) /\ s[2] = t[1]
    BY <1>1
  <2>2. s[2 - 1] = Prior[s[2]]
    BY <2>1 DEF Orderly
  <2> QED BY <2>1, <2>2
<1>6. ASSUME NEW U, NEW V, Supplied(s, U, V), s[1] \notin V
      PROVE  Supplied(t, U, V)
  <2> SUFFICES ASSUME NEW k \in 1 .. Len(t), t[k] \in U
               PROVE  \E j \in 1 .. k - 1 : t[j] \in V
    BY DEF Supplied
  <2>1. k + 1 \in 1 .. Len(s) /\ s[k + 1] \in U
    BY <1>1
  <2>2. PICK j \in 1 .. (k + 1) - 1 : s[j] \in V
    BY <1>6, <2>1 DEF Supplied
  <2>3. j # 1
    BY <1>6, <2>2
  <2>4. j - 1 \in 1 .. k - 1 /\ t[j - 1] = s[j]
    BY <1>1, <2>1, <2>2, <2>3
  <2> QED BY <2>2, <2>4
<1>7. ASSUME NEW x
      PROVE  Has(s, x) <=> s[1] = x \/ Has(t, x)
  <2>1. Has(s, x) => s[1] = x \/ Has(t, x)
    BY <1>1, <1>3 DEF Has
  <2>2. s[1] = x => Has(s, x)
    BY <1>1 DEF Has
  <2>3. Has(t, x) => Has(s, x)
    <3> SUFFICES ASSUME NEW k \in 1 .. Len(t), t[k] = x PROVE Has(s, x)
      BY DEF Has
    <3>1. k + 1 \in 1 .. Len(s) /\ s[k + 1] = x
      BY <1>1
    <3> QED BY <3>1 DEF Has
  <2> QED BY <2>1, <2>2, <2>3
<1>8. ASSUME s[1] \in {"read", "find", "types_target"}
      PROVE  Supplied(t, {"types_target"}, {"types_path"})
  <2> SUFFICES ASSUME NEW k \in 1 .. Len(t), t[k] = "types_target"
               PROVE  \E j \in 1 .. k - 1 : t[j] = "types_path"
    BY DEF Supplied
  <2>1. 1 \in 1 .. Len(s) /\ k + 1 \in 1 .. Len(s) /\ 1 < k + 1 /\ s[k + 1] = "types_target"
    BY <1>1
  <2>2. PICK j \in 1 + 1 .. (k + 1) - 1 : s[j] = "types_path"
    BY <1>8, <2>1 DEF Orderly
  <2>3. j - 1 \in 1 .. k - 1 /\ t[j - 1] = s[j]
    BY <1>1, <2>1, <2>2
  <2> QED BY <2>2, <2>3
<1>9. s[1] \in {"clear_cache", "run", "restore"} => Len(t) = 0
  BY <1>1 DEF Orderly
<1>10. s[1] = "push" => Len(t) = 1 /\ t[1] = "restore"
  BY <1>1 DEF Orderly
<1> QED BY <1>4, <1>5, <1>6, <1>7, <1>8, <1>9, <1>10

(* The same of a list and its tail.                                        *)
LEMMA RestFacts ==
  ASSUME NEW s \in Seq(StepNames), s # << >>, Orderly(s)
  PROVE  /\ Tail(s) \in Seq(StepNames) /\ Orderly(Tail(s)) /\ Head(s) = s[1]
         /\ Tail(s) # << >> /\ Tail(s)[1] \in DOMAIN Prior => s[1] = Prior[Tail(s)[1]]
         /\ \A U, V : Supplied(s, U, V) /\ s[1] \notin V => Supplied(Tail(s), U, V)
         /\ \A x : Has(s, x) <=> s[1] = x \/ Has(Tail(s), x)
         /\ s[1] \in {"read", "find", "types_target"}
              => Supplied(Tail(s), {"types_target"}, {"types_path"})
         /\ s[1] \in {"clear_cache", "run", "restore"} => Tail(s) = << >>
         /\ s[1] = "push" => Tail(s) = <<"restore">>
<1> DEFINE t == Tail(s)
<1>1. /\ t \in Seq(StepNames) /\ Len(s) \in Nat /\ Len(t) \in Nat /\ Len(s) = Len(t) + 1
      /\ \A k \in 1 .. Len(t) : t[k] = s[k + 1]
      /\ Head(s) = s[1]
      /\ t = << >> <=> Len(t) = 0
  <2>1. t \in Seq(StepNames) /\ Len(t) = Len(s) - 1 /\ Head(s) = s[1]
        /\ \A k \in 1 .. Len(t) : t[k] = s[k + 1]
    BY HeadTailProperties
  <2>2. Len(s) \in Nat /\ Len(s) # 0
    BY LenProperties, EmptySeq
  <2> HIDE DEF t
  <2>3. Len(t) \in Nat /\ (t = << >> <=> Len(t) = 0)
    BY <2>1, LenProperties, EmptySeq
  <2> QED BY <2>1, <2>2, <2>3
<1> HIDE DEF t
<1>2. /\ Orderly(t)
      /\ t # << >> /\ t[1] \in DOMAIN Prior => s[1] = Prior[t[1]]
      /\ \A U, V : Supplied(s, U, V) /\ s[1] \notin V => Supplied(t, U, V)
      /\ \A x : Has(s, x) <=> s[1] = x \/ Has(t, x)
      /\ s[1] \in {"read", "find", "types_target"}
           => Supplied(t, {"types_target"}, {"types_path"})
      /\ s[1] \in {"clear_cache", "run", "restore"} => t = << >>
      /\ s[1] = "push" => Len(t) = 1 /\ t[1] = "restore"
  BY <1>1, RestIsOrderly
<1>3. Len(t) = 1 /\ t[1] = "restore" => t = <<"restore">>
  BY <1>1
<1> QED BY <1>1, <1>2, <1>3 DEF t
-----------------------------------------------------------------------------
Entries == Paths \X Text
PathLists == Seq(Paths)
EntryLists == Seq(Entries)
Snapshots == Seq(Entries) \ {<< >>}
Sources == [Kinds -> SUBSET Names]
Dock == {"store", "lookup", "compile", "attach"}

Locals ==
  [ op : DOMAIN Steps \cup {"none"}, name : Names \cup {None}, add : BOOLEAN,
    doc : Documents \cup {None}, root : Roots \cup {None}, path : Paths \cup {None},
    pending : PathLists \cup EntryLists, snap : EntryLists, text : Text,
    restored : EntryLists, loaded : {<< >>} \cup [{"model"} -> Text] \cup [Kinds -> Text],
    sig : {<< >>} \cup Signatures, build : Builds \cup {None} ]

Starts(s, steps) == s # << >> /\ s[1] \in steps

(* The paths still to read or to restore. *)
PendingFits(s, l) ==
  /\ IF Starts(s, {"restore"}) THEN l.pending \in Snapshots ELSE l.pending \in Seq(Paths)
  /\ Starts(s, {"read", "find"}) => l.pending # << >>
  /\ l.pending # << >> \/ Supplied(s, {"types_target"}, {"types_path"})

PathFits(s, l) ==
  /\ l.path \in Paths \/ Supplied(s, {"load_raw"}, {"path", "types_target"})
  /\ Starts(s, {"load_model", "load_types"}) => l.path \in Paths

SnapFits(s, l) ==
  /\ l.snap # << >> \/ Supplied(s, {"record", "push"}, {"read"})
  /\ Within(s, "pop", "push") => l.restored # << >>

LoadFits(s, l) ==
  /\ Starts(s, {"load_types"}) => l.loaded \in [{"model"} -> Text]
  /\ Starts(s, {"store", "fresh", "run"}) => l.loaded \in Sources

(* The program found or built is the one of the session looked at.         *)
BuildFits(s, l) ==
  /\ l.root \in Roots \/ Supplied(s, Dock, {"peek"})
  /\ Starts(s, {"lookup", "compile"}) => l.sig \in Signatures /\ Semantics(l.loaded) = l.sig
  /\ Starts(s, {"attach"}) => l.sig \in Signatures /\ l.build = [sig |-> l.sig, root |-> l.root]

NameFits(s, l) ==
  /\ Has(s, "load_raw") \/ Has(s, "find") => l.name \in Names \/ (l.op = "save" /\ ~Has(s, "find"))
  /\ Has(s, "open") => l.doc \in Documents

Fits(s, l) ==
  /\ s \in Seq(StepNames) /\ l \in Locals /\ Orderly(s)
  /\ PendingFits(s, l) /\ PathFits(s, l) /\ SnapFits(s, l)
  /\ LoadFits(s, l) /\ BuildFits(s, l) /\ NameFits(s, l)

(* A request that has not begun has variables of their types.              *)
LEMMA IdleTyped ==
  /\ Idle \in Locals /\ Idle.name = None /\ Idle.op = "none" /\ Idle.root = None
  /\ Idle.pending = << >> /\ Idle.pending \in Seq(Paths)
<1>1. << >> \in Seq(Paths) /\ << >> \in Seq(Entries)
  BY EmptySeq
<1>2. {} \in Text
  BY DEF Text
<1> QED BY <1>1, <1>2 DEF Idle, Locals, PathLists, EntryLists

(* A request that is over. *)
LEMMA IdleFits == Fits(<< >>, Idle)
<1>1. << >> \in Seq(StepNames) /\ Len(<< >>) = 0
  BY EmptySeq
<1>2. Orderly(<< >>)
  BY <1>1 DEF Orderly
<1>3. \A U, V : Supplied(<< >>, U, V)
  BY <1>1 DEF Supplied
<1>4. \A x : ~Has(<< >>, x)
  BY <1>1 DEF Has
<1> QED BY <1>1, <1>2, <1>3, <1>4, IdleTyped
     DEF Fits, Starts, PendingFits, PathFits, SnapFits, LoadFits, BuildFits, NameFits, Within

(* What remains true of a request that has taken a step other than those   *)
(* that bring what is needed.                                              *)
LEMMA RestFits ==
  ASSUME NEW s, NEW l, Fits(s, l), s # << >>
  PROVE  /\ Tail(s) \in Seq(StepNames) /\ Orderly(Tail(s)) /\ Head(s) = s[1]
         /\ s[1] \notin {"path", "types_target"}
              => l.path \in Paths \/ Supplied(Tail(s), {"load_raw"}, {"path", "types_target"})
         /\ s[1] # "read" => l.snap # << >> \/ Supplied(Tail(s), {"record", "push"}, {"read"})
         /\ s[1] # "peek" => l.root \in Roots \/ Supplied(Tail(s), Dock, {"peek"})
         /\ s[1] # "types_path" => l.pending # << >> \/ Supplied(Tail(s), {"types_target"}, {"types_path"})
         /\ s[1] \in {"read", "find", "types_target"}
              => Supplied(Tail(s), {"types_target"}, {"types_path"})
         /\ NameFits(Tail(s), l)
         /\ s[1] # "pop" => (Within(Tail(s), "pop", "push") => l.restored # << >>)
         /\ s[1] # "types_path" => ~Starts(Tail(s), {"read"})
         /\ s[1] # "model_path" => ~Starts(Tail(s), {"find"})
         /\ s[1] # "load_path" => ~Starts(Tail(s), {"load_model"})
         /\ s[1] # "load_model" => ~Starts(Tail(s), {"load_types"})
         /\ s[1] # "load_types" => ~Starts(Tail(s), {"store", "fresh", "run"})
         /\ s[1] # "fresh" => ~Starts(Tail(s), {"lookup"})
         /\ s[1] # "lookup" => ~Starts(Tail(s), {"compile"})
         /\ s[1] # "compile" => ~Starts(Tail(s), {"attach"})
         /\ s[1] # "push" => ~Starts(Tail(s), {"restore"})
<1> DEFINE t == Tail(s)
<1>1. /\ t \in Seq(StepNames) /\ Orderly(t) /\ Head(s) = s[1]
      /\ t # << >> /\ t[1] \in DOMAIN Prior => s[1] = Prior[t[1]]
      /\ \A U, V : Supplied(s, U, V) /\ s[1] \notin V => Supplied(t, U, V)
      /\ \A x : Has(s, x) <=> s[1] = x \/ Has(t, x)
      /\ s[1] \in {"read", "find", "types_target"}
           => Supplied(t, {"types_target"}, {"types_path"})
  BY RestFacts DEF Fits
<1> HIDE DEF t
<1>2. /\ s[1] \notin {"path", "types_target"}
           => l.path \in Paths \/ Supplied(t, {"load_raw"}, {"path", "types_target"})
      /\ s[1] # "read" => l.snap # << >> \/ Supplied(t, {"record", "push"}, {"read"})
      /\ s[1] # "peek" => l.root \in Roots \/ Supplied(t, Dock, {"peek"})
      /\ s[1] # "types_path" => l.pending # << >> \/ Supplied(t, {"types_target"}, {"types_path"})
  BY <1>1 DEF Fits, PathFits, SnapFits, BuildFits, PendingFits
<1>3. NameFits(t, l)
  BY <1>1 DEF Fits, NameFits
<1>4. s[1] # "pop" => (Within(t, "pop", "push") => l.restored # << >>)
  BY <1>1 DEF Fits, SnapFits, Within
<1>5. /\ s[1] # "types_path" => ~Starts(t, {"read"})
      /\ s[1] # "model_path" => ~Starts(t, {"find"})
      /\ s[1] # "load_path" => ~Starts(t, {"load_model"})
      /\ s[1] # "load_model" => ~Starts(t, {"load_types"})
      /\ s[1] # "load_types" => ~Starts(t, {"store", "fresh", "run"})
      /\ s[1] # "fresh" => ~Starts(t, {"lookup"})
      /\ s[1] # "lookup" => ~Starts(t, {"compile"})
      /\ s[1] # "compile" => ~Starts(t, {"attach"})
      /\ s[1] # "push" => ~Starts(t, {"restore"})
  BY <1>1 DEF Starts, Prior
<1> QED BY <1>1, <1>2, <1>3, <1>4, <1>5 DEF t
(* A step that needs something has it.                                     *)
LEMMA FirstIsSupplied ==
  ASSUME NEW s \in Seq(StepNames), s # << >>, NEW U, NEW V, s[1] \in U
  PROVE  ~Supplied(s, U, V)
<1>1. Len(s) \in Nat /\ Len(s) # 0
  BY LenProperties, EmptySeq
<1>2. 1 \in 1 .. Len(s)
  BY <1>1
<1> QED BY <1>2 DEF Supplied

(* The first and the rest of a sequence.                                   *)
LEMMA RestOfSeq ==
  ASSUME NEW S, NEW q \in Seq(S), q # << >>
  PROVE  /\ Head(q) \in S /\ Tail(q) \in Seq(S)
         /\ Tail(q) = << >> => Len(q) = 1
<1>1. Head(q) \in S /\ Tail(q) \in Seq(S) /\ Len(Tail(q)) = Len(q) - 1
  BY HeadTailProperties
<1>2. Len(q) \in Nat
  BY LenProperties
<1>3. Tail(q) = << >> => Len(Tail(q)) = 0
  BY EmptySeq
<1> QED BY <1>1, <1>2, <1>3

(* A list of one step.                                                     *)
LEMMA OneStep == \A x : <<x>> # << >> /\ <<x>>[1] = x /\ Len(<<x>>) = 1
OBVIOUS

\* The variables a step leaves alone.
Same(m, l) ==
  /\ m.op = l.op /\ m.name = l.name /\ m.doc = l.doc /\ m.add = l.add

(* A variable of a request assigned: the paths.                            *)
LEMMA SetPending ==
  ASSUME NEW l \in Locals, NEW x \in PathLists \cup EntryLists,
         NEW m, m = [l EXCEPT !.pending = x]
  PROVE  /\ m \in Locals /\ Same(m, l)
         /\ m.pending = x /\ m.path = l.path /\ m.snap = l.snap /\ m.restored = l.restored /\ m.root = l.root
BY DEF Locals, Same

(* The path assigned.                                                      *)
LEMMA SetPath ==
  ASSUME NEW l \in Locals, NEW x \in Paths,
         NEW m, m = [l EXCEPT !.path = x]
  PROVE  /\ m \in Locals /\ Same(m, l)
         /\ m.pending = l.pending /\ m.path = x /\ m.snap = l.snap /\ m.restored = l.restored /\ m.root = l.root
BY DEF Locals, Same

(* The text assigned.                                                      *)
LEMMA SetText ==
  ASSUME NEW l \in Locals, NEW x \in Text,
         NEW m, m = [l EXCEPT !.text = x]
  PROVE  /\ m \in Locals /\ Same(m, l)
         /\ m.pending = l.pending /\ m.path = l.path /\ m.snap = l.snap /\ m.restored = l.restored /\ m.root = l.root
BY DEF Locals, Same

(* What was popped assigned.                                               *)
LEMMA SetRestored ==
  ASSUME NEW l \in Locals, NEW x \in EntryLists,
         NEW m, m = [l EXCEPT !.restored = x]
  PROVE  /\ m \in Locals /\ Same(m, l)
         /\ m.pending = l.pending /\ m.path = l.path /\ m.snap = l.snap /\ m.restored = x /\ m.root = l.root
BY DEF Locals, Same

(* The build assigned.                                                     *)
LEMMA SetBuild ==
  ASSUME NEW l \in Locals, NEW x \in Builds,
         NEW m, m = [l EXCEPT !.build = x]
  PROVE  /\ m \in Locals /\ Same(m, l)
         /\ m.pending = l.pending /\ m.path = l.path /\ m.snap = l.snap /\ m.restored = l.restored /\ m.root = l.root /\ m.sig = l.sig /\ m.build = x
BY DEF Locals, Same

(* A path is resolved, for a snapshot or for a file.                       *)
LEMMA PathSteps ==
  ASSUME NEW s, NEW l, Fits(s, l), s # << >>, NEW p \in Paths
  PROVE  /\ s[1] \in {"model_path", "types_path"}
              => Fits(Tail(s), [l EXCEPT !.pending = Append(@, p)])
         /\ s[1] \in {"path", "load_path"} => Fits(Tail(s), [l EXCEPT !.path = p])
         /\ s[1] = "types_target"
              => Fits(Tail(s), [l EXCEPT !.path = Head(l.pending), !.pending = << >>])
<1> USE DEF Fits, PendingFits, PathFits, SnapFits, LoadFits, BuildFits
<1>1. l \in Locals /\ s \in Seq(StepNames) /\ << >> \in Seq(Paths)
  BY EmptySeq
<1>2. CASE s[1] \in {"model_path", "types_path"}
  <2> DEFINE m == [l EXCEPT !.pending = Append(@, p)]
  <2> HIDE DEF m
  <2>a. m = [l EXCEPT !.pending = Append(l.pending, p)]
    BY DEF m
  <2>1. l.pending \in Seq(Paths)
    BY <1>2 DEF Starts
  <2>2. Append(l.pending, p) \in Seq(Paths) /\ Append(l.pending, p) # << >>
        /\ Append(l.pending, p) \in PathLists
    BY <2>1, AppendProperties, EmptySeq DEF PathLists
  <2>3. m \in Locals /\ m.pending = Append(l.pending, p) /\ m.path = l.path /\ m.snap = l.snap
        /\ m.restored = l.restored /\ m.root = l.root /\ Same(m, l)
    <3>1. PICK x : x = Append(l.pending, p)
      OBVIOUS
    <3>2. m = [l EXCEPT !.pending = x]
      BY <2>a, <3>1
    <3>3. x \in PathLists \cup EntryLists
      BY <2>2, <3>1
    <3>4. m \in Locals /\ Same(m, l) /\ m.pending = x /\ m.path = l.path /\ m.snap = l.snap
          /\ m.restored = l.restored /\ m.root = l.root
      BY <1>1, <3>2, <3>3, SetPending
    <3> QED BY <3>1, <3>4
  <2>4. Fits(Tail(s), m)
    BY <1>2, <2>2, <2>3, RestFits DEF Starts, NameFits, Same
  <2> QED BY <1>2, <2>4 DEF m
<1>3. CASE s[1] \in {"path", "load_path"}
  <2> DEFINE m == [l EXCEPT !.path = p]
  <2> HIDE DEF m
  <2>a. m = [l EXCEPT !.path = p]
    BY DEF m
  <2>1. m \in Locals /\ m.pending = l.pending /\ m.path = p /\ m.snap = l.snap
        /\ m.restored = l.restored /\ m.root = l.root /\ Same(m, l)
    BY <1>1, <2>a, SetPath
  <2>2. l.pending \in Seq(Paths)
    BY <1>3 DEF Starts
  <2>3. Fits(Tail(s), m)
    BY <1>3, <2>1, <2>2, RestFits DEF Starts, NameFits, Same
  <2> QED BY <1>3, <2>3 DEF m
<1>4. CASE s[1] = "types_target"
  <2> DEFINE m == [l EXCEPT !.path = Head(l.pending), !.pending = << >>]
  <2> HIDE DEF m
  <2>a. m = [l EXCEPT !.path = Head(l.pending), !.pending = << >>]
    BY DEF m
  <2>1. l.pending \in Seq(Paths) /\ l.pending # << >>
    BY <1>1, <1>4, FirstIsSupplied DEF Starts
  <2>2. Head(l.pending) \in Paths /\ << >> \in PathLists
    BY <1>1, <2>1, HeadTailProperties DEF PathLists
  <2>3. m \in Locals /\ m.pending = << >> /\ m.path \in Paths /\ m.snap = l.snap
        /\ m.restored = l.restored /\ m.root = l.root /\ Same(m, l)
    <3>1. PICK x : x = Head(l.pending)
      OBVIOUS
    <3>2. m = [l EXCEPT !.path = x, !.pending = << >>]
      BY <2>a, <3>1
    <3>3. x \in Paths /\ << >> \in PathLists
      BY <2>2, <3>1
    <3>4. m \in Locals /\ Same(m, l) /\ m.pending = << >> /\ m.path = x
          /\ m.snap = l.snap /\ m.restored = l.restored /\ m.root = l.root
      BY <1>1, <3>2, <3>3 DEF Locals, Same
    <3> QED BY <3>3, <3>4
  <2>4. Fits(Tail(s), m)
    BY <1>1, <1>4, <2>3, RestFits DEF Starts, NameFits, Same
  <2> QED BY <1>4, <2>4 DEF m
<1> QED BY <1>2, <1>3, <1>4

(* A text joins the snapshot; the last one ends the reading.               *)
LEMMA ReadSteps ==
  ASSUME NEW s, NEW l, Fits(s, l), s # << >>, s[1] = "read", NEW x \in Text,
         NEW m, m = [l EXCEPT !.snap = Append(@, <<Head(l.pending), x>>), !.pending = Tail(@)]
  PROVE  IF Len(l.pending) = 1 THEN Fits(Tail(s), m) ELSE Fits(s, m)
<1> USE DEF Fits, PendingFits, PathFits, SnapFits, LoadFits, BuildFits
<1>1. l \in Locals /\ s \in Seq(StepNames) /\ l.pending \in Seq(Paths) /\ l.pending # << >>
  BY DEF Starts
<1>2. Head(l.pending) \in Paths /\ Tail(l.pending) \in Seq(Paths)
      /\ (Tail(l.pending) = << >> => Len(l.pending) = 1)
  BY <1>1, RestOfSeq
<1>3. l.snap \in Seq(Entries) /\ <<Head(l.pending), x>> \in Entries
  BY <1>1, <1>2 DEF Locals, Entries, EntryLists
<1>4. /\ Append(l.snap, <<Head(l.pending), x>>) \in Seq(Entries)
      /\ Append(l.snap, <<Head(l.pending), x>>) # << >>
  BY <1>3, AppendProperties, EmptySeq
<1>5. m \in Locals /\ m.pending = Tail(l.pending) /\ m.path = l.path /\ m.snap # << >>
      /\ m.restored = l.restored /\ m.root = l.root /\ Same(m, l)
  <2>1. m = [l EXCEPT !.snap = Append(l.snap, <<Head(l.pending), x>>), !.pending = Tail(l.pending)]
    OBVIOUS
  <2>2. Append(l.snap, <<Head(l.pending), x>>) \in EntryLists /\ Tail(l.pending) \in PathLists
    BY <1>2, <1>4 DEF EntryLists, PathLists
  <2>3. PICK y, z : y = Append(l.snap, <<Head(l.pending), x>>) /\ z = Tail(l.pending)
    OBVIOUS
  <2>4. m = [l EXCEPT !.snap = y, !.pending = z]
    BY <2>1, <2>3
  <2>5. y \in EntryLists /\ z \in PathLists
    BY <2>2, <2>3
  <2>6. m \in Locals /\ Same(m, l) /\ m.pending = z /\ m.path = l.path
        /\ m.snap = y /\ m.restored = l.restored /\ m.root = l.root
    BY <1>1, <2>4, <2>5, ZenonT(60) DEF Locals, Same
  <2> QED BY <1>4, <2>3, <2>6
<1>6. CASE Len(l.pending) = 1
  BY <1>2, <1>5, <1>6, RestFits DEF Starts, NameFits, Same
<1>7. CASE Len(l.pending) # 1
  BY <1>1, <1>2, <1>5, <1>7 DEF Starts, NameFits, Same
<1> QED BY <1>6, <1>7

(* A file is edited in memory, the first found if several are tried.       *)
LEMMA EditSetsText ==
  ASSUME NEW s, NEW l, Fits(s, l), s # << >>, NEW x \in Text
  PROVE  /\ s[1] = "load_raw" => Fits(Tail(s), [l EXCEPT !.text = x])
         /\ s[1] = "find"
              => Fits(Tail(s), [l EXCEPT !.path = Head(l.pending), !.pending = << >>, !.text = x])
         /\ s[1] = "find" /\ Len(l.pending) # 1 => Fits(s, [l EXCEPT !.pending = Tail(@)])
<1> USE DEF Fits, PendingFits, PathFits, SnapFits, LoadFits, BuildFits
<1>1. l \in Locals /\ s \in Seq(StepNames) /\ << >> \in Seq(Paths)
  BY EmptySeq
<1>2. CASE s[1] = "load_raw"
  <2> DEFINE m == [l EXCEPT !.text = x]
  <2> HIDE DEF m
  <2>a. m = [l EXCEPT !.text = x]
    BY DEF m
  <2>1. m \in Locals /\ m.pending = l.pending /\ m.path = l.path /\ m.snap = l.snap
        /\ m.restored = l.restored /\ m.root = l.root /\ Same(m, l)
    BY <1>1, <2>a, SetText
  <2>2. l.pending \in Seq(Paths)
    BY <1>2 DEF Starts
  <2>3. Fits(Tail(s), m)
    BY <1>2, <2>1, <2>2, RestFits DEF Starts, NameFits, Same
  <2> QED BY <1>2, <2>3 DEF m
<1>3. CASE s[1] = "find"
  <2>1. l.pending \in Seq(Paths) /\ l.pending # << >>
    BY <1>3 DEF Starts
  <2>2. Head(l.pending) \in Paths /\ Tail(l.pending) \in Seq(Paths)
        /\ (Tail(l.pending) = << >> => Len(l.pending) = 1)
    BY <2>1, RestOfSeq
  <2> DEFINE m == [l EXCEPT !.path = Head(l.pending), !.pending = << >>, !.text = x]
             n == [l EXCEPT !.pending = Tail(@)]
  <2> HIDE DEF m, n
  <2>a. m = [l EXCEPT !.path = Head(l.pending), !.pending = << >>, !.text = x]
        /\ n = [l EXCEPT !.pending = Tail(l.pending)]
    BY DEF m, n
  <2>b. << >> \in PathLists /\ Tail(l.pending) \in PathLists
    BY <1>1, <2>2 DEF PathLists
  <2>3. m \in Locals /\ m.pending = << >> /\ m.path \in Paths /\ m.snap = l.snap
        /\ m.restored = l.restored /\ m.root = l.root /\ Same(m, l)
    <3>1. PICK y : y = Head(l.pending)
      OBVIOUS
    <3>2. m = [l EXCEPT !.path = y, !.pending = << >>, !.text = x]
      BY <2>a, <3>1
    <3>3. y \in Paths /\ << >> \in PathLists
      BY <2>2, <2>b, <3>1
    <3>4. m \in Locals /\ Same(m, l) /\ m.pending = << >> /\ m.path = y
          /\ m.snap = l.snap /\ m.restored = l.restored /\ m.root = l.root
      BY <1>1, <3>2, <3>3 DEF Locals, Same
    <3> QED BY <3>3, <3>4
  <2>4. n \in Locals /\ n.pending = Tail(l.pending) /\ n.path = l.path /\ n.snap = l.snap
        /\ n.restored = l.restored /\ n.root = l.root /\ Same(n, l)
    <3>1. PICK y : y = Tail(l.pending)
      OBVIOUS
    <3>2. n = [l EXCEPT !.pending = y]
      BY <2>a, <3>1
    <3>3. y \in PathLists \cup EntryLists
      BY <2>b, <3>1
    <3>4. n \in Locals /\ Same(n, l) /\ n.pending = y /\ n.path = l.path
          /\ n.snap = l.snap /\ n.restored = l.restored /\ n.root = l.root
      BY <1>1, <3>2, <3>3, SetPending
    <3> QED BY <3>1, <3>4
  <2>5. Fits(Tail(s), m)
    BY <1>1, <1>3, <2>3, RestFits DEF Starts, NameFits, Same
  <2>6. Len(l.pending) # 1 => Fits(s, n)
    BY <1>3, <2>2, <2>4 DEF Starts, NameFits, Same
  <2> QED BY <1>3, <2>5, <2>6 DEF m, n
<1> QED BY <1>2, <1>3

(* Steps that leave the request's variables alone.                         *)
LEMMA PlainSteps ==
  ASSUME NEW s, NEW l, Fits(s, l), s # << >>,
         \/ s[1] \in {"save", "collide", "set_root", "open", "clear_journal", "clear_sim", "lock_sim",
                      "lookup"}
         \/ s[1] = "fresh" /\ Semantics(l.loaded) = l.sig
  PROVE  Fits(Tail(s), l)
<1> USE DEF Fits, PendingFits, PathFits, SnapFits, LoadFits, BuildFits
<1>1. l.pending \in Seq(Paths)
  BY DEF Starts
<1>2. s[1] = "fresh" => l.sig \in Signatures
  BY DEF Starts, Sources, Signatures, Semantics
<1>3. s[1] = "lookup" => l.sig \in Signatures /\ Semantics(l.loaded) = l.sig
  BY DEF Starts
<1> QED BY <1>1, <1>2, <1>3, RestFits DEF Starts, NameFits, Same

(* Undo and redo: what is popped, pushed and restored is a snapshot.       *)
LEMMA JournalSteps ==
  ASSUME NEW s, NEW l, Fits(s, l), s # << >>
  PROVE  /\ s[1] = "pop" => \A x \in Snapshots : Fits(Tail(s), [l EXCEPT !.restored = x])
         /\ s[1] = "push" => Fits(Tail(s), [l EXCEPT !.pending = l.restored]) /\ l.snap # << >>
         /\ s[1] = "restore" /\ Len(l.pending) # 1 => Fits(s, [l EXCEPT !.pending = Tail(@)])
         /\ s[1] = "record" => l.snap # << >>
<1> USE DEF Fits, PendingFits, PathFits, SnapFits, LoadFits, BuildFits
<1>1. l \in Locals /\ s \in Seq(StepNames) /\ << >> \in Seq(Paths)
  BY EmptySeq
<1>2. ASSUME s[1] = "pop", NEW x \in Snapshots
      PROVE  Fits(Tail(s), [l EXCEPT !.restored = x])
  <2> DEFINE m == [l EXCEPT !.restored = x]
  <2> HIDE DEF m
  <2>a. m = [l EXCEPT !.restored = x]
    BY DEF m
  <2>1. m \in Locals /\ m.pending = l.pending /\ m.path = l.path /\ m.snap = l.snap
        /\ m.restored # << >> /\ m.root = l.root /\ Same(m, l)
    <3>1. x \in EntryLists /\ x # << >>
      BY <1>2 DEF Snapshots, EntryLists
    <3> QED BY <1>1, <2>a, <3>1, SetRestored
  <2>2. l.pending \in Seq(Paths)
    BY <1>2 DEF Starts
  <2>3. Fits(Tail(s), m)
    BY <1>2, <2>1, <2>2, RestFits, ZenonT(60) DEF Starts, NameFits, Same
  <2> QED BY <2>3 DEF m
<1>3. CASE s[1] = "push"
  <2> DEFINE m == [l EXCEPT !.pending = l.restored]
  <2> HIDE DEF m
  <2>a. m = [l EXCEPT !.pending = l.restored]
    BY DEF m
  <2>1. Tail(s) = <<"restore">> /\ \A x : Has(s, x) <=> s[1] = x \/ Has(Tail(s), x)
    BY <1>3, RestFacts
  <2>2. ~Has(<<"restore">>, "pop")
    BY DEF Has
  <2>3. Within(s, "pop", "push")
    BY <1>3, <2>1, <2>2 DEF Within
  <2>4. l.restored \in Snapshots
    BY <1>1, <2>3 DEF Locals, Snapshots, EntryLists
  <2>5. m \in Locals /\ m.pending = l.restored /\ m.path = l.path /\ m.snap = l.snap
        /\ m.restored = l.restored /\ m.root = l.root /\ Same(m, l)
    <3>1. l.restored \in EntryLists
      BY <2>4 DEF Snapshots, EntryLists
    <3> QED BY <1>1, <2>a, <3>1, SetPending
  <2>6. m.pending \in Snapshots /\ m.pending # << >>
    BY <2>4, <2>5 DEF Snapshots
  <2>7. Starts(Tail(s), {"restore"}) /\ ~Starts(Tail(s), {"read", "find"})
    BY <2>1, OneStep DEF Starts
  <2>8. Fits(Tail(s), m)
    BY <1>3, <2>5, <2>6, <2>7, RestFits DEF Starts, NameFits, Same
  <2>9. l.snap # << >>
    BY <1>1, <1>3, FirstIsSupplied
  <2> QED BY <1>3, <2>8, <2>9 DEF m
<1>4. ASSUME s[1] = "restore", Len(l.pending) # 1
      PROVE  Fits(s, [l EXCEPT !.pending = Tail(@)])
  <2> DEFINE m == [l EXCEPT !.pending = Tail(@)]
  <2> HIDE DEF m
  <2>a. m = [l EXCEPT !.pending = Tail(l.pending)]
    BY DEF m
  <2>1. l.pending \in Seq(Entries) /\ l.pending # << >>
    BY <1>4 DEF Starts, Snapshots
  <2>2. Tail(l.pending) \in Seq(Entries) /\ Tail(l.pending) # << >>
    BY <1>4, <2>1, RestOfSeq
  <2>3. m \in Locals /\ m.pending = Tail(l.pending) /\ m.path = l.path /\ m.snap = l.snap
        /\ m.restored = l.restored /\ m.root = l.root /\ Same(m, l)
    <3>1. Tail(l.pending) \in EntryLists
      BY <2>2 DEF EntryLists
    <3>2. PICK y : y = Tail(l.pending)
      OBVIOUS
    <3>3. m = [l EXCEPT !.pending = y]
      BY <2>a, <3>2
    <3>4. y \in PathLists \cup EntryLists
      BY <3>1, <3>2
    <3>5. m \in Locals /\ Same(m, l) /\ m.pending = y /\ m.path = l.path
          /\ m.snap = l.snap /\ m.restored = l.restored /\ m.root = l.root
      BY <1>1, <3>3, <3>4, SetPending
    <3> QED BY <3>2, <3>5
  <2>4. Fits(s, m)
    BY <1>1, <1>4, <2>2, <2>3 DEF Starts, NameFits, Same, Snapshots
  <2> QED BY <2>4 DEF m
<1>5. s[1] = "record" => l.snap # << >>
  BY <1>1, FirstIsSupplied
<1> QED BY <1>2, <1>3, <1>4, <1>5

(* The two files of a model, one after the other.                          *)
LEMMA LoadSteps ==
  ASSUME NEW s, NEW l, Fits(s, l), s # << >>
  PROVE  /\ s[1] = "load_model" => \A x \in Text : Fits(Tail(s), [l EXCEPT !.loaded = [model |-> x]])
         /\ s[1] = "load_types" => \A x \in Sources : Fits(Tail(s), [l EXCEPT !.loaded = x])
<1> USE DEF Fits, PendingFits, PathFits, SnapFits, LoadFits, BuildFits
<1>1. l \in Locals /\ s \in Seq(StepNames)
  OBVIOUS
<1>2. ASSUME s[1] \in {"load_model", "load_types"},
             NEW y \in [{"model"} -> Text] \cup Sources,
             s[1] = "load_model" => y \in [{"model"} -> Text],
             s[1] = "load_types" => y \in Sources
      PROVE  Fits(Tail(s), [l EXCEPT !.loaded = y])
  <2> DEFINE m == [l EXCEPT !.loaded = y]
  <2> HIDE DEF m
  <2>a. m = [l EXCEPT !.loaded = y]
    BY DEF m
  <2>1. y \in [{"model"} -> Text] \cup [Kinds -> Text]
    BY DEF Sources, Text
  <2>2. m \in Locals /\ m.pending = l.pending /\ m.path = l.path /\ m.snap = l.snap /\ m.loaded = y
        /\ m.restored = l.restored /\ m.root = l.root /\ Same(m, l)
    BY <1>1, <2>1, <2>a DEF Locals, Same
  <2>3. l.pending \in Seq(Paths) /\ l.path \in Paths
    BY <1>2 DEF Starts
  <2>4. s[1] \notin {"path", "types_target", "read", "peek", "types_path", "pop", "model_path",
                      "load_path", "fresh", "lookup", "compile", "push"}
    BY <1>2
  <2>5. Tail(s) \in Seq(StepNames) /\ Orderly(Tail(s)) /\ PendingFits(Tail(s), m)
        /\ SnapFits(Tail(s), m) /\ NameFits(Tail(s), m)
    BY <2>2, <2>3, <2>4, RestFits DEF Starts, NameFits, Same
  <2>6. PathFits(Tail(s), m) /\ BuildFits(Tail(s), m)
    BY <2>2, <2>3, <2>4, RestFits DEF Starts
  <2>7. LoadFits(Tail(s), m)
    <3>1. CASE s[1] = "load_model"
      BY <1>2, <2>2, <2>4, <3>1, RestFits DEF Starts
    <3>2. CASE s[1] = "load_types"
      BY <1>2, <2>2, <2>4, <3>2, RestFits DEF Starts
    <3> QED BY <1>2, <3>1, <3>2
  <2>8. Fits(Tail(s), m)
    BY <2>2, <2>5, <2>6, <2>7
  <2> QED BY <2>8 DEF m
<1>3. \A x \in Text : [model |-> x] \in [{"model"} -> Text]
  OBVIOUS
<1> QED BY <1>2, <1>3

(* The session looked at, and the build found or made for it.              *)
LEMMA DockSteps ==
  ASSUME NEW s, NEW l, Fits(s, l), s # << >>
  PROVE  /\ s[1] = "peek" => \A x \in Signatures, y \in Roots :
                Fits(Tail(s), [l EXCEPT !.sig = x, !.root = y])
         /\ s[1] \in Dock => l.root \in Roots
         /\ s[1] = "lookup"
              => Fits(<<"attach">>, [l EXCEPT !.build = [sig |-> l.sig, root |-> l.root]])
         /\ s[1] = "compile"
              => Fits(Tail(s), [l EXCEPT !.build = [sig |-> l.sig, root |-> l.root]])
<1> USE DEF Fits, PendingFits, PathFits, SnapFits, LoadFits, BuildFits
<1>1. l \in Locals /\ s \in Seq(StepNames)
  OBVIOUS
<1>2. s[1] \in Dock => l.root \in Roots
  BY <1>1, FirstIsSupplied
<1>3. ASSUME s[1] = "peek", NEW x \in Signatures, NEW y \in Roots
      PROVE  Fits(Tail(s), [l EXCEPT !.sig = x, !.root = y])
  <2> DEFINE m == [l EXCEPT !.sig = x, !.root = y]
  <2> HIDE DEF m
  <2>a. m = [l EXCEPT !.sig = x, !.root = y]
    BY DEF m
  <2>1. m \in Locals /\ m.pending = l.pending /\ m.path = l.path /\ m.snap = l.snap
        /\ m.restored = l.restored /\ m.root \in Roots /\ Same(m, l)
    BY <1>1, <2>a DEF Locals, Same
  <2>2. l.pending \in Seq(Paths)
    BY <1>3 DEF Starts
  <2>b. NameFits(Tail(s), m)
    <3>1. NameFits(Tail(s), l)
      BY RestFits
    <3> QED BY <2>1, <3>1 DEF NameFits, Same
  <2>3. Fits(Tail(s), m)
    BY <1>3, <2>1, <2>2, <2>b, RestFits DEF Starts, Same
  <2> QED BY <2>3 DEF m
<1>4. ASSUME s[1] \in {"lookup", "compile"}, NEW t,
             t = <<"attach">> \/ (t = Tail(s) /\ s[1] = "compile")
      PROVE  Fits(t, [l EXCEPT !.build = [sig |-> l.sig, root |-> l.root]])
  <2> DEFINE m == [l EXCEPT !.build = [sig |-> l.sig, root |-> l.root]]
  <2> HIDE DEF m
  <2>a. m = [l EXCEPT !.build = [sig |-> l.sig, root |-> l.root]]
    BY DEF m
  <2>1. l.sig \in Signatures /\ l.root \in Roots /\ l.pending \in Seq(Paths)
    BY <1>2, <1>4 DEF Starts, Dock
  <2>2. [sig |-> l.sig, root |-> l.root] \in Builds
    BY <2>1 DEF Builds
  <2>3. m \in Locals /\ m.pending = l.pending /\ m.path = l.path /\ m.snap = l.snap
        /\ m.restored = l.restored /\ m.root = l.root /\ Same(m, l)
        /\ m.sig = l.sig /\ m.build = [sig |-> m.sig, root |-> m.root]
    <3>1. m \in Locals /\ m.pending = l.pending /\ m.path = l.path /\ m.snap = l.snap
        /\ m.restored = l.restored /\ m.root = l.root /\ Same(m, l)
        /\ m.sig = l.sig /\ m.build = [sig |-> l.sig, root |-> l.root]
      BY <1>1, <2>2, <2>a, SetBuild
    <3> QED BY <3>1
  <2>4. CASE t = <<"attach">>
    <3>1. t \in Seq(StepNames) /\ Len(t) = 1 /\ t[1] = "attach" /\ t # << >>
      BY <2>4, OneStep DEF StepNames
    <3>2. Orderly(t)
      BY <3>1 DEF Orderly
    <3>3. /\ Supplied(t, {"types_target"}, {"types_path"})
          /\ Supplied(t, {"load_raw"}, {"path", "types_target"})
          /\ Supplied(t, {"record", "push"}, {"read"})
      BY <3>1 DEF Supplied
    <3>4. ~Has(t, "load_raw") /\ ~Has(t, "find") /\ ~Has(t, "push") /\ ~Has(t, "open")
      BY <3>1 DEF Has
    <3>5. PendingFits(t, m) /\ PathFits(t, m) /\ SnapFits(t, m)
      BY <2>1, <2>3, <3>1, <3>3, <3>4 DEF Starts, Within
    <3>6. ~Starts(t, {"load_types"}) /\ ~Starts(t, {"store", "fresh", "run"})
          /\ ~Starts(t, {"lookup", "compile"})
      BY <3>1 DEF Starts
    <3>7. LoadFits(t, m)
      BY <3>6
    <3>8. BuildFits(t, m)
      BY <2>1, <2>3, <3>6
    <3>9. NameFits(t, m)
      BY <3>4 DEF NameFits
    <3> HIDE DEF PendingFits, PathFits, SnapFits, LoadFits, BuildFits
    <3> QED BY <2>3, <2>a, <3>1, <3>2, <3>5, <3>7, <3>8, <3>9
  <2>5. CASE t = Tail(s) /\ s[1] = "compile"
    <3>1. t \in Seq(StepNames) /\ Orderly(t) /\ PendingFits(t, m) /\ PathFits(t, m) /\ SnapFits(t, m)
      BY <2>1, <2>3, <2>5, RestFits DEF Starts
    <3>2. ~Starts(t, {"load_types"}) /\ ~Starts(t, {"store", "fresh", "run"})
          /\ ~Starts(t, {"lookup"}) /\ ~Starts(t, {"compile"}) /\ NameFits(t, l)
      <4>1. s[1] = "compile" /\ t = Tail(s)
        BY <2>5
      <4> QED BY <4>1, RestFits
    <3>3. ~Starts(t, {"lookup", "compile"})
      BY <3>2 DEF Starts
    <3>4. LoadFits(t, m)
      BY <3>2
    <3>5. BuildFits(t, m)
      BY <2>1, <2>3, <3>3
    <3>6. NameFits(t, m)
      BY <2>3, <3>2 DEF NameFits, Same
    <3> HIDE DEF PendingFits, PathFits, SnapFits, LoadFits, BuildFits
    <3> QED BY <2>3, <2>a, <3>1, <3>4, <3>5, <3>6
  <2> QED BY <1>4, <2>4, <2>5
<1> QED BY <1>2, <1>3, <1>4
-----------------------------------------------------------------------------
(* The end of a stack, and a stack without it.                             *)
LEMMA FrontAndLast ==
  ASSUME NEW S, NEW q \in Seq(S), q # << >>
  PROVE  Front(q) \in Seq(S) /\ Len(Front(q)) + 1 = Len(q) /\ Last(q) \in S
<1>1. Len(q) \in Nat /\ Len(q) # 0
  BY LenProperties, EmptySeq
<1>2. Len(q) \in 1 .. Len(q)
  BY <1>1
<1>3. q[Len(q)] \in S
  BY <1>2, ElementOfSeq
<1>4. Len(q) - 1 \in Int /\ 1 \in Int /\ \A i \in 1 .. Len(q) - 1 : q[i] \in S
  BY <1>1, ElementOfSeq
<1>5. /\ SubSeq(q, 1, Len(q) - 1) \in Seq(S)
      /\ Len(SubSeq(q, 1, Len(q) - 1))
           = IF 1 <= Len(q) - 1 THEN Len(q) - 1 - 1 + 1 ELSE 0
  BY <1>4, SubSeqProperties
<1>6. (IF 1 <= Len(q) - 1 THEN Len(q) - 1 - 1 + 1 ELSE 0) + 1 = Len(q)
  <2>1. \A n \in Nat : n # 0 => (IF 1 <= n - 1 THEN n - 1 - 1 + 1 ELSE 0) + 1 = n
    OBVIOUS
  <2> QED BY <1>1, <2>1
<1> QED BY <1>3, <1>5, <1>6 DEF Front, Last

(* A request starts with the variables its handler's first steps need.     *)
LEMMA BeginFits ==
  ASSUME NEW op \in DOMAIN Steps, NEW l \in Locals,
         l.pending = << >>, l.op = op,
         op = "start" => l.root \in Roots,
         op = "open" => l.doc \in Documents,
         op \in {"edit", "insert", "declare", "remove", "import", "build"} => l.name \in Names
  PROVE  Fits(Steps[op], l)
<1> DEFINE s == Steps[op]
<1>1. Opening(s)
  BY HandlersOpen
<1>2. op # "start" => Supplied(s, Dock, {"peek"})
  BY HandlersNeed DEF Dock
<1>3. Has(s, "load_raw") \/ Has(s, "find")
        => op \in {"edit", "insert", "declare", "remove", "import", "build", "save"}
  BY HandlersNeed
<1>4. (op = "save" => ~Has(s, "find")) /\ (op # "open" => ~Has(s, "open"))
  BY HandlersNeed
<1> HIDE DEF s
<1>5. s \in Seq(StepNames) /\ Orderly(s) /\ s # << >> /\ s[1] \notin DOMAIN Prior
  BY <1>1 DEF Opening
<1>6. /\ ~Starts(s, {"restore"}) /\ ~Starts(s, {"read", "find"})
      /\ ~Starts(s, {"load_model", "load_types"}) /\ ~Starts(s, {"load_types"})
      /\ ~Starts(s, {"store", "fresh", "run"}) /\ ~Starts(s, {"lookup", "compile"})
      /\ ~Starts(s, {"attach"})
  BY <1>5 DEF Starts, Prior
<1>7. l.pending \in Seq(Paths)
  BY EmptySeq
<1>8. PendingFits(s, l) /\ PathFits(s, l) /\ SnapFits(s, l)
  BY <1>1, <1>6, <1>7 DEF Opening, PendingFits, PathFits, SnapFits
<1>9. LoadFits(s, l) /\ BuildFits(s, l)
  BY <1>2, <1>6 DEF LoadFits, BuildFits
<1>10. NameFits(s, l)
  BY <1>3, <1>4 DEF NameFits
<1>11. Fits(s, l)
  BY <1>5, <1>8, <1>9, <1>10 DEF Fits
<1> QED BY <1>11 DEF s

-----------------------------------------------------------------------------
(* The inductive invariant.                                                *)

Sessions == [sig : Signatures, root : Roots, c : Builds \cup {None}]
Cached == [sig : Signatures, root : Roots, exe : Builds]
Outcomes == {"none", "ok", "refused", "failed"}

\* Every request's variables fit what is left of its handler.
Threads ==
  /\ todo \in [Requests -> Seq(StepNames)]
  /\ local \in [Requests -> Locals]
  /\ outcome \in [Requests -> Outcomes]
  /\ \A r \in Requests : Fits(todo[r], local[r])

Shared ==
  /\ workspace \in Documents
  /\ files \in [Paths -> Text]
  /\ undo \in Seq(Snapshots) /\ redo \in Seq(Snapshots)
  /\ history \in Requests \cup {None} /\ simLock \in Requests \cup {None}
  /\ sim \in Sessions \cup {None}
  /\ cache \in Cached \cup {None}

\* Who is between taking a mutex and giving it back has it.
InHistory(s) == Within(s, "pop", "push") \/ Within(s, "clear_journal", "clear_cache")
InSession(s) == Within(s, "lock_sim", "run")

JournalHeld == \A r \in Requests : InHistory(todo[r]) => history = r
SessionHeld == \A r \in Requests : InSession(todo[r]) => simLock = r /\ sim # None

\* What an undo or a redo has popped still has its place.
Room ==
  /\ JournalBounded
  /\ \A r \in Requests : Within(todo[r], "pop", "push") => Len(undo) + Len(redo) + 1 <= HistoryCap

CachedBuildMatches == cache # None => cache.exe = [sig |-> cache.sig, root |-> cache.root]

ServerInv ==
  /\ Threads /\ Shared /\ JournalHeld /\ SessionHeld /\ Room
  /\ CachedBuildMatches /\ AttachedBuildMatches

-----------------------------------------------------------------------------
(* What a step of one request changes: its own list and its own variables. *)

Moves(r, s, l) == todo' = [todo EXCEPT ![r] = s] /\ local' = [local EXCEPT ![r] = l]

(* Fitting variables keep the invariant of the threads.                    *)
LEMMA MovesThreads ==
  ASSUME Threads, NEW r \in Requests, NEW s, NEW l, Fits(s, l), Moves(r, s, l),
         outcome' \in [Requests -> Outcomes]
  PROVE  Threads'
<1>1. s \in Seq(StepNames) /\ l \in Locals
  BY DEF Fits
<1>2. todo' \in [Requests -> Seq(StepNames)] /\ local' \in [Requests -> Locals]
  BY <1>1 DEF Threads, Moves
<1>3. ASSUME NEW q \in Requests PROVE Fits(todo'[q], local'[q])
  <2>1. CASE q = r
    <3>1. todo'[q] = s /\ local'[q] = l
      BY <2>1 DEF Threads, Moves
    <3> QED BY <3>1
  <2>2. CASE q # r
    <3>1. todo'[q] = todo[q] /\ local'[q] = local[q]
      BY <2>2 DEF Threads, Moves
    <3> QED BY <3>1 DEF Threads
  <2> QED BY <2>1, <2>2
<1> QED BY <1>2, <1>3 DEF Threads

(* An answer.                                                              *)
LEMMA AnswerMoves ==
  ASSUME Threads, NEW r \in Requests, NEW how \in Outcomes, Answer(r, how)
  PROVE  Threads'
<1>1. Moves(r, << >>, Idle)
  BY DEF Answer, Moves
<1>2. outcome' \in [Requests -> Outcomes]
  BY DEF Answer, Threads
<1> QED BY <1>1, <1>2, IdleFits, MovesThreads

(* A step on.                                                              *)
LEMMA GotoMoves ==
  ASSUME Threads, NEW r \in Requests, NEW s, NEW l, Fits(s, l), Goto(r, s), Set(r, l)
  PROVE  Threads'
<1>1. Moves(r, s, l) /\ outcome' \in [Requests -> Outcomes]
  BY DEF Goto, Set, Moves, Threads
<1> QED BY <1>1, MovesThreads

(* A step that stays where it is.                                          *)
LEMMA StayMoves ==
  ASSUME Threads, NEW r \in Requests, NEW l, Fits(todo[r], l),
         UNCHANGED <<todo, outcome>>, Set(r, l)
  PROVE  Threads'
<1>1. todo' = [todo EXCEPT ![r] = todo[r]]
  BY DEF Threads
<1>2. Moves(r, todo[r], l) /\ outcome' \in [Requests -> Outcomes]
  BY <1>1 DEF Set, Moves, Threads
<1> QED BY <1>2, MovesThreads

(* A step on that assigns nothing.                                         *)
LEMMA ContinueMoves ==
  ASSUME Threads, NEW r \in Requests, Fits(Tail(todo[r]), local[r]), Continue(r), UNCHANGED local
  PROVE  Threads'
<1>1. Set(r, local[r])
  BY DEF Threads, Set
<1> QED BY <1>1, GotoMoves DEF Continue

(* What the first step of a list says of the request.                      *)
LEMMA AtFirst ==
  ASSUME Threads, NEW r \in Requests, NEW x, At(r, x)
  PROVE  /\ Fits(todo[r], local[r]) /\ todo[r] # << >> /\ todo[r][1] = x
         /\ local[r] \in Locals /\ todo[r] \in Seq(StepNames) /\ Orderly(todo[r])
<1>1. Fits(todo[r], local[r]) /\ todo[r] # << >>
  BY DEF Threads, At
<1>2. Head(todo[r]) = todo[r][1]
  BY <1>1, RestFits
<1> QED BY <1>1, <1>2 DEF At, Fits

(* The steps that resolve a path.                                          *)
LEMMA ThreadsPaths ==
  ASSUME ServerInv, NEW r \in Requests, AddPath(r) \/ ResolvePath(r) \/ LoadPath(r)
  PROVE  Threads'
<1>1. Threads /\ <<workspace, "model">> \in Paths /\ <<workspace, "types">> \in Paths
  BY DEF ServerInv, Shared, Paths, Kinds
<1>2. ASSUME NEW x, At(r, x) PROVE Fits(todo[r], local[r]) /\ todo[r] # << >> /\ todo[r][1] = x
  BY <1>1, <1>2, AtFirst
<1>3. CASE AddPath(r)
  <2>1. CASE At(r, "model_path") /\ Set(r, [local[r] EXCEPT !.pending = Append(@, <<workspace, "model">>)])
    <3>1. Fits(Tail(todo[r]), [local[r] EXCEPT !.pending = Append(@, <<workspace, "model">>)])
      <4>1. Fits(todo[r], local[r]) /\ todo[r] # << >> /\ todo[r][1] = "model_path"
        BY <1>2, <2>1
      <4> QED BY <1>1, <4>1, PathSteps
    <3> QED BY <1>1, <1>3, <2>1, <3>1, GotoMoves DEF AddPath, Continue
  <2>2. CASE At(r, "types_path") /\ Set(r, [local[r] EXCEPT !.pending = Append(@, <<workspace, "types">>)])
    <3>1. Fits(Tail(todo[r]), [local[r] EXCEPT !.pending = Append(@, <<workspace, "types">>)])
      <4>1. Fits(todo[r], local[r]) /\ todo[r] # << >> /\ todo[r][1] = "types_path"
        BY <1>2, <2>2
      <4> QED BY <1>1, <4>1, PathSteps
    <3> QED BY <1>1, <1>3, <2>2, <3>1, GotoMoves DEF AddPath, Continue
  <2> QED BY <1>3, <2>1, <2>2 DEF AddPath
<1>4. CASE ResolvePath(r)
  <2>1. CASE At(r, "path") /\ Set(r, [local[r] EXCEPT !.path = <<workspace, "model">>])
    <3>1. Fits(Tail(todo[r]), [local[r] EXCEPT !.path = <<workspace, "model">>])
      <4>1. Fits(todo[r], local[r]) /\ todo[r] # << >> /\ todo[r][1] = "path"
        BY <1>2, <2>1
      <4> QED BY <1>1, <4>1, PathSteps
    <3> QED BY <1>1, <1>4, <2>1, <3>1, GotoMoves DEF ResolvePath, Continue
  <2>2. CASE At(r, "types_target")
             /\ Set(r, [local[r] EXCEPT !.path = Head(local[r].pending), !.pending = << >>])
    <3>1. Fits(Tail(todo[r]), [local[r] EXCEPT !.path = Head(local[r].pending), !.pending = << >>])
      <4>1. Fits(todo[r], local[r]) /\ todo[r] # << >> /\ todo[r][1] = "types_target"
        BY <1>2, <2>2
      <4> QED BY <1>1, <4>1, PathSteps
    <3> QED BY <1>1, <1>4, <2>2, <3>1, GotoMoves DEF ResolvePath, Continue
  <2> QED BY <1>4, <2>1, <2>2 DEF ResolvePath
<1>5. CASE LoadPath(r)
  <2>1. At(r, "load_path")
    BY <1>5 DEF LoadPath
  <2>2. Fits(Tail(todo[r]), [local[r] EXCEPT !.path = <<workspace, "model">>])
    <3>1. Fits(todo[r], local[r]) /\ todo[r] # << >> /\ todo[r][1] = "load_path"
      BY <1>2, <2>1
    <3> QED BY <1>1, <3>1, PathSteps
  <2> QED BY <1>1, <1>5, <2>2, GotoMoves DEF LoadPath, Continue
<1> QED BY <1>3, <1>4, <1>5

(* The steps that read and write files.                                    *)
LEMMA ThreadsEdits ==
  ASSUME ServerInv, NEW r \in Requests,
         ReadForSnapshot(r) \/ LoadRaw(r) \/ Find(r) \/ Save(r) \/ Restore(r)
  PROVE  Threads'
<1>1. Threads /\ files \in [Paths -> Text]
  BY DEF ServerInv, Shared
<1>2. ASSUME NEW x, At(r, x)
      PROVE  /\ Fits(todo[r], local[r]) /\ todo[r] # << >> /\ todo[r][1] = x
             /\ local[r] \in Locals /\ todo[r] \in Seq(StepNames)
  BY <1>1, <1>2, AtFirst
<1>3. CASE ReadForSnapshot(r)
  <2>1. At(r, "read")
    BY <1>3 DEF ReadForSnapshot
  <2>2. local[r].pending \in Seq(Paths) /\ local[r].pending # << >>
    BY <1>2, <2>1 DEF Fits, PendingFits, Starts
  <2>3. files[Head(local[r].pending)] \in Text
    BY <1>1, <2>2, RestOfSeq
  <2> DEFINE p == Head(local[r].pending)
             m == [local[r] EXCEPT !.snap = Append(@, <<p, files[p]>>), !.pending = Tail(@)]
  <2>4. IF Len(local[r].pending) = 1 THEN Fits(Tail(todo[r]), m) ELSE Fits(todo[r], m)
    <3>1. Fits(todo[r], local[r]) /\ todo[r] # << >> /\ todo[r][1] = "read"
      BY <1>2, <2>1
    <3> QED BY <2>3, <3>1, ReadSteps
  <2>5. Set(r, m) /\ IF Len(local[r].pending) = 1 THEN Continue(r) ELSE UNCHANGED <<todo, outcome, left>>
    BY <1>3 DEF ReadForSnapshot
  <2> HIDE DEF m
  <2> QED BY <1>1, <2>4, <2>5, GotoMoves, StayMoves DEF Continue
<1>4. ASSUME NEW text \in Text, text # Broken, local[r].name \in Names \/ local[r].op = "save"
      PROVE  Edited(local[r], text) \in Text
  BY <1>4 DEF Edited, Text
<1>5. CASE LoadRaw(r)
  <2>1. At(r, "load_raw")
    BY <1>5 DEF LoadRaw
  <2>2. Fits(todo[r], local[r]) /\ todo[r] # << >> /\ todo[r][1] = "load_raw"
    BY <1>2, <2>1
  <2>3. local[r].path \in Paths /\ todo[r] \in Seq(StepNames)
    BY <1>2, <2>1, FirstIsSupplied DEF Fits, PathFits
  <2>4. local[r].name \in Names \/ local[r].op = "save"
    <3>1. Has(todo[r], "load_raw")
      BY <2>2, <2>3, RestFacts DEF Fits
    <3> QED BY <2>2, <3>1 DEF Fits, NameFits
  <2> DEFINE text == files[local[r].path]
             m == [local[r] EXCEPT !.text = Edited(local[r], text)]
  <2>5. text # Broken => Fits(Tail(todo[r]), m)
    <3>1. text \in Text
      BY <1>1, <2>3
    <3>2. text # Broken => Edited(local[r], text) \in Text
      BY <1>4, <2>4, <3>1
    <3> QED BY <2>2, <3>2, EditSetsText
  <2>6. \/ Answer(r, "refused")
        \/ text # Broken /\ Set(r, m) /\ Continue(r)
    BY <1>5 DEF LoadRaw
  <2> HIDE DEF m, text
  <2>7. CASE Answer(r, "refused")
    BY <1>1, <2>7, AnswerMoves DEF Outcomes
  <2>8. CASE text # Broken /\ Set(r, m) /\ Continue(r)
    BY <1>1, <2>5, <2>8, GotoMoves DEF Continue
  <2> QED BY <2>6, <2>7, <2>8
<1>6. CASE Find(r)
  <2>1. At(r, "find")
    BY <1>6 DEF Find
  <2>2. Fits(todo[r], local[r]) /\ todo[r] # << >> /\ todo[r][1] = "find" /\ todo[r] \in Seq(StepNames)
    BY <1>2, <2>1
  <2>3. local[r].pending \in Seq(Paths) /\ local[r].pending # << >>
    BY <2>2 DEF Fits, PendingFits, Starts
  <2>4. local[r].name \in Names \/ local[r].op = "save"
    <3>1. Has(todo[r], "find")
      BY <2>2, RestFacts DEF Fits
    <3> QED BY <2>2, <3>1 DEF Fits, NameFits
  <2> DEFINE p == Head(local[r].pending)
             m == [local[r] EXCEPT !.path = p, !.pending = << >>, !.text = Edited(local[r], files[p])]
             n == [local[r] EXCEPT !.pending = Tail(@)]
  <2>5. files[p] # Broken => Fits(Tail(todo[r]), m)
    <3>1. files[p] \in Text
      BY <1>1, <2>3, RestOfSeq
    <3>2. files[p] # Broken => Edited(local[r], files[p]) \in Text
      BY <1>4, <2>4, <3>1
    <3> QED BY <2>2, <3>2, EditSetsText
  <2>6. Len(local[r].pending) # 1 => Fits(todo[r], n)
    <3>1. {} \in Text
      BY DEF Text
    <3> QED BY <2>2, <3>1, EditSetsText
  <2>7. \/ Answer(r, "refused")
        \/ files[p] # Broken /\ Set(r, m) /\ Continue(r)
        \/ Len(local[r].pending) # 1 /\ Set(r, n) /\ UNCHANGED <<todo, outcome>>
    BY <1>6 DEF Find
  <2> HIDE DEF m, n
  <2>8. CASE Answer(r, "refused")
    BY <1>1, <2>8, AnswerMoves DEF Outcomes
  <2>9. CASE files[p] # Broken /\ Set(r, m) /\ Continue(r)
    BY <1>1, <2>5, <2>9, GotoMoves DEF Continue
  <2>10. CASE Len(local[r].pending) # 1 /\ Set(r, n) /\ UNCHANGED <<todo, outcome>>
    BY <1>1, <2>6, <2>10, StayMoves
  <2> QED BY <2>7, <2>8, <2>9, <2>10
<1>7. CASE Save(r)
  <2>1. At(r, "save")
    BY <1>7 DEF Save
  <2>2. Fits(Tail(todo[r]), local[r])
    BY <1>2, <2>1, PlainSteps
  <2>3. \/ \E how \in Outcomes : Answer(r, how)
        \/ Goto(r, Tail(todo[r])) /\ Set(r, local[r])
    BY <1>7 DEF Save, Write, Outcomes
  <2> QED BY <1>1, <2>2, <2>3, AnswerMoves, GotoMoves
<1>8. CASE Restore(r)
  <2>1. At(r, "restore")
    BY <1>8 DEF Restore
  <2>2. Fits(todo[r], local[r]) /\ todo[r] # << >> /\ todo[r][1] = "restore"
    BY <1>2, <2>1
  <2> DEFINE m == [local[r] EXCEPT !.pending = Tail(@)]
             rest == IF Len(local[r].pending) = 1 THEN Tail(todo[r]) ELSE todo[r]
  <2>3. Len(local[r].pending) # 1 => Fits(todo[r], m)
    BY <2>2, JournalSteps
  <2>4. \/ \E how \in Outcomes : Answer(r, how)
        \/ rest # << >> /\ Goto(r, rest) /\ Set(r, m)
    BY <1>8 DEF Restore, Write, Outcomes
  <2>5. Len(local[r].pending) = 1 => rest = << >>
    <3>1. Tail(todo[r]) = << >>
      BY <2>2, RestFacts DEF Fits
    <3> QED BY <3>1
  <2> HIDE DEF m
  <2> QED BY <1>1, <2>3, <2>4, <2>5, AnswerMoves, GotoMoves
<1> QED BY <1>3, <1>5, <1>6, <1>7, <1>8

(* The steps of the journal and of switching the workspace.                *)
LEMMA ThreadsJournal ==
  ASSUME ServerInv, NEW r \in Requests,
         \/ Record(r) \/ Collide(r) \/ SetRoot(r) \/ Pop(r) \/ Push(r)
         \/ Open(r) \/ ClearJournal(r) \/ ClearSim(r) \/ ClearCache(r)
  PROVE  Threads'
<1>1. Threads /\ undo \in Seq(Snapshots) /\ redo \in Seq(Snapshots)
  BY DEF ServerInv, Shared
<1>2. ASSUME NEW x, At(r, x)
      PROVE  Fits(todo[r], local[r]) /\ todo[r] # << >> /\ todo[r][1] = x
  BY <1>1, <1>2, AtFirst
<1>3. ASSUME NEW how \in Outcomes, Answer(r, how) PROVE Threads'
  BY <1>1, <1>3, AnswerMoves
<1>4. ASSUME NEW x \in {"collide", "set_root", "open", "clear_journal", "clear_sim"}, At(r, x),
             Continue(r), UNCHANGED local
      PROVE  Threads'
  <2>1. Fits(todo[r], local[r]) /\ todo[r] # << >> /\ todo[r][1] = x
    BY <1>2, <1>4
  <2>2. Fits(Tail(todo[r]), local[r])
    BY <2>1, PlainSteps
  <2> QED BY <1>1, <1>4, <2>2, ContinueMoves
<1>5. CASE Record(r) \/ ClearCache(r)
  BY <1>3, <1>5 DEF Record, ClearCache, Outcomes
<1>6. CASE Collide(r) \/ SetRoot(r) \/ Open(r)
  BY <1>3, <1>4, <1>6 DEF Collide, SetRoot, Open, Outcomes
<1>7. CASE ClearJournal(r) \/ ClearSim(r)
  BY <1>4, <1>7 DEF ClearJournal, ClearSim
<1>8. CASE Pop(r)
  <2> DEFINE from == IF local[r].op = "undo" THEN undo ELSE redo
             m == [local[r] EXCEPT !.restored = Last(from)]
  <2>1. At(r, "pop")
    BY <1>8 DEF Pop
  <2>2. Fits(todo[r], local[r]) /\ todo[r] # << >> /\ todo[r][1] = "pop"
    BY <1>2, <2>1
  <2>3. from \in Seq(Snapshots)
    BY <1>1
  <2>4. \/ Answer(r, "refused")
        \/ from # << >> /\ Set(r, m) /\ Goto(r, Tail(todo[r]))
    BY <1>8 DEF Pop, Continue
  <2>5. from # << >> => Fits(Tail(todo[r]), m)
    <3> HIDE DEF from
    <3>1. from # << >> => Last(from) \in Snapshots
      BY <2>3, FrontAndLast
    <3> QED BY <2>2, <3>1, JournalSteps
  <2> HIDE DEF m, from
  <2>6. CASE Answer(r, "refused")
    BY <1>3, <2>6 DEF Outcomes
  <2>7. CASE from # << >> /\ Set(r, m) /\ Goto(r, Tail(todo[r]))
    BY <1>1, <2>5, <2>7, GotoMoves
  <2> QED BY <2>4, <2>6, <2>7
<1>9. CASE Push(r)
  <2> DEFINE m == [local[r] EXCEPT !.pending = local[r].restored]
  <2>1. At(r, "push") /\ Set(r, m) /\ Goto(r, Tail(todo[r]))
    BY <1>9 DEF Push, Continue
  <2>2. Fits(todo[r], local[r]) /\ todo[r] # << >> /\ todo[r][1] = "push"
    BY <1>2, <2>1
  <2>3. Fits(Tail(todo[r]), m)
    BY <2>2, JournalSteps
  <2> HIDE DEF m
  <2> QED BY <1>1, <2>1, <2>3, GotoMoves
<1> QED BY <1>5, <1>6, <1>7, <1>8, <1>9

(* The steps that load a model.                                            *)
LEMMA ThreadsLoads ==
  ASSUME ServerInv, NEW r \in Requests, LoadModel(r) \/ LoadTypes(r)
  PROVE  Threads'
<1>1. Threads /\ files \in [Paths -> Text]
  BY DEF ServerInv, Shared
<1>2. ASSUME NEW x, At(r, x)
      PROVE  Fits(todo[r], local[r]) /\ todo[r] # << >> /\ todo[r][1] = x
  BY <1>1, <1>2, AtFirst
<1>3. CASE LoadModel(r)
  <2> DEFINE m == [local[r] EXCEPT !.loaded = [model |-> files[local[r].path]]]
  <2>1. At(r, "load_model") /\ Set(r, m) /\ Goto(r, Tail(todo[r]))
    BY <1>3 DEF LoadModel, Continue
  <2>2. Fits(todo[r], local[r]) /\ todo[r] # << >> /\ todo[r][1] = "load_model"
    BY <1>2, <2>1
  <2>3. local[r].path \in Paths
    BY <2>2 DEF Fits, PathFits, Starts
  <2>4. files[local[r].path] \in Text
    BY <1>1, <2>3
  <2>5. Fits(Tail(todo[r]), m)
    BY <2>2, <2>4, LoadSteps
  <2> HIDE DEF m
  <2> QED BY <1>1, <2>1, <2>5, GotoMoves
<1>4. CASE LoadTypes(r)
  <2> DEFINE texts == [model |-> local[r].loaded.model,
                       types |-> files[<<local[r].path[1], "types">>]]
             m == [local[r] EXCEPT !.loaded = texts]
  <2>1. At(r, "load_types")
    BY <1>4 DEF LoadTypes
  <2>2. Fits(todo[r], local[r]) /\ todo[r] # << >> /\ todo[r][1] = "load_types"
    BY <1>2, <2>1
  <2>3. local[r].path \in Paths /\ local[r].loaded \in [{"model"} -> Text]
    BY <2>2 DEF Fits, PathFits, LoadFits, Starts
  <2>4. local[r].loaded.model \in Text /\ files[<<local[r].path[1], "types">>] \in Text
    <3>1. <<local[r].path[1], "types">> \in Paths
      BY <2>3 DEF Paths, Kinds
    <3> QED BY <1>1, <2>3, <3>1
  <2>5. Readable(texts) => texts \in Sources
    <3>1. PICK x, y : x = local[r].loaded.model /\ y = files[<<local[r].path[1], "types">>]
      OBVIOUS
    <3>2. texts = [model |-> x, types |-> y] /\ x \in Text /\ y \in Text
      BY <2>4, <3>1
    <3> HIDE DEF texts
    <3>3. Readable(texts) => x # Broken /\ y # Broken
      BY <3>2 DEF Readable, Kinds
    <3>a. \A z \in Text : z # Broken => z \in SUBSET Names
      BY Zenon DEF Text
    <3>4. Readable(texts) => x \in SUBSET Names /\ y \in SUBSET Names
      BY <3>2, <3>3, <3>a
    <3> QED BY <3>2, <3>4 DEF Sources, Kinds
  <2>6. \/ Answer(r, "refused")
        \/ Readable(texts) /\ Set(r, m) /\ Goto(r, Tail(todo[r]))
    BY <1>4 DEF LoadTypes, Continue
  <2>7. Readable(texts) => Fits(Tail(todo[r]), m)
    <3> HIDE DEF texts
    <3> QED BY <2>2, <2>5, LoadSteps
  <2> HIDE DEF m, texts
  <2>8. CASE Answer(r, "refused")
    BY <1>1, <2>8, AnswerMoves DEF Outcomes
  <2>9. CASE Readable(texts) /\ Set(r, m) /\ Goto(r, Tail(todo[r]))
    BY <1>1, <2>7, <2>9, GotoMoves
  <2> QED BY <2>6, <2>8, <2>9
<1> QED BY <1>3, <1>4

(* The steps of the simulation dock.                                       *)
LEMMA ThreadsDock ==
  ASSUME ServerInv, NEW r \in Requests,
         \/ StoreSession(r) \/ LockSim(r) \/ Run(r) \/ StopSim(r) \/ DetachC(r)
         \/ Peek(r) \/ CheckFresh(r) \/ LookUp(r) \/ Compile(r) \/ AttachC(r)
  PROVE  Threads'
<1>1. Threads /\ sim \in Sessions \cup {None} /\ cache \in Cached \cup {None} /\ CachedBuildMatches
  BY DEF ServerInv, Shared
<1>2. ASSUME NEW x, At(r, x)
      PROVE  Fits(todo[r], local[r]) /\ todo[r] # << >> /\ todo[r][1] = x
  BY <1>1, <1>2, AtFirst
<1>3. ASSUME NEW how \in Outcomes, Answer(r, how) PROVE Threads'
  BY <1>1, <1>3, AnswerMoves
<1>4. CASE StoreSession(r) \/ Run(r) \/ StopSim(r) \/ DetachC(r) \/ AttachC(r)
  BY <1>3, <1>4 DEF StoreSession, Run, StopSim, DetachC, AttachC, Outcomes
<1>5. CASE LockSim(r)
  <2>1. At(r, "lock_sim")
    BY <1>5 DEF LockSim
  <2>2. Fits(todo[r], local[r]) /\ todo[r] # << >> /\ todo[r][1] = "lock_sim"
    BY <1>2, <2>1
  <2>3. Fits(Tail(todo[r]), local[r])
    BY <2>2, PlainSteps
  <2> QED BY <1>1, <1>3, <1>5, <2>3, ContinueMoves DEF LockSim, Outcomes
<1>6. CASE CheckFresh(r)
  <2>1. At(r, "fresh")
    BY <1>6 DEF CheckFresh
  <2>2. Fits(todo[r], local[r]) /\ todo[r] # << >> /\ todo[r][1] = "fresh"
    BY <1>2, <2>1
  <2>3. Semantics(local[r].loaded) = local[r].sig => Fits(Tail(todo[r]), local[r])
    BY <2>2, PlainSteps
  <2> QED BY <1>1, <1>3, <1>6, <2>3, ContinueMoves DEF CheckFresh, Outcomes
<1>7. CASE Peek(r)
  <2> DEFINE m == [local[r] EXCEPT !.sig = sim.sig, !.root = sim.root]
  <2>1. At(r, "peek")
    BY <1>7 DEF Peek
  <2>2. Fits(todo[r], local[r]) /\ todo[r] # << >> /\ todo[r][1] = "peek"
    BY <1>2, <2>1
  <2>3. sim # None => sim.sig \in Signatures /\ sim.root \in Roots
    BY <1>1 DEF Sessions
  <2>4. sim # None => Fits(Tail(todo[r]), m)
    BY <2>2, <2>3, DockSteps
  <2>5. Answer(r, "refused") \/ (sim # None /\ Set(r, m) /\ Goto(r, Tail(todo[r])))
    <3>1. sim # None => Set(r, m) /\ Continue(r)
      BY <1>7 DEF Peek
    <3>2. sim = None => Answer(r, "refused")
      BY <1>7 DEF Peek
    <3> HIDE DEF m
    <3> QED BY <3>1, <3>2, Zenon DEF Continue
  <2> HIDE DEF m
  <2> QED BY <1>1, <1>3, <2>4, <2>5, GotoMoves DEF Outcomes
<1>8. CASE LookUp(r)
  <2> DEFINE m == [local[r] EXCEPT !.build = cache.exe]
             n == [local[r] EXCEPT !.build = [sig |-> local[r].sig, root |-> local[r].root]]
  <2>1. At(r, "lookup")
    BY <1>8 DEF LookUp
  <2>2. Fits(todo[r], local[r]) /\ todo[r] # << >> /\ todo[r][1] = "lookup"
    BY <1>2, <2>1
  <2>3. Fits(<<"attach">>, n) /\ Fits(Tail(todo[r]), local[r])
    BY <2>2, DockSteps, PlainSteps
  <2>4. IsFor(cache, r) => cache.exe = [sig |-> local[r].sig, root |-> local[r].root]
    BY <1>1 DEF IsFor, CachedBuildMatches
  <2>5. IsFor(cache, r) => m = n
    BY <2>4
  <2>6. \/ Answer(r, "refused")
        \/ IsFor(cache, r) /\ Set(r, m) /\ Goto(r, <<"attach">>)
        \/ Continue(r) /\ UNCHANGED local
    BY <1>8 DEF LookUp
  <2> HIDE DEF m, n
  <2>7. CASE IsFor(cache, r) /\ Set(r, m) /\ Goto(r, <<"attach">>)
    BY <1>1, <2>3, <2>5, <2>7, GotoMoves
  <2> QED BY <1>1, <1>3, <2>3, <2>6, <2>7, ContinueMoves DEF Outcomes
<1>9. CASE Compile(r)
  <2> DEFINE m == [local[r] EXCEPT !.build = [sig |-> Semantics(local[r].loaded),
                                              root |-> local[r].root]]
             n == [local[r] EXCEPT !.build = [sig |-> local[r].sig, root |-> local[r].root]]
  <2>1. At(r, "compile")
    BY <1>9 DEF Compile
  <2>2. Fits(todo[r], local[r]) /\ todo[r] # << >> /\ todo[r][1] = "compile"
    BY <1>2, <2>1
  <2>3. Semantics(local[r].loaded) = local[r].sig
    BY <2>2 DEF Fits, BuildFits, Starts
  <2>4. Fits(Tail(todo[r]), n)
    BY <2>2, DockSteps
  <2>5. m = n
    BY <2>3
  <2>6. Answer(r, "refused") \/ (Set(r, m) /\ Goto(r, Tail(todo[r])))
    <3>1. Answer(r, "refused") \/ (Set(r, m) /\ Continue(r))
      BY <1>9, Zenon DEF Compile
    <3> QED BY <3>1 DEF Continue
  <2> HIDE DEF m, n
  <2> QED BY <1>1, <1>3, <2>4, <2>5, <2>6, GotoMoves DEF Outcomes
<1> QED BY <1>4, <1>5, <1>6, <1>7, <1>8, <1>9

(* Every step of every handler keeps the variables of its request fit.     *)
LEMMA ThreadsKept ==
  ASSUME ServerInv, NEW r \in Requests, Handle(r)
  PROVE  Threads'
BY ThreadsPaths, ThreadsEdits, ThreadsJournal, ThreadsLoads, ThreadsDock DEF Handle

(* A request that begins changes nothing shared.                           *)
Begins(r) ==
  /\ UNCHANGED <<workspace, files, journal, session>>
  /\ \/ UNCHANGED todo
     \/ \E op \in DOMAIN Steps : todo' = [todo EXCEPT ![r] = Steps[op]]

(* A request that begins fits, or is refused.                              *)
LEMMA ThreadsBegin ==
  ASSUME ServerInv, NEW r \in Requests, EditRequest(r) \/ SimRequest(r)
  PROVE  Threads' /\ Begins(r)
<1>1. Threads /\ Idle \in Locals
  BY IdleTyped DEF ServerInv
<1>2. ASSUME NEW op \in DOMAIN Steps, NEW l, l.op = op, Fits(Steps[op], l), Begin(r, l)
      PROVE  Threads' /\ Begins(r)
  <2>1. CASE outcome' = [outcome EXCEPT ![r] = "refused"] /\ UNCHANGED <<todo, local>>
    <3>1. outcome' \in [Requests -> Outcomes]
      BY <1>1, <2>1 DEF Threads, Outcomes
    <3> QED BY <1>1, <1>2, <2>1, <3>1 DEF Threads, Begin, Begins
  <2>2. CASE todo' = [todo EXCEPT ![r] = Steps[l.op]] /\ Set(r, l) /\ UNCHANGED outcome
    <3>1. Moves(r, Steps[op], l) /\ outcome' \in [Requests -> Outcomes]
      BY <1>1, <1>2, <2>2 DEF Moves, Set, Threads
    <3> QED BY <1>1, <1>2, <2>2, <3>1, MovesThreads DEF Begin, Begins
  <2> QED BY <1>2, <2>1, <2>2 DEF Begin
<1>3. ASSUME NEW op \in DOMAIN Steps, NEW n \in Names \cup {None}, NEW b \in BOOLEAN,
             op \in {"edit", "insert", "declare", "remove", "import", "build"} => n \in Names,
             op \notin {"start", "open"}
      PROVE  /\ Fits(Steps[op], [Idle EXCEPT !.op = op, !.name = n])
             /\ Fits(Steps[op], [Idle EXCEPT !.op = op, !.name = n, !.add = FALSE])
  <2> DEFINE l == [Idle EXCEPT !.op = op, !.name = n]
             m == [Idle EXCEPT !.op = op, !.name = n, !.add = FALSE]
  <2>1. PICK i \in Locals : i = Idle /\ i.pending = << >>
    BY <1>1, IdleTyped
  <2>2. l = [i EXCEPT !.op = op, !.name = n] /\ m = [i EXCEPT !.op = op, !.name = n, !.add = FALSE]
    BY <2>1
  <2> HIDE DEF l, m
  <2>3. op \in DOMAIN Steps \cup {"none"} /\ n \in Names \cup {None} /\ FALSE \in BOOLEAN
    BY <1>3
  <2>4. l \in Locals /\ l.pending = << >> /\ l.op = op /\ l.name = n
    BY <2>1, <2>2, <2>3 DEF Locals
  <2>5. m \in Locals /\ m.pending = << >> /\ m.op = op /\ m.name = n
    BY <2>1, <2>2, <2>3 DEF Locals
  <2>6. Fits(Steps[op], l) /\ Fits(Steps[op], m)
    BY <1>3, <2>4, <2>5, BeginFits
  <2> QED BY <2>6 DEF l, m
<1>4. ASSUME NEW d \in Documents PROVE Fits(Steps["open"], [Idle EXCEPT !.op = "open", !.doc = d])
  <2> DEFINE l == [Idle EXCEPT !.op = "open", !.doc = d]
  <2>1. PICK i \in Locals : i = Idle /\ i.pending = << >>
    BY <1>1, IdleTyped
  <2>2. l = [i EXCEPT !.op = "open", !.doc = d] /\ "open" \in DOMAIN Steps /\ d \in Documents \cup {None}
    BY <2>1 DEF Steps
  <2> HIDE DEF l
  <2>3. l \in Locals /\ l.pending = << >> /\ l.op = "open" /\ l.doc = d
    BY <2>1, <2>2 DEF Locals
  <2>4. Fits(Steps["open"], l)
    BY <2>2, <2>3, BeginFits
  <2> QED BY <2>4 DEF l
<1>5. ASSUME NEW x \in Roots PROVE Fits(Steps["start"], [Idle EXCEPT !.op = "start", !.root = x])
  <2> DEFINE l == [Idle EXCEPT !.op = "start", !.root = x]
  <2>1. PICK i \in Locals : i = Idle /\ i.pending = << >>
    BY <1>1, IdleTyped
  <2>2. l = [i EXCEPT !.op = "start", !.root = x] /\ "start" \in DOMAIN Steps /\ x \in Roots \cup {None}
    BY <2>1 DEF Steps
  <2> HIDE DEF l
  <2>3. l \in Locals /\ l.pending = << >> /\ l.op = "start" /\ l.root = x
    BY <2>1, <2>2 DEF Locals
  <2>4. Fits(Steps["start"], l)
    BY <2>2, <2>3, BeginFits
  <2> QED BY <2>4 DEF l
<1>6. ASSUME NEW op \in {"save", "undo", "redo", "step", "stop", "c_on", "c_off"}
      PROVE  Fits(Steps[op], [Idle EXCEPT !.op = op])
  <2> DEFINE l == [Idle EXCEPT !.op = op]
  <2>1. PICK i \in Locals : i = Idle /\ i.pending = << >>
    BY <1>1, IdleTyped
  <2>2. l = [i EXCEPT !.op = op] /\ op \in DOMAIN Steps
    BY <2>1 DEF Steps
  <2> HIDE DEF l
  <2>3. l \in Locals /\ l.pending = << >> /\ l.op = op
    BY <2>1, <2>2 DEF Locals
  <2>4. Fits(Steps[op], l)
    BY <2>2, <2>3, BeginFits
  <2> QED BY <2>4 DEF l
<1>7. CASE EditRequest(r)
  <2>1. ASSUME NEW op \in {"edit", "insert", "declare", "import", "build"}, NEW n \in Names,
               Begin(r, [Idle EXCEPT !.op = op, !.name = n])
        PROVE  Threads' /\ Begins(r)
    <3>1. op \in DOMAIN Steps /\ op \notin {"start", "open"} /\ n \in Names \cup {None} /\ TRUE \in BOOLEAN
      BY DEF Steps
    <3>2. Fits(Steps[op], [Idle EXCEPT !.op = op, !.name = n])
      BY <1>3, <3>1
    <3>3. [Idle EXCEPT !.op = op, !.name = n].op = op
      BY DEF Idle
    <3> QED BY <1>2, <2>1, <3>1, <3>2, <3>3
  <2>2. ASSUME NEW op \in {"edit", "remove"}, NEW n \in Names,
               Begin(r, [Idle EXCEPT !.op = op, !.name = n, !.add = FALSE])
        PROVE  Threads' /\ Begins(r)
    <3>1. op \in DOMAIN Steps /\ op \notin {"start", "open"} /\ n \in Names \cup {None} /\ TRUE \in BOOLEAN
      BY DEF Steps
    <3>2. Fits(Steps[op], [Idle EXCEPT !.op = op, !.name = n, !.add = FALSE])
      BY <1>3, <3>1
    <3>3. [Idle EXCEPT !.op = op, !.name = n, !.add = FALSE].op = op
      BY DEF Idle
    <3> QED BY <1>2, <2>2, <3>1, <3>2, <3>3
  <2>3. ASSUME NEW op \in {"save", "undo", "redo"}, Begin(r, [Idle EXCEPT !.op = op])
        PROVE  Threads' /\ Begins(r)
    <3>1. op \in DOMAIN Steps /\ [Idle EXCEPT !.op = op].op = op
      BY DEF Steps, Idle
    <3>2. Fits(Steps[op], [Idle EXCEPT !.op = op])
      BY <1>6
    <3> QED BY <1>2, <2>3, <3>1, <3>2
  <2>4. ASSUME NEW d \in Documents, Begin(r, [Idle EXCEPT !.op = "open", !.doc = d])
        PROVE  Threads' /\ Begins(r)
    <3>1. "open" \in DOMAIN Steps /\ [Idle EXCEPT !.op = "open", !.doc = d].op = "open"
      BY DEF Steps, Idle
    <3> QED BY <1>2, <1>4, <2>4, <3>1
  <2> QED BY <1>7, <2>1, <2>2, <2>3, <2>4 DEF EditRequest
<1>8. CASE SimRequest(r)
  <2>1. ASSUME NEW x \in Roots, Begin(r, [Idle EXCEPT !.op = "start", !.root = x])
        PROVE  Threads' /\ Begins(r)
    <3>1. "start" \in DOMAIN Steps /\ [Idle EXCEPT !.op = "start", !.root = x].op = "start"
      BY DEF Steps, Idle
    <3> QED BY <1>2, <1>5, <2>1, <3>1
  <2>2. ASSUME NEW op \in {"step", "stop", "c_on", "c_off"}, Begin(r, [Idle EXCEPT !.op = op])
        PROVE  Threads' /\ Begins(r)
    <3>1. op \in DOMAIN Steps /\ [Idle EXCEPT !.op = op].op = op
      BY DEF Steps, Idle
    <3>2. Fits(Steps[op], [Idle EXCEPT !.op = op])
      BY <1>6
    <3> QED BY <1>2, <2>2, <3>1, <3>2
  <2> QED BY <1>8, <2>1, <2>2 DEF SimRequest
<1> QED BY <1>7, <1>8
-----------------------------------------------------------------------------
(* What a step changes of what is shared.                                  *)

(* A list stays, loses its first step, is done, or attaches the build      *)
(* found; the other requests' stay.                                        *)
Lists(r) == {<< >>, todo[r], Tail(todo[r]), <<"attach">>}

(* The other requests' lists stay; this one's is one of Lists.             *)
LEMMA ListMoves ==
  ASSUME Threads, NEW r \in Requests, Handle(r)
  PROVE  /\ todo[r] # << >>
         /\ \A q \in Requests \ {r} : todo'[q] = todo[q]
         /\ todo'[r] \in Lists(r)
<1> USE DEF Lists
<1>1. todo \in [Requests -> Seq(StepNames)]
  BY DEF Threads
<1>2. ASSUME NEW s \in Lists(r), todo' = [todo EXCEPT ![r] = s]
      PROVE  (\A q \in Requests \ {r} : todo'[q] = todo[q]) /\ todo'[r] \in Lists(r)
  BY <1>1, <1>2
<1>3. ASSUME todo' = todo
      PROVE  (\A q \in Requests \ {r} : todo'[q] = todo[q]) /\ todo'[r] \in Lists(r)
  BY <1>3
<1>4. \/ todo' = todo
      \/ \E s \in Lists(r) : todo' = [todo EXCEPT ![r] = s]
  <2>1. CASE AddPath(r) \/ ResolvePath(r) \/ ReadForSnapshot(r)
    BY <2>1 DEF AddPath, ResolvePath, ReadForSnapshot, Continue, Goto
  <2>2. CASE LoadRaw(r) \/ Find(r) \/ Record(r) \/ Collide(r) \/ SetRoot(r)
    BY <2>2 DEF LoadRaw, Find, Record, Collide, SetRoot, Continue, Goto, Answer
  <2>3. CASE Save(r)
    BY <2>3 DEF Save, Write, Goto, Answer
  <2>4. CASE Restore(r)
    BY <2>4 DEF Restore, Write, Goto, Answer
  <2>5. CASE Pop(r) \/ Push(r) \/ Open(r) \/ ClearJournal(r) \/ ClearSim(r) \/ ClearCache(r)
    BY <2>5 DEF Pop, Push, Open, ClearJournal, ClearSim, ClearCache, Continue, Goto, Answer
  <2>6. CASE LoadPath(r) \/ LoadModel(r) \/ LoadTypes(r)
    BY <2>6 DEF LoadPath, LoadModel, LoadTypes, Continue, Goto, Answer
  <2>7. CASE StoreSession(r) \/ LockSim(r) \/ Run(r) \/ StopSim(r) \/ DetachC(r)
    BY <2>7 DEF StoreSession, LockSim, Run, StopSim, DetachC, Continue, Goto, Answer
  <2>8. CASE Peek(r) \/ CheckFresh(r) \/ LookUp(r) \/ Compile(r) \/ AttachC(r)
    BY <2>8 DEF Peek, CheckFresh, LookUp, Compile, AttachC, Continue, Goto, Answer
  <2> QED BY <2>1, <2>2, <2>3, <2>4, <2>5, <2>6, <2>7, <2>8 DEF Handle
<1>5. todo[r] # << >>
  BY DEF Handle, At, AddPath, ResolvePath, ReadForSnapshot, LoadRaw, Find, Save, Record, Collide,
         SetRoot, Pop, Push, Restore, Open, ClearJournal, ClearSim, ClearCache, LoadPath,
         LoadModel, LoadTypes, StoreSession, LockSim, Run, StopSim, DetachC, Peek, CheckFresh,
         LookUp, Compile, AttachC
<1> QED BY <1>2, <1>3, <1>4, <1>5

(* Who is between two steps was there before, unless the first of the two  *)
(* was just taken; and the second leaves.                                  *)
LEMMA WithinMoves ==
  ASSUME Threads, NEW r \in Requests, Handle(r), NEW a, NEW b, b # "attach"
  PROVE  /\ Within(todo'[r], a, b) => Within(todo[r], a, b) \/ At(r, a)
         /\ \A q \in Requests \ {r} : Within(todo'[q], a, b) <=> Within(todo[q], a, b)
<1>1. /\ todo[r] # << >> /\ todo'[r] \in Lists(r)
      /\ \A q \in Requests \ {r} : todo'[q] = todo[q]
  BY ListMoves
<1>2. todo[r] \in Seq(StepNames) /\ Orderly(todo[r])
  BY DEF Threads, Fits
<1>3. /\ \A x : Has(todo[r], x) <=> todo[r][1] = x \/ Has(Tail(todo[r]), x)
      /\ Head(todo[r]) = todo[r][1]
  BY <1>1, <1>2, RestFacts
<1>4. ~Has(<< >>, b) /\ ~Has(<<"attach">>, b)
  BY DEF Has
<1>5. Within(Tail(todo[r]), a, b) => Within(todo[r], a, b) \/ At(r, a)
  BY <1>1, <1>3 DEF Within, At
<1> QED BY <1>1, <1>4, <1>5 DEF Within, Lists

(* At the step that gives a mutex back, the request has it.                *)
LEMMA AtRelease ==
  ASSUME Threads, NEW r \in Requests
  PROVE  /\ At(r, "push") => Within(todo[r], "pop", "push") /\ ~InHistory(Tail(todo[r]))
         /\ At(r, "clear_cache") => Within(todo[r], "clear_journal", "clear_cache")
         /\ At(r, "run") => InSession(todo[r])
<1>1. ASSUME NEW x, At(r, x)
      PROVE  /\ todo[r] # << >> /\ todo[r][1] = x /\ todo[r] \in Seq(StepNames) /\ Orderly(todo[r])
             /\ \A y : Has(todo[r], y) <=> x = y \/ Has(Tail(todo[r]), y)
             /\ x \in {"clear_cache", "run"} => Tail(todo[r]) = << >>
             /\ x = "push" => Tail(todo[r]) = <<"restore">>
  <2>1. todo[r] # << >> /\ todo[r][1] = x /\ todo[r] \in Seq(StepNames) /\ Orderly(todo[r])
    BY <1>1, AtFirst
  <2> QED BY <2>1, RestFacts
<1>2. \A y : ~Has(<< >>, y) /\ (y # "restore" => ~Has(<<"restore">>, y))
  BY DEF Has
<1>3. At(r, "push") => Within(todo[r], "pop", "push") /\ ~InHistory(Tail(todo[r]))
  BY <1>1, <1>2 DEF Within, InHistory
<1>4. At(r, "clear_cache") => Within(todo[r], "clear_journal", "clear_cache")
  BY <1>1, <1>2 DEF Within
<1>5. At(r, "run") => InSession(todo[r])
  BY <1>1, <1>2 DEF Within, InSession
<1> QED BY <1>3, <1>4, <1>5

(* Which handlers change what.                                             *)
LEMMA JournalChanges ==
  ASSUME NEW r, Handle(r)
  PROVE  \/ Record(r) \/ Pop(r) \/ Push(r) \/ ClearJournal(r) \/ ClearCache(r)
         \/ UNCHANGED <<undo, redo, history>> /\ ~At(r, "pop") /\ ~At(r, "clear_journal")
<1> DEFINE Quiet == UNCHANGED <<undo, redo, history>> /\ ~At(r, "pop") /\ ~At(r, "clear_journal")
<1>1. CASE AddPath(r) \/ ResolvePath(r) \/ ReadForSnapshot(r) \/ LoadRaw(r) \/ Find(r)
  BY <1>1 DEF AddPath, ResolvePath, ReadForSnapshot, LoadRaw, Find, At, journal
<1>2. CASE Save(r) \/ Collide(r) \/ SetRoot(r) \/ Restore(r) \/ Open(r) \/ ClearSim(r)
  BY <1>2 DEF Save, Collide, SetRoot, Restore, Open, ClearSim, At, journal
<1>3. CASE LoadPath(r) \/ LoadModel(r) \/ LoadTypes(r) \/ LookUp(r) \/ Compile(r)
  BY <1>3 DEF LoadPath, LoadModel, LoadTypes, LookUp, Compile, At, journal
<1>4. CASE StoreSession(r) \/ LockSim(r) \/ Run(r) \/ StopSim(r) \/ DetachC(r)
  BY <1>4 DEF StoreSession, LockSim, Run, StopSim, DetachC, SimUnchanged, At, journal
<1>5. CASE Peek(r) \/ CheckFresh(r) \/ AttachC(r)
  BY <1>5 DEF Peek, CheckFresh, AttachC, SimUnchanged, At, journal
<1> QED BY <1>1, <1>2, <1>3, <1>4, <1>5 DEF Handle

(* Who changes the session, its mutex and the cache.                       *)
LEMMA SessionChanges ==
  ASSUME NEW r, Handle(r)
  PROVE  /\ \/ LoadTypes(r) \/ LockSim(r) \/ Run(r)
            \/ UNCHANGED simLock /\ ~At(r, "lock_sim") /\ (UNCHANGED sim \/ SimFree)
         /\ \/ StoreSession(r) \/ ClearSim(r) \/ Run(r) \/ StopSim(r) \/ DetachC(r)
            \/ CheckFresh(r) \/ AttachC(r)
            \/ UNCHANGED sim
         /\ Compile(r) \/ ClearCache(r) \/ UNCHANGED cache
<1>1. CASE AddPath(r) \/ ResolvePath(r) \/ ReadForSnapshot(r) \/ LoadRaw(r) \/ Find(r)
  BY <1>1 DEF AddPath, ResolvePath, ReadForSnapshot, LoadRaw, Find, At, session
<1>2. CASE Save(r) \/ Collide(r) \/ SetRoot(r) \/ Restore(r) \/ Open(r) \/ ClearSim(r)
  BY <1>2 DEF Save, Collide, SetRoot, Restore, Open, ClearSim, At, session, SimFree
<1>3. CASE LoadPath(r) \/ LoadModel(r) \/ LoadTypes(r) \/ LookUp(r) \/ Compile(r)
  BY <1>3 DEF LoadPath, LoadModel, LoadTypes, LookUp, Compile, At, session
<1>4. CASE StoreSession(r) \/ LockSim(r) \/ Run(r) \/ StopSim(r) \/ DetachC(r)
  BY <1>4 DEF StoreSession, LockSim, Run, StopSim, DetachC, SimUnchanged, At, SimFree
<1>5. CASE Peek(r) \/ CheckFresh(r) \/ AttachC(r)
  BY <1>5 DEF Peek, CheckFresh, AttachC, SimUnchanged, At, SimFree
<1>6. CASE Record(r) \/ Pop(r) \/ Push(r) \/ ClearJournal(r) \/ ClearCache(r)
  BY <1>6 DEF Record, Pop, Push, ClearJournal, ClearCache, At, session
<1> QED BY <1>1, <1>2, <1>3, <1>4, <1>5, <1>6 DEF Handle

(* Who changes the files and the open document.                            *)
LEMMA FileChanges ==
  ASSUME NEW r, Handle(r)
  PROVE  (Save(r) \/ Restore(r) \/ UNCHANGED files) /\ (Open(r) \/ UNCHANGED workspace)
<1>1. CASE AddPath(r) \/ ResolvePath(r) \/ ReadForSnapshot(r) \/ LoadRaw(r) \/ Find(r)
  BY <1>1 DEF AddPath, ResolvePath, ReadForSnapshot, LoadRaw, Find
<1>2. CASE Save(r) \/ Collide(r) \/ SetRoot(r) \/ Restore(r) \/ Open(r) \/ ClearSim(r)
  BY <1>2 DEF Save, Collide, SetRoot, Restore, Open, ClearSim
<1>3. CASE LoadPath(r) \/ LoadModel(r) \/ LoadTypes(r) \/ LookUp(r) \/ Compile(r)
  BY <1>3 DEF LoadPath, LoadModel, LoadTypes, LookUp, Compile
<1>4. CASE StoreSession(r) \/ LockSim(r) \/ Run(r) \/ StopSim(r) \/ DetachC(r)
  BY <1>4 DEF StoreSession, LockSim, Run, StopSim, DetachC, SimUnchanged
<1>5. CASE Peek(r) \/ CheckFresh(r) \/ AttachC(r)
  BY <1>5 DEF Peek, CheckFresh, AttachC, SimUnchanged
<1>6. CASE Record(r) \/ Pop(r) \/ Push(r) \/ ClearJournal(r) \/ ClearCache(r)
  BY <1>6 DEF Record, Pop, Push, ClearJournal, ClearCache
<1> QED BY <1>1, <1>2, <1>3, <1>4, <1>5, <1>6 DEF Handle

-----------------------------------------------------------------------------
(* The mutexes and the room in the journal.                                *)
LEMMA JournalHeldKept ==
  ASSUME ServerInv, NEW r \in Requests, Handle(r)
  PROVE  JournalHeld'
<1>1. Threads /\ JournalHeld /\ None \notin Requests
  BY ServerAssumption DEF ServerInv, Requests
<1>2. /\ InHistory(todo'[r]) => InHistory(todo[r]) \/ At(r, "pop") \/ At(r, "clear_journal")
      /\ \A q \in Requests \ {r} : InHistory(todo'[q]) <=> InHistory(todo[q])
  BY <1>1, WithinMoves DEF InHistory
<1>3. CASE UNCHANGED <<undo, redo, history>> /\ ~At(r, "pop") /\ ~At(r, "clear_journal")
  BY <1>1, <1>2, <1>3 DEF JournalHeld
<1>4. CASE Pop(r)
  <2>1. history = None /\ (history' = r \/ (history' = None /\ todo'[r] = << >>))
    BY <1>1, <1>4 DEF Pop, Answer, journal, Threads
  <2>2. \A q \in Requests : ~InHistory(todo[q])
    BY <1>1, <2>1 DEF JournalHeld
  <2>3. ~InHistory(<< >>)
    BY DEF InHistory, Within, Has
  <2> QED BY <1>2, <2>1, <2>2, <2>3 DEF JournalHeld
<1>5. CASE ClearJournal(r)
  <2>1. history = None /\ history' = r
    BY <1>5 DEF ClearJournal
  <2>2. \A q \in Requests : ~InHistory(todo[q])
    BY <1>1, <2>1 DEF JournalHeld
  <2> QED BY <1>2, <2>1, <2>2 DEF JournalHeld
<1>6. CASE Record(r)
  <2>1. ~At(r, "pop") /\ ~At(r, "clear_journal") /\ UNCHANGED history
    BY <1>6 DEF Record, At
  <2> QED BY <1>1, <1>2, <2>1 DEF JournalHeld
<1>7. CASE Push(r)
  <2>1. At(r, "push") /\ todo' = [todo EXCEPT ![r] = Tail(todo[r])]
    BY <1>7 DEF Push, Continue, Goto
  <2>2. todo'[r] = Tail(todo[r])
    BY <1>1, <2>1 DEF Threads
  <2>3. history = r /\ ~InHistory(todo'[r])
    BY <1>1, <2>1, <2>2, AtRelease DEF JournalHeld, InHistory
  <2> QED BY <1>1, <1>2, <2>3 DEF JournalHeld
<1>8. CASE ClearCache(r)
  <2>1. At(r, "clear_cache") /\ todo'[r] = << >>
    BY <1>1, <1>8 DEF ClearCache, Answer, Threads
  <2>2. ~InHistory(<< >>)
    BY DEF InHistory, Within, Has
  <2>3. history = r
    BY <1>1, <2>1, AtRelease DEF JournalHeld, InHistory
  <2> QED BY <1>1, <1>2, <2>1, <2>2, <2>3 DEF JournalHeld
<1> QED BY <1>3, <1>4, <1>5, <1>6, <1>7, <1>8, JournalChanges

(* A session being stepped stays under its mutex, and is not dropped.      *)
LEMMA SessionHeldKept ==
  ASSUME ServerInv, NEW r \in Requests, Handle(r)
  PROVE  SessionHeld'
<1>1. Threads /\ SessionHeld /\ None \notin Requests
  BY ServerAssumption DEF ServerInv, Requests
<1>2. /\ InSession(todo'[r]) => InSession(todo[r]) \/ At(r, "lock_sim")
      /\ \A q \in Requests \ {r} : InSession(todo'[q]) <=> InSession(todo[q])
  BY <1>1, WithinMoves DEF InSession
<1>3. CASE UNCHANGED simLock /\ ~At(r, "lock_sim") /\ (UNCHANGED sim \/ SimFree)
  <2>1. CASE SimFree
    BY <1>1, <1>2, <1>3, <2>1 DEF SessionHeld, SimFree
  <2>2. CASE UNCHANGED sim
    BY <1>1, <1>2, <1>3, <2>2 DEF SessionHeld
  <2> QED BY <1>3, <2>1, <2>2
<1>a. ~InSession(<< >>)
  BY DEF InSession, Within, Has
<1>4. CASE LoadTypes(r)
  <2>1. /\ UNCHANGED sim /\ ~At(r, "lock_sim")
        /\ \/ UNCHANGED simLock
           \/ todo'[r] = << >> /\ simLock = r
    BY <1>1, <1>4 DEF LoadTypes, At, Answer, Threads
  <2> QED BY <1>1, <1>2, <1>a, <2>1 DEF SessionHeld
<1>5. CASE LockSim(r)
  <2>1. /\ simLock = None /\ UNCHANGED sim
        /\ \/ sim # None /\ simLock' = r
           \/ todo'[r] = << >>
    BY <1>1, <1>5 DEF LockSim, SimFree, Answer, Threads
  <2>2. \A q \in Requests : ~InSession(todo[q])
    BY <1>1, <2>1 DEF SessionHeld
  <2> QED BY <1>2, <1>a, <2>1, <2>2 DEF SessionHeld
<1>6. CASE Run(r)
  <2>1. At(r, "run") /\ todo'[r] = << >>
    BY <1>1, <1>6 DEF Run, Answer, Threads
  <2>2. simLock = r
    BY <1>1, <2>1, AtRelease DEF SessionHeld
  <2> QED BY <1>1, <1>2, <1>a, <2>1, <2>2 DEF SessionHeld
<1> QED BY <1>3, <1>4, <1>5, <1>6, SessionChanges

(* The two stacks stay within the cap.                                     *)
LEMMA RoomKept ==
  ASSUME ServerInv, NEW r \in Requests, Handle(r)
  PROVE  Room' /\ undo' \in Seq(Snapshots) /\ redo' \in Seq(Snapshots)
<1>1. /\ Threads /\ JournalHeld /\ None \notin Requests /\ HistoryCap \in Nat \ {0}
      /\ undo \in Seq(Snapshots) /\ redo \in Seq(Snapshots) /\ Room
  BY ServerAssumption DEF ServerInv, Shared, Requests
<1>2. /\ Within(todo'[r], "pop", "push") => Within(todo[r], "pop", "push") \/ At(r, "pop")
      /\ \A q \in Requests \ {r} : Within(todo'[q], "pop", "push") <=> Within(todo[q], "pop", "push")
  BY <1>1, WithinMoves
<1>3. Len(undo) \in Nat /\ Len(redo) \in Nat
  BY <1>1, LenProperties
<1>4. history = None => \A q \in Requests : ~Within(todo[q], "pop", "push")
  BY <1>1 DEF JournalHeld, InHistory
<1>5. CASE UNCHANGED <<undo, redo, history>> /\ ~At(r, "pop") /\ ~At(r, "clear_journal")
  BY <1>1, <1>2, <1>5 DEF Room, JournalBounded
<1>6. CASE Record(r)
  <2> DEFINE pushed == Append(undo, local[r].snap)
  <2>1. history = None /\ redo' = << >> /\ ~At(r, "pop")
        /\ undo' = IF Len(pushed) > HistoryCap THEN Tail(pushed) ELSE pushed
    BY <1>6 DEF Record, At
  <2>2. local[r].snap \in Snapshots
    <3>1. At(r, "record")
      BY <1>6 DEF Record
    <3>2. Fits(todo[r], local[r]) /\ todo[r] # << >> /\ todo[r][1] = "record" /\ local[r] \in Locals
      BY <1>1, <3>1, AtFirst
    <3> QED BY <3>2, JournalSteps DEF Locals, EntryLists, Snapshots
  <2>3. pushed \in Seq(Snapshots) /\ Len(pushed) = Len(undo) + 1 /\ pushed # << >>
    BY <1>1, <1>3, <2>2, AppendProperties, EmptySeq
  <2>4. Tail(pushed) \in Seq(Snapshots) /\ Len(Tail(pushed)) = Len(undo)
    <3> HIDE DEF pushed
    <3>1. Tail(pushed) \in Seq(Snapshots) /\ Len(Tail(pushed)) = Len(pushed) - 1
      BY <2>3, HeadTailProperties
    <3> QED BY <1>3, <2>3, <3>1
  <2> HIDE DEF pushed
  <2>5. << >> \in Seq(Snapshots) /\ Len(<< >>) = 0
    BY EmptySeq
  <2>6. Len(undo) <= HistoryCap
    BY <1>1, <1>3 DEF Room, JournalBounded
  <2>7. undo' \in Seq(Snapshots) /\ redo' \in Seq(Snapshots) /\ Len(undo') + Len(redo') <= HistoryCap
    BY <1>1, <1>3, <2>1, <2>3, <2>4, <2>5, <2>6
  <2> QED BY <1>2, <1>4, <2>1, <2>7 DEF Room, JournalBounded
<1>7. CASE Pop(r)
  <2>1. /\ history = None
        /\ \/ UNCHANGED <<undo, redo>> /\ todo'[r] = << >>
           \/ undo # << >> /\ undo' = Front(undo) /\ UNCHANGED redo
           \/ redo # << >> /\ redo' = Front(redo) /\ UNCHANGED undo
    BY <1>1, <1>7 DEF Pop, Answer, journal, Threads
  <2>2. \A q \in Requests \ {r} : ~Within(todo'[q], "pop", "push")
    BY <1>2, <1>4, <2>1
  <2>3. CASE UNCHANGED <<undo, redo>> /\ todo'[r] = << >>
    <3>1. ~Within(<< >>, "pop", "push")
      BY DEF Within, Has
    <3> QED BY <1>1, <2>2, <2>3, <3>1 DEF Room, JournalBounded
  <2>4. CASE undo # << >> /\ undo' = Front(undo) /\ UNCHANGED redo
    <3>1. undo' \in Seq(Snapshots) /\ Len(undo') + 1 = Len(undo) /\ Len(redo') = Len(redo)
      BY <1>1, <2>4, FrontAndLast
    <3>2. Len(undo') \in Nat
      BY <3>1, LenProperties
    <3>3. Len(undo') + Len(redo') + 1 <= HistoryCap /\ Len(undo') + Len(redo') <= HistoryCap
      BY <1>1, <1>3, <3>1, <3>2 DEF Room, JournalBounded
    <3> QED BY <1>1, <2>2, <2>4, <3>1, <3>3 DEF Room, JournalBounded
  <2>5. CASE redo # << >> /\ redo' = Front(redo) /\ UNCHANGED undo
    <3>1. redo' \in Seq(Snapshots) /\ Len(redo') + 1 = Len(redo) /\ Len(undo') = Len(undo)
      BY <1>1, <2>5, FrontAndLast
    <3>2. Len(redo') \in Nat
      BY <3>1, LenProperties
    <3>3. Len(undo') + Len(redo') + 1 <= HistoryCap /\ Len(undo') + Len(redo') <= HistoryCap
      BY <1>1, <1>3, <3>1, <3>2 DEF Room, JournalBounded
    <3> QED BY <1>1, <2>2, <2>5, <3>1, <3>3 DEF Room, JournalBounded
  <2> QED BY <2>1, <2>3, <2>4, <2>5
<1>8. CASE Push(r)
  <2> DEFINE x == local[r].snap
  <2>1. /\ At(r, "push") /\ todo' = [todo EXCEPT ![r] = Tail(todo[r])]
        /\ \/ redo' = Append(redo, x) /\ UNCHANGED undo
           \/ undo' = Append(undo, x) /\ UNCHANGED redo
    BY <1>8 DEF Push, Continue, Goto
  <2>2. x \in Snapshots
    <3>1. Fits(todo[r], local[r]) /\ todo[r] # << >> /\ todo[r][1] = "push" /\ local[r] \in Locals
      BY <1>1, <2>1, AtFirst
    <3> QED BY <3>1, JournalSteps DEF Locals, EntryLists, Snapshots
  <2> HIDE DEF x
  <2>3. Within(todo[r], "pop", "push") /\ ~InHistory(Tail(todo[r])) /\ todo'[r] = Tail(todo[r])
    BY <1>1, <2>1, AtRelease DEF Threads
  <2>4. \A q \in Requests : ~Within(todo'[q], "pop", "push")
    BY <1>1, <1>2, <2>3 DEF JournalHeld, InHistory
  <2>5. undo' \in Seq(Snapshots) /\ redo' \in Seq(Snapshots)
        /\ Len(undo') + Len(redo') = Len(undo) + Len(redo) + 1
    <3>1. /\ Append(redo, x) \in Seq(Snapshots) /\ Len(Append(redo, x)) = Len(redo) + 1
          /\ Append(undo, x) \in Seq(Snapshots) /\ Len(Append(undo, x)) = Len(undo) + 1
      BY <1>1, <2>2, AppendProperties
    <3>2. CASE redo' = Append(redo, x) /\ UNCHANGED undo
      BY <1>1, <1>3, <3>1, <3>2
    <3>3. CASE undo' = Append(undo, x) /\ UNCHANGED redo
      BY <1>1, <1>3, <3>1, <3>3
    <3> QED BY <2>1, <3>2, <3>3
  <2>6. Len(undo) + Len(redo) + 1 <= HistoryCap
    BY <1>1, <2>3 DEF Room
  <2> QED BY <2>4, <2>5, <2>6 DEF Room, JournalBounded
<1>9. CASE ClearJournal(r)
  <2>1. undo' = << >> /\ redo' = << >> /\ history = None /\ ~At(r, "pop")
    BY <1>9 DEF ClearJournal, At
  <2>2. << >> \in Seq(Snapshots) /\ Len(<< >>) = 0
    BY EmptySeq
  <2> QED BY <1>1, <1>2, <1>4, <2>1, <2>2 DEF Room, JournalBounded
<1>10. CASE ClearCache(r)
  <2>1. UNCHANGED <<undo, redo>> /\ ~At(r, "pop")
    BY <1>10 DEF ClearCache, At
  <2> QED BY <1>1, <1>2, <2>1 DEF Room, JournalBounded
<1> QED BY <1>5, <1>6, <1>7, <1>8, <1>9, <1>10, JournalChanges

(* The files' types, and those of the session and the cache.               *)
LEMMA FilesKept ==
  ASSUME ServerInv, NEW r \in Requests, Handle(r)
  PROVE  workspace' \in Documents /\ files' \in [Paths -> Text]
<1>1. Threads /\ workspace \in Documents /\ files \in [Paths -> Text]
  BY DEF ServerInv, Shared
<1>2. ASSUME NEW x, At(r, x)
      PROVE  Fits(todo[r], local[r]) /\ todo[r] # << >> /\ todo[r][1] = x /\ local[r] \in Locals
  BY <1>1, <1>2, AtFirst
<1>3. Broken \in Text
  BY DEF Text
<1>9. ASSUME NEW p, NEW x \in Text, files' \in {files, [files EXCEPT ![p] = x]}
      PROVE  files' \in [Paths -> Text]
  BY <1>1, <1>9
<1>4. ASSUME Save(r) PROVE files' \in [Paths -> Text]
  <2>1. local[r].text \in Text
    BY <1>2, <1>4 DEF Save, Locals
  <2>2. \E p, x : x \in Text /\ files' \in {files, [files EXCEPT ![p] = x]}
    BY <1>3, <1>4, <2>1 DEF Save, Write
  <2>9. PICK p, x : x \in Text /\ files' \in {files, [files EXCEPT ![p] = x]}
    BY <2>2
  <2> QED BY <1>9, <2>9
<1>5. ASSUME Restore(r) PROVE files' \in [Paths -> Text]
  <2>1. At(r, "restore")
    BY <1>5 DEF Restore
  <2>2. local[r].pending \in Snapshots
    BY <1>2, <2>1 DEF Fits, PendingFits, Starts
  <2>3. local[r].pending[1] \in Entries
    <3>1. local[r].pending \in Seq(Entries) /\ local[r].pending # << >>
      BY <2>2 DEF Snapshots
    <3>2. Len(local[r].pending) \in Nat \ {0}
      BY <3>1, EmptySeq
    <3>3. 1 \in 1 .. Len(local[r].pending)
      BY <3>2
    <3> QED BY <3>1, <3>3, ElementOfSeq
  <2>4. local[r].pending[1][2] \in Text
    BY <2>3 DEF Entries
  <2>5. \E p, x : x \in Text /\ files' \in {files, [files EXCEPT ![p] = x]}
    BY <1>3, <1>5, <2>4 DEF Restore, Write
  <2>9. PICK p, x : x \in Text /\ files' \in {files, [files EXCEPT ![p] = x]}
    BY <2>5
  <2> QED BY <1>9, <2>9
<1>6. files' \in [Paths -> Text]
  BY <1>1, <1>4, <1>5, FileChanges
<1>7. ASSUME Open(r) PROVE workspace' \in Documents
  <2>1. At(r, "open")
    BY <1>7 DEF Open
  <2>2. Fits(todo[r], local[r]) /\ todo[r] # << >> /\ todo[r][1] = "open"
    BY <1>2, <2>1
  <2>3. Has(todo[r], "open")
    BY <2>2, RestFacts DEF Fits
  <2>4. local[r].doc \in Documents
    BY <2>2, <2>3 DEF Fits, NameFits
  <2> QED BY <1>1, <1>7, <2>4 DEF Open
<1>8. workspace' \in Documents
  BY <1>1, <1>7, FileChanges
<1> QED BY <1>6, <1>8

(* The session and the cache name the builds they hold.                    *)
LEMMA SessionKept ==
  ASSUME ServerInv, NEW r \in Requests, Handle(r)
  PROVE  /\ sim' \in Sessions \cup {None} /\ AttachedBuildMatches'
         /\ cache' \in Cached \cup {None} /\ CachedBuildMatches'
<1>1. /\ Threads /\ sim \in Sessions \cup {None} /\ cache \in Cached \cup {None}
      /\ CachedBuildMatches /\ AttachedBuildMatches /\ SessionHeld
  BY DEF ServerInv, Shared
<1>2. ASSUME NEW x, At(r, x)
      PROVE  Fits(todo[r], local[r]) /\ todo[r] # << >> /\ todo[r][1] = x /\ todo[r] \in Seq(StepNames)
  BY <1>1, <1>2, AtFirst
<1> DEFINE SimKept == sim' \in Sessions \cup {None} /\ AttachedBuildMatches'
<1>3. ASSUME UNCHANGED sim PROVE SimKept
  BY <1>1, <1>3 DEF AttachedBuildMatches
<1>4. ASSUME sim' = None PROVE SimKept
  BY <1>4 DEF AttachedBuildMatches
<1>5. ASSUME NEW a \in Signatures, NEW b \in Roots, NEW c \in Builds \cup {None},
             c # None => c = [sig |-> a, root |-> b],
             sim' = [sig |-> a, root |-> b, c |-> c]
      PROVE  SimKept
  BY <1>5 DEF Sessions, AttachedBuildMatches
<1>6. ASSUME sim # None, sim' = [sim EXCEPT !.c = None] PROVE SimKept
  <2>1. sim \in Sessions
    BY <1>1, <1>6
  <2>2. sim' = [sig |-> sim.sig, root |-> sim.root, c |-> None] /\ sim.sig \in Signatures
        /\ sim.root \in Roots
    BY <1>6, <2>1 DEF Sessions
  <2> QED BY <1>5, <2>2
<1>7. ASSUME StoreSession(r) PROVE SimKept
  <2>1. At(r, "store")
    BY <1>7 DEF StoreSession
  <2>2. Fits(todo[r], local[r]) /\ todo[r] # << >> /\ todo[r][1] = "store"
    BY <1>2, <2>1
  <2>3. local[r].loaded \in Sources /\ local[r].root \in Roots
    BY <2>2, DockSteps DEF Fits, LoadFits, Starts, Dock
  <2>4. Semantics(local[r].loaded) \in Signatures
    BY <2>3 DEF Sources, Signatures, Semantics
  <2>5. \/ UNCHANGED sim
        \/ sim' = [sig |-> Semantics(local[r].loaded), root |-> local[r].root, c |-> None]
    BY <1>7 DEF StoreSession
  <2> QED BY <1>3, <1>5, <2>3, <2>4, <2>5
<1>8. ASSUME ClearSim(r) \/ StopSim(r) \/ CheckFresh(r) PROVE SimKept
  BY <1>3, <1>4, <1>8 DEF ClearSim, StopSim, CheckFresh
<1>9. ASSUME Run(r) PROVE SimKept
  <2>1. At(r, "run")
    BY <1>9 DEF Run
  <2>2. sim # None
    BY <1>1, <2>1, AtRelease DEF SessionHeld
  <2>3. sim' = None \/ UNCHANGED sim \/ sim' = [sim EXCEPT !.c = None]
    BY <1>9 DEF Run
  <2> QED BY <1>3, <1>4, <1>6, <2>2, <2>3
<1>10. ASSUME DetachC(r) PROVE SimKept
  <2>1. UNCHANGED sim \/ (sim # None /\ sim' = [sim EXCEPT !.c = None])
    BY <1>10 DEF DetachC
  <2> QED BY <1>3, <1>6, <2>1
<1>11. ASSUME AttachC(r) PROVE SimKept
  <2>1. At(r, "attach")
    BY <1>11 DEF AttachC
  <2>2. Fits(todo[r], local[r]) /\ todo[r] # << >> /\ todo[r][1] = "attach"
    BY <1>2, <2>1
  <2>3. local[r].build = [sig |-> local[r].sig, root |-> local[r].root]
        /\ local[r].sig \in Signatures /\ local[r].root \in Roots
    BY <2>2, DockSteps DEF Fits, BuildFits, Starts, Dock
  <2>4. \/ UNCHANGED sim
        \/ IsFor(sim, r) /\ sim' = [sim EXCEPT !.c = local[r].build]
        \/ sim # None /\ sim' = [sim EXCEPT !.c = None]
    BY <1>11 DEF AttachC, IsFor
  <2>5. CASE IsFor(sim, r) /\ sim' = [sim EXCEPT !.c = local[r].build]
    <3>1. sim \in Sessions /\ sim.sig = local[r].sig /\ sim.root = local[r].root
      BY <1>1, <2>5 DEF IsFor
    <3>2. sim' = [sig |-> local[r].sig, root |-> local[r].root, c |-> local[r].build]
      BY <2>5, <3>1 DEF Sessions
    <3>3. local[r].build \in Builds \cup {None}
      BY <2>3 DEF Builds
    <3> QED BY <1>5, <2>3, <3>2, <3>3
  <2> QED BY <1>3, <1>6, <2>4, <2>5
<1>12. SimKept
  BY <1>3, <1>7, <1>8, <1>9, <1>10, <1>11, SessionChanges
<1>13. cache' \in Cached \cup {None} /\ CachedBuildMatches'
  <2>1. CASE UNCHANGED cache
    BY <1>1, <2>1 DEF CachedBuildMatches
  <2>2. CASE ClearCache(r)
    BY <2>2 DEF ClearCache, CachedBuildMatches
  <2>3. CASE Compile(r)
    <3>1. At(r, "compile")
      BY <2>3 DEF Compile
    <3>2. Fits(todo[r], local[r]) /\ todo[r] # << >> /\ todo[r][1] = "compile"
      BY <1>2, <3>1
    <3>3. local[r].sig \in Signatures /\ Semantics(local[r].loaded) = local[r].sig
          /\ local[r].root \in Roots
      BY <3>2, DockSteps DEF Fits, BuildFits, Starts, Dock
    <3>4. PICK a, b : a = local[r].sig /\ b = local[r].root
      OBVIOUS
    <3>5. UNCHANGED cache \/ cache' = [sig |-> a, root |-> b, exe |-> [sig |-> a, root |-> b]]
      BY <2>3, <3>3, <3>4 DEF Compile
    <3>6. a \in Signatures /\ b \in Roots
      BY <3>3, <3>4
    <3>7. CASE cache' = [sig |-> a, root |-> b, exe |-> [sig |-> a, root |-> b]]
      BY <3>6, <3>7 DEF Cached, Builds, CachedBuildMatches
    <3> QED BY <2>1, <3>5, <3>7
  <2> QED BY <2>1, <2>2, <2>3, SessionChanges
<1> QED BY <1>12, <1>13

-----------------------------------------------------------------------------
(* The invariant holds when the server starts.                             *)
LEMMA InitServerInv == Init => ServerInv
<1> SUFFICES ASSUME Init PROVE ServerInv
  OBVIOUS
<1>1. << >> \in Seq(StepNames) /\ << >> \in Seq(Snapshots) /\ Len(<< >>) = 0
  BY EmptySeq
<1>2. Threads
  BY <1>1, IdleFits, IdleTyped DEF Init, Threads, Outcomes
<1>3. Shared
  BY <1>1 DEF Init, Shared, Text
<1>4. \A a, b : ~Within(<< >>, a, b)
  BY <1>1 DEF Within, Has
<1>5. JournalHeld /\ SessionHeld
  BY <1>4 DEF Init, JournalHeld, SessionHeld, InHistory, InSession
<1>6. Room
  BY <1>1, <1>4, ServerAssumption DEF Init, Room, JournalBounded
<1> QED BY <1>2, <1>3, <1>5, <1>6 DEF Init, ServerInv, CachedBuildMatches, AttachedBuildMatches

(* A mutex is free or held by a request.                                   *)
LEMMA MutexTyped ==
  ASSUME ServerInv, NEW r \in Requests, Handle(r)
  PROVE  history' \in Requests \cup {None} /\ simLock' \in Requests \cup {None}
<1>1. history \in Requests \cup {None} /\ simLock \in Requests \cup {None}
  BY DEF ServerInv, Shared
<1>2. history' \in {history, None, r}
  BY JournalChanges DEF Record, Pop, Push, ClearJournal, ClearCache, journal
<1>3. simLock' \in {simLock, None, r}
  BY SessionChanges DEF LoadTypes, LockSim, Run
<1> QED BY <1>1, <1>2, <1>3

(* Every step of a handler keeps the invariant.                            *)
LEMMA HandleKeeps ==
  ASSUME ServerInv, NEW r \in Requests, Handle(r)
  PROVE  ServerInv'
<1>1. Threads' /\ JournalHeld' /\ SessionHeld' /\ Room'
  BY ThreadsKept, JournalHeldKept, SessionHeldKept, RoomKept
<1>2. Shared'
  BY FilesKept, RoomKept, MutexTyped, SessionKept DEF Shared
<1> QED BY <1>1, <1>2, SessionKept DEF ServerInv

(* So does the start of a request.                                         *)
LEMMA BeginKeeps ==
  ASSUME ServerInv, NEW r \in Requests, EditRequest(r) \/ SimRequest(r)
  PROVE  ServerInv'
<1>1. Threads' /\ Begins(r)
  BY ThreadsBegin
<1>2. UNCHANGED <<workspace, files, undo, redo, history, sim, simLock, cache>>
  BY <1>1 DEF Begins, journal, session
<1>3. todo \in [Requests -> Seq(StepNames)]
  BY DEF ServerInv, Threads
<1>4. \A op \in DOMAIN Steps :
        ~Within(Steps[op], "pop", "push") /\ ~InHistory(Steps[op]) /\ ~InSession(Steps[op])
  BY HandlersOpen DEF Opening, InHistory, InSession
<1>5. ASSUME NEW q \in Requests
      PROVE  /\ Within(todo'[q], "pop", "push") => Within(todo[q], "pop", "push")
             /\ InHistory(todo'[q]) => InHistory(todo[q])
             /\ InSession(todo'[q]) => InSession(todo[q])
  <2>1. CASE todo'[q] = todo[q]
    BY <2>1
  <2>2. CASE todo'[q] # todo[q]
    <3>1. \E op \in DOMAIN Steps : todo'[q] = Steps[op]
      BY <1>1, <1>3, <2>2 DEF Begins
    <3> QED BY <1>4, <3>1
  <2> QED BY <2>1, <2>2
<1>6. JournalHeld' /\ SessionHeld' /\ Room'
  BY <1>2, <1>5 DEF ServerInv, JournalHeld, SessionHeld, Room, JournalBounded
<1>7. Shared' /\ CachedBuildMatches' /\ AttachedBuildMatches'
  BY <1>2 DEF ServerInv, Shared, CachedBuildMatches, AttachedBuildMatches
<1> QED BY <1>1, <1>6, <1>7 DEF ServerInv

(* And so every step.                                                      *)
LEMMA NextServerInv == ServerInv /\ [Next]_vars => ServerInv'
<1> SUFFICES ASSUME ServerInv, [Next]_vars PROVE ServerInv'
  OBVIOUS
<1>1. CASE \E r \in Editors : EditRequest(r)
  BY <1>1, BeginKeeps DEF Requests
<1>2. CASE \E r \in Clients : SimRequest(r)
  BY <1>2, BeginKeeps DEF Requests
<1>3. CASE \E r \in Requests : Handle(r)
  BY <1>3, HandleKeeps
<1>4. CASE UNCHANGED vars
  <2>1. UNCHANGED <<workspace, files, undo, redo, history, sim, simLock, cache, todo, local, outcome>>
    BY <1>4 DEF vars, journal, session
  <2>2. Threads' /\ Shared'
    BY <2>1 DEF ServerInv, Threads, Shared
  <2>3. JournalHeld' /\ SessionHeld' /\ Room' /\ CachedBuildMatches' /\ AttachedBuildMatches'
    BY <2>1 DEF ServerInv, JournalHeld, SessionHeld, Room, JournalBounded, CachedBuildMatches,
                AttachedBuildMatches
  <2> QED BY <2>2, <2>3 DEF ServerInv
<1> QED BY <1>1, <1>2, <1>3, <1>4 DEF Next

(* The invariant always holds.                                             *)
LEMMA AlwaysServerInv == Spec => []ServerInv
<1>1. Init => ServerInv
  BY InitServerInv
<1>2. ServerInv /\ [Next]_vars => ServerInv'
  BY NextServerInv
<1> QED BY <1>1, <1>2, PTL DEF Spec

-----------------------------------------------------------------------------
(* What is shared keeps its type whoever writes it: the journal holds      *)
(* snapshots of files, the session and the cache hold builds.              *)
THEOREM TypeCorrect == Spec => []TypeOK
<1>1. ServerInv => TypeOK
  <2> SUFFICES ASSUME ServerInv PROVE TypeOK
    OBVIOUS
  <2>1. Threads /\ Shared
    BY DEF ServerInv
  <2>2. ASSUME NEW q \in Seq(Snapshots), NEW k \in DOMAIN q PROVE Texts(q[k])
    <3>1. k \in 1 .. Len(q)
      BY LenProperties
    <3>2. q[k] \in Seq(Entries)
      BY <3>1, ElementOfSeq DEF Snapshots
    <3>3. \A j \in DOMAIN q[k] : q[k][j] \in Entries
      BY <3>2, LenProperties, ElementOfSeq
    <3> QED BY <3>3 DEF Texts, Entries
  <2>3. \A r \in Requests : outcome[r] \in {"none", "ok", "refused", "failed"}
    BY <2>1 DEF Threads, Outcomes
  <2>4. sim # None => sim.sig \in Signatures /\ sim.root \in Roots /\ sim.c \in Builds \cup {None}
    BY <2>1 DEF Shared, Sessions
  <2>5. cache # None => cache.sig \in Signatures /\ cache.root \in Roots /\ cache.exe \in Builds
    BY <2>1 DEF Shared, Cached
  <2> QED BY <2>1, <2>2, <2>3, <2>4, <2>5 DEF TypeOK, Shared
<1> QED BY <1>1, AlwaysServerInv, PTL

(* The undo and the redo stack never exceed the cap together, although a   *)
(* redo pushes without looking: what it pops leaves the room, and nobody   *)
(* records in between since the journal's mutex is held until the push.    *)
THEOREM JournalIsBounded == Spec => []JournalBounded
<1>1. ServerInv => JournalBounded
  BY DEF ServerInv, Room
<1> QED BY <1>1, AlwaysServerInv, PTL

(* The C in a session's loop was compiled from that session's model and    *)
(* root, whatever other requests did while no mutex was held.              *)
THEOREM AttachedBuildIsTheSessions == Spec => []AttachedBuildMatches
<1>1. ServerInv => AttachedBuildMatches
  BY DEF ServerInv
<1> QED BY <1>1, AlwaysServerInv, PTL

-----------------------------------------------------------------------------
(* Nobody waits for ever on a mutex: what is left of a handler that holds  *)
(* one is a list that takes none, but that an opening takes the session's  *)
(* while it holds the journal's.                                           *)

HoldJournal ==
  { <<"model_path", "types_path", "read", "push", "restore">>,
    <<"types_path", "read", "push", "restore">>, <<"read", "push", "restore">>,
    <<"push", "restore">>, <<"clear_sim", "clear_cache">>, <<"clear_cache">> }
HoldSession ==
  { <<"load_path", "load_model", "load_types", "run">>, <<"load_model", "load_types", "run">>,
    <<"load_types", "run">>, <<"run">> }

\* A mutex is held from a handler's first step, or from an opening's second.
Takes(s) ==
  s # << >> =>
    /\ s[1] = "pop" => s = HistorySteps
    /\ s[1] = "lock_sim" => s = StepSteps
    /\ s[1] = "open" => s = OpenSteps
    /\ s[1] = "clear_journal" => s = <<"clear_journal", "clear_sim", "clear_cache">>
    /\ \A x \in {"pop", "lock_sim", "open"} : ~Has(Tail(s), x)
    /\ Has(Tail(s), "clear_journal") => s[1] = "open"

MutexInv ==
  /\ \A r \in Requests : Takes(todo[r])
  /\ history # None => todo[history] \in HoldJournal
  /\ simLock # None => todo[simLock] \in HoldSession

\* The steps that wait for a mutex, the last one only to end a stale session.
JournalTakers == {"pop", "record", "clear_journal"}
SessionTakers == {"clear_sim", "store", "lock_sim", "stop", "detach", "peek", "attach", "fresh"}

Waits(r) ==
  \/ Head(todo[r]) \in JournalTakers /\ history # None
  \/ Head(todo[r]) \in SessionTakers /\ simLock # None

\* While requests are in progress, one of them waits for no mutex.
SomeoneCanStep ==
  (\E r \in Requests : todo[r] # << >>) => \E r \in Requests : todo[r] # << >> /\ ~Waits(r)

(* Where the handlers take a mutex.                                        *)
LEMMA HandlersTake == \A op \in DOMAIN Steps : Takes(Steps[op])
<1>1. Takes(EditSteps) /\ Takes(InsertSteps) /\ Takes(DeclareSteps)
  BY DEF EditSteps, InsertSteps, DeclareSteps, Takes, Has
<1>2. Takes(RemoveSteps) /\ Takes(ImportSteps)
  BY DEF RemoveSteps, ImportSteps, Takes, Has
<1>3. Takes(BuildSteps) /\ Takes(SaveSteps)
  BY DEF BuildSteps, SaveSteps, Takes, Has
<1>4. Takes(HistorySteps)
  BY DEF HistorySteps, Takes, Has
<1>5. Takes(OpenSteps)
  BY DEF OpenSteps, Takes, Has
<1>6. Takes(StartSteps) /\ Takes(LoopSteps) /\ Takes(<<"stop">>) /\ Takes(<<"detach">>)
  BY DEF StartSteps, LoopSteps, Takes, Has
<1>7. Takes(StepSteps)
  BY DEF StepSteps, Takes, Has
<1> QED BY <1>1, <1>2, <1>3, <1>4, <1>5, <1>6, <1>7 DEF Steps

(* The same of what is left a step later.                                  *)
LEMMA RestTakes ==
  ASSUME NEW s \in Seq(StepNames), s # << >>, Orderly(s), Takes(s)
  PROVE  Takes(Tail(s))
<1> DEFINE t == Tail(s)
<1>1. CASE t = << >>
  BY <1>1 DEF Takes
<1>2. CASE t # << >>
  <2>1. t \in Seq(StepNames) /\ Orderly(t)
    BY RestFacts
  <2>2. \A x : Has(t, x) <=> t[1] = x \/ Has(Tail(t), x)
    BY <1>2, <2>1, RestFacts
  <2>3. \A x \in {"pop", "lock_sim", "open"} : t[1] # x /\ ~Has(Tail(t), x)
    BY <2>2 DEF Takes
  <2>4. Has(t, "clear_journal") => s = OpenSteps
    BY DEF Takes
  <2>5. s = OpenSteps => t = <<"clear_journal", "clear_sim", "clear_cache">>
    BY DEF OpenSteps
  <2>6. s = OpenSteps => ~Has(Tail(t), "clear_journal")
    <3>1. Tail(<<"clear_journal", "clear_sim", "clear_cache">>) = <<"clear_sim", "clear_cache">>
      OBVIOUS
    <3> HIDE DEF t
    <3>2. ~Has(<<"clear_sim", "clear_cache">>, "clear_journal")
      BY DEF Has
    <3>3. s = OpenSteps => Tail(t) = <<"clear_sim", "clear_cache">>
      BY <2>5, <3>1
    <3> QED BY <3>2, <3>3
  <2> HIDE DEF t
  <2>7. t[1] = "clear_journal" => t = <<"clear_journal", "clear_sim", "clear_cache">>
    BY <2>2, <2>4, <2>5
  <2>8. ~Has(Tail(t), "clear_journal")
    <3>1. Has(Tail(t), "clear_journal") => Has(t, "clear_journal")
      BY <2>2
    <3> QED BY <3>1, <2>4, <2>6
  <2>9. Takes(t)
    BY <2>3, <2>7, <2>8 DEF Takes
  <2> QED BY <2>9 DEF t
<1> QED BY <1>1, <1>2

(* Lists in which a mutex is held.                                         *)
LEMMA HoldersMove ==
  /\ \A s \in HoldJournal :
        /\ s # << >> /\ Head(s) \in {"model_path", "types_path", "read", "clear_sim", "push", "clear_cache"}
        /\ Head(s) \notin {"push", "clear_cache"} => Tail(s) \in HoldJournal
  /\ \A s \in HoldSession :
        /\ s # << >> /\ Head(s) \in {"load_path", "load_model", "load_types", "run"}
        /\ Head(s) # "run" => Tail(s) \in HoldSession
  /\ Tail(HistorySteps) \in HoldJournal
  /\ Tail(StepSteps) \in HoldSession
  /\ Tail(<<"clear_journal", "clear_sim", "clear_cache">>) \in HoldJournal
BY DEF HoldJournal, HoldSession, HistorySteps, StepSteps

(* What a holder does next.                                                *)
LEMMA HolderActs ==
  ASSUME Threads, NEW r \in Requests, Handle(r)
  PROVE  /\ todo[r] \in HoldJournal => \/ AddPath(r) \/ ReadForSnapshot(r) \/ ClearSim(r)
                                       \/ Push(r) \/ ClearCache(r)
         /\ todo[r] \in HoldSession => LoadPath(r) \/ LoadModel(r) \/ LoadTypes(r) \/ Run(r)
<1>1. CASE LoadRaw(r) \/ Find(r) \/ Save(r) \/ Record(r) \/ Collide(r) \/ SetRoot(r)
  BY <1>1, HoldersMove DEF At, LoadRaw, Find, Save, Record, Collide, SetRoot
<1>2. CASE ResolvePath(r) \/ Pop(r) \/ Restore(r) \/ Open(r) \/ ClearJournal(r)
  BY <1>2, HoldersMove DEF At, ResolvePath, Pop, Restore, Open, ClearJournal
<1>3. CASE StoreSession(r) \/ LockSim(r) \/ StopSim(r) \/ DetachC(r)
  BY <1>3, HoldersMove DEF At, StoreSession, LockSim, StopSim, DetachC
<1>4. CASE Peek(r) \/ CheckFresh(r) \/ LookUp(r) \/ Compile(r) \/ AttachC(r)
  BY <1>4, HoldersMove DEF At, Peek, CheckFresh, LookUp, Compile, AttachC
<1>5. CASE AddPath(r) \/ ReadForSnapshot(r) \/ ClearSim(r) \/ Push(r) \/ ClearCache(r)
  BY <1>5, HoldersMove DEF At, AddPath, ReadForSnapshot, ClearSim, Push, ClearCache
<1>6. CASE LoadPath(r) \/ LoadModel(r) \/ LoadTypes(r) \/ Run(r)
  BY <1>6, HoldersMove DEF At, LoadPath, LoadModel, LoadTypes, Run
<1> QED BY <1>1, <1>2, <1>3, <1>4, <1>5, <1>6 DEF Handle

(* A step keeps the holders on their lists.                                *)
LEMMA HandleMutex ==
  ASSUME ServerInv, MutexInv, NEW r \in Requests, Handle(r)
  PROVE  MutexInv'
<1>1. Threads /\ None \notin Requests /\ history \in Requests \cup {None}
      /\ simLock \in Requests \cup {None} /\ todo \in [Requests -> Seq(StepNames)]
  BY ServerAssumption DEF ServerInv, Requests, Shared, Threads
<1>2. /\ todo[r] # << >> /\ todo'[r] \in Lists(r)
      /\ \A q \in Requests \ {r} : todo'[q] = todo[q]
  BY <1>1, ListMoves
<1>3. \A q \in Requests : Takes(todo'[q])
  <2>1. Takes(<< >>) /\ Takes(<<"attach">>)
    BY DEF Takes, Has
  <2>2. Takes(Tail(todo[r]))
    BY <1>1, <1>2, RestTakes DEF MutexInv, Threads, Fits
  <2> QED BY <1>2, <2>1, <2>2 DEF MutexInv, Lists
<1>4. \A how : Answer(r, how) => todo'[r] = << >>
  BY <1>1 DEF Answer
<1>5. Continue(r) => todo'[r] = Tail(todo[r])
  BY <1>1 DEF Continue, Goto
<1>6. \A x : At(r, x) => Head(todo[r]) = x /\ todo[r][1] = x /\ Takes(todo[r])
  BY <1>1, AtFirst DEF At, MutexInv
<1>7. history' # None => todo'[history'] \in HoldJournal
  <2>1. CASE UNCHANGED history /\ history # r
    BY <1>1, <1>2, <2>1 DEF MutexInv
  <2>2. CASE UNCHANGED history /\ history = r
    <3>1. todo[r] \in HoldJournal
      BY <1>1, <2>2 DEF MutexInv
    <3>2. AddPath(r) \/ ReadForSnapshot(r) \/ ClearSim(r) \/ Push(r) \/ ClearCache(r)
      BY <1>1, <3>1, HolderActs
    <3>3. ~Push(r) /\ ~ClearCache(r)
      BY <1>1, <2>2 DEF Push, ClearCache
    <3>4. Head(todo[r]) \notin {"push", "clear_cache"}
      BY <3>2, <3>3 DEF At, AddPath, ReadForSnapshot, ClearSim
    <3>5. todo'[r] \in {todo[r], Tail(todo[r])}
      BY <1>5, <3>2, <3>3 DEF AddPath, ReadForSnapshot, ClearSim
    <3> QED BY <2>2, <3>1, <3>4, <3>5, HoldersMove
  <2>3. CASE Pop(r)
    <3>1. \/ history' = None
          \/ history' = r /\ Continue(r) /\ At(r, "pop")
      BY <2>3 DEF Pop, journal
    <3>2. At(r, "pop") => todo[r] = HistorySteps
      BY <1>2, <1>6 DEF Takes
    <3> QED BY <1>5, <3>1, <3>2, HoldersMove
  <2>4. CASE ClearJournal(r)
    <3>1. history' = r /\ Continue(r) /\ At(r, "clear_journal")
      BY <2>4 DEF ClearJournal
    <3>2. todo[r] = <<"clear_journal", "clear_sim", "clear_cache">>
      BY <1>2, <1>6, <3>1 DEF Takes
    <3> QED BY <1>5, <3>1, <3>2, HoldersMove
  <2>5. CASE Push(r) \/ ClearCache(r)
    BY <2>5 DEF Push, ClearCache
  <2>6. CASE Record(r)
    BY <2>6 DEF Record
  <2> QED BY <2>1, <2>2, <2>3, <2>4, <2>5, <2>6, JournalChanges
<1>8. simLock' # None => todo'[simLock'] \in HoldSession
  <2>1. CASE UNCHANGED simLock /\ simLock # r
    BY <1>1, <1>2, <2>1 DEF MutexInv
  <2>2. CASE UNCHANGED simLock /\ simLock = r
    <3>1. todo[r] \in HoldSession
      BY <1>1, <2>2 DEF MutexInv
    <3>2. LoadPath(r) \/ LoadModel(r) \/ LoadTypes(r) \/ Run(r)
      BY <1>1, <3>1, HolderActs
    <3>3. ~Run(r) /\ (LoadTypes(r) => Continue(r))
      BY <1>1, <2>2 DEF Run, LoadTypes
    <3>4. Head(todo[r]) # "run"
      BY <3>2, <3>3 DEF At, LoadPath, LoadModel, LoadTypes
    <3>5. todo'[r] = Tail(todo[r])
      BY <1>5, <3>2, <3>3 DEF LoadPath, LoadModel
    <3> QED BY <2>2, <3>1, <3>4, <3>5, HoldersMove
  <2>3. CASE LoadTypes(r)
    <3>1. UNCHANGED simLock \/ simLock' = None
      BY <2>3 DEF LoadTypes
    <3> QED BY <2>1, <2>2, <3>1
  <2>4. CASE LockSim(r)
    <3>1. \/ simLock' = None
          \/ simLock' = r /\ Continue(r) /\ At(r, "lock_sim")
      BY <2>4 DEF LockSim, SimFree
    <3>2. At(r, "lock_sim") => todo[r] = StepSteps
      BY <1>2, <1>6 DEF Takes
    <3> QED BY <1>5, <3>1, <3>2, HoldersMove
  <2>5. CASE Run(r)
    BY <2>5 DEF Run
  <2> QED BY <2>1, <2>2, <2>3, <2>4, <2>5, SessionChanges
<1> QED BY <1>3, <1>7, <1>8 DEF MutexInv

(* So does every other step.                                               *)
LEMMA NextMutex == ServerInv /\ MutexInv /\ [Next]_vars => MutexInv'
<1> SUFFICES ASSUME ServerInv, MutexInv, [Next]_vars PROVE MutexInv'
  OBVIOUS
<1>1. ASSUME NEW r \in Requests, EditRequest(r) \/ SimRequest(r)
      PROVE  MutexInv'
  <2>1. /\ UNCHANGED <<history, simLock>>
        /\ \/ UNCHANGED todo
           \/ \E op \in DOMAIN Steps : todo' = [todo EXCEPT ![r] = Steps[op]]
    BY <1>1, ThreadsBegin DEF Begins, journal, session
  <2>2. todo[r] = << >>
    BY <1>1 DEF EditRequest, SimRequest, Begin
  <2>3. todo \in [Requests -> Seq(StepNames)] /\ history \in Requests \cup {None}
        /\ simLock \in Requests \cup {None}
    BY DEF ServerInv, Threads, Shared
  <2>4. \A q \in Requests : \/ todo'[q] = todo[q]
                            \/ q = r /\ Takes(todo'[q])
    BY <2>1, <2>3, HandlersTake
  <2>5. (history # None => history # r) /\ (simLock # None => simLock # r)
    BY <2>2, HoldersMove DEF MutexInv
  <2> QED BY <2>1, <2>3, <2>4, <2>5 DEF MutexInv
<1>2. CASE \E r \in Editors : EditRequest(r)
  BY <1>1, <1>2 DEF Requests
<1>3. CASE \E r \in Clients : SimRequest(r)
  BY <1>1, <1>3 DEF Requests
<1>4. CASE \E r \in Requests : Handle(r)
  BY <1>4, HandleMutex
<1>5. CASE UNCHANGED vars
  BY <1>5 DEF vars, journal, session, MutexInv
<1> QED BY <1>2, <1>3, <1>4, <1>5 DEF Next

(* No request is kept waiting by others that wait: who holds the session's *)
(* mutex takes none before it gives it back, and who holds the journal's   *)
(* only that one.  It is what makes RequestsAnswered hold under fairness.  *)
THEOREM NeverAllWaiting == Spec => []SomeoneCanStep
<1>1. Init => MutexInv
  <2> SUFFICES ASSUME Init PROVE MutexInv
    OBVIOUS
  <2>1. \A r \in Requests : Takes(todo[r])
    BY DEF Init, Takes
  <2> QED BY <2>1 DEF Init, MutexInv
<1>2. ServerInv /\ MutexInv => SomeoneCanStep
  <2> SUFFICES ASSUME ServerInv, MutexInv, NEW q \in Requests, todo[q] # << >>
               PROVE  \E r \in Requests : todo[r] # << >> /\ ~Waits(r)
    BY DEF SomeoneCanStep
  <2>1. history \in Requests \cup {None} /\ simLock \in Requests \cup {None}
    BY DEF ServerInv, Shared
  <2>2. CASE simLock # None
    <3>1. /\ todo[simLock] # << >>
          /\ Head(todo[simLock]) \in {"load_path", "load_model", "load_types", "run"}
      BY <2>2, HoldersMove DEF MutexInv
    <3> QED BY <2>1, <2>2, <3>1 DEF Waits, JournalTakers, SessionTakers
  <2>3. CASE simLock = None /\ history # None
    <3>1. /\ todo[history] # << >>
          /\ Head(todo[history]) \in {"model_path", "types_path", "read", "clear_sim", "push", "clear_cache"}
      BY <2>3, HoldersMove DEF MutexInv
    <3> QED BY <2>1, <2>3, <3>1 DEF Waits, JournalTakers
  <2>4. CASE simLock = None /\ history = None
    BY <2>4 DEF Waits
  <2> QED BY <2>2, <2>3, <2>4
<1>3. ServerInv /\ MutexInv /\ [Next]_vars => MutexInv'
  BY NextMutex
<1> QED BY <1>1, <1>2, <1>3, AlwaysServerInv, PTL DEF Spec
===============================================================================
