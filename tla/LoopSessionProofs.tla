---------------------------- MODULE LoopSessionProofs ----------------------------
(***************************************************************************)
(* The session with the C in the loop, for every set of inputs, every      *)
(* length of the history and every number of cycles: as long as no cycle   *)
(* is left half done (CyclesAreWhole), the C in the loop is where the      *)
(* simulator is, what is compared with it has run the same cycles, and     *)
(* the handle's count is the number of these.                              *)
(***************************************************************************)
EXTENDS LoopSession, SequenceTheorems, TLAPS

(* An input either fails before anything is stepped or runs a whole cycle, *)
(* contract check included.  The code does not ensure it: run              *)
(* session_error is a session outside of it.                               *)
CyclesAreWhole == FailLate = {} /\ ObserverFails = {}

Running == {"run", "record", "wait"}

Rows == [line : Inputs, ir : Seq(Steps)]
Loops == [on : BOOLEAN, up : BOOLEAN, stdin : Seq(Inputs),
          ran : Seq(Steps), answers : Seq(Seq(Steps))]

(* Bounds of the replay index and of the cycles still to run.              *)
CountersOK ==
    /\ pc = "replaying" => at <= Len(history)
    /\ pc \in Running => req.left # 0

(* What the thread has run and the handle has not yet counted is the run   *)
(* under way; a program that is in the loop, or feeds a run, has columns.  *)
HandleCounts ==
    /\ pc \in Running => handle.cycle + req.ran = cycle
    /\ pc \notin Running => handle.cycle = cycle
    /\ pc \in Running \cup {"idle"} /\ loop.on => handle.c_columns

(* The history holds the first cycles of the session, all of them until it *)
(* is full; the cycle in progress is in the simulator only.                *)
HistoryIsPrefix ==
    /\ Len(sim) = IF pc \in {"record", "wait"} THEN cycle + 1 ELSE cycle
    /\ Len(history) <= cycle
    /\ IF history_full THEN Len(history) >= HistoryMax ELSE Len(history) = cycle
    /\ pc \in {"record", "wait"} => sim[Len(sim)] = Whole(req.line)
    /\ \A k \in 1 .. Len(history) :
          sim[k] = Whole(history[k].line) /\ history[k].ir = SubSeq(sim, 1, k)

(* The program in the loop has run `done` and nothing is in the pipes.     *)
Quiet(done) == loop.ran = done /\ loop.stdin = << >> /\ loop.answers = << >>

(* It was fed x after `done`, and has or has not run it.                   *)
Fed(done, x) ==
    \/ loop.ran = done /\ loop.stdin = <<x>> /\ loop.answers = << >>
    \/ /\ loop.ran = Append(done, Whole(x)) /\ loop.stdin = << >>
       /\ loop.answers = <<Append(done, Whole(x))>>

LoopFollows ==
    /\ loop.up => loop.on
    /\ pc \in {"idle", "run"} /\ loop.on => Quiet(sim)
    /\ pc = "record" => ~loop.on
    /\ pc = "wait" => loop.on /\ Fed(SubSeq(sim, 1, cycle), req.line)
    /\ pc \in {"replay", "replaying"} => loop.on /\ ~history_full
    /\ pc = "replay" => Quiet(SubSeq(sim, 1, at - 1))
    /\ pc = "replaying" => Fed(SubSeq(sim, 1, at - 1), history[at].line)

SessionInv == HistoryIsPrefix /\ LoopFollows /\ ComparesSameState
-------------------------------------------------------------------------------
(* Prefixes of a sequence that grows at its end.                           *)
LEMMA PrefixFacts ==
    ASSUME NEW S, NEW s \in Seq(S), NEW x \in S
    PROVE  /\ SubSeq(s, 1, Len(s)) = s
           /\ SubSeq(s, 1, 0) = << >>
           /\ \A k \in 0 .. Len(s) : SubSeq(s, 1, k) \in Seq(S)
           /\ \A k \in 0 .. Len(s) : SubSeq(Append(s, x), 1, k) = SubSeq(s, 1, k)
           /\ \A k \in 1 .. Len(s) : SubSeq(s, 1, k) = Append(SubSeq(s, 1, k - 1), s[k])
<1>1. Len(s) \in Nat /\ \A k \in 1 .. Len(s) : s[k] \in S
    BY LenProperties, ElementOfSeq
<1>2. SubSeq(s, 1, Len(s)) = s
    BY SubSeqFull
<1>3. SubSeq(s, 1, 0) = << >>
    BY SubSeqEmpty
<1>4. ASSUME NEW k \in 0 .. Len(s)
      PROVE  /\ SubSeq(s, 1, k) \in Seq(S) /\ Len(SubSeq(s, 1, k)) = k
             /\ \A i \in 1 .. k : SubSeq(s, 1, k)[i] = s[i]
    <2>1. k \in Int /\ \A i \in 1 .. k : s[i] \in S
        BY <1>1
    <2> QED BY <1>1, <2>1, SubSeqProperties
<1>5. ASSUME NEW k \in 0 .. Len(s)
      PROVE  SubSeq(Append(s, x), 1, k) = SubSeq(s, 1, k)
    <2>1. /\ Append(s, x) \in Seq(S)
          /\ \A i \in 1 .. k : Append(s, x)[i] = s[i]
        BY <1>1, AppendProperties
    <2>2. k \in Int /\ \A i \in 1 .. k : Append(s, x)[i] \in S
        BY <1>1, <2>1
    <2>3. /\ SubSeq(Append(s, x), 1, k) \in Seq(S) /\ Len(SubSeq(Append(s, x), 1, k)) = k
          /\ \A i \in 1 .. k : SubSeq(Append(s, x), 1, k)[i] = Append(s, x)[i]
        BY <1>1, <2>2, SubSeqProperties
    <2> QED BY <1>4, <2>1, <2>3, SeqEqual
<1>6. ASSUME NEW k \in 1 .. Len(s)
      PROVE  SubSeq(s, 1, k) = Append(SubSeq(s, 1, k - 1), s[k])
    <2>1. k - 1 \in 0 .. Len(s) /\ s[k] \in S /\ SubSeq(s, 1, k - 1) \in Seq(S)
        BY <1>1, <1>4
    <2>2. SubSeq(s, 1, k) = SubSeq(s, 1, k - 1) \o <<s[k]>>
        BY <1>1, SubSeqRecursiveSecond
    <2> QED BY <2>1, <2>2, AppendIsConcat
<1> QED BY <1>2, <1>3, <1>4, <1>5, <1>6
-------------------------------------------------------------------------------
LEMMA StepsOfInputs ==
    \A x \in Inputs : Whole(x) \in Steps /\ Part(x) \in Steps
BY DEF Whole, Part, Steps

(* The types of TypeOK that take the provers some steps to use. *)
LEMMA TypesOfSession ==
    ASSUME TypeOK
    PROVE  /\ loop \in Loops
           /\ loop.stdin \in Seq(Inputs) /\ loop.ran \in Seq(Steps)
           /\ loop.answers \in Seq(Seq(Steps))
           /\ history \in Seq(Rows) /\ Len(history) \in Nat
           /\ \A k \in 1 .. Len(history) :
                 /\ history[k] \in Rows
                 /\ history[k].line \in Inputs /\ history[k].ir \in Seq(Steps)
<1>1. loop \in Loops /\ history \in Seq(Rows)
    BY DEF TypeOK, Loops, Rows
<1>2. \A k \in 1 .. Len(history) : history[k] \in Rows
    BY <1>1, ElementOfSeq
<1>3. Len(history) \in Nat
    BY <1>1, LenProperties
<1> QED BY <1>1, <1>2, <1>3 DEF Loops, Rows

LEMMA DetachedTyped == Detached \in Loops /\ Spawned \in Loops
<1>1. << >> \in Seq(Inputs) /\ << >> \in Seq(Steps) /\ << >> \in Seq(Seq(Steps))
    BY EmptySeq
<1>2. Detached \in Loops
    BY <1>1 DEF Detached, Loops
<1>3. Spawned \in Loops
    BY <1>2 DEF Spawned, Loops
<1> QED BY <1>2, <1>3

LEMMA InitTypes == Init => TypeOK /\ CountersOK /\ HandleCounts
<1> SUFFICES ASSUME Init PROVE TypeOK /\ CountersOK /\ HandleCounts
    OBVIOUS
<1>1. req \in [left : Nat, ran : Nat, line : Inputs]
    BY DEF Init, NoRun
<1>2. loop \in Loops /\ ~loop.on
    BY DetachedTyped DEF Init, Detached
<1>3. compared \in [ir : Seq(Steps), c : Seq(Steps)]
    BY DEF Init, Nothing
<1>4. /\ sim \in Seq(Steps) /\ history \in Seq(Rows)
      /\ at \in 1 .. Len(history) + 1 /\ history_full \in BOOLEAN
    <2>1. sim = << >> /\ history = << >> /\ at = 1 /\ history_full = FALSE
        BY DEF Init
    <2>2. sim \in Seq(Steps) /\ history \in Seq(Rows) /\ Len(history) = 0
        BY <2>1, EmptySeq
    <2>3. at \in 1 .. Len(history) + 1
        BY <2>1, <2>2
    <2> QED BY <2>1, <2>2, <2>3 DEF Rows
<1>5. handle \in [cycle : Nat, c_columns : BOOLEAN] /\ handle.cycle = 0
    BY DEF Init
<1>6. pc = "idle" /\ cycle = 0
    BY DEF Init
<1>7. TypeOK
    BY <1>1, <1>2, <1>3, <1>4, <1>5, <1>6 DEF TypeOK, Rows, Loops
<1>8. CountersOK
    BY <1>6 DEF CountersOK, Running
<1>9. HandleCounts
    BY <1>2, <1>5, <1>6 DEF HandleCounts, Running
<1> QED BY <1>7, <1>8, <1>9

LEMMA EndOfRowTypes ==
    ASSUME TypeOK, CountersOK, NEW lost \in BOOLEAN, pc \in {"record", "wait"}, EndOfRow(lost)
    PROVE  /\ history' \in Seq(Rows)
           /\ history_full' \in BOOLEAN
           /\ cycle' \in Nat
           /\ pc' \in {"idle", "run"}
           /\ req' \in [left : Nat, ran : Nat, line : Inputs]
           /\ handle' \in [cycle : Nat, c_columns : BOOLEAN]
           /\ at' \in 1 .. Len(history') + 1
           /\ pc' = "run" => req'.left # 0
           /\ sim' = sim
<1>1. /\ history' \in Seq(Rows)
      /\ history_full' \in BOOLEAN /\ at' \in 1 .. Len(history') + 1
    <2>1. [line |-> req.line, ir |-> sim] \in Rows
        BY DEF TypeOK, Rows
    <2>2. \/ history' = Append(history, [line |-> req.line, ir |-> sim]) /\ history_full' = history_full
          \/ history' = history /\ history_full' = TRUE
        BY DEF EndOfRow, Record
    <2>3. at' = at /\ Len(history) \in Nat /\ history \in Seq(Rows)
          /\ at \in 1 .. Len(history) + 1 /\ history_full \in BOOLEAN
        BY DEF EndOfRow, TypeOK, Rows
    <2>4. CASE history' = Append(history, [line |-> req.line, ir |-> sim])
               /\ history_full' = history_full
        <3>1. history' \in Seq(Rows) /\ Len(history') = Len(history) + 1
            BY <2>1, <2>3, <2>4, AppendProperties
        <3> QED BY <2>3, <2>4, <3>1
    <2>5. CASE history' = history /\ history_full' = TRUE
        BY <2>3, <2>5
    <2> QED BY <2>2, <2>4, <2>5
<1>2. cycle' \in Nat /\ sim' = sim
    BY DEF EndOfRow, TypeOK
<1>3. /\ req \in [left : Nat, ran : Nat, line : Inputs] /\ req.left # 0
      /\ handle \in [cycle : Nat, c_columns : BOOLEAN]
    BY DEF TypeOK, CountersOK, Running
<1>4. CASE ReplyRun(req.ran + 1, lost)
    <2>1. req' \in [left : Nat, ran : Nat, line : Inputs]
        BY <1>3, <1>4 DEF ReplyRun, NoRun
    <2>2. handle' \in [cycle : Nat, c_columns : BOOLEAN]
        BY <1>3, <1>4 DEF ReplyRun
    <2> QED BY <1>1, <1>2, <1>4, <2>1, <2>2 DEF ReplyRun
<1>5. CASE /\ req.left # 1 /\ pc' = "run" /\ handle' = handle
           /\ req' = [req EXCEPT !.left = @ - 1, !.ran = @ + 1]
    <2>1. req.left - 1 \in Nat /\ req.left - 1 # 0 /\ req.ran + 1 \in Nat
        BY <1>3, <1>5
    <2>2. /\ req'.left = req.left - 1
          /\ req' \in [left : Nat, ran : Nat, line : Inputs]
        BY <1>3, <1>5, <2>1
    <2> QED BY <1>1, <1>2, <1>3, <1>5, <2>1, <2>2
<1> QED BY <1>4, <1>5 DEF EndOfRow

LEMMA ReceiveTypes ==
    ASSUME TypeOK, NEW ir \in Seq(Steps), Receive(ir)
    PROVE  /\ loop' \in Loops
           /\ compared' \in [ir : Seq(Steps), c : Seq(Steps)]
<1>1. Head(loop.answers) \in Seq(Steps) /\ Tail(loop.answers) \in Seq(Seq(Steps))
    BY DEF Receive, TypeOK
<1> QED BY <1>1, TypesOfSession DEF Receive, Loops

(* The types, for every sequence of commands and whatever the program does. *)
LEMMA TypeStep ==
    ASSUME TypeOK, CountersOK, [Next]_vars
    PROVE  TypeOK' /\ CountersOK'
<1> USE DEF CountersOK, Running
<1>1. CASE RunRequest
    <2>1. PICK n \in 1 .. MaxCycles - Len(sim) : req' = [req EXCEPT !.left = n, !.ran = 0]
        BY <1>1 DEF RunRequest
    <2>2. n \in Nat /\ n # 0
        BY InputKinds DEF TypeOK
    <2>3. req' \in [left : Nat, ran : Nat, line : Inputs] /\ req'.left = n
        BY <2>1, <2>2 DEF TypeOK
    <2> QED BY <1>1, <2>2, <2>3 DEF RunRequest, TypeOK
<1>2. CASE RowRefused
    <2>1. CASE req.left = 1 /\ ReplyRun(req.ran, FALSE)
        <3>1. req' \in [left : Nat, ran : Nat, line : Inputs]
            BY <2>1 DEF ReplyRun, NoRun, TypeOK
        <3>2. handle' \in [cycle : Nat, c_columns : BOOLEAN]
            BY <2>1 DEF ReplyRun, TypeOK
        <3> QED BY <1>2, <2>1, <3>1, <3>2 DEF RowRefused, ReplyRun, TypeOK
    <2>2. CASE req.left # 1 /\ req' = [req EXCEPT !.left = @ - 1] /\ UNCHANGED <<pc, handle>>
        <3>1. req.left - 1 \in Nat /\ req.left - 1 # 0
            BY <1>2, <2>2 DEF RowRefused, TypeOK
        <3>2. req' \in [left : Nat, ran : Nat, line : Inputs] /\ req'.left = req.left - 1
            BY <2>2, <3>1 DEF TypeOK
        <3> QED BY <1>2, <2>2, <3>1, <3>2 DEF RowRefused, TypeOK
    <2> QED BY <1>2, <2>1, <2>2 DEF RowRefused
<1>3. CASE StepFails
    <2>1. req' \in [left : Nat, ran : Nat, line : Inputs]
        BY <1>3 DEF StepFails, ReplyRun, NoRun, TypeOK
    <2>2. handle' \in [cycle : Nat, c_columns : BOOLEAN]
        BY <1>3 DEF StepFails, ReplyRun, TypeOK
    <2>3. sim' \in Seq(Steps)
        <3>1. PICK x \in FailEarly \cup FailLate \cup ObserverFails :
                  sim' \in {sim, Append(sim, Part(x)), Append(sim, Whole(x))}
            BY <1>3 DEF StepFails
        <3>2. x \in Inputs
            BY InputKinds
        <3>3. Part(x) \in Steps /\ Whole(x) \in Steps /\ sim \in Seq(Steps)
            BY <3>2, StepsOfInputs DEF TypeOK
        <3> QED BY <3>1, <3>3, AppendProperties
    <2> QED BY <1>3, <2>1, <2>2, <2>3 DEF StepFails, ReplyRun, TypeOK
<1>4. CASE Simulate
    <2>1. PICK x \in Fine :
              /\ sim' = Append(sim, Whole(x))
              /\ req' = [req EXCEPT !.line = x]
              /\ \/ pc' = "wait" /\ loop' = [loop EXCEPT !.stdin = Append(@, x)]
                 \/ pc' = "record" /\ loop' = loop
        BY <1>4 DEF Simulate
    <2>2. x \in Inputs
        BY DEF Fine
    <2>3. sim' \in Seq(Steps)
        BY <2>1, <2>2, StepsOfInputs DEF TypeOK
    <2>4. req' \in [left : Nat, ran : Nat, line : Inputs] /\ req'.left = req.left
        BY <2>1, <2>2 DEF TypeOK
    <2>5. loop' \in Loops
        <3>1. Append(loop.stdin, x) \in Seq(Inputs)
            BY <2>2, TypesOfSession, AppendProperties
        <3> QED BY <2>1, <3>1, TypesOfSession DEF Loops
    <2> QED BY <1>4, <2>1, <2>3, <2>4, <2>5 DEF Simulate, TypeOK, Loops
<1>5. CASE RowAlone \/ Answered \/ Lost
    <2>1. PICK lost \in BOOLEAN : EndOfRow(lost)
        BY <1>5 DEF RowAlone, Answered, Lost
    <2>2. /\ history' \in Seq(Rows)
          /\ history_full' \in BOOLEAN
          /\ cycle' \in Nat
          /\ pc' \in {"idle", "run"}
          /\ req' \in [left : Nat, ran : Nat, line : Inputs]
          /\ handle' \in [cycle : Nat, c_columns : BOOLEAN]
          /\ at' \in 1 .. Len(history') + 1
          /\ pc' = "run" => req'.left # 0
          /\ sim' = sim
        BY <1>5, <2>1, EndOfRowTypes DEF RowAlone, Answered, Lost
    <2>3. /\ loop' \in Loops
          /\ compared' \in [ir : Seq(Steps), c : Seq(Steps)]
        <3>1. CASE RowAlone
            BY <3>1, TypesOfSession DEF RowAlone, TypeOK
        <3>2. CASE Answered
            BY <3>2, ReceiveTypes DEF Answered, TypeOK
        <3>3. CASE Lost
            BY <3>3, DetachedTyped DEF Lost, Drop, TypeOK
        <3> QED BY <1>5, <3>1, <3>2, <3>3
    <2> QED BY <2>2, <2>3 DEF TypeOK, Rows, Loops
<1>6. CASE ProgramAnswers
    <2>1. Head(loop.stdin) \in Inputs /\ Tail(loop.stdin) \in Seq(Inputs)
        BY <1>6 DEF ProgramAnswers, TypeOK
    <2>2. Append(loop.ran, Whole(Head(loop.stdin))) \in Seq(Steps)
        BY <2>1, StepsOfInputs DEF TypeOK
    <2>3. loop' = [loop EXCEPT !.stdin = Tail(loop.stdin),
                       !.ran = Append(loop.ran, Whole(Head(loop.stdin))),
                       !.answers = Append(loop.answers, Append(loop.ran, Whole(Head(loop.stdin))))]
        BY <1>6 DEF ProgramAnswers
    <2>4. Append(loop.answers, Append(loop.ran, Whole(Head(loop.stdin)))) \in Seq(Seq(Steps))
        BY <2>2, TypesOfSession, AppendProperties
    <2>5. loop' \in Loops
        BY <2>1, <2>2, <2>3, <2>4, TypesOfSession DEF Loops
    <2> QED BY <1>6, <2>5 DEF ProgramAnswers, TypeOK, Loops
<1>7. CASE ProgramDies
    BY <1>7 DEF ProgramDies, TypeOK
<1>8. CASE SpawnFails \/ Spawn \/ Detach
    <2>1. loop' \in Loops
        BY <1>8, DetachedTyped DEF SpawnFails, Spawn, Detach
    <2>2. handle' \in [cycle : Nat, c_columns : BOOLEAN]
        BY <1>8 DEF SpawnFails, Spawn, Detach, TypeOK
    <2>3. at' \in 1 .. Len(history) + 1 /\ pc' \in {"idle", "replay"}
        BY <1>8 DEF SpawnFails, Spawn, Detach, FirstReplayed, MayAttach, TypeOK
    <2> QED BY <1>8, <2>1, <2>2, <2>3 DEF SpawnFails, Spawn, Detach, TypeOK, Loops
<1>9. CASE ReplaySend
    <2>1. history[at].line \in Inputs
        BY <1>9, TypesOfSession DEF ReplaySend, TypeOK
    <2>2. Append(loop.stdin, history[at].line) \in Seq(Inputs)
        BY <2>1, TypesOfSession, AppendProperties
    <2>3. loop' \in Loops
        BY <1>9, <2>2, TypesOfSession DEF ReplaySend, Loops
    <2> QED BY <1>9, <2>3 DEF ReplaySend, TypeOK, Loops
<1>10. CASE ReplayAnswered
    <2>1. at <= Len(history) /\ history[at].ir \in Seq(Steps)
        BY <1>10, TypesOfSession DEF ReplayAnswered, TypeOK
    <2>2. /\ loop' \in Loops
          /\ compared' \in [ir : Seq(Steps), c : Seq(Steps)]
        BY <1>10, <2>1, ReceiveTypes DEF ReplayAnswered
    <2> QED BY <1>10, <2>1, <2>2 DEF ReplayAnswered, TypeOK, Loops
<1>11. CASE ReplayLost \/ Attached
    <2>1. loop' \in Loops
        BY <1>11, DetachedTyped, TypesOfSession DEF ReplayLost, Attached, Drop
    <2>2. handle' \in [cycle : Nat, c_columns : BOOLEAN]
        <3>1. handle' = handle \/ handle' = [handle EXCEPT !.c_columns = TRUE]
            BY <1>11 DEF ReplayLost, Attached
        <3> QED BY <3>1 DEF TypeOK
    <2>3. at' = 1 /\ Len(history) \in Nat
        BY <1>11, TypesOfSession DEF ReplayLost, Attached
    <2>4. /\ UNCHANGED <<sim, cycle, history, history_full, req, compared>>
          /\ pc' = "idle"
        BY <1>11 DEF ReplayLost, Attached
    <2> QED BY <2>1, <2>2, <2>3, <2>4 DEF TypeOK, Loops
<1>12. CASE UNCHANGED vars
    BY <1>12 DEF vars, TypeOK
<1> QED BY <1>1, <1>2, <1>3, <1>4, <1>5, <1>6, <1>7, <1>8, <1>9, <1>10, <1>11, <1>12
        DEF Next, Thread

(* The session's state keeps its types, the replay index its bounds.       *)
THEOREM TypeCorrect == Spec => []TypeOK
<1>1. Init => TypeOK /\ CountersOK
    BY InitTypes
<1>2. TypeOK /\ CountersOK /\ [Next]_vars => TypeOK' /\ CountersOK'
    BY TypeStep
<1> QED BY <1>1, <1>2, PTL DEF Spec
-------------------------------------------------------------------------------
(* What the reply adds to the handle is what the thread ran since.         *)
LEMMA HandleStep ==
    ASSUME TypeOK, HandleCounts, [Next]_vars
    PROVE  HandleCounts'
<1> USE DEF HandleCounts, Running
<1>0. /\ req \in [left : Nat, ran : Nat, line : Inputs] /\ cycle \in Nat
      /\ handle \in [cycle : Nat, c_columns : BOOLEAN] /\ loop \in Loops
      /\ pc \in {"idle", "run", "record", "wait", "replay", "replaying"}
    BY DEF TypeOK, Loops
<1>9. ~Detached.on
    BY DEF Detached
<1>1. CASE RunRequest
    <2>1. req'.ran = 0 /\ pc = "idle" /\ pc' = "run" /\ UNCHANGED <<cycle, loop, handle>>
        BY <1>0, <1>1 DEF RunRequest
    <2> QED BY <1>0, <2>1
<1>2. CASE RowRefused \/ StepFails
    <2>1. /\ pc = "run" /\ UNCHANGED <<cycle, loop>>
          /\ \/ ReplyRun(req.ran, FALSE)
             \/ pc' = pc /\ handle' = handle /\ req'.ran = req.ran
        BY <1>0, <1>2 DEF RowRefused, StepFails
    <2>2. CASE ReplyRun(req.ran, FALSE)
        <3>1. pc' = "idle" /\ handle'.cycle = handle.cycle + req.ran
              /\ (handle.c_columns => handle'.c_columns)
            BY <2>2 DEF ReplyRun
        <3> QED BY <2>1, <3>1
    <2> QED BY <2>1, <2>2
<1>3. CASE Simulate
    <2>1. /\ pc = "run" /\ pc' \in {"wait", "record"} /\ UNCHANGED <<cycle, handle>>
          /\ req'.ran = req.ran /\ loop'.on = loop.on
        BY <1>0, <1>3 DEF Simulate, Loops
    <2> QED BY <2>1
<1>4. CASE RowAlone \/ Answered \/ Lost
    <2>1. PICK lost \in BOOLEAN : EndOfRow(lost) /\ (lost => ~loop'.on) /\ (loop'.on => loop.on)
        <3>1. CASE RowAlone
            BY <3>1 DEF RowAlone
        <3>2. CASE Answered
            <4>1. loop'.on = loop.on
                BY <1>0, <3>2 DEF Answered, Receive, Loops
            <4> QED BY <3>2, <4>1 DEF Answered
        <3>3. CASE Lost
            <4>1. ~loop'.on
                BY <1>9, <3>3 DEF Lost, Drop
            <4> QED BY <3>3, <4>1 DEF Lost
        <3> QED BY <1>4, <3>1, <3>2, <3>3
    <2>2. pc \in Running /\ pc # "run"
        BY <1>4 DEF RowAlone, Answered, Lost
    <2>3. CASE ReplyRun(req.ran + 1, lost)
        <3>1. pc' = "idle" /\ handle'.cycle = handle.cycle + (req.ran + 1)
              /\ (handle.c_columns /\ ~lost => handle'.c_columns)
            BY <2>3 DEF ReplyRun
        <3> QED BY <1>0, <2>1, <2>2, <3>1 DEF EndOfRow
    <2>4. CASE /\ pc' = "run" /\ handle' = handle
               /\ req' = [req EXCEPT !.left = @ - 1, !.ran = @ + 1]
        <3>1. req'.ran = req.ran + 1
            BY <1>0, <2>4
        <3> QED BY <1>0, <2>1, <2>2, <2>4, <3>1 DEF EndOfRow
    <2> QED BY <2>1, <2>3, <2>4 DEF EndOfRow
<1>5. CASE ProgramAnswers \/ ProgramDies
    <2>1. loop'.on = loop.on /\ UNCHANGED <<cycle, pc, req, handle>>
        BY <1>0, <1>5 DEF ProgramAnswers, ProgramDies, Loops
    <2> QED BY <2>1
<1>6. CASE SpawnFails \/ Detach
    <2>1. handle' = handle \/ handle' = [handle EXCEPT !.c_columns = FALSE]
        BY <1>6 DEF SpawnFails, Detach
    <2>2. handle'.cycle = handle.cycle
        BY <1>0, <2>1
    <2>3. pc = "idle" /\ pc' = "idle" /\ cycle' = cycle /\ ~loop'.on
        BY <1>6, <1>9 DEF SpawnFails, Detach, MayAttach
    <2> QED BY <2>2, <2>3
<1>7. CASE Spawn \/ ReplaySend \/ ReplayAnswered
    <2>1. pc \notin Running /\ pc' \in {"replay", "replaying"}
        BY <1>7 DEF Spawn, ReplaySend, ReplayAnswered, MayAttach
    <2>2. cycle' = cycle /\ handle' = handle
        BY <1>7 DEF Spawn, ReplaySend, ReplayAnswered
    <2> QED BY <2>1, <2>2
<1>10. CASE ReplayLost
    <2>1. ~loop'.on
        BY <1>9, <1>10 DEF ReplayLost, Drop
    <2>2. pc \notin Running /\ pc' = "idle" /\ cycle' = cycle /\ handle' = handle
        BY <1>10 DEF ReplayLost
    <2> QED BY <2>1, <2>2
<1>11. CASE Attached
    <2>1. handle' = [handle EXCEPT !.c_columns = TRUE]
        BY <1>11 DEF Attached
    <2>2. handle'.c_columns /\ handle'.cycle = handle.cycle
        BY <1>0, <2>1
    <2>3. pc \notin Running /\ pc' = "idle" /\ cycle' = cycle
        BY <1>11 DEF Attached
    <2> QED BY <2>2, <2>3
<1>8. CASE UNCHANGED vars
    BY <1>8 DEF vars
<1> QED BY <1>1, <1>2, <1>3, <1>4, <1>5, <1>6, <1>7, <1>8, <1>10, <1>11 DEF Next, Thread

(* Whatever failed, timed out or died before.                              *)
LEMMA HandleInvariant == Spec => []HandleCounts
<1>1. Init => TypeOK /\ CountersOK /\ HandleCounts
    BY InitTypes
<1>2. TypeOK /\ CountersOK /\ HandleCounts /\ [Next]_vars => TypeOK' /\ CountersOK' /\ HandleCounts'
    BY TypeStep, HandleStep
<1> QED BY <1>1, <1>2, PTL DEF Spec
-------------------------------------------------------------------------------
LEMMA InitSession == Init => SessionInv
<1> SUFFICES ASSUME Init PROVE SessionInv
    OBVIOUS
<1>1. sim = << >> /\ history = << >> /\ cycle = 0 /\ pc = "idle" /\ history_full = FALSE
    BY DEF Init
<1>2. Len(sim) = 0 /\ Len(history) = 0
    BY <1>1
<1>3. HistoryIsPrefix
    BY <1>1, <1>2 DEF HistoryIsPrefix
<1>4. ~loop.on /\ ~loop.up
    BY DEF Init, Detached
<1>5. LoopFollows
    BY <1>1, <1>4 DEF LoopFollows
<1>6. ComparesSameState
    BY DEF Init, Nothing, ComparesSameState
<1> QED BY <1>3, <1>5, <1>6 DEF SessionInv

(* A row is recorded where its cycle is: the history was complete if there *)
(* is room in it.                                                          *)
LEMMA RecordStep ==
    ASSUME TypeOK, HistoryIsPrefix, NEW lost \in BOOLEAN,
           pc \in {"record", "wait"}, EndOfRow(lost), pc' \in {"idle", "run"}
    PROVE  HistoryIsPrefix'
<1> DEFINE row == [line |-> req.line, ir |-> sim]
<1>1. /\ sim \in Seq(Steps) /\ history \in Seq(Rows) /\ cycle \in Nat
      /\ row \in Rows /\ HistoryMax \in Nat
    BY InputKinds DEF TypeOK, Rows
<1>2. /\ Len(sim) = cycle + 1 /\ Len(history) \in Nat /\ Len(history) <= cycle
      /\ sim[cycle + 1] = Whole(req.line)
      /\ \A k \in 1 .. Len(history) :
            sim[k] = Whole(history[k].line) /\ history[k].ir = SubSeq(sim, 1, k)
    BY <1>1, LenProperties DEF HistoryIsPrefix
<1>3. sim' = sim /\ cycle' = cycle + 1
    BY DEF EndOfRow
<1>4. CASE Len(history) < HistoryMax
    <2>1. Len(history) = cycle /\ ~history_full
        BY <1>1, <1>2, <1>4 DEF HistoryIsPrefix
    <2>2. history' = Append(history, row) /\ history_full' = history_full
        BY <1>4 DEF EndOfRow, Record
    <2>3. /\ Len(history') = cycle + 1 /\ history'[cycle + 1] = row
          /\ \A k \in 1 .. cycle : history'[k] = history[k]
        BY <1>1, <2>1, <2>2, AppendProperties
    <2>4. row.line = req.line /\ row.ir = SubSeq(sim, 1, cycle + 1)
        BY <1>1, <1>2, SubSeqFull
    <2>5. ASSUME NEW k \in 1 .. Len(history')
          PROVE  sim[k] = Whole(history'[k].line) /\ history'[k].ir = SubSeq(sim, 1, k)
        <3>1. CASE k = cycle + 1
            BY <1>2, <2>3, <2>4, <3>1
        <3>2. CASE k \in 1 .. cycle
            BY <1>2, <2>1, <2>3, <3>2
        <3> QED BY <1>1, <2>3, <3>1, <3>2
    <2> QED BY <1>1, <1>2, <1>3, <2>1, <2>2, <2>3, <2>5 DEF HistoryIsPrefix
<1>5. CASE ~(Len(history) < HistoryMax)
    <2>1. history' = history /\ history_full' = TRUE
        BY <1>5 DEF EndOfRow, Record
    <2> QED BY <1>1, <1>2, <1>3, <1>5, <2>1 DEF HistoryIsPrefix
<1> QED BY <1>4, <1>5

LEMMA HistoryStep ==
    ASSUME CyclesAreWhole, TypeOK, CountersOK, HistoryIsPrefix, [Next]_vars
    PROVE  HistoryIsPrefix'
<1>0. sim \in Seq(Steps) /\ Len(sim) \in Nat /\ cycle \in Nat
    BY LenProperties DEF TypeOK
<1>1. CASE /\ UNCHANGED <<sim, cycle, history, history_full>>
           /\ pc' \notin {"record", "wait"} /\ pc \notin {"record", "wait"}
    BY <1>1 DEF HistoryIsPrefix
<1>2. CASE /\ UNCHANGED <<sim, cycle, history, history_full>>
           /\ UNCHANGED <<pc, req>>
    BY <1>2 DEF HistoryIsPrefix
<1>3. CASE RunRequest \/ RowRefused
    BY <1>1, <1>3 DEF RunRequest, RowRefused, ReplyRun
<1>4. CASE StepFails
    <2>1. sim' = sim
        BY <1>4 DEF StepFails, CyclesAreWhole
    <2> QED BY <1>1, <1>4, <2>1 DEF StepFails, ReplyRun
<1>5. CASE Simulate
    <2>1. PICK x \in Fine : sim' = Append(sim, Whole(x)) /\ req' = [req EXCEPT !.line = x]
        BY <1>5 DEF Simulate
    <2>2. Whole(x) \in Steps /\ req'.line = x
        BY <2>1, StepsOfInputs DEF Fine, TypeOK
    <2>3. Len(sim) = cycle /\ Len(history) <= cycle /\ Len(history) \in Nat
        BY <1>5, TypesOfSession DEF Simulate, HistoryIsPrefix
    <2>4. Len(sim') = cycle + 1 /\ sim'[cycle + 1] = Whole(x)
          /\ \A k \in 1 .. cycle : sim'[k] = sim[k]
        BY <1>0, <2>1, <2>2, <2>3, AppendProperties
    <2>5. \A k \in 1 .. cycle : SubSeq(sim', 1, k) = SubSeq(sim, 1, k)
        BY <1>0, <2>1, <2>2, <2>3, PrefixFacts
    <2>6. UNCHANGED <<cycle, history, history_full>> /\ pc' \in {"wait", "record"}
        BY <1>5 DEF Simulate
    <2>7. \A k \in 1 .. Len(history) :
             sim[k] = Whole(history[k].line) /\ history[k].ir = SubSeq(sim, 1, k)
        BY DEF HistoryIsPrefix
    <2>8. \A k \in 1 .. Len(history) : k \in 1 .. cycle
        BY <1>0, <2>3
    <2>9. \A k \in 1 .. Len(history') :
             sim'[k] = Whole(history'[k].line) /\ history'[k].ir = SubSeq(sim', 1, k)
        BY <2>4, <2>5, <2>6, <2>7, <2>8
    <2>10. IF history_full THEN Len(history) >= HistoryMax ELSE Len(history) = cycle
        BY DEF HistoryIsPrefix
    <2> QED BY <2>2, <2>3, <2>4, <2>6, <2>9, <2>10 DEF HistoryIsPrefix
<1>6. CASE RowAlone \/ Answered \/ Lost
    <2>1. PICK lost \in BOOLEAN : EndOfRow(lost) /\ pc \in {"record", "wait"}
        BY <1>6 DEF RowAlone, Answered, Lost
    <2>2. pc' \in {"idle", "run"}
        BY <2>1 DEF EndOfRow, ReplyRun
    <2> QED BY <2>1, <2>2, RecordStep
<1>7. CASE ProgramAnswers \/ ProgramDies
    BY <1>2, <1>7 DEF ProgramAnswers, ProgramDies
<1>8. CASE SpawnFails \/ Spawn \/ Detach
    BY <1>1, <1>8 DEF SpawnFails, Spawn, Detach, MayAttach
<1>9. CASE ReplaySend \/ ReplayAnswered \/ ReplayLost \/ Attached
    BY <1>1, <1>9 DEF ReplaySend, ReplayAnswered, ReplayLost, Attached
<1>10. CASE UNCHANGED vars
    BY <1>2, <1>10 DEF vars
<1> QED BY <1>3, <1>4, <1>5, <1>6, <1>7, <1>8, <1>9, <1>10 DEF Next, Thread

(* The C after a line: it has run it if it has answered.                   *)
LEMMA FedAnswers ==
    ASSUME NEW done, NEW x, Fed(done, x), loop.answers # << >>,
           NEW ir, Receive(ir), TypeOK
    PROVE  /\ loop'.ran = Append(done, Whole(x)) /\ loop'.stdin = << >> /\ loop'.answers = << >>
           /\ compared' = [ir |-> ir, c |-> Append(done, Whole(x))]
           /\ loop'.on = loop.on /\ loop'.up = loop.up
<1>1. /\ loop.ran = Append(done, Whole(x)) /\ loop.stdin = << >>
      /\ loop.answers = <<Append(done, Whole(x))>>
    BY DEF Fed
<1>2. Head(loop.answers) = Append(done, Whole(x)) /\ Tail(loop.answers) = << >>
    BY <1>1, HeadTailProperties
<1>3. loop' = [loop EXCEPT !.answers = << >>] /\ loop \in Loops
    BY <1>2, TypesOfSession DEF Receive
<1>4. loop'.answers = << >> /\ loop'.ran = loop.ran /\ loop'.stdin = loop.stdin
      /\ loop'.on = loop.on /\ loop'.up = loop.up
    BY <1>3 DEF Loops
<1> QED BY <1>1, <1>2, <1>4 DEF Receive
(* Where the C is, as the thread and the program take turns.               *)
LEMMA LoopStep ==
    ASSUME CyclesAreWhole, TypeOK, CountersOK, SessionInv, [Next]_vars
    PROVE  LoopFollows' /\ ComparesSameState'
<1> USE DEF SessionInv
<1>0. /\ sim \in Seq(Steps) /\ Len(sim) \in Nat /\ cycle \in Nat /\ loop \in Loops
      /\ Len(history) \in Nat /\ Len(history) <= cycle /\ at \in 1 .. Len(history) + 1
      /\ req \in [left : Nat, ran : Nat, line : Inputs]
      /\ pc \in {"idle", "run", "record", "wait", "replay", "replaying"}
    BY LenProperties, TypesOfSession DEF TypeOK, HistoryIsPrefix
<1>a. ~Detached.on /\ ~Detached.up
    BY DEF Detached
<1>b. SubSeq(sim, 1, Len(sim)) = sim /\ SubSeq(sim, 1, 0) = << >>
    BY <1>0, SubSeqFull, SubSeqEmpty
<1>1. CASE RunRequest \/ RowRefused \/ StepFails
    <2>1. pc \in {"idle", "run"} /\ pc' \in {"idle", "run"} /\ UNCHANGED <<sim, loop, compared>>
        BY <1>1 DEF RunRequest, RowRefused, StepFails, ReplyRun, CyclesAreWhole
    <2>2. LoopFollows'
        BY <2>1 DEF LoopFollows, Quiet
    <2> QED BY <2>1, <2>2 DEF ComparesSameState
<1>2. CASE Simulate
    <2>1. PICK x \in Fine :
              /\ sim' = Append(sim, Whole(x))
              /\ req' = [req EXCEPT !.line = x]
              /\ IF loop.on
                 THEN pc' = "wait" /\ loop' = [loop EXCEPT !.stdin = Append(@, x)]
                 ELSE pc' = "record" /\ UNCHANGED loop
        BY <1>2 DEF Simulate
    <2>2. req'.line = x /\ Len(sim) = cycle /\ Whole(x) \in Steps
        BY <1>0, <1>2, <2>1, StepsOfInputs DEF Simulate, HistoryIsPrefix, Fine
    <2>3. SubSeq(sim', 1, cycle) = sim
        BY <1>0, <1>b, <2>1, <2>2, PrefixFacts
    <2>4. pc = "run" /\ UNCHANGED <<cycle, compared>>
        BY <1>2 DEF Simulate
    <2>5. CASE loop.on
        <3>1. loop.ran = sim /\ loop.stdin = << >> /\ loop.answers = << >>
            BY <2>4, <2>5 DEF LoopFollows, Quiet
        <3>2. Append(loop.stdin, x) = <<x>>
            BY <3>1, <2>1
        <3>3. /\ loop'.ran = sim /\ loop'.stdin = <<x>> /\ loop'.answers = << >>
              /\ loop'.on /\ pc' = "wait"
            BY <1>0, <2>1, <2>5, <3>1, <3>2 DEF Loops
        <3>4. Fed(SubSeq(sim, 1, cycle), req.line)'
            BY <2>2, <2>3, <2>4, <3>3 DEF Fed
        <3>5. LoopFollows'
            BY <3>3, <3>4 DEF LoopFollows
        <3> QED BY <2>4, <3>5 DEF ComparesSameState
    <2>6. CASE ~loop.on
        <3>1. ~loop'.on /\ ~loop'.up /\ pc' = "record"
            BY <2>1, <2>6 DEF LoopFollows
        <3>2. LoopFollows'
            BY <3>1 DEF LoopFollows
        <3> QED BY <2>4, <3>2 DEF ComparesSameState
    <2> QED BY <2>5, <2>6
<1>3. CASE RowAlone \/ Lost
    <2>1. pc' \in {"idle", "run"} /\ UNCHANGED compared
        BY <1>3 DEF RowAlone, Lost, EndOfRow, ReplyRun
    <2>2. ~loop'.on /\ ~loop'.up
        BY <1>3, <1>a DEF RowAlone, Lost, Drop, LoopFollows
    <2>3. LoopFollows'
        BY <2>1, <2>2 DEF LoopFollows
    <2> QED BY <2>1, <2>3 DEF ComparesSameState
<1>4. CASE Answered
    <2>1. /\ Fed(SubSeq(sim, 1, cycle), req.line) /\ loop.on /\ Receive(sim)
          /\ loop.answers # << >> /\ pc = "wait"
        BY <1>4 DEF Answered, Receive, LoopFollows
    <2>2. pc' \in {"idle", "run"} /\ sim' = sim
        BY <1>4 DEF Answered, EndOfRow, ReplyRun
    <2>3. Append(SubSeq(sim, 1, cycle), Whole(req.line)) = sim
        <3>1. Len(sim) = cycle + 1 /\ sim[Len(sim)] = Whole(req.line) /\ Whole(req.line) \in Steps
            BY <1>0, <2>1, StepsOfInputs DEF HistoryIsPrefix
        <3>2. SubSeq(sim, 1, cycle + 1) = Append(SubSeq(sim, 1, (cycle + 1) - 1), sim[cycle + 1])
            BY <1>0, <3>1, PrefixFacts
        <3> QED BY <1>0, <1>b, <3>1, <3>2
    <2>4. /\ loop'.ran = sim /\ loop'.stdin = << >> /\ loop'.answers = << >>
          /\ compared' = [ir |-> sim, c |-> sim] /\ loop'.on
        BY <2>1, <2>3, FedAnswers
    <2>5. LoopFollows'
        BY <2>2, <2>4 DEF LoopFollows, Quiet
    <2> QED BY <2>4, <2>5 DEF ComparesSameState
<1>5. CASE ProgramAnswers
    <2>1. /\ loop.up /\ loop.stdin # << >> /\ loop.on
          /\ UNCHANGED <<sim, cycle, history, history_full, pc, req, at, compared>>
        BY <1>5 DEF ProgramAnswers, LoopFollows
    <2>2. ASSUME NEW done, NEW x, Fed(done, x)
          PROVE  /\ loop'.ran = Append(done, Whole(x)) /\ loop'.stdin = << >>
                 /\ loop'.answers = <<Append(done, Whole(x))>>
                 /\ loop'.on
        <3>1. loop.ran = done /\ loop.stdin = <<x>> /\ loop.answers = << >>
            BY <2>1, <2>2 DEF Fed
        <3>2. Head(loop.stdin) = x /\ Tail(loop.stdin) = << >>
            BY <3>1, HeadTailProperties
        <3>3. Append(loop.answers, Append(done, Whole(x))) = <<Append(done, Whole(x))>>
            BY <3>1
        <3>4. loop' = [loop EXCEPT !.stdin = << >>, !.ran = Append(done, Whole(x)),
                           !.answers = <<Append(done, Whole(x))>>]
            BY <1>5, <3>1, <3>2, <3>3 DEF ProgramAnswers
        <3> QED BY <1>0, <2>1, <3>4 DEF Loops
    <2>3. pc \in {"wait", "replaying"}
        BY <1>0, <2>1 DEF LoopFollows, Quiet
    <2>4. CASE pc = "wait"
        <3>1. Fed(SubSeq(sim, 1, cycle), req.line)'
            BY <2>1, <2>2, <2>4 DEF LoopFollows, Fed
        <3>2. LoopFollows'
            BY <2>1, <2>2, <2>4, <3>1 DEF LoopFollows
        <3> QED BY <2>1, <3>2 DEF ComparesSameState
    <2>5. CASE pc = "replaying"
        <3>1. Fed(SubSeq(sim, 1, at - 1), history[at].line)'
            BY <2>1, <2>2, <2>5, ZenonT(60) DEF LoopFollows, Fed
        <3>2. LoopFollows'
            BY <2>1, <2>2, <2>5, <3>1 DEF LoopFollows
        <3> QED BY <2>1, <3>2 DEF ComparesSameState
    <2> QED BY <2>3, <2>4, <2>5
<1>6. CASE ProgramDies \/ UNCHANGED vars
    <2>1. UNCHANGED <<sim, cycle, history, history_full, pc, req, at, compared>>
        BY <1>6 DEF ProgramDies, vars
    <2>2. /\ loop'.on = loop.on /\ loop'.up \in {FALSE, loop.up} /\ loop'.ran = loop.ran
          /\ loop'.stdin = loop.stdin /\ loop'.answers = loop.answers
        BY <1>0, <1>6 DEF ProgramDies, vars, Loops
    <2>3. LoopFollows'
        BY <2>1, <2>2 DEF LoopFollows, Quiet, Fed
    <2> QED BY <2>1, <2>3 DEF ComparesSameState
<1>7. CASE SpawnFails \/ Detach \/ ReplayLost
    <2>1. loop' = Detached /\ pc' = "idle" /\ UNCHANGED compared
        BY <1>7 DEF SpawnFails, Detach, ReplayLost, Drop, MayAttach
    <2>2. LoopFollows'
        BY <1>a, <2>1 DEF LoopFollows
    <2> QED BY <2>1, <2>2 DEF ComparesSameState
<1>8. CASE Spawn
    <2>1. /\ loop' = Spawned /\ pc' = "replay" /\ at' = 1 /\ ~history_full
          /\ UNCHANGED <<sim, history_full, compared>>
        BY <1>8 DEF Spawn, MayAttach, FirstReplayed
    <2>2. /\ loop'.on /\ loop'.ran = << >> /\ loop'.stdin = << >> /\ loop'.answers = << >>
        BY <2>1 DEF Spawned, Detached
    <2>3. SubSeq(sim', 1, at' - 1) = << >>
        BY <1>b, <2>1
    <2>4. LoopFollows'
        BY <2>1, <2>2, <2>3 DEF LoopFollows, Quiet
    <2> QED BY <2>1, <2>4 DEF ComparesSameState
<1>9. CASE ReplaySend
    <2>1. /\ pc = "replay" /\ pc' = "replaying"
          /\ loop' = [loop EXCEPT !.stdin = Append(@, history[at].line)]
          /\ UNCHANGED <<sim, history, history_full, at, compared>>
        BY <1>9 DEF ReplaySend
    <2>2. /\ loop.ran = SubSeq(sim, 1, at - 1) /\ loop.stdin = << >> /\ loop.answers = << >>
          /\ loop.on /\ ~history_full
        BY <2>1 DEF LoopFollows, Quiet
    <2>3. Append(loop.stdin, history[at].line) = <<history[at].line>>
        BY <2>2
    <2>4. /\ loop'.ran = SubSeq(sim, 1, at - 1) /\ loop'.stdin = <<history[at].line>>
          /\ loop'.answers = << >> /\ loop'.on
        BY <1>0, <2>1, <2>2, <2>3 DEF Loops
    <2>5. Fed(SubSeq(sim, 1, at - 1), history[at].line)'
        BY <2>1, <2>4 DEF Fed
    <2>6. LoopFollows'
        BY <2>1, <2>2, <2>4, <2>5 DEF LoopFollows
    <2> QED BY <2>1, <2>6 DEF ComparesSameState
<1>10. CASE ReplayAnswered
    <2>1. /\ pc = "replaying" /\ pc' = "replay" /\ at' = at + 1 /\ Receive(history[at].ir)
          /\ loop.answers # << >> /\ UNCHANGED <<sim, history_full>>
        BY <1>10 DEF ReplayAnswered, Receive
    <2>2. Fed(SubSeq(sim, 1, at - 1), history[at].line) /\ loop.on /\ ~history_full
        BY <2>1 DEF LoopFollows
    <2>3. at \in 1 .. Len(history) /\ Len(sim) = cycle
        BY <1>0, <2>1 DEF CountersOK, HistoryIsPrefix
    <2>4. sim[at] = Whole(history[at].line) /\ history[at].ir = SubSeq(sim, 1, at)
        BY <2>3 DEF HistoryIsPrefix
    <2>5. SubSeq(sim, 1, at) = Append(SubSeq(sim, 1, at - 1), Whole(history[at].line))
        <3>1. at \in 1 .. Len(sim) /\ Whole(history[at].line) \in Steps
            BY <1>0, <2>3, StepsOfInputs, TypesOfSession
        <3> QED BY <1>0, <2>4, <3>1, PrefixFacts
    <2>6. /\ loop'.ran = SubSeq(sim, 1, at) /\ loop'.stdin = << >> /\ loop'.answers = << >>
          /\ compared' = [ir |-> SubSeq(sim, 1, at), c |-> SubSeq(sim, 1, at)] /\ loop'.on
        <3> DEFINE ran == Append(SubSeq(sim, 1, at - 1), Whole(history[at].line))
        <3>1. /\ loop'.ran = ran /\ loop'.stdin = << >> /\ loop'.answers = << >>
              /\ compared' = [ir |-> history[at].ir, c |-> ran] /\ loop'.on
            <4> HIDE DEF ran
            <4>1. ran = Append(SubSeq(sim, 1, at - 1), Whole(history[at].line))
                BY DEF ran
            <4> QED BY <2>1, <2>2, <4>1, FedAnswers
        <3> QED BY <2>4, <2>5, <3>1
    <2>7. SubSeq(sim', 1, at' - 1) = SubSeq(sim, 1, at)
        BY <1>0, <2>1
    <2>8. LoopFollows'
        BY <2>1, <2>2, <2>6, <2>7 DEF LoopFollows, Quiet
    <2> QED BY <2>6, <2>8 DEF ComparesSameState
<1>11. CASE Attached
    <2>1. /\ pc = "replay" /\ pc' = "idle" /\ at > Len(history)
          /\ UNCHANGED <<sim, loop, compared>>
        BY <1>11 DEF Attached
    <2>2. /\ loop.ran = SubSeq(sim, 1, at - 1) /\ loop.stdin = << >> /\ loop.answers = << >>
          /\ ~history_full
        BY <2>1 DEF LoopFollows, Quiet
    <2>3. at - 1 = Len(sim)
        BY <1>0, <2>1, <2>2 DEF HistoryIsPrefix
    <2>4. LoopFollows'
        BY <1>b, <2>1, <2>2, <2>3 DEF LoopFollows, Quiet
    <2> QED BY <2>1, <2>4 DEF ComparesSameState
<1> QED BY <1>1, <1>2, <1>3, <1>4, <1>5, <1>6, <1>7, <1>8, <1>9, <1>10, <1>11 DEF Next, Thread

LEMMA SessionInvariant ==
    ASSUME CyclesAreWhole
    PROVE  Spec => [](TypeOK /\ SessionInv)
<1>1. Init => TypeOK /\ CountersOK /\ SessionInv
    BY InitTypes, InitSession
<1>2. TypeOK /\ CountersOK /\ SessionInv /\ [Next]_vars
          => TypeOK' /\ CountersOK' /\ SessionInv'
    BY TypeStep, HistoryStep, LoopStep DEF SessionInv
<1> QED BY <1>1, <1>2, PTL DEF Spec

(* What is compared ran the same cycles in the simulator and in the C,     *)
(* through every attach, replay, loss of the program and refused row.      *)
THEOREM WhatIsComparedRanTheSame ==
    ASSUME CyclesAreWhole
    PROVE  Spec => []ComparesSameState
<1>1. SessionInv => ComparesSameState
    BY DEF SessionInv
<1> QED BY <1>1, SessionInvariant, PTL

(* Between commands a program in the loop has run the whole session and    *)
(* owes no answer.                                                         *)
THEOREM AttachedProgramIsInStep ==
    ASSUME CyclesAreWhole
    PROVE  Spec => []AttachedInStep
<1>1. SessionInv => AttachedInStep
    BY DEF SessionInv, LoopFollows, Quiet, AttachedInStep
<1> QED BY <1>1, SessionInvariant, PTL

(* The rows kept are the session's first cycles, with what the simulator   *)
(* showed for each: replaying them is replaying the session.               *)
THEOREM HistoryIsTheSession ==
    ASSUME CyclesAreWhole
    PROVE  Spec => []HistoryReplays
<1>1. TypeOK /\ SessionInv => HistoryReplays
    <2> SUFFICES ASSUME TypeOK, SessionInv PROVE HistoryReplays
        OBVIOUS
    <2>1. DOMAIN history = 1 .. Len(history)
        BY LenProperties, TypesOfSession
    <2> QED BY <2>1 DEF SessionInv, HistoryIsPrefix, HistoryReplays
<1> QED BY <1>1, SessionInvariant, PTL

(* What the server shows as the session's cycle is the number of cycles    *)
(* the simulator ran, and that the program in the loop ran, with those it  *)
(* was replayed when it was attached.                                      *)
THEOREM HandleIsInStep ==
    ASSUME CyclesAreWhole
    PROVE  Spec => []HandleInStep
<1>1. HistoryIsPrefix /\ HandleCounts /\ pc = "idle" => handle.cycle = Len(sim)
    BY DEF HistoryIsPrefix, HandleCounts, Running
<1>2. LoopFollows /\ HandleCounts /\ pc = "idle" /\ loop.on => loop.ran = sim /\ handle.c_columns
    BY DEF LoopFollows, Quiet, HandleCounts
<1>3. SessionInv /\ HandleCounts => HandleInStep
    BY <1>1, <1>2 DEF SessionInv, HandleInStep
<1> QED BY <1>3, SessionInvariant, HandleInvariant, PTL
===============================================================================
