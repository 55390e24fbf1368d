------------------------------ MODULE LoopSession ------------------------------
(***************************************************************************)
(* One simulation session with the generated C in the loop: the session's  *)
(* thread (Runner of sim_session.rs), the compiled program it feeds a line *)
(* a cycle (CLoop), and the handle the server keeps (SimSession).          *)
(*                                                                         *)
(* The state of the simulator, and of the C, is the sequence of cycles it  *)
(* has run: two of them that ran the same cycles agree (module Backends).  *)
(* A cycle the simulator gave up in the middle of is marked "part".        *)
(***************************************************************************)
EXTENDS Naturals, Sequences, SequencesExt

CONSTANTS
    Inputs,          \* inputs of one cycle, already parsed
    FailEarly,       \* inputs on which step_env fails with nothing stepped
    FailLate,        \* inputs on which it fails after stepping a call
    ObserverFails,   \* inputs whose cycle is whole but whose contract check fails
    HistoryMax,      \* HISTORY_MAX
    MaxCycles        \* bound on the cycles asked for

ASSUME InputKinds ==
    /\ FailEarly \cup FailLate \cup ObserverFails \subseteq Inputs
    /\ HistoryMax \in Nat /\ MaxCycles \in Nat

VARIABLES
    sim,           \* cycles the simulator ran
    cycle,         \* Runner.cycle
    history,       \* Runner.history: input line and simulator cells of a cycle
    history_full,  \* Runner.history_full
    loop,          \* Runner.c with its process and its pipes
    pc,            \* idle, or what the session's thread is doing for a command
    req,           \* the run under way: cycles left, cycles run, current input
    at,            \* next history row to replay in an attach
    handle,        \* SimSession: cycle, and whether c_columns is Some
    compared       \* the last comparison: what the simulator and the C had run

vars == <<sim, cycle, history, history_full, loop, pc, req, at, handle, compared>>

Whole(x) == <<x, "whole">>
Part(x) == <<x, "part">>
Fine == Inputs \ (FailEarly \cup FailLate \cup ObserverFails)

Detached == [on |-> FALSE, up |-> FALSE, stdin |-> << >>, ran |-> << >>, answers |-> << >>]
Spawned == [Detached EXCEPT !.on = TRUE, !.up = TRUE]
Nothing == [ir |-> << >>, c |-> << >>]
NoRun(x) == [left |-> 0, ran |-> 0, line |-> x]

Init ==
    /\ sim = << >> /\ cycle = 0 /\ history = << >> /\ history_full = FALSE
    /\ loop = Detached
    /\ pc = "idle"
    /\ \E x \in Inputs : req = NoRun(x)
    /\ at = 1
    /\ handle = [cycle |-> 0, c_columns |-> FALSE]
    /\ compared = Nothing
-------------------------------------------------------------------------------
\* Mutant: the handle forgets the cycles of a run that lost the program.
ReplyForgets(ran, lost) ==
    /\ pc' = "idle"
    /\ handle' = IF lost THEN [handle EXCEPT !.c_columns = FALSE]
                 ELSE [handle EXCEPT !.cycle = @ + ran]
    /\ req' = NoRun(req.line)

(* The reply to a run: the handle counts the cycles and drops its columns  *)
(* if the program was lost.                                                *)
ReplyRun(ran, lost) ==
    /\ pc' = "idle"
    /\ handle' = [cycle |-> handle.cycle + ran,
                  c_columns |-> handle.c_columns /\ ~lost]
    /\ req' = NoRun(req.line)

\* A request never asks for more cycles than the model's bound leaves.
RunRequest ==
    /\ pc = "idle"
    /\ \E n \in 1 .. MaxCycles - Len(sim) :
        /\ pc' = "run"
        /\ req' = [req EXCEPT !.left = n, !.ran = 0]
    /\ UNCHANGED <<sim, cycle, history, history_full, loop, at, handle, compared>>

(* A value bad-data fuzzing had refused: the row says so, nothing runs.    *)
RowRefused ==
    /\ pc = "run"
    /\ IF req.left = 1 THEN ReplyRun(req.ran, FALSE)
       ELSE req' = [req EXCEPT !.left = @ - 1] /\ UNCHANGED <<pc, handle>>
    /\ UNCHANGED <<sim, cycle, history, history_full, loop, at, compared>>

(* Any Err of step_observed ends the run; rows already run stay.           *)
StepFails ==
    /\ pc = "run"
    /\ \E x \in FailEarly \cup FailLate \cup ObserverFails :
        sim' = CASE x \in FailEarly -> sim
                 [] x \in FailLate -> Append(sim, Part(x))
                 [] OTHER -> Append(sim, Whole(x))
    /\ ReplyRun(req.ran, FALSE)
    /\ UNCHANGED <<cycle, history, history_full, loop, at, compared>>

\* Mutant: rows are kept only while the C is there to be fed.
RecordForLoop(ir) ==
    IF Len(history) < HistoryMax /\ loop.on
    THEN /\ history' = Append(history, [line |-> req.line, ir |-> ir])
         /\ UNCHANGED history_full
    ELSE UNCHANGED <<history, history_full>>

Record(ir) ==
    IF Len(history) < HistoryMax
    THEN /\ history' = Append(history, [line |-> req.line, ir |-> ir])
         /\ UNCHANGED history_full
    ELSE /\ history_full' = TRUE
         /\ UNCHANGED history

(* The rest of a cycle's row: recorded, counted, and the run goes on or    *)
(* stops: on its count, the loss of the C, or a stop condition.            *)
EndOfRow(lost) ==
    /\ Record(sim)
    /\ cycle' = cycle + 1
    /\ \E stop \in BOOLEAN :
        IF stop \/ lost \/ req.left = 1
        THEN ReplyRun(req.ran + 1, lost)
        ELSE /\ pc' = "run"
             /\ req' = [req EXCEPT !.left = @ - 1, !.ran = @ + 1]
             /\ UNCHANGED handle
    /\ UNCHANGED <<sim, at>>

(* step_observed succeeds; the line goes to the C if there is one.         *)
Simulate ==
    /\ pc = "run"
    /\ \E x \in Fine :
        /\ sim' = Append(sim, Whole(x))
        /\ req' = [req EXCEPT !.line = x]
        /\ IF loop.on
           THEN /\ pc' = "wait"
                /\ loop' = [loop EXCEPT !.stdin = Append(@, x)]
           ELSE pc' = "record" /\ UNCHANGED loop
    /\ UNCHANGED <<cycle, history, history_full, at, handle, compared>>

RowAlone ==
    /\ pc = "record"
    /\ EndOfRow(FALSE)
    /\ UNCHANGED <<loop, compared>>

(* recv returns the oldest line the program printed.                       *)
Receive(ir) ==
    /\ loop.answers # << >>
    /\ compared' = [ir |-> ir, c |-> Head(loop.answers)]
    /\ loop' = [loop EXCEPT !.answers = Tail(@)]

Answered ==
    /\ pc = "wait"
    /\ Receive(sim)
    /\ EndOfRow(FALSE)

\* Mutants: the program is kept after an error; it is awaited for ever.
DropKept == UNCHANGED loop
NoAnswerWaits == loop.answers = << >> /\ ~loop.up

\* recv gives up: C_TIMEOUT passed, or the program is gone, nothing printed.
NoAnswer == loop.answers = << >>

\* Runner.c = None kills the program; what it would have printed is lost.
Drop == loop' = Detached

Lost ==
    /\ pc = "wait"
    /\ NoAnswer
    /\ Drop
    /\ EndOfRow(TRUE)
    /\ UNCHANGED compared
-------------------------------------------------------------------------------
(* The compiled program: a line in, its outputs out.  It may die, or never *)
(* answer, at any time.                                                    *)
ProgramAnswers ==
    /\ loop.up /\ loop.stdin # << >>
    /\ LET ran == Append(loop.ran, Whole(Head(loop.stdin)))
       IN  loop' = [loop EXCEPT !.stdin = Tail(@), !.ran = ran,
                                !.answers = Append(@, ran)]
    /\ UNCHANGED <<sim, cycle, history, history_full, pc, req, at, handle, compared>>

ProgramDies ==
    /\ loop.up
    /\ loop' = [loop EXCEPT !.up = FALSE]
    /\ UNCHANGED <<sim, cycle, history, history_full, pc, req, at, handle, compared>>
-------------------------------------------------------------------------------
\* Mutants: a full history is replayed all the same; rows counted from zero.
AttachAnyway == pc = "idle"
FirstReplayedZero == 0

\* attach is refused once history_full.
MayAttach == pc = "idle" /\ ~history_full
FirstReplayed == 1

(* attach: the program there is dropped first; the new one either starts   *)
(* and prints the expected columns, or the attach fails, and then the      *)
(* handle keeps the columns it had.                                        *)
SpawnFails ==
    /\ MayAttach
    /\ loop' = Detached
    /\ UNCHANGED <<sim, cycle, history, history_full, pc, req, at, handle, compared>>

Spawn ==
    /\ MayAttach
    /\ loop' = Spawned
    /\ pc' = "replay" /\ at' = FirstReplayed
    /\ UNCHANGED <<sim, cycle, history, history_full, req, handle, compared>>

ReplaySend ==
    /\ pc = "replay" /\ at <= Len(history)
    /\ loop' = [loop EXCEPT !.stdin = Append(@, history[at].line)]
    /\ pc' = "replaying"
    /\ UNCHANGED <<sim, cycle, history, history_full, req, at, handle, compared>>

ReplayAnswered ==
    /\ pc = "replaying"
    /\ Receive(history[at].ir)
    /\ at' = at + 1 /\ pc' = "replay"
    /\ UNCHANGED <<sim, cycle, history, history_full, req, handle>>

\* The program being attached is a local of attach: returning drops it.
ReplayLost ==
    /\ pc = "replaying"
    /\ NoAnswer
    /\ Drop
    /\ pc' = "idle" /\ at' = 1
    /\ UNCHANGED <<sim, cycle, history, history_full, req, handle, compared>>

Attached ==
    /\ pc = "replay" /\ at > Len(history)
    /\ pc' = "idle" /\ at' = 1
    /\ handle' = [handle EXCEPT !.c_columns = TRUE]
    /\ UNCHANGED <<sim, cycle, history, history_full, loop, req, compared>>

Detach ==
    /\ pc = "idle"
    /\ loop' = Detached
    /\ handle' = [handle EXCEPT !.c_columns = FALSE]
    /\ UNCHANGED <<sim, cycle, history, history_full, pc, req, at, compared>>
-------------------------------------------------------------------------------
Thread == RowRefused \/ StepFails \/ Simulate \/ RowAlone \/ Answered \/ Lost
          \/ ReplaySend \/ ReplayAnswered \/ ReplayLost \/ Attached

Next == RunRequest \/ SpawnFails \/ Spawn \/ Detach
        \/ Thread \/ ProgramAnswers \/ ProgramDies

Spec == Init /\ [][Next]_vars

(* The session's thread is scheduled, and recv_timeout returns.  Nothing   *)
(* is assumed of the program or of the client.                             *)
FairSpec == Spec /\ WF_vars(Thread)
-------------------------------------------------------------------------------
Steps == Inputs \X {"whole", "part"}

TypeOK ==
    /\ sim \in Seq(Steps)
    /\ cycle \in Nat
    /\ history \in Seq([line : Inputs, ir : Seq(Steps)])
    /\ history_full \in BOOLEAN
    /\ loop \in [on : BOOLEAN, up : BOOLEAN, stdin : Seq(Inputs),
                 ran : Seq(Steps), answers : Seq(Seq(Steps))]
    /\ pc \in {"idle", "run", "record", "wait", "replay", "replaying"}
    /\ req \in [left : Nat, ran : Nat, line : Inputs]
    /\ at \in 1 .. Len(history) + 1
    /\ handle \in [cycle : Nat, c_columns : BOOLEAN]
    /\ compared \in [ir : Seq(Steps), c : Seq(Steps)]

(* Whatever is compared ran the same cycles in the simulator and in the C, *)
(* so a difference shown is a difference between model and code.           *)
ComparesSameState == compared.ir = compared.c

(* Between commands the attached program has run the whole session, and    *)
(* has nothing left to say.                                                *)
AttachedInStep ==
    pc = "idle" /\ loop.on =>
        loop.ran = sim /\ loop.stdin = << >> /\ loop.answers = << >>

(* The history is the session, or its beginning once it is full: its lines *)
(* run the simulator's cycles, its cells are what the simulator showed.    *)
HistoryReplays ==
    pc \notin {"record", "wait"} =>
        /\ ~history_full => Len(history) = Len(sim)
        /\ \A k \in DOMAIN history :
            sim[k] = Whole(history[k].line) /\ history[k].ir = SubSeq(sim, 1, k)

(* Between commands the count that the server shows (SimSession.cycle) is  *)
(* the number of cycles the simulator ran, however often a program was     *)
(* lost, refused or attached on the way; a program in the loop has run as  *)
(* many, those it was replayed included, and has its columns.              *)
HandleInStep ==
    pc = "idle" =>
        /\ handle.cycle = Len(sim)
        /\ loop.on => handle.c_columns /\ Len(loop.ran) = handle.cycle

(* A command is answered whatever the compiled program does.               *)
CommandsAreAnswered == (pc # "idle") ~> (pc = "idle")
===============================================================================
