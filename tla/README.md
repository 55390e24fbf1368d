# OpenLustre Studio in TLA+

Specifications, TLC models and TLAPS proofs for OpenLustre Studio
(`src/`): a workbench that simulates synchronous (Lustre) models, generates C
from them, and proves their contracts with Kind 2.  Its central claim is that
these are one semantics: *the simulated model, the generated C and the program
given to the prover behave identically*.  Most of what follows is about that
claim: what makes it true, on which nodes, and where it fails.

## 1. The system

Paths are relative to `src/crates/`.

| Component | State it keeps | Operations | What makes it correct |
|---|---|---|---|
| Evaluation order, `ol_ir/src/order.rs` | `order`, `done`, `progressed` of a loop of passes | `evaluation_order` | every same-cycle read follows its definition; every equation once; a combinational cycle is reported when and only when there is one |
| Clock inference, `ol_ir/src/clocks.rs` | `var_clocks`, then `ClockInfo` | `infer_clocks` (natural clocks by fixpoint, then a checked pass) | an equation is on one clock; streams of different clocks are never mixed; parents of a chain precede it |
| IR simulator, `ol_sim/src/lib.rs` | `State` per instance: `cycle`, `prev`, `clock_ticks`, `child_calls` | `step_env`, `eval`, `step_instance`, `step_untaken`, `observe`, `run_csv` | a clocked variable holds through inactive cycles; `->` counts its own clock's ticks; each instance steps once a cycle |
| C emitter, `ol_clite_emit/src/lib.rs` | generated: `prev_*`, `held_*`, `clkN_ticked`, `initialized`, `sub_N` | `emit_node_source`, `emit_equation`, `lower_anf`, `finish_step` | the emitted step function computes what `step_env` does |
| Clock elimination, `ol_ir/src/declock.rs` | generated: `__ck`, `__first`, `__hold` locals | `declock_node`, `act_expr`, `first_expr`, `equation` | same values on every cycle with no clock left |
| CSV driver, `ol_clite_emit/src/harness.rs` | line buffer, the state, `out` | read a line, step, print a line | one line out per row in |
| Session, `ol_cli/src/studio_server/sim_session.rs` | thread: simulator, `cycle`, `history`, `history_full`, `c`; handle: `cycle`, `c_columns` | `Run`, `AttachC`, `DetachC` | what is compared has run the same cycles; a lost program never blocks or corrupts a session |
| Studio server, `ol_cli/src/studio_server.rs` | `sim`, workspace path, undo and redo journals, `c_cache`, each under a lock of its own | start, step, put C in the loop, edit, undo, redo, open, save | a response is about the model it names; edits are not lost; undo restores |
| Contracts, `ol_contract_ir`, `ol_clite_emit/src/monitor.rs`, `ol_contract_check` | observer instance, monitor struct | `check_contract`, `observe`, `emit_monitor` | a contract speaks of its operator's interface, and is typed as an observer; both monitors report the same modes and violations |
| Type checker, `ol_typecheck/src/lib.rs` | environments of a pass | `check_project`, `infer`, `check_node` | what it accepts the back ends can execute; its verdict on an operator depends on what that operator uses |
| Editing, `ol_cli/src/studio_server.rs` | the model file and the types file | some thirty edits: ports, equations, layout, blocks dropped on the canvas, machines, activations, contracts, types, imports | layout, contract and constructs follow the equations and ports; what is accepted introduces no error |
| Lowerings, `ol_ir/src/activation.rs`, `state_machine.rs` | none (a rewrite); the variables it generates | `resolve_refines`, `lower`, `lower_state_machines`, `lower_activations` | the equations mean what the construct says, and pass the clock check |
| Projects, `ol_ir/src/project.rs`, `slice.rs`, `loader.rs`, `format.rs`, `native_project.rs` | files, memo of visited modules | lower, slice, load, upgrade with backup, visit | a slice says of an operator what the project says; each module once, cycles refused, a backup is never overwritten |
| Kind 2 view, `ol_cocospec_emit/src/kind2.rs`, `rte.rs` | none (a rewrite); the checks it adds | `emit_with`, `instrument`, `propagate` | as long as the checks hold, the view computes what the simulator and the C do; a check that fails is a fault |
| Prover, `ol_kind2`, `ol_cli/src/prover.rs` | a child process, an installed binary | run, parse | no verdict without an answer |
| Scenarios, coverage, evidence, `ol_cli/src/scenario.rs`, `ol_sim` (MC/DC), `ol_cli/src/evidence.rs` | traces, trials, verdicts | run, compare, collect | a failing part makes a failing whole |
| Library, text emitters, importer, user interface | none that lasts | parse, print, check | not modelled: text and syntax |

**Interactions.**  The front end (loader, library, lowerings, type checker,
clock inference) turns a project into nodes with ordered, clocked equations.
Three back ends execute such a node.  The simulator walks `evaluation_order`
over an environment; the emitter walks the same order and writes C; the clock
eliminator writes a base-clock node, which gets an evaluation order of its own
when Kind 2 or the simulator runs it.  A session thread owns a simulator and
perhaps the compiled C as a child process behind two pipes; HTTP handlers talk
to the thread over a channel, under the server's `sim` lock.

**Hard behaviours.**  Values that live across inactive cycles in three
different representations; calls that must be stepped although their value is
not wanted; an error in the middle of a cycle; a child process that is late,
silent or dead; a history with a bound; handlers that check under a lock what
they use after it.  `PROJECT.json` lists them, each at its line.

## 2. Modules

| Module | Models | In the code |
|---|---|---|
| `PassOrder` | the order as a function of the dependencies | `evaluation_order` |
| `EvaluationOrder` | its loop, one iteration a step | `evaluation_order`, `same_cycle_reads` |
| `ClockedNode` | a node as the back ends see it: equations on clocks, with what they read now, read under `pre`, and which first ticks they test | `ClockInfo`, `clock_active`, `chains` |
| `HeldValues` | **abstract**: what a clocked node means, without any order of evaluation | header of `clocks.rs` |
| `SimCycle` | a cycle of the simulator, one equation a step | `Sim::step_env`, `first_tick` |
| `CliteStep` | a call of the generated step function, one equation a step | `emit_node_source`, `emit_equation`, `finish_step` |
| `Declocked` | an instant of the flattened program | `declock_node` |
| `Backends` | the three side by side on the same inputs | `run_csv`, the driver |
| `CallStepping` | calls inside expressions, in both back ends | `eval`, `step_untaken`, `step_instance`, `lower_anf` |
| `LoopSession` | a session, its thread, the compiled program, the handle | `Runner`, `CLoop`, `SimSession` |
| `Projects` | what a model consists of: expressions, types, definitions by name | `ol_ir`: `Expr`, `Type`, `Node`, `Project` |
| `Expressions` | expression trees: what they read, which clock a call is on, their value | `expr.rs`, `same_cycle_reads`, `eval` |
| `ClockInference` | natural clocks by fixpoint, then the top-down check | `infer_clocks`, `natural_clock`, `check_expr` |
| `ActivationLowering` | validation and lowering of an `activate if` | `activation::lower`, `LastHolders` |
| `StateMachineLowering` | refinements inlined, validation and lowering of a machine with regions and history | `resolve_refines`, `state_machine::lower`, `emit_region`, `value_of` |
| `Lowering` | an operator lowered, its clocks inferred, and run | `lower_state_machines`, `lower_activations`, `step_env` |
| `Constructs` | **abstract**: what activations and machines promise, on the constructs themselves | headers of `activation.rs`, `state_machine.rs` |
| `TypeCheck` | the errors of a project and where they are | `check_project`, `check_node`, `infer`, `check_init` |
| `ContractCheck` | the same for contracts and their observers | `check_contract` |
| `Slicing` | a project cut down to a root and what it uses | `slice_for_root` |
| `ProjectLowering` | the machines and activations of a project lowered, or the failure | `lower_state_machines`, `lower_activations` |
| `OperatorEdits`, `BlockDrops`, `ConstructEdits` | the editing requests: operators and layout; blocks; machines, activations, contracts, types, imports | `edit_*`, `add_*_response`, `propagate_port_change`, `sync_attached_contract`, `introduced_errors`, `import_lustre_response` |
| `Workbench` | a model edited by one request after the other | `model_edit_response` |
| `WorkbenchChecks` | that model before the checkers: what `Workbench` leaves to its constants, and what its edits do to verdicts | `rename_states`, `infer_expr_type`, `owner_type_errors`, `check_contract_edit` |
| `Execution` | a cycle of an operator without clocks on integers of a width, arrays and records: by the simulator, as C, as the view | `eval`, `eval_binary`, `fit_to`, `step_instance`; `lower_anf`, `emit_iterator`; `emit_helpers` |
| `RuntimeChecks` | the checks of the view, beside a run of all three | `rte.rs`, `emit_with`, `Rewriter` |
| `Editor` | **abstract**: what the editing buttons promise: an edit, an undo and a redo each at once, a bounded history | `editjournal` doc, `Journal` |
| `StudioServer` | the server's shared state and its handlers, each a sequence of accesses that other requests may come between | `sim_start_response` to `sim_c_response`, `apply_edit_response_to`, `history_response`, `build_model_response`, `workspace_save_response`, `switch_workspace` |

`ClockedNode` abstracts what an equation computes to a constant operator
`Apply` over the current values it reads, the previous values under `pre`, and
the first-tick bits of its `->` sites.  This keeps everything the back ends
differ in (where a value is kept, when it is written, in which order) and
leaves out arithmetic, which they share.  `Fails` says on which of these
evaluating the right-hand side is an error in the simulator.  `HeldValues`
never says in which order equations run: it asks for *one* assignment of
values in which every active equation holds and every inactive variable keeps
its value.  That the two back ends walk an order, seed from a snapshot or read
a `held_` field is then something to be shown.

`CallStepping` is written with recursive functions: what an expression does is a
function of what its parts do (`SimExpr`, `CValue`, `CStatements`), and the recursion
is tied once, over the expressions of the programs (`SimEval`, `CExpr`, `CHoist`).
`Height` is the nesting of an expression, through the bodies of the operators it calls;
it is what says that the recursion ends.

The modules of `Lowering`, `WorkbenchChecks` and those of `RuntimeChecks` use
RECURSIVE operators over expressions, and are therefore for TLC only; nothing that
is proved reaches them.  `Workbench` and the editing modules are about files, and
take what is recursive as constant operators: a variable renamed in an expression or
in a machine (`RenameVar`, `RenameInStates`), what an expression reads, chains or has
for a type (`FreeVarsOf`, `OperandsOf`, `InferInNode`), whether a project can be
lowered and with which errors (`CanLower`, `OwnerErrors`, `ContractErrors`).
`WorkbenchChecks` defines each from the checkers, and the configuration gives
`Workbench` these definitions, so that TLC runs the whole.  The proofs assume
nothing of them.

`Constructs` knows no equation.  An activation has, for each branch, a memory
of what it read when it last ran and whether it ever ran; a machine has the
regions that ran last and the state each will resume in.  `Lowering` defines
these from the variables the lowered node really has: the memory is the
sampled copies, the running regions are the `active` flags, the resume states
are the `next` variables, what has run is which clocks have ticked.  That the
guards, samples and flags hold the right values on the cycles when nothing
computes them is what the refinement shows.  `Constructs` looks refined
machines up as it goes, where the code inlines and renames them.  A generated
name is the tuple of what it is made of, so that two of them are different.

A handler of `StudioServer` is not atomic and is not written as if it were: a
request carries the steps it has left (`todo[r]`) and what it has read so far
(`local[r]`), and an action runs its next step: a file read or written, a
mutex taken or released, a field assigned.  What the code decides from a value
it read earlier is decided from `local[r]`, as stale as the code's own.

The checkers are functions from a project to the sequence of its errors, an
error being its code, its place (an operator, a contract, `main`, the types) and
the names it is about; the message is left out.  The editing modules are actions
on the two files, with what the handler refuses as the guard, and call the
checkers where the handlers do (`introduced_errors`, `infer_expr_type`), on a
slice, a lowered candidate or the whole project as the code does.  An equation
carries as its tag the edit that made it, so that `LayoutFollows` can say that a
box on the canvas is still the box of *this* equation after others have been
removed.

`Execution` has one evaluator for the three programs, with the places where they
differ written out: what happens to a result outside its type (`InType`: the
simulator carries on with a wider integer, the C has undefined or wrapping
arithmetic in the promoted type, the view has no bound), what a store keeps
(`Kept`), whether the right of an `and` is looked at (`ShortCircuit`), whether a
side not taken is stepped (`Chosen`), in what order calls run (`Statements`).  A
result says whether it exists (`ok`) and whether every integer stayed within its
C type (`exact`).  `RuntimeChecks` makes the view that the prover gets, checks
included, from the same project, and runs it beside the other two.

In `LoopSession` the state of a simulator or of a C program is the sequence of
cycles it has run.  `Backends` is what justifies this: two of them that ran
the same cycles agree.

## 3. Runs

| Run | Bounds | Shows |
|---|---|---|
| `order` | four equations: all 32,768 dependency graphs in which only the last equation may read itself, and 4,096 nodes with a two-name left-hand side and a name defined twice | the order is executable and complete, the cycle verdict exact, the loop ends, and `PassOrder` is what it returns |
| `backends` | one node with nine equations, declared in reverse, on the clocks `c`, `c and d`, `not c` and the base, three clocked `->`, a `pre` of a clocked variable, a division that fails; Boolean and 3-valued inputs | the three programs agree at the end of every cycle, and each implements `HeldValues` |
| `calls` | nine programs, three levels of instances, inputs 0..2, five cycles | every instance is stepped once a cycle in both back ends, whichever branch is taken; all nine satisfy the hypothesis of the proofs (`ErrorsComeLast`) |
| `session` | three inputs (one fails), four cycles, a history of three | like is compared with like, the C in the loop is in step, the history replays, the cycle shown is the number of cycles both programs ran, commands are answered |
| `server` | two names in a project, one of them in its layout, one native document that may only be read; one editing thread of four requests; an edit beside two requests of the dock; an edit, a start and two more requests of the dock, two of them at once; two requests of the dock beside a start; five of the dock alone; a history of two; a write may fail | the C in the loop is the C of the session's model, the journal stays within its cap, edits with undo and redo are an `Editor`, every request is answered |
| `lowering` | 576 nodes of three equations over 12 forms of clocked locals and 4 outputs; an `if / elsif / else` over all pairs of eight branch bodies (counters, delays, calls, `last`, constants), a wide one of three branches and two outputs; machines of three states with regions in regions, history or not, and valid, unknown and cyclic refinements; a machine that drives the condition of an activation; every sequence of inputs, values modulo 3 | equations run the construct they come from, what is lowered passes the clock check, and what passes it never reads an absent value |
| `workbench` | six models (equations and layout; an operator whose equations have moved under their pins; an interface with contract, machine and activation; a refined machine; constructs; types and imports), six to twenty-three requests each, three edits in any order | layout, contract and constructs follow every edit; a slice's verdict is the project's; a pure renaming changes no verdict; what the editor accepts or drops introduces no error but unwired pins; pins added later are new names |
| `expressions` | thirteen projects (narrow sums, guarded divisions, `and` / `or`, unsigned, calls in branches, totals, two levels of calls, iterators and indices, records, casts, delays, bounds, gaps in the typing), three cycles on all inputs; `int8` is -2..1, `uint8` 0..3, `int32` -8..7, `uint32` 0..15 | as long as no check fails, nothing leaves its type, is undefined or is an error, and the three agree; a check that fails names a cycle in which something did |
| `save_race` | two threads that edit and save | **violation**: a Save writes back a text that another request has since replaced |
| `clock_through_pre` | a node of four equations | **violation**: a clock that comes only through a `pre` does not order the equation after it |
| `untaken_branch` | `0 -> pre y + Sum(in)` | **violation**: the untaken side stops at its first error, before the call |
| `session_error` | one input whose contract check fails, one that fails after a call | **violation**: a failed cycle leaves the simulator ahead of the C |

Why the bounds are enough.  An order goes wrong through a chain of forward
references, a cycle, or a pass that pushes and then stops: three equations
show each, four show them combined.  The node of `backends` has every kind of
clock relation (parent and child, complement, base) and its state space is
finite and explored without a bound on the number of cycles.  In `calls`, two
cycles tell a skipped or doubled step, the others let the sums tell instances
apart; sums are modulo 3 (`Modulus`).  In `session`, a history of three with four cycles
lets it be empty, partly filled, full, and overtaken.  In `server`, the four
edits fill a history of two, undo into it and overwrite the redo side; the
races are between a slow handler and one or two quick ones, so two threads of
two show them.  In `lowering`, two branches and an else already nest a guard
in a guard's complement, and three nest it twice; a region of two states in a
region of two states is left, frozen and entered again in every order.  The
state space of each operator is explored to the end, without a bound on the
cycles.  Left to data: an operator's own equations stay on the base clock, a
variable has one form of `last` per activation, and the expressions of machines
make no calls.  The run takes equations in an order that puts clock variables
before what they gate, which is what disagreement 1 below says the code does
not always do.  `EditorBehaviour` is stated for one editing request at a time:
with two in flight the code does not have it (`PROJECT.json` lists where).
Writing a file is one step, which may fail and leave it as it was or broken.

In `workbench`, one edit prepares (declares a name, removes an equation, begins
a refinement), one disturbs, one lands on what was left; the requests of a scene
are chosen so that they meet.  In `expressions`, the widths keep what matters of
the real ones: a narrow type that is promoted, one that is as wide as `int`,
signed and unsigned of both, every product and sum of narrow values within
`int` but not within its own type; a fault shows in the first cycle or, through
a `pre` or an instance, in the next.  A run ends after a fault or a failed check:
what the prover says of a trace is about its first violation.

Some properties are stated under a condition, each a place where the code does
something else (section 5).  `RenameKeepsVerdict` leaves out operators with a
machine that refines another, contracts that operators share, names already
mentioned, and probes.  `EditsStayLocal` leaves out updates of a machine that
another operator's machine refines, and errors of the types (a state's name used
twice).  `SliceClosed` is checked on models without struct literals of a type
nothing else names.  `ChecksCoverFaults` is about projects whose types are
inferred as C computes (`KnowsTypes`): all of the run's but `Gaps`.

**Bounds by name:** `N`, `Nodes`, `MaxCycles` (of `CallStepping` and of
`LoopSession`), `HistoryMax` (the code's `HISTORY_MAX`, 100,000),
`HistoryCap` (the journal's `CAP`), `Scenes` (for each thread of the
server, what its requests ask for in turn), `MaxEdits` (of `Workbench`), `MaxCycles`
(of `RuntimeChecks` too), `Programs`, `Paths` and `Modulus` (of `CallStepping`), `IntegerValues` (the values of each integer type), `Modulus` (numbers of `Expressions`),
`Operators` (of `Lowering`).

**Fairness.**  `EvaluationOrder`: weak fairness of the loop, a plain function
that nothing suspends.  `LoopSession`: weak fairness of the session's thread
(`Thread`), which is scheduled, and whose only wait, `recv_timeout`, returns.
Nothing is assumed of the compiled program (it may hang or die) nor of the
client.  `StudioServer`: weak fairness of each request that has been received
(`Handle`), which has a thread of its own; a mutex is not assumed fair, but
only finitely many requests can be ahead.  The safety runs assume no fairness.

**Deadlock** is checked in `session`.  The other systems stop: a node that is
refused does not run, a function
returns, a run ends with an error or a failed check, the requests of a session are used up, the cycles asked for have been run, the
threads of `server` have sent what they had to send.  There a request stuck on
a mutex would violate `RequestsAnswered`.

## 4. Proofs

`EvaluationOrderProofs`, for every `N` and every set of nodes:

- `TypeCorrect`, `NoStaleReads`, `Completeness`, `ExactVerdict`,
  `OrderIsOrderOf`: the safety invariants of the `order` run.
- Invariant: `order` lists exactly `done`, without repetition, each element
  after its dependencies; a scan that has pushed nothing has found every
  equation it passed not ready, and in a `cycle` verdict none is.  The last
  part makes `VerdictIsExact` inductive: the equations left block one another.
  That a completed order leaves no blocked set follows by taking its first
  element in the order.
- For `OrderIsOrderOf`: what `PassOrder` builds is the list of the orders it
  goes through, each with the smallest ready equation that the pass has not gone
  by, and a new pass when there is none.  The loop's `order` of length n is the
  one of these with n equations (`Followed`), and nothing between where the
  walk stands and the next one to push is ready (`AheadToCome`).

`BackendsProofs`, for every node, every set of values and every input, under
`ClocksBeforeUse`:

- `SimulatorIsCorrect` and `GeneratedCIsCorrect`: refinement of `HeldValues`.
- `Agreement`, `SameOutputs`: end-of-cycle equality of signals and tick flags.
- Invariant: while a cycle runs, each equation already run is `Settled` in the
  environment, in the simulator and in the C; each one not yet run still has
  last cycle's value in the simulator; `held_` fields are last cycle's values
  until written, `prev_` fields throughout.  An equation run later disturbs
  none that ran before because the order puts reads, and `ClocksBeforeUse`
  clock variables, before their use.  At the end all are settled in both, and
  two settled environments over one order and one row of inputs are equal, by
  induction along the order, carried by the C's walk behind the simulator's.

The same module, of the flattened program:

- `TypeCorrect`: the types of the three programs.
- `FlattenedIsCorrect`: the flattened program refines `HeldValues` on *every* node,
  without `ClocksBeforeUse`: there a gated equation reads the flag of its
  clock, so its own order puts the clock first whatever the node's does.
- `OneTrace`, under `ClocksBeforeUse`: the three programs show one trace.
- Argument: a flag is up exactly when its clock is active (induction on the
  nesting of the clock); the value an equation gets depends only on
  variables that are already final, so that at the end every one is `Settled`
  (`FlatEvalSettles`, by induction along `FlatOrder`); and there is only one such
  assignment (`OneMeaning`, by the least equation on which two would differ).  So
  the programs agree because each computes *the* meaning, not because their
  steps resemble each other.  Invariant (`TracesInv`): that of the two others;
  before the first cycle every `first` flag is up and no other; and the flattened
  program, until it runs the cycle it owes, has the values the others started from,
  from which theirs are `Settled`.

`CallSteppingProofs`, for every set of programs whose operators do not call
themselves, of any nesting, every modulus and every number of cycles:

- `TypeCorrect`, without further hypothesis: no instance is ever stepped more
  often than there were cycles, also where an error has lost some of them.
- Under `CallsComeFirst` (on a side that is not taken, no error comes before a
  call): `Agreement`, every instance has the same count of cycles and last
  output in the simulator and in the C; `EveryCall`, and none is a cycle behind
  or ahead of the root.  The hypothesis is needed: the program of `untaken_branch`
  violates it and drifts apart.  It allows errors: a division that fails, a `pre`
  behind an arrow, a side not taken that fails after its calls.  It is a
  condition on the text of the program (`Failures`, `ReachesCalls`), not on a run;
  `ErrorsComeLast` evaluates it on the programs of both runs.
- Argument: evaluating an expression changes only the instances it calls
  (`Zones`; `SimStays`, `HoistStays`), and the parts of an expression call different
  ones, since every call has its own site.  So parts may be evaluated in any order,
  which is what differs: the simulator steps the side not taken last, the C
  before it has chosen.  An expression is `Faithful` when from states that are
  equal on its instances, all stepped equally often, hoisting it and then evaluating
  what is left gives what the simulator gives, or the simulator has an error or the
  C a fault, in every case with each of its calls stepped once.  `Following`
  shows every expression faithful by induction on its height, one lemma for each
  kind (`BinaryFollows`, `IfFollows`, `ArrowFollows`, `CallFollows`, `LeafFollows`).
- Invariant: `Agreed`, the two states are equal and every instance of the program
  has run as many cycles as the root.

`LoopSessionProofs`, for every set of inputs, every bound of the history and every
number of cycles:

- `TypeCorrect`, without further hypothesis.
- Under `CyclesAreWhole` (an input fails before anything is stepped, or runs
  a whole cycle, contract check included): `WhatIsComparedRanTheSame`,
  `AttachedProgramIsInStep`, `HistoryIsTheSession`, `HandleIsInStep`.  The hypothesis is needed:
  `session_error` is a session that violates it and is out of step.
- Invariant (`SessionInv`): the history is the first cycles of the simulator,
  all of them until it is full; the program in the loop has run the simulator's
  cycles and its pipes are empty, or it has been fed the cycle in progress and has
  it either in its input or answered; while it catches up, the same of the
  history as far as it has been replayed.  Because a program that is late is
  detached and never fed again, an answer found in the pipe is that of the last
  line written.  `HandleCounts`, which needs no hypothesis: what the thread
  has run and the handle has not counted is the run under way.

`StudioServerProofs`, for every set of threads, what they ask for, and every cap:

- `TypeCorrect`; `JournalIsBounded`; `AttachedBuildIsTheSessions`.
- Invariant (`ServerInv`).  What a handler has read when it comes to a step
  is said of the steps it has *left* (`Threads`: `Supplied`, `Orderly` of the
  list, `Fits` of the variables), so that one lemma serves all the handlers.
  Between its `pop` and its `push`, or its two clearings, a request holds the
  journal's mutex (`JournalHeld`), and a step the session's (`SessionHeld`).
  `Room`: the stacks fit the cap with one place spare while an entry
  is out; without it an undo's push could overflow.  `CachedBuildMatches`:
  what the cache holds was compiled from what it is filed under, which holds
  only because the request that compiles has seen the session's signature to be
  that of what it loaded.  It is what `AttachedBuildMatches` needs of a build
  found in the cache.
- `NeverAllWaiting`: while requests are in progress, one of them waits for no
  mutex that is held (`SomeoneCanStep`; `Waits` reads the guards that ask for
  one).  Invariant (`MutexInv`): what is left of a handler that holds the
  session's mutex takes none, what is left of one that holds the journal's takes
  the session's at most; `Takes` says of every list where a mutex is taken.
  This is the safety half of `RequestsAnswered`: a second mutex taken under the
  session's would break it.

`EditorProofs`, for one editing thread (`OneEditor`), and every number of threads
in the dock, every sequence of requests, every cap, and writes that may fail:

- `EditingIsAnEditor`: the server implements `Editor` under the mapping of
  `StudioServer`.  The hypothesis is needed: with two edits in flight a snapshot
  is stale when it is recorded, and two undos may restore in either order.  The
  editing thread may use the dock as well.
- Invariant (`EditInv`, beside `ServerInv`).  `Places` says at which place of which
  handler a step is, so that a step's precondition is said of a place
  (`Handling`): up to `ReadAt` there is no snapshot, then it is what the two
  files of the open document hold until `WriteAt` (`Shows`), after which it is
  what the Editor shows; the path written is one of that document's (`Knows`); an undo
  or redo has popped a snapshot of the open document, and once it has pushed, its
  own is on top of the other stack (`Restores`).  Every snapshot in the journal
  is of the whole open document, but for the step between the path's switch and
  the journal's clearing, when the Editor's history is empty already.
- Each step is then one of the Editor's or none.  `Record`, the last `Restore` and the
  switch of the path are its `Edit`, `Undo` or `Redo`, and `Open`; an answer to an
  explicit Save, a refusal and the end of an opening are its `Keep`; a write that
  fails is its `Fail`, which must allow the journal to have moved already.  A
  request of the dock changes neither a file nor a stack (`DockMoves`).  An import
  is not refused after its first write because it has seen its types file to be
  readable and nobody else writes it; with a second editing thread it could be.

`WorkbenchProofs`, for every set of sessions, every number of edits in any order, and
whatever the constant operators answer:

- `TypeCorrect`, under `NamesGivenOnce` (no name is there twice in the files a
  session begins with, nor in a text it imports): both files stay well formed
  and no name comes to be twice.  Invariant: `Shape` (the two files and the
  requests are well formed) and `Once`.  For most edits this is the handler's own test
  for the name; what is not obvious are the drops, which take several names at
  once, and types and constants, which are in two files: a name is looked for in the
  project of both, and put in one.
- `LayoutFollowsEdits`, under `LayoutsGiven` (it is so at the beginning) and
  `KeysApart` (no name that a variable may get has the form of an equation's key).
  Invariant: `Shape` and `Laid`.  That layouts follow is not inductive by itself: a
  variable called like the key of an equation that is removed or dropped would take or
  leave its place.  Nor is it enough that there is none now: the locals of a drop are
  named after the ports of another operator or the fields of a record type, so `Laid`
  says of all of these that they are apart.
- `ContractsAreInStep`, under `NamesGivenOnce` and `ContractsGiven` (it is so at
  the beginning).  Invariant: `Shape`, `Once` and `InStep`.  `Once` is needed: the
  code looks an operator up by its name and copies the interface of the first it
  finds, so with two of one name an edit would update the contract of the other.
- Argument, in four levels.  On sequences and tables: what adding, removing,
  renaming and replacing in place do to names.  On one operator: an edit is
  `Sound` (well formed again, its name and contract kept, its variables apart again) and `Placed` (the layout still follows).  On the two files: `Keeps`
  says that an edit keeps all three invariants, each under its own hypothesis, and
  is shown once for each way of changing a model (an operator in the place of another,
  with its contract; operators more; a contract put or taken away; machines; types
  of two files).  On requests: one lemma for each kind of them
  (`Kept`), and `StepServes`: a step is one of them.

`Induction` has what these proofs need of the naturals, on sets and
functions rather than operators: a set that is not empty has a least element;
a set with 0 and the successor of each of its members has them all; and a
function defined from each value to the next exists.  For expressions, the same
along a rank: what holds of each element when it holds of those of lower rank
holds of all (`RankInduction`), and a function defined at each element from its
values at those of lower rank exists (`RankedRecursion`).

Assumptions on the constants: `NodeTyped`, `ApplyTyped`, `ServerAssumption` and
`SessionsAssumption` (types: the files and requests are what the parser yields); `OrderFromPasses` and `FlatOrderFromPasses` (what `EvaluationOrderProofs`
shows of an order, for the node and for the flattened one); and
`ProgramAssumption`: expressions are typed and nested finitely, each call has a
site of its own, as `compute_call_sites` numbers them, `Paths` has every
instance, and no operator calls itself: the C of one that does would not
compile, as the state of an instance holds those of its calls.

Hypotheses written out in the theorems, because the code does *not* guarantee
them, with the run that violates each: `ClocksBeforeUse` (`clock_through_pre`, a
node the front end accepts; a clock that comes from a `when` in the equation, or
from a variable read in the same cycle, does satisfy it), `CyclesAreWhole`
(`session_error`), `CallsComeFirst` (`untaken_branch`).  `OneEditor` is a choice
of which threads there are.  Those of `WorkbenchProofs` are about what a session is
given, and the `workbench` run asserts all four of its sessions.  The code
refuses none of what they leave out: a file written by hand may have a name twice or a
stale layout, an import compares the names of the text with those of the project and
not with each other, and a variable may be called `eq3` (disagreement 5).

Only model-checked: `Lowering` and `RuntimeChecks`, and of the workbench what
edits do to the checkers' verdicts (`SliceClosed`, `RenameKeepsVerdict`, `EditsStayLocal`,
`DropsMissOnlyPins`), all of which use recursive operators on expressions; everything under fairness (`Terminates`, `CommandsAreAnswered`,
`RequestsAnswered`), which the prover cannot do: of the last, `NeverAllWaiting`
is proved.

## 5. Disagreements between text and code

1. *Clock order.*  `order.rs:22` takes no read from under a `pre`, and a gate
   is not a read.  In `y = 0 -> pre x` with `x` on clock `c`, `y` is on `c` but
   may be placed before `c`: the simulator gates it with the previous `c`
   (seeded), the C with a zeroed local.  `ol_sim/src/lib.rs:315` says the order
   prevents this, `ol_typecheck/src/lib.rs:525` that what passes executes
   identically.
2. *Untaken branches.*  `step_untaken` gives up at the first error.  In
   `0 -> pre y + Sum(in)` that is the `pre`, on the first cycle; the C has
   already stepped `Sum`.
3. *Errors in a session.*  `step_observed` fails after `step_env` committed,
   when a contract clause cannot be evaluated; an error after a call has
   stepped that instance.  The row is in neither the history nor the C.

4. *Save.*  The comment at `studio_server.rs:5602` says Save is a
   confirmation, edits having been written already.  It is a read, a
   normalisation and a write with no mutex held: an edit that comes between is
   overwritten, with no entry in the journal to bring it back.


The rest came up while modelling the editor, the checkers and the view.  Where a
property would fail because of one, its statement leaves that case out.

5. *Ghost pins.*  `studio_server.rs:5641` says that fresh pins must not collide with a
   variable or another pin, and where inputs are added to an operation it sees to that.
   The pins of `add_operation`, `resolve_iterator_drop` and
   `add_type_op` are named after the equation's index and not compared with what
   is there: after equation 0 is removed, the next drop may share pins with
   a block dropped before.  A variable called `eq1` has the layout key of
   an equation, and wires (`from|to|port`) are not re-keyed with equations.
6. *Renaming.*  Probes are not renamed or removed with their variable (E0150),
   and a new name may capture a pin, a constant or a ghost of the contract.  When
   the operator's machine refines one of another operator, the refined machine's
   equations keep the old name.
7. *What no load survives.*  A machine can be removed while another refines it; a
   variable can be removed under a `last`: the project then fails to load, although
   `project.rs:318` promises the latter is never a load failure.
8. *Only the owner is checked.*  Updating a machine that another operator's machine
   refines can break that operator; state names that two operators' machines share
   are an error (E0007) that no slice shows; `main` may be left naming what is gone.
9. *Old errors as new.*  When the model before the edit does not lower, its errors
   count as none (`introduced_errors`), so a repair is refused for errors that
   were there.
10. *Import.*  The model file is written, then the types file: if the second write
    fails the first stays, with no entry in the journal.
11. *Expressions.*  `add_expression` promises to reject an unknown name
    (`studio_server.rs:5299`), and accepts one in the arguments of a call.
12. *Type checker.*  A tuple is accepted for a single variable, and anything called
    `__tuple__` for several; an integer literal of any size is an `int32`;
    `x = 0 -> x` is no cycle for its own E0060.
13. *Slices* drop the type of a struct literal that no kept declaration names
    (E0125), and keep imported contracts without the operators their clauses call.
14. *Runtime checks that are missing.*  `rte.rs` infers types without the expected
    one (line 268): an operation with a literal on the left, or an arrow begun at one,
    such as `x: int8 = 0 -> pre x + 1`, `y: uint32 = 5 - x` or
    `y: int8 = 100 + 100`, gets no check, against `rte.rs:9-17` and
    `README.md:188`.
15. *A cast that is lost.*  `(a + b) as int8` of two `int8` is neither wrapped in the
    view (`kind2.rs:580` sees a cast from `int8` to `int8`) nor checked, so the
    prover has the sum and the C the wrapped one, against `rte.rs:21`.
16. *Arrays in C.*  An alias of an array type becomes a `typedef` of its element
    and a loop over such an operand runs no times; nested array literals become `0`.
17. *A failed attach* drops the program in the loop and returns before the handle's
    columns are cleared (`sim_session.rs:365`).
18. *One holder.*  `last v` and `last(v, init)` in an activation share one initial
    value, although the header of `activation.rs` (lines 19-20) gives each its own.

## 6. Not modelled, and the plan

**Left to data.**  Text and names (parsing, formatting, the layout's coordinates),
reals, characters and bit operations.  The block library is taken as empty, and
packages as one.  `condact` and complex `pre` operands of the flattened program are
missing from `Declocked`.

**Left out of the checkers and the editor:** warnings, messages, how many errors of
clocks an equation has (they count as one), the bound of 64 on
nesting; the regions' enum types of a machine are one type; positions on the
canvas are up to date when a request comes, and the editor sends an owner with
each construct, as the page does.

**Left out of `Execution` and `RuntimeChecks`:** clocks and `condact` (the view is
flattened first), contracts in the view, spec twins of imported operators, operands of
iterators that are not names, arrays as branches of a choice, divisions of
operands without a type (Kind 2's Euclidean one is then used).

**Left out of `StudioServer`:** the project's name, scenario files, stubs of generated Lustre,
and the handlers that only build an answer.

**Not modelled at all**, because what they do is file, process or network I/O, or
text: the loader's includes and the format upgrade, native projects, the adapter of
Kind 2 and its installation, scenarios and golden traces, evidence, access
control, library, emitter and importer of Lustre, command line and page.  Coverage
and MC/DC only count what an evaluation visits; the monitors of contracts are
not modelled, their checking is.

`infer_clocks` is checked on small nodes; that an accepted node satisfies
`NodeTyped` for every node is an assumption of the proofs.

What is left to do, in this order: the two monitors of a contract and their
verdicts; the directory graph of native projects (each module once, cycles
refused, pins).
