# Verification of SOOT

SOOT is a Lisp dialect with a compiler (`sootc`) and a runtime (`carbon`): a
virtual machine, a cooperative process scheduler, a garbage collector and a
module loader that a host drives over a small network REPL. This directory holds
TLA+ models of their core, the TLC configurations that check them on small
instances, and TLAPS proofs for every size.

Paths below are relative to `common/` of the repository.

## 1. Inventory

The program is single-threaded. Its concurrency is cooperative: processes take
turns in `Scheduler::tick`, all of them on **one** VM, and natives called by a
process re-enter the scheduler, the VM and the loader. The collector is
incremental: the program runs between the slices of a sweep. The nREPL server is
polled from the host's loop while clients act on their own. The compiler is
sequential, but a `(require ...)` compiles one file in the middle of another and
any form may throw.

| Component | State | Operations | Hard behaviour | What makes it correct | Modules |
|---|---|---|---|---|---|
| GC arena `carbon/gc/Arena` | bitmap, freelist threaded through the blocks, bump index, counters | allocate, deallocate | the freelist link shares a word with the object header | freelist, bitmap and counters agree; no block is handed out twice | `Arena`, `BlockPool`, `ArenaProofs` |
| GC passes `carbon/gc/GC`, `ArenaManager` | arenas by size class, pass cycle, sweep position, statistics | alloc, release, start_pass, mark_object, sweep_pass, finish_pass, collect | program steps between slices, 4-bit cycle wrap-around, abandoned passes | nothing reachable is reclaimed, all old garbage is | `Gc`, `GcAbort`, `GcProofs` |
| Scheduler `carbon/kernel/Scheduler` | ready queue, suspended list, owner list, current process | spawn, kill, resume, tick, tick_sleepers | calls from inside a tick, handlers run in the middle of spawn and kill | every live process is in one place; one quantum per tick; sleeps are exact; nobody starves | `Scheduler`, `SchedulerProofs` |
| Process quantum, VM loop `carbon/kernel/Process`, `carbon/vm/VirtualMachine`, `TrackFrame` | current_frame, m_has_error, is_yielded, main_thread, track lambdas | execute_quantum, execute, yield, sleep, errors, handlers | one VM shared by nested loops; a flag that outlives its quantum; an error inside a handler | code is lost only when it ends; a yield takes effect once; handlers are not cut short by others | `Quantum`, `SchedulerProofs` |
| State machine of a process `Process::go_state` | current_state, next_state, state frames | go-state from host, code, handlers | immediate and deferred transitions nest | one state frame, matching code, last request wins | `Transition`, `TransitionProofs` |
| Module loader `carbon/Carbon.cpp`, `file/Globals.hpp` | registry by name and by path, symbols, BinaryFiles | load_module, load_module_from_binary, recursive load, unload, reload, run_top_level | failures in the middle, cyclic requires, loads from top-levels and hooks | dependencies run first, once; the recursion ends; no pointer into a freed file | `Loader`, `MCLoader`, `LoaderProofs` |
| nREPL `repl/nrepl`, serve loop of `carbon/Main.cpp` | client set, byte streams | get_msg, ping, error, send_result, eval | partial reads, lost and stalled clients, clients that do not read, the client limit | requests in order, sockets tracked exactly, clients dropped only for cause, the tick goes on | `Nrepl`, `NreplProofs` |
| Type system `type_system` | type table, forward declarations | deftype, tc, lowest common ancestor | a deftype that throws leaves part of its work | method slots and layouts are sound whatever failed before | `TypeSystem`, `MCTypeSystem`, `TypeSystemProofs` |
| Compile sessions `sootc/compiler/Compiler`, `sootc/node/FileNode`, `GlobalNode` | FileNodes, names, imports, snapshots, loaded marks | compile an input, require, save, roll back | nested compiles share one snapshot; retries | a failed input leaves nothing; names resolve; every input ends | `Session`, `MCSession` |
| Code generator and VM opcodes `sootc/node`, `carbon/vm/VirtualMachine`, `StackFrame` | registers, constants, labels; frames | emit of every expression node; execute | temporaries and arguments share registers; branches are patched | compiled code returns what the language says, stays inside its code, ends | `Lang`, `Codegen`, `Vm`, `MCVm` |
| Engine connections | alive and dead lists | add, remove | its lookup of engines is a stub returning null; unused | | not modelled |
| GC type registry, string ids, binary file format | tables, bytes | insert, look up, relocate | | | not modelled |
| Events, process runner | | one more handler; a host loop | | | not modelled |
| Script interpreter and reader `script` | environments, text | eval, read | recursion over unbounded trees | | not modelled |
| REPL commands, utilities | configuration, log | I/O, formatting | | | not modelled |

How they interact: the host (`Main.cpp`) loads modules, then loops: poll the
nREPL for one request, answer it, `Carbon::tick`. `tick` counts sleepers down, takes
a snapshot of the ready queue and calls `Process::execute_quantum` for each member,
which runs `trans`, the tracks, the code block and `post` on the VM. Natives called
there (`spawn`, `kill`, `sleep`, `yield`, `go-state`, `load-module`) call back into
the scheduler, the process and the loader. The compiler turns inputs into binaries
and gives them to a runtime: a VM of its own, or a host reached with
`ReplClient::eval`. `PROJECT.json` lists the hazards line by line.

## 2. Modules

**`BlockPool`** is the abstract promise of an arena: a stack of returned blocks
and a supply of fresh ones. **`Arena`** is the code: a freelist whose links
overwrite the first word of a free block. `ImplementsPool` is the refinement.

**`Gc`** models the pass API over several arenas. A block is `<<arena, index>>`;
`bitmap` and `cycle` are the allocation bitmap and the header's `pass_cycle`;
`sweepA`, `sweepB` are the sweep position. The program (`Store`, `Erase`, `Load`,
`Forget`) touches only what it can reach and does not run during marking.
`kept`, `host` and `pending` record the host's progress. **`GcAbort`** adds a host
that calls `finish_pass` before the sweep is complete, at most `MaxAborts` times
in a row.

**`Scheduler`** has the code's three lists, the pointer `m_current`, the
thread-local current process and a stack `calls` of spawn and kill calls whose
handler is running, so that anything can happen between their two halves. A
`Process*` is a pid plus `life`, which says whether the object still exists.
`snap`, `visited`, `tick` and `due` are history. What a process does in its
quantum is open. The basic specification does not kill a process that the tick
loop holds; `SpecKillHeld` does, `SpecWakeUp` adds `Process::WakeUp`.

**`Quantum`** extends `Scheduler` and opens the quantum: each scheduler action
is conjoined with what the VM does. `execs` is the C++ stack of `vm.execute`
calls; all of them share `frame` (`current_frame`), `failed` (`m_has_error`) and
`yielded` (`is_yielded`). An instruction may fail: `Fault` is `set_error` or an
exception, after which every loop in progress stops and `current_frame` stays;
`FaultDrop` is an unresolved native or an unknown opcode, which sets it to null. The
constants `Yielders`, `Spawners`, `Faulters` and `Handlers` say which handlers do
what. `finished`, `dropped`, `stopped` and `age` are history.

**`Transition`** follows one process through `go_state`, with its handlers as a
stack. `Callers` and `Sleepers` say who calls `go-state` and `sleep`.

**`Loader`** has the registry's two maps (`byName`, `byPath`), `globals` and the C++
call stack of the recursion, because top-levels and unload hooks run script code
that may load again. A BinaryFile is an id that its registry entry owns. A path
is a spelling of a directory and a name; `Spellings` and `CanonOf` say which
spellings mean one directory.

**`Nrepl`** is the server inside the serve loop, and its clients. Each connection
is two streams of cells; a header is `HeaderLen` of them and a body `BodyLen`, and
each arrives on its own, so that the server's read loops (`ScanHeader`, `ReadHeader`,
`ReadBody`) stop and time out in the middle (`Missing`). Clients connect, send, close,
stall, ping, claim a negative length, leave answers unread or exceed the limit at any
point. A send blocks while the `Room` of the connection is used up (`Fits`).

**`TypeSystem`** is `deftype` as one action that may stop at each point where the
code throws, keeping what was written by then. Walks up the parents and the
building of fields and methods are recursive functions. A null pointer is the name
`"none"`, so no form defines a type of that name.

**`Session`** is a stack of compiles, one action per form; `Unwind` is an
exception leaving one compile. Nodes are numbers, so a dangling pointer is a number
nobody owns. `MCSession` says which inputs and files are used: what holds first,
then one pattern at a time that breaks it.

**`Lang`** is the expression language with its meaning (`Eval`, the reference);
**`Codegen`** is the emit method of every node; **`Vm`** runs what it emits.
`MCVm` enumerates the programs; `Allowed` names the patterns on which code and
meaning part.

Definitions named in a comment "Mutant of X" are deliberate errors: with X replaced
by one, TLC finds a property violated (`mutants` in `PROJECT.json`).

## 3. Runs

Passing runs (distinct states in brackets):

| Run | Instance | Shows |
|---|---|---|
| `arena_disciplined` (2 899) | 5 blocks | freelist, bitmap and counters agree (`ArenaIntact`), and the arena implements `BlockPool`, when every pointer is released once |
| `gc_pass` (615 227) | 3 arenas of 1 block, 3 cycles, one abandoned pass in a row, budgets 1 and 2 | reachable objects survive, complete passes reclaim, statistics balance, cycles do not collide, passes end |
| `scheduler_lists` (257 572) | 3 processes, sleeps of 1 and 2 | every process in one place, in the right list, one quantum per tick, exact sleeps, nobody starves |
| `quantum_yields` (891 456) | 2 processes; trans, tracks, code and post yield; tracks, code and post spawn and kill; code fails | a yield does not outlive the quantum that begins next; code is lost only when it returned or was thrown away by an unresolved native or unknown opcode |
| `quantum_tracks` (2 276 595) | 2 processes, tracks yield, code spawns and kills processes with enter and exit handlers; code and handlers fail | only unfinished lambdas are parked; a handler returns or fails by itself before spawn or kill goes on |
| `transition_pass` (1 730) | 3 states, nesting 4 | one state frame, the code of the state, no tear-down of running code, the process's last request wins |
| `loader_calls` (519 397) | 3 modules with a diamond or cycles of requires, one made in memory, loads nested twice | no pointer into a freed file, registry and paths agree, dependencies first, each top-level once, no file entered again while it is being loaded |
| `nrepl_serve` (1 037 221) | 3 clients, 2 tracked, headers and bodies of 2 cells, room for one answer after the greeting | sockets tracked exactly, requests in order however they are cut up, clients dropped only for cause, the tick comes unless a client never reads |
| `types_deftype` (3 137) | 3 names, 9 shapes, every order | slots distinct and inherited, common ancestors lowest, layouts sound, types stable once defined |
| `session_inputs` (209 123) | 4 inputs, edits or saves over 4 modules | no dangling name, failed inputs leave nothing, names resolve, a failed require can be retried, inputs end |
| `vm_run` (76 533) | expressions of two levels, loops, calls, strings | results as the language says, the pc stays in the code, programs end |

One violation run: `session_two_requires`. A file that requires two modules: the
import of the second is attached to the first one, since `m_current_file` is not
restored (the finding in `PROJECT.json` quotes the comment that says otherwise).

Further configurations state disagreements between the code and what its comments
and tests say, or conditions the passing runs leave out; TLC reports a violation
for each:

| Configuration | Property | What the code does |
|---|---|---|
| `ArenaDoubleRelease` | `FreeIsIdempotent` | a second release returns the block again: the freelist link erased the DEAD flag |
| `GcHeaderComment` | `LiveObjectHasCycle` | objects allocated before the first pass carry cycle 0 (`GCHeader.hpp:27` says never) |
| `SchedulerKillHeld` | `HeldExists` | `kill` deletes a process that `tick` still holds |
| `SchedulerWakeUp` | `WokenIsQueued` | `WakeUp` leaves the process in the suspended list |
| `SchedulerKillHeld` with `Spec` | `InsideIsRefused` | after a spawn the guard of `tick` and `run` is off |
| `QuantumNested` | `ThreadKept` | code that spawns a process with an enter handler loses its own frame |
| `QuantumStaleYield`, `QuantumStarved` | `FlagIsReset`, `CodeRuns` | a yield from code cuts the next process's quantum, for ever if repeated |
| `QuantumStaleYield` with `Yielders` `{"track", "code"}`, `{"track"}`, `{}` | `ParkedIsUnfinished`, `ParkedIsNotTicked`, `FinishedIsRemoved` | finished lambdas are parked; a sleep in a track becomes a yield; finished processes stay queued |
| `TransitionEnter` | `CodeOfState` | an enter handler that goes elsewhere leaves the code of the state it left |
| `TransitionPost` | `NoTearDown` | after a sleep, `go-state` in `post` is immediate |
| `LoaderFailed` | `RegisteredIsInitialised` | a module whose load failed stays registered, and loads as a success |
| `LoaderSameStem` | `NoDangling`, also `HeldIsOwned` | files of one stem share an entry; the first is freed while in use |
| `LoaderSpelling` | `TopLevelOnce` | a relative path is registered as given and looked up in canonical form |
| `NreplEval` | `EvalGetsItsResult` | `eval` reads the greeting as a header and stays out of step |
| `NreplReset` | `TrackedIsOpen` | a client lost at the greeting is tracked all the same |
| `NreplServe` with | `TickAlwaysComes` | only reads have a timeout: a client that never reads its answers holds the loop inside `send` (`Main.cpp:208` says "incoming traffic cannot starve the tick loop") |
| `TypesEdited` | `IdenticalMeansSame` | an edited deftype is taken for the old type |
| `TypesFailed` | `FailureDefinesNothing` | a deftype that throws leaves its type in the table |
| `TypesDeftype` with one of | `OverriddenKeepsSlot`, `LcaOfDeclared`, `InlineFits` | `:overlay-at` moves an inherited name; declared types are left out of paths; inline fields of a declared type get its parent's size |
| `VmOperand` and the same with `Allowed` `branch`, `scope`, `label`, `pool`, or `registers` and 4 `ArgRegisters` | `ResultMatches` | variables alias registers, names and labels are per function, equal constants share a slot, temporaries are unbounded |
| `SessionNested` | `NoDangling` | one snapshot serves nested compiles |
| `SessionCycle`; `SessionTwoRequires` | `InputEnds` | lookup over cyclic imports does not end |
| `SessionNested` with `MethodDisks`, `MethodInputs` | `FailureChangesNothing` | a method of a failed file stays with its type's owner |
| `SessionReject`; the same with `Saved = {"c"}` for `Rejected` | `RetryIsPossible` | a retry finds the names of the refused attempt |
| `SessionReject` with `Unreadable = {"d"}` for `Rejected` | `MarkedIsCompiled` | a file the reader refuses stays marked as loaded |
| `SessionNested` with `RenameDisks`, `RenameInputs`; `EmptyDisks`, `EmptyInputs` | `NoDangling`; `RequiredIsVisible` | a replaced method dangles where it was defined by name; a module without code gets no import |

`QuantumStarved` with `Yielders = {}` and `Spawners = {"code"}` is its positive
counterpart: `CodeRuns` holds when nobody yields.

**Bounds.** Two processes suffice for one to disturb another; the third makes a
queue with a middle. Sleeps of 2 distinguish "count down" from "expire". `TickMod`
exceeds the longest sleep by 2, so a due tick is never confused with another.
`quantum_yields` lets only code fail, and `quantum_tracks` code and handlers: errors in
tracks and post too make over ten million states; `ThreadsKept` is proved for any
`Faulters`.
Three GC cycles with one abandoned pass, and two without, are the hardest
wrap-around (the code has 15); three blocks are visited, current and unvisited by
the sweep. In `Transition`, `MaxDepth` 4 allows a transition inside a transition. Pids are not
reused. `Loader`: three modules make the diamond and the cycle, `MaxNesting` 2 a
load inside the top-level of another; the depth of the recursion over requires is not
bounded, since that it stays finite is what `NoReentry` says. `Nrepl`: three clients
and a limit of two meet acceptance, refusal and a socket served while others wait;
two cells are the least that can be cut in the middle, two requests (`MaxSent`) the
least that can be confused; `Room` 7 holds the greeting and one answer, so that the
second answer to a client that reads nothing blocks; a greeting as long as a header
lets `eval` come back in step, as the varying lengths of results do in the code. `TypeSystem`: three names are a chain of parent, child
and grandchild. `Session`: `MaxInputs` 4 is a failure, an edit, a retry and a use.
`MCVm`: two levels put every node inside every operand position; `Fuel` bounds
loops of the reference.

**Deadlock** is switched off where the system really may stop: the program of the
arena and the collector, the calls of the loader, the clients of the nREPL, the
end of a program in the VM and of a session.

**Fairness.** `Gc`: a host that started a pass goes on with it, as the loops of
`gc::collect` and of the tests do; the program is not fair. `Scheduler`: the
host keeps ticking (`run_loop`, `serve_loop`) and quanta and handlers end, which
cooperative scripts must do since nothing preempts them. `Quantum` has the same.
`Nrepl`: only the server's own steps are fair, never a client, and a step that
sends is not enabled while the client's buffers are full. `Vm` and `Session`: the only actor
goes on; nobody need type another input.

## 4. Proofs

TLAPS checks every leaf, with Z3, Zenon and LS4. The constants are those of the
models, under the assumptions named there (`ASSUME` in `Arena`, `Gc`, `Scheduler`,
`GcAbort`, `Quantum`, `Transition`, `Loader`, `Nrepl`, `TypeSystem`), so the results
hold for any number of blocks, processes, states, modules, clients, requests and
type definitions. `Modular` has the lemmas on addition modulo a width that counters,
ticks and alignments need. Where a theorem has a hypothesis, the configuration named
beside it shows that the statement fails without it.

**`ArenaProofs`.** `FreelistSafe` (`ArenaIntact`: the walk from `m_free_head` meets
every free block once and nothing else, bitmap and counters agree with it) and
`PoolImplemented` (the arena implements `BlockPool`), for every capacity and
counters of any width above it. The invariant does not compute the walk: it says
that some sequence of blocks is linked by the first words, without repetition,
and has exactly the free blocks (`FreeList`), and `HeaderInv` that blocks in use
still have their headers, so that a release is never taken for a second one. That
the model's `walk` and `chain` return that sequence is shown by taking the first
step where they would differ (a minimal counterexample in a well-founded order). For
the refinement, the sequence is unique, so pushing and popping it are the abstract
stack's steps.

**`GcProofs`.** About `Spec`, where every pass is completed: `SweepIsSafe` (no
reachable object is reclaimed), `PassIsComplete` (a complete pass reclaims what was
unreachable when it started), `CycleFresh` (no object carries the cycle of a
starting pass, for `CycleMod >= 2`), `MarkIsContained` (headers are written in
allocated blocks only), `StatsExact` (`HeapInv`, statistics included, for counters of
any width) and `TypeCorrect`. About `AbortSpec`, where the host may give up
`MaxAborts` passes in a row: `AbortsAreSafe`, `AbortsLeaveNothing`,
`AbortsKeepCyclesApart` and `AbortsKeepStats` say the same of it, assuming `FewAborts`:
`MaxAborts + 1 < CycleMod`. The code has 15 cycles, so 13 passes in a row may be given
up. The bound is exact on the instance of `GcPass`: with `CycleMod = 2` TLC finds
`CycleIsFreshAtStart` violated.
Safety alone is not inductive: a sweep keeps what carries the current cycle.
`CoreInv`, which serves both specifications, says that while roots are marked what is
marked is closed under references (`MarkingInv`), that while a sweep runs all that is
reachable is marked and nothing else is left behind the sweep position
(`SweepingInv`), that after it only marked objects are left (`SweptInv`), and ties the
marks to what was reachable (`KeptInv`). It is kept as long as a pass starts with a
cycle no object carries (`Fresh`). Where passes are completed that follows from
`IdleInv`: between passes every object carries the last cycle. Where they are given up
it follows from `AgeInv`: counted around the wrap, the cycle of an object is at most
as many passes old as were given up, and one more during a pass. For the statistics,
`InUse` says that nothing is allocated outside the arenas in use.

**`SchedulerProofs`.** `ListsExact` (every live process in exactly one place, no
list names a deleted one), `StatusExact` (`WellFiled`, no list contradicts a status),
`RoundRobin` (one quantum per tick for each process of the snapshot that stays
alive) and `TypeCorrect`. `ControlInv` relates the position in the tick to the
current process, `CallsInv` the stack of unfinished spawns and kills to the lists,
`SnapInv` the snapshot to what is still alive. `SleepExact` (a sleep of n ticks that
nobody cuts short ends in the n-th tick) rests on `DueInv`: the counter of a sleeper
and the tick at which it is due tell the same time, except that one which
`tick_sleepers` has yet to visit lags by one. The theorems are about `Spec`: under
`SpecKillHeld` and `SpecWakeUp` their statements are false.

The second half of the module is about `Quantum`. `QuantumRefines`: the opened quantum
implements `Scheduler`, with no hypothesis, so the theorems above hold for it.
`YieldIsConsumed` (`FlagIsConsumed`) has no hypothesis either: whoever yields, and
whatever fails meanwhile, the flag is clear before the second quantum after it. The
comment of `VirtualMachine.hpp:48`, that it is reset before the next `execute`, is
not true (`QuantumStaleYield`). The rest assumes `Quiet`: enter and exit handlers, if
there are any, neither yield nor spawn or kill; they and everything else may fail.
`HandlersComplete` needs no more: an enter or exit handler has returned or failed by
itself when spawn or kill goes on. `ThreadsKept` (code is lost only when it returned
or was thrown away) also assumes `Undisturbed`: there are no such handlers, or nobody
calls what runs them (`QuantumNested` shows the loss). `QuantumSound` (`QuantumInv`)
assumes that only tracks yield (`QuantumStaleYield`). `LoopInv` says where the nested
VM loops can be: the lambda of the quantum, and at most one handler of a spawn or kill
on top of it, running, stopped or just finished. `ThreadInv` and `KeptInv` say what
`main_thread` and the current frame hold at each step, `AgeInv` how old a set
`is_yielded` can be at each step of the quantum, `ParkInv` which lambdas are parked.

**`LoaderProofs`**, assuming `Unambiguous`: no two files on disk have one stem and
paths are given in canonical form (`LoaderSameStem` and `LoaderSpelling` show the
opposite). `PointersStayLive` (no symbol and no call in progress points into a
freed file), `RegistryStaysExact`, `DependenciesRunFirst`, `TopLevelRunsOnce` and
`RecursionIsFinite` (`NoReentry`: a file is never entered again while a call that
loads it is under way, so there are at most as many calls as files), for
any modules, requires (cyclic ones too), failures and nesting. `RegInv` makes the two
maps each other's inverse and gives every symbol its owner; `StackInv` says of
every call in progress that its file is the registered one, that requires it has
dealt with are registered, that no file is being loaded twice, and that an unload
hook runs below every load, which is why nothing in use is freed; `VisitedInv`
ties each `already_loaded` set to the load it belongs to; `HistoryInv` says that what
is registered has run, is under way, or is known not to have run.

**`TransitionProofs`**, assuming `Guarded`: neither an enter nor a post handler
calls `go-state` (`TransitionEnter` and `TransitionPost` show what happens then).
`StateExact` (`StateFits`: one state frame, the code of the state),
`NothingTornDown` and `RequestsInTurn` (the last request wins). The invariant says
how handlers nest (`ShapeInv`: only an enter handler inside an exit handler), when
the frame may be missing (`FrameInv`) or the code out of step (`CodeInv`), that
handlers of a quantum ask as RUNNING, so their requests are deferred (`StatusInv`),
and where the last request is at each point (`LastInv`).

**`NreplProofs`**, assuming `NoResets`: no peer is gone before it is greeted
(`NreplReset` shows the opposite). `Tracking` (`TracksExactly`), `InOrder` (each
message is the next request of its client, and ends where the next begins) and
`DropsForCause` (a connection that the client keeps open is closed only for a negative
length or because bytes that were sent are late: the server never waits for bytes
beyond the message), for headers and bodies of any length, arriving in any pieces.
`StreamInv` carries the argument: what has not been read of a client's stream, arrived
or in flight, is well formed (`Stream`: each cell `Follows` the one before) and begins
at the place where the server stopped, which is a header or a body and how many cells of
it were read (`Want`). Hence the rest of a message that was begun is not empty, and a
read that finds nothing is late. `FilesInv` keeps the sockets of a scan and of a message among
the tracked ones while others are dropped.

**`TypeSystemProofs`.** `SlotsStaySound` (names that no `:overlay-at` moves have
slots of their own, and in a child the slots of its parent), `LayoutStaysSound` (a
field placed automatically is aligned and after all before it, every field lies inside
its type and where the parent has it),
`LcaStaysLowest` (`lca_base` returns the lowest common ancestor) and `TypesAreStable` (a
type once defined is never changed), for any forms in any order, the ones that throw
half-way included. There is no hypothesis but `FormsAssumption`, the shape of a parsed
form. `TableInvariant` is the invariant they rest on: some assignment of a `path` to
every type (`Tree`) is a finite walk over parents up to `object`; types below `basic` or
`structure` are never values and types below `integer` always are (`Kin`, `Sized`); the
fields of every type are `Packed` and begin with its parent's; along every path the next
free slot is above all slots, slots of different names differ, and a name that is not
overlaid is found at its own slot (`Numbered`); and a child `Agrees` with what it
inherits. `ForwardOK` says that every forward declaration leads to a defined type.
That the recursive functions of the model return what `path` says is shown by
induction on the number of steps (`Induct`: a set of numbers that holds 0 and is
closed under successor), the existence of those functions included. `Name` lists the
literals next to `STRING`, because the provers do not know that they are strings.
Two case distinctions of the model had overlapping guards, which TLC resolves by
order and the logic does not; they are conditionals now.

**Only model-checked.** Liveness, which this prover does not do (`PassTerminates`,
`NobodyStarves`, `TickComes`, `InputEnds`, `Terminates`); `Session`,
whose lookup is RECURSIVE, and most of whose statements hold for some contents of the
source files only (section 3); `Lang`, `Codegen` and `Vm`, which are built on RECURSIVE
operators.

## 5. Not modelled

**Kernel and VM.** Process names and `start`, the process tree (no code attaches a
child), pid wrap-around (`Scheduler.cpp:39`), events, track time, masks nothing sets,
single stepping and `is_break` of the VM loop; floats (`CompareNode.hpp:54` emits
`FNotEqual`, for which the VM has no case) and container natives; integers wider than
an i32 (`IDiv` and `IMod` cut the divisor to that, `VirtualMachine.cpp:353`). `Kill` of
`Scheduler` does not take a process that the tick loop holds or that is being killed,
which the code does: `SpecKillHeld` does, and breaks `HeldExists`. That an error of
a handler stops the loop around it and leaves the handler's frame as the
`main_thread` of the interrupted process (`VirtualMachine.cpp:86`) is in `Quantum`,
and is one more way to `QuantumNested`.

**Collector.** Type delegates; incremental marking with a running program (no caller
does it).

**Loader.** Processes whose module is unloaded; types that a reload changes
(`Carbon.cpp:809`). A file made in memory has a path of its own, while the code takes
the path in the file, which two of them may share (`Carbon.cpp:353`). A top-level that
calls `load-module` may lose its VM frame to the nested `execute`; it counts as run
here, as it does for the loader.

**nREPL.** A write that is cut short, bodies without a byte, `want_exit`; starvation of
a high socket by a client that never pauses (`ReplServer.cpp:106`). The iterator that
`ping_response` invalidates (`ReplServer.cpp:140`) is in `Ping` with `Resets`.

**Types.** `:offset`, `:dynamic`, the paths that `:overlay-at` may give
(`Deftype.cpp:123-192`), the comparison of array counts when a field is overridden
(`Deftype.cpp:233`), defenum and bitfields.

**Compiler.** Macros, heap and static variables, state scripts, `save_session`, fields,
arrays and the layout of the binary; signatures, which no snapshot restores
(`Compiler.hpp:255`), beyond the flat table of names; a binary that cannot be made from
its own buffer, after which nothing is rolled back (`Compiler.cpp:987`).

`Engine` and `Connection` are unfinished: their lookup returns null
(`Connection.cpp:84`) and only a unit test makes an engine. The script interpreter
and the reader are recursive evaluators over unbounded trees. Byte layouts, string
ids, REPL commands and utilities are data, I/O or formatting.

Most of the repository's lines are vendored headers (JSON, option parsing,
formatting), the interpreter, inspectors and printers: the models cover the parts
that keep state over time.

## 6. Plan

1. `Loader` composed with `Scheduler`: unload with live processes.
2. Events and their handler stack in `Quantum`; names and `start` in `Scheduler`.
3. The layout of a binary: relocation and bounds.
4. Proofs: `Session`, with its lookup as a recursive function and the patterns of
   `MCSession` that break it excluded by a condition on the source files
   (`RetryIsSound`, `TablesSound`).
