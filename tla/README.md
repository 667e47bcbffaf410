# TLA+ models of systemc-clang

systemc-clang reads a SystemC design with Clang, builds a model of its modules,
ports and processes, and writes it as Verilog. Much of it is syntax-directed
translation. Modelled here is what is not: the algorithm that turns a clocked
thread (`SC_THREAD`, `SC_CTHREAD`), which suspends itself with `wait()`, into a
state machine; the bookkeeping of names, functions and instances across a
design; the stream modules that the repository's designs are built from; and
the driver that feeds data to the result on a board. Paths such as `src/cfg`
are relative to the root of the repository.

## The system

| Component | State it keeps | Operations | Interacts with |
|---|---|---|---|
| `src/cfg` SplitCFG, SplitCFGBlock | split blocks, `sccfg_`, `path_info_`, `all_path_info_`, `wait_next_state_`, `next_state_count_`, `paths_`, `popping_`, `cop_`, `outter_top_` | `construct_sccfg`, `generate_paths` (`dfs_rework`, `dfs_visit_wait`), confluence and skip blocks of `?:` | reads `clang::CFG`; its results are read by HDLThread |
| `plugins/hdl/HDLThread` | `pathnodevisited`, `SGVisited`, `needwaitswitchcase`, the tables of local variables, the hcode trees | constructor, `ProcessSplitGraphGroup/Block`, `ProcessDeclStmt`, `ProcessHWait`, `GenerateWaitCntUpdate`, `GenerateStateUpdate` | calls SplitCFG, and HDLBody for statements |
| the generated state machine | `state`, `wait_counter`, `wait_next_state`, their next values, shadow variables | main method, state update at clock edge or reset | clock and reset signal |
| `plugins/hdl/HDLMain`, the tables of `hNode.h` | `mod_name_map`, `mod_vname_map`, `allmethodecls`, `generated_functions`, `overridden_method_map`, `module_vars` | `postFire`, `SCmodule2hcode`, `SCport2hcode`, `SCsig2hcode`, the work list of functions, the copying of shadow variables | model, HDLBody, HDLThread |
| `plugins/hdl` HDLBody, HDLHnode, HDLType | `methodecls`, `vname_map` | translation of calls, constructors, waits, declarations; expressions, types, constructor hcode | called by HDLMain and HDLThread |
| `src/model`, `src/matchers` | containers of instances, ports, bindings, processes | AST matcher callbacks | Clang AST, plugin |
| `src/SCuitable` | suspension automata of threads, global automaton | DFS over the CFG, merging of automata | used by the GPU analysis only |
| `plugins/hdl/parselib`, `hcode2verilog.py` | hcode parse tree, tables filled by passes | a fixed list of tree passes, printing | reads the hcode file |
| `examples/llnl-examples/zfpsynth/shared4`: the stream modules | registers, FIFO memory and indices | blocking `read()`, `write()`; register slices, FIFO, splitter, at each clock edge | one another, and the threads of a design |
| `hardware/app/MCDMA.py` | `_description`, `started`, rings of descriptors, engine registers | `reset`, `stop`, `start_transfer`, `transfer`, `wait` | the DMA engine, through its registers |

Hard to get right, and hard to test:

* The path search is recursive at every two-way branch. Each call has its own
  copy of the visited set, merges only its last branch back, and shares
  `curr_path`, `popping_`, the queue of waits and the state counter with all
  the others.
* State numbers are implicit. A number comes from a counter, the code of the
  state from the position of its path, and the order of the paths from a queue
  filled at one end and emptied at the other.
* The generator cuts branches out of a path by index and length, both computed
  by the search and neither checked.
* `wait(n)` turns into an extra state with a counter, and reset can strike in
  the middle of it.
* Conditional operators are paired with their confluence blocks by the order of
  a depth-first search.
* Names are given by tables that are copied, cleared and merged between bodies,
  threads and modules; the work list of functions grows while it is iterated, in
  the order of pointers.
* Streams hand a value over at an edge at which two processes each decide on
  their own that it happened.
* The DMA engine works, fails or halts between any two register accesses.

PROJECT.json lists these hazards, each with its line and its properties.

## Modules

```
ClangCFG ──► ThreadFamilies, TestThreads                 inputs
SplitCFG ─┬► PathGeneration ─► PathCoverage ─► PathProperties     src/cfg
          ├► Confluence                          ▲
          └► HDLThread ──────────────────────────┘       plugins/hdl
             (ThreadCode)
   PathGeneration, HDLThread, ThreadNames ─► ThreadVariables
   NameMaps ─► ThreadNames, HDLMain, ModuleVariables     HDLMain ─► HDLMainProperties
   PathGeneration, Confluence, HDLThread, ThreadFSM ─► TranslatedThread
                                                            │ refines
                                                       SystemCThread (ControlFlow)
StreamFifo ── refines ─► BoundedQueue ·· used as a queue ··► StreamPipeline
MCDMA
Proofs: PathGenerationProofs (of PathCoverage too)
        NameMapsProofs ─► ThreadNamesProofs, HDLMainProofs, ModuleVariablesProofs
        StreamFifoProofs   StreamPipelineProofs   MCDMAProofs
```

### Thread translation

**SplitCFG** is the pure part of `construct_sccfg`. A split block is named
`<<b, i>>`, the piece of CFG block b that starts with its i-th element, since
its `id_` need not be unique. `splitBlock` gives the pieces of a block,
`createWaitSplitCFGBlock` the object of a piece with the flags the code gives
it, and `SccfgMap` the map in which the first insertion wins.

**PathGeneration** is the search. Its variables are the members of SplitCFG and
the locals of `dfs_rework`. The recursion of `dfs_visit_wait` is the variable
`frames`, one record per active call. `Visit` is one iteration of its do-while
loop up to the recursive call; `Resume` is what follows when that call has
returned. `StartReset`, `NextPath` and `FinishPaths` are `dfs_rework`; the last
also fills in the next states of the waits. One behaviour translates one
thread, chosen from `CFGs` in `Init`.

**PathCoverage** says, on the graph of split blocks and without the search, what
the search has to find: the waits that control can reach, and for each state the
blocks that control can pass in it. `Reached` is reachability, as a recursive
function. **PathProperties** adds what the generator expects of a path.

**Confluence** is `identifyConfluenceBlocks` and `identifySkipBlocks`, one step
per block taken from the stack or the queue. The first pairs each block ended by
a conditional operator with a later block and remembers the first operator met
(`outter_top`); the second collects the blocks between that operator and its
confluence block, which the generator skips.

**HDLThread** and **ThreadCode** are the generator as recursive operators: from
paths, path information and skip blocks to a tree of nodes (statement, wait, if,
count) per state. `inPath` records whether an index ever left the path.

**ThreadNames** gives names to local variables: a declaration is hoisted under a
new name when its block is visited for the first time in a state (`SGVisited`),
a reference takes the name the tables have at that moment. The order in which
elements are met is left open there, except that a block is entered, and the
visit counted, each time before its declarations are met (`EnteredFirst`).
Variables may share their names in any way. **ThreadVariables** runs it on the
code HDLThread generates, in the order it generates it.

**ThreadFSM** is the generated hardware. The main method is combinational, but
its statements execute in order, so each is a step; `code` is what is left of
it in this cycle. `ClockEdge` and `Reset` are the branches of the state-update
method. Program variables are left out: a condition may go either way, except
for the constant condition of `while (true)`. `clk` changes with every clock
edge, so that edges are steps a specification can tell.

**SystemCThread** is the abstract specification: a thread executes the elements
of its control-flow graph in order, is suspended by `wait()` until the next
clock edge and by `wait(n)` until a later one, and starts again at reset. It
leaves open which later one: the machine does not take n edges (see Findings),
so the number is the subject of a run of its own, **MCWaitCycles**, which keeps
a history of the edges since a wait. **TranslatedThread** composes the searches,
the generator and the hardware and defines the refinement mapping: `at` is the
label of the node executed next, `until` what the machine's registers say the
thread is suspended until.

**ClangCFG** stands for Clang and is external. It builds the graph backwards
and lazily, as Clang does, for the statement kinds of the tests and for
conditional and logical operators. The block numbers in `tests/cfg` depend on
that order, so **TestThreads**, which holds the threads of those tests and the
paths they expect, exercises it as well. **ThreadFamilies** enumerates all
bodies up to a size.

### Designs

**NameMaps** is `newname_map_t` of `hNode.h` with its name server: `add_entry`,
`find_entry_newn`, `insertall`, `clear`, which keeps the counter.

**HDLMain** is `postFire` and `SCmodule2hcode`. One step declares a submodule,
starts a body, visits a call in it, generates a function or prints a module. The
variables are the tables of the code: `xbody` and `tbody` are the `methodecls`
of the module's HDLBody and of a thread's own, `allmethodecls` the module's work
list, which is taken in any order because the code orders it by address.
Overriding is the map of `HDLMain.cpp` lines 151 to 190. A body is the sequence
of its calls, nothing else. A member call says whether it names the class of its
method, which is what C++ dispatches by, and whether its object is implicitly
cast, which is what `HDLBody.cpp` 729 looks at. A process of type `TAIL` holds
the calls in conditions that come after the last statement of a thread: the
thread's table is merged after a statement only (`HDLThread.cpp` 531), so the
model drops what the tail adds to it.

**ModuleVariables** is the part of a module that has names: `SCport2hcode` and
`SCsig2hcode` along the chain of base classes, the parameters of its functions,
the marks that threads leave on the variables they reference and the shadow
copies made from them.

### Streams

**StreamFifo** is `sfifo_cc.h`: a memory, two indices, two flags, and one step
per clock edge, on which a value may be offered, asked for, or both. It
refines **BoundedQueue**. **StreamPipeline** puts register slices (`sreg.h`),
FIFOs, and optionally a splitter (`ssplit.h`) between threads that use the
blocking `write()` and `read()` of `sc_stream.h`. `valid_r`, `data_r` and
`ready_r` are the settled values of the signals, computed through the stages
that let them pass within a cycle. A FIFO is a queue there, which is what
`FifoIsQueue` proves of it.

### Driver

**MCDMA** is one direction of `MCDMA.py`: `_SGDMAControl` and its channels. A
client calls in any order; each poll of a register is a step of its own, guarded
by the bit polled. The engine is external, modelled from the registers the
driver reads and writes: it moves a descriptor's bytes, fails, halts, and
becomes idle when every enabled channel is. `owed` is what the client asked for,
computed from the description and not from the descriptors. A length is written
modulo the width of its field; `LengthsFit` says when that changes nothing.

Operators marked "Mutant" are deliberate errors. Each stands before the
definition it replaces, to see that a property notices.

## Runs

| Run | Inputs | States | Shows |
|---|---|---|---|
| `path_search` | 4944 threads: bodies in `while (true)` of up to 3 statements of 8 kinds and of up to 4 of fewer kinds, and six threads of `tests/cfg` | 150 537 | `AgreesWithTests` calibrates the model against the unit tests; `TypeOK`, `IndInv` and `CaseFollowsWait` hold along the search; `EveryWaitHasAState`, `PathCoversState`, `FalseBranchInPlace`, `GroupsInPath` of its results; it ends (`SearchEnds`) |
| `translated_thread` | 911 supported bodies of at most 4 statements, or 3 with conditional operators; `wait(0)`, `wait(2)` and `wait` with a run-time argument; for the searches also the unsupported bodies with operators nested up to twice | 233 182 | each operator is paired with the block where its operands meet, and the blocks skipped are those in between (`ConfluenceIsJoin`, `SearchesEnd`); the hardware does what the thread does, element by element (`Implements`), and a wait ends (`EveryWaitEnds`) |
| `thread_variables` | threads with two local variables, declared before the loop, in it or in a branch | 12 833 | `LocalNamesDistinct`, every use finds a declaration hoisted before it (`UsesAreDeclared`), a variable declared in one state has one name (`OneNameInOneState`); the order of the generated code is one ThreadNames allows (`NamesSpec`). All variables have the same name |
| `modules` | two processes and three functions that call one another in all ways, trees of instances, chains of two classes, calls that name their class or not and are cast or not, calls behind a thread's last statement | 46 502 | whatever the order of the work list: `FunctionsComplete`, `CallsResolve`, `FunctionNamesDistinct`, `InstancesResolve`, `OneLevelDispatch`, `TranslationEnds` |
| `module_variables` | chains of two and three classes with clashing names and pointers, two threads | 34 659 | `DeclaredNamesDistinct`, `ReferencesResolve`, `OneShadowEach` |
| `stream_fifo` | depth 3 in registers with 2-bit indices | 288 | the flags tell full from empty (`FlagsTellApart`), and the FIFO is a queue (`ImplementsQueue`), with reset at any edge |
| `stream_pipeline` | 156 pipelines of up to 3 stages, 31 of up to 2 stages before a splitter with FIFOs of 2 and 4 places; 7 values | 85 062 | `NothingLost`, offers stand until taken (`OffersStand`), and all values arrive (`AllArrive`) |
| `dma` | two channels; transfers of less than a block, one, several, the rest of the array, a channel that does not exist | 187 691 | `DescriptorsTile`, `WaitMeansDone`, `RefusedStartsNothing`, `WaitEnds` |

Four more runs (`dropped_statements`, `wait_cycles`, `redeclared`,
`transfer_blocks`) each exhibit one disagreement; see Findings.

Bounds. `MaxSize` and `LargerSize` count statements. Three of them already nest
a loop, a test and a jump, and four add a second wait behind a nested test,
which is where paths repeat blocks and where false branches meet blocks already
visited. The larger families leave out combinations of loops; all eight kinds
meet at size three. Operators with `||` in an operand are left out of the
families because they are paired wrongly (see below). `Counts` has the boundary
0, a value that takes more than one turn in the counting state, and `Runtime`.
The designs of `modules` are small because the properties speak of one module,
its calls and its tables: a cycle of two functions and a third behind it make a
work list that grows in every pass. Depth 3 is the least that is no power of
two. `N` exceeds the capacity of each splitter FIFO and of most pipelines, so
that everything fills up. In `dma` an array of 7 bytes, a limit of 5 and an
alignment of 2 give blocks of 4, so that sizes at, below and above a block
occur.

Fairness. `Spec` of PathGeneration and HDLMain has weak fairness of `Next`,
because they are sequential code that runs until it returns; so have the steps
of Confluence in `SystemSpec` (`Fairness`), which has weak fairness of the steps
of the main method (combinational logic settles) and of `ClockEdge` (the clock
runs) besides; reset has none. In
StreamPipeline the clock ticks and every thread keeps calling, with pauses of
any length. In MCDMA the engine moves on while it is told to and the driver's
code runs on; failures and calls have no fairness. `WaitEnds` allows for a
halted engine, because the driver polls on after an error ("TODO: Add error
handling").

Deadlock is not checked in the runs of sequential code that returns
(`modules`, `module_variables`, `thread_variables`) and in `dma`,
where a poll after an engine error never succeeds.

Preconditions. `PathCoversState` assumes that the search calls itself at every
two-way branch (`TestsAreSearched`); it does at `if` and at loops, so all threads
of `path_search` qualify, and not at `||`, `&&` and `?:` (see "Other
observations"). `FalseBranchInPlace` assumes that every loop waits.
`translated_thread` takes threads in which every loop waits, which never end,
in which no statement shares a block with a test, break or continue, and with
at most one statement with a conditional operator. Outside that class the
translation differs from the thread: a state with a loop that does not wait is
executed once per clock cycle from its start, a thread that ends repeats its
last state, and statements before a test are lost (first finding).
`ConfluenceIsJoin` and `SearchesEnd` do not depend on the class. How many edges
a `wait(n)` takes is not part of `Implements` (second finding).
`FunctionsComplete` and `CallsResolve` speak of threads up to their last
statement; `CallsResolve` leaves out constructors and initializers as well,
`FunctionNamesDistinct` overloads called from threads, `OneLevelDispatch` chains
of more than two classes and calls whose object is cast although they do not
name their class, or the reverse. `DescriptorsTile` and `WaitMeansDone` ask for
lengths that fit their field. The reasons are given under "Other observations".

## Proofs

All proofs are checked by TLAPS. They rest on inductive invariants, conjunctions
of named parts, which TLC has also checked on the runs' instances (their types,
which range over infinite sets, excepted). A proof has one lemma per action, and the theorems follow from the
invariant.

| Module | Theorem | Of the run's property |
|---|---|---|
| PathGenerationProofs | `SearchInvariant`, `TypeCorrect`, `CasesFollowWaits` | `IndInv`, `TypeOK`, `CaseFollowsWait` |
| PathGenerationProofs | `WaitsAllFound`, `PathsCoverStates` | `EveryWaitHasAState`, `PathCoversState` |
| ThreadNamesProofs | `LocalsApart`, `DeclaredOnceNamedOnce` | `LocalNamesDistinct`, `OneNameInOneState` |
| HDLMainProofs | `TranslationTypes`, `ModulesComplete`, `PrintedCallsResolve`, `FunctionsApart`, `SubmodulesResolve`, `MemberCallsDispatch` | all safety properties of `modules` |
| ModuleVariablesProofs | `VariableTypes`, `DeclarationsApart`, `ReferencesReachDeclarations`, `ShadowsOnce` | all properties of `module_variables` |
| StreamFifoProofs | `FifoTypes`, `FlagsCorrect`, `FifoIsQueue` | all properties of `stream_fifo` |
| StreamPipelineProofs | `StreamsKeepAll`, `StreamsStand` | `NothingLost`, `OffersStand` |
| MCDMAProofs | `DriverTypes`, `DescriptorsTileTheTransfer`, `WaitedMeansMoved`, `AllOrNothingStarted` | all safety properties of `dma` |
| MCDMAProofs | `FullBlocksVanish` | of none: what happens where `LengthsFit` does not hold |

### Path search

`PathGenerationProofs` holds for every set of graphs that satisfies
`CFGAssumption`. That assumption is what Clang guarantees and the code
relies on: a graph has finitely many blocks, with natural numbers for ids,
successors are blocks of the graph, a block ended by a two-way test has two
successors, and a block whose last element is a wait has one.

`CaseFollowsWait` (one path per state, no number used twice, and the case a wait
jumps to starts with the block after that wait) speaks of the end of the search
only, so it needs an invariant for the time before. `IndInv` adds the following
parts.

* `QueueAligned`: the waits not yet searched stand in the queue, last first, in
  the order of their numbers, and paths plus queue account for every number.
* `PathsStart` and `CurrentStart`: each finished path, and the one being built,
  starts where its state starts.
* `Numbered` and `ResumesAtSuccessor`: numbers are distinct and in range, and
  the block stored for a wait is its successor.
* `WaitsAreFresh` and `CallersNotAtWait`: a wait on a stack has not been looked
  at, and a call that has called again is not at one. Without them the
  successor that `getUnvisitedSuccessor` leaves in `BB` could be an old one.
* `GraphFixed`: the graph does not change under the search.

`WaitHasOneSuccessor` is the fact about splitting all this
rests on. `CallEffect`, `LoopEndEffect`, `VisitEffect` and `ResumeEffect` state
what a step does to the stacks, and `RegisterKeepsNumbering` covers the only
place where numbers are given out. The graphs proved about may have pieces whose
ids collide, which the bounded runs are too small to contain.

The second part of the module is about what the search finds. `Reached` is defined by as
many rounds as there are blocks; `ReachedIsLeast` shows that it is then closed
and the least such set: a round that adds nothing is the last, and each before
adds a block (`GrowthExists`; induction over the rounds by `StepInduction`, which
speaks of a set, since the prover cannot instantiate an operator).

`EveryWaitHasAState` needs `WaitInv`, of which `NothingForgotten` is the heart.
Whatever any call has marked as visited is noted: in a path, in the queue, just
pushed, or an exit. So a block pruned in one branch is not lost, whichever of the
visited sets was used. A block in a path leaves the stack only when all its
successors are noted; when stack and queue are empty the recorded blocks are
therefore closed under successors, and contain all that is reachable.

`PathCoversState` says the same of a single state, and there the argument breaks
at waits: `getUnvisitedSuccessor` marks the block after a wait, which belongs to
another state, so a marked block need not be in the path. `StateSearched`, a part
of `CoverInv`, says why this does no harm. From the wait on, its call only pops;
every entry below the top of a stack has tried its last successor already
(`Spent`); and the callers keep the marks they had before the call until they pop
as well. The first two hold because each block with two successors is
searched by a call of its own, which is where the precondition comes in.
`AllNumbersTaken` gives the next entry of the queue its state.

What `Visit` and `Resume` do to the stacks, the marks and the path is stated once
(`VisitMoves`, `ResumeMoves`, `CallMoves`) as a choice between two moves: advance
to an unvisited block, or pop. Each invariant is kept by each of the two
(`WaitStepKeeps`; `AdvanceKeepsState`, `PopKeepsState`).

### Names of local variables

`ThreadNamesProofs` holds for every behaviour of `NamesSpec`. That ThreadVariables
implements `NamesSpec` is checked by TLC only, because the generator is recursive.

For `LocalsApart`, `NamesHoisted` says that every name in a table or a reference
is that of a hoisted declaration of the same variable, and `CounterAbove` that the
counter of the body's table is above all of them; it holds because `clear` keeps
the counter. For `DeclaredOnceNamedOnce`, `EntriesCounted` ties `SGVisited` to the
elements behind the current one, and `HoistedAtVisit` each hoisted declaration to
the place where it was met. When such a place is met again in the same state, its
block has been entered at least twice, so it is not hoisted again
(`NotHoistedAgain`).

### Designs

`NameMapsProofs` says once what `add_entry`, `insertall` and `clear` leave in a
table; the proofs about local variables and about designs rest on it.

`HDLMainProofs` holds for every design that satisfies `DesignAssumption`: calls
name functions of the design, a constructor expression calls a constructor and
nothing else does, a virtual method has one slot in a chain of classes, and the
instances form a tree. There is no bound on functions, calls, classes or the
depth of the tree. The invariant has layers, each proved from those before.

* `Base`: types, and where the control can be while a body of each kind is
  translated.
* `WorkList`, for `ModulesComplete`. A call of the body at work is still to be
  visited or its callee collected (`Visited`); finished processes and functions
  have all callees in the module's table (`ProcessesDone`, `FunctionsDone`);
  nothing is collected that a closed set could do without (`Minimal`). At the
  end of the work list the table is therefore the least closed set, in whatever
  order the list was taken.
* `Naming`, for `PrintedCallsResolve`. A call recorded has the name its function
  has in the module's table, or will have once the body at work is merged into
  it. `EnteredOnce` says why the merge changes no name given before: of the
  functions the module knows, a body enters none but constructors, which is why
  the property leaves those out.
* `Numbering`, for `FunctionsApart`. `clear` keeps the counter, so it stays above
  every number given out to a function that shares its qualified name. Threads
  have counters of their own, hence the precondition on overloads.
* `Tree`, for `SubmodulesResolve`. Each instance is in the stack of modules to
  translate or among the printed ones, once, and below one that is printed; names
  in `mod_name_map` are never given twice.
* `Dispatching`, for `MemberCallsDispatch`.

`ModuleVariablesProofs` holds for every module that satisfies
`ModuleAssumption`, in particular whatever names the classes of its chain share;
the only thing asked of a name is that it is not a number. Names have parts: a
port that keeps its name has one, an entry of the table two, a copy for the
threads three (`KindsApart`). Within a kind, `Table` says that numbers are
distinct, and `PortsApart` that of the ports that keep their names no two share
one, which holds because `module_vars` has the names of all entries declared
before (`Content`). `Referenced` ties the bits to the threads gone through and
the copies to the bits.

### Streams

`StreamFifoProofs` holds for every depth, every index width that fits it, and
every type of data. `TypeOK /\ FlagsTellApart` is inductive as it stands;
`IncWraps` says what the increment of an index does at the end of the memory.
For `FifoIsQueue` the queue is read off the memory from the read index on
(`Held`); `HeldFacts` and `SlotFacts` say where its elements lie, and
`EdgeIsQueueEdge` takes the four cases of reading and writing apart.

`StreamPipelineProofs` holds for pipelines of any length, of register slices of
every kind and FIFOs of every depth, with or without a splitter
(`NetworkAssumption`). The signals that pass through stages within a cycle are
recursive functions over the stages. Their equations (`ValidEquations`,
`ReadyEquations` and so on) are proved by an induction along the pipeline that
needs no operator parameter: `UpInduction` and `DownInduction` are about a set
of stages, and take the least one outside it. `StageKeeps` is the step of one
stage: what it holds afterwards, with what left it, is what it held and what
came in. `PipeKeeps` adds that up along the pipeline, and `EndKeeps` covers the
receivers and the splitter.

### Driver

`MCDMAProofs` holds for every set of channels, array, block size, alignment and
set of descriptions that satisfy `TransferAssumption`: a description names a
channel once and asks for at least one byte, all of it inside the array.
`DescriptorsTileTheTransfer` and `WaitedMeansMoved` say what they say where the
lengths written fit their field (`LengthsFit`). One configuration the driver
accepts falls outside, a `c_sg_length_width` of 26 with arrays of 2^26 bytes and
more, and there the promise is broken: by `FullBlocksVanish`, every descriptor
but the last of a transfer then has length 0 and moves nothing.

`Tile` is the fact about descriptors, for every size and block size. The
invariant says, of each channel of the call (`Slot`), what it already has at
this point of the two phases; of a channel at work (`Busy`), that what it owes is
what its descriptors have left; and of any other (`NotBusy`), that it owes
nothing unless it is about to be started or was interrupted by an error. Such a
channel is not idle, which is why `WaitedMeansMoved` holds although `wait()`
ignores the error bits: it polls on and does not return.

### What is only model-checked

* Liveness (`SearchEnds`, `SearchesEnd`, `EveryWaitEnds`, `TranslationEnds`,
  `AllArrive`, `WaitEnds`), which the prover does not handle.
* `FalseBranchInPlace`, `GroupsInPath` and `ConfluenceIsJoin`, which speak of
  what the generator visits and of dominance, defined by recursive operators.
* What depends on the generated code (`Implements`, `UsesAreDeclared`, and that
  ThreadVariables implements `NamesSpec`): HDLThread is a set of mutually recursive
  operators, which the prover cannot use.
* `AgreesWithTests`, which is about particular threads.

## Findings

Each is a run whose property states what the repository says, and which TLC
refutes.

* `dropped_statements`: a block with a terminator yields its test and branches
  only. In the thread of `tests/design/test_reset_if_wait.cpp` the statement
  `k = 1` before the `if` appears in no state; the state machine in that file
  has it in two.
* `wait_cycles`: the machine takes n + 2 clock edges for `wait(n)`. One loads the
  counter, and the counting state compares the register before it decrements it
  (`HDLThread.cpp` 579). The thread of `tests/data/thread-single-waitn.cpp` goes
  on six edges after its `wait(4)`. Designs count on the number: the pulse of
  `zfpsim/pulse.h` is to be `CYCLES` wide, "pulse width in cycles".
* `redeclared`: a declaration on the paths of two states is hoisted once for
  each, under two names. In `while (true) { int x = a; wait(); use(x); }` the
  initializer in the second state assigns to a variable nobody reads, against
  the comment at `HDLThread.cpp` 509 to 511.
* `transfer_blocks`: `MCDMA.transfer`, "a blocking version", returns when the
  tail pointers are written.

### Other observations

The models reproduce more places where code and comment part, or where the class
of inputs that is translated correctly ends. They have no run of their own; the
properties above are stated so as to leave them out.

* A false index of 0 means "no false branch" to the generator and is also the
  index of the first block of a path. In `while (true) { if (c) wait(); }` the
  wait is generated after the test, not under it (`HDLThread.cpp` 474).
* Ids of split pieces can equal ids of blocks once a thread has more than ten
  blocks; such a piece is not in `sccfg_`, has no path information and is never
  deleted (`SplitCFG.cpp` 740).
* A wait that starts a block ended by an `if` is flagged conditional
  (`SplitCFG.cpp` 957), against the comment at line 744. The search is not
  disturbed: it finds no second successor there.
* At `||`, `&&` and `?:`, and at a loop whose condition is cut by a wait, the
  search does not call itself (`SplitCFG.cpp` 210, 745, 958): both sides share a
  visited set. In `while (true) { if (a || b) wait(); S; wait(); }` the wait
  reached on one side marks the block of `S`, which is then missing on the other
  side, and from the path of that state. The proof of `PathsCoverStates` stops at
  such blocks; `EveryWaitHasAState` holds with them.
* A wait with two arguments is reported as an error and generated as a jump to
  the reset state (`HDLThread.cpp` 523). A wait argument that is not constant is
  taken as 0, whatever its value: such a wait takes two edges
  (`HDLBody.cpp` 1348).
* A conditional operator with `||` in an operand is paired with a block behind
  the join (`SplitCFG.cpp` 1255). When a wait starts the block of an operator,
  the lookup of its confluence block fails (1268). Of two statements with
  operators, the operands of the second are generated as statements (1247).
* The second body that constructs an object of a class calls the constructor
  under a name nothing has: `HDLBody.cpp` 443 enters it without looking it up.
* Overloads first called in two threads get the same name (`hNode.h` 545).
* In a chain of three classes, a call of the base's method is not translated to
  the most derived one (`HDLMain.cpp` 182). A class without constructor hides
  the constructors of its base classes (295).
* A call whose object is implicitly cast is not translated to the overriding
  method even if it does not name its class: a call of a const virtual method
  from one that is not const, or through a pointer variable (`HDLBody.cpp` 729).
* A function that only an initializer calls is not generated (`HDLMain.cpp`
  701), nor is one that is called only in the conditions of a thread behind its
  last statement (`HDLThread.cpp` 488, 531). A pointer ends the declaration of
  its list (624).
* `max_size` of the DMA driver is one more than its length field holds when
  `c_sg_length_width` is 26; full blocks then have length 0 (`MCDMA.py` 67), and
  of a transfer of several blocks only the last is moved (`FullBlocksVanish`).
* `DELAY` and `CYCLES` of `pulse.h` are truncated to 8 bits.

## Not modelled

* Predecessor lists and `identifyBreaks` of SplitCFG, whose results nothing
  reads.
* The text of statements, expressions and types (HDLBody, HDLType): syntax-
  directed, without state that outlives a node, except for the tables modelled.
* HDLHnode, which rewrites constructor hcode (sensitivity lists, unrolled port
  bindings) as trees of strings; the user-type work list of `postFire`; array
  instances.
* Model, ModuleInstance and matchers: containers filled by Clang's AST callbacks;
  their content is the input of the models.
* SuspensionAutomata, GlobalSuspensionAutomata, Automata, FindGPUMacro, Utility:
  the GPU analysis, not reached from the HDL plugin.
* The Python passes from hcode to Verilog: rewriting of a parse tree whose
  shapes are those of a grammar file.
* The zfp codecs, in four copies, and other example designs: floating-point data
  paths. Most of the repository's lines are these, tests, vendored headers and
  templates, which is why the models cover a small share of its lines.
* Reset of the stream pipelines (the FIFO's is modelled), register layout and
  cache flushing of the driver, the Verilog wrappers, the reset pulse generator.

## Plan

1. Done: the translation of threads with conditional operators and local
   variables, names and functions of modules, the stream library, the DMA
   driver; the proofs above.
2. Sensitivity lists: `SetupSenslist`, `UnrollSensitem` and `HDLLoop` of HDLHnode
   with `sensevar_movement.py`. ModuleInstance and its port bindings.
3. SuspensionAutomata: construction and merging, against the paths of the CFG.
