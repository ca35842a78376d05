# FlagTree: a verification project

FlagTree is a fork of the Triton compiler that serves several GPU back ends.
Kernels are Python functions; a JIT compiles them through a chain of MLIR
dialects to a binary, caches it and launches it; Proton, a profiler that lives
in the same repository, records what the launches do.  Most of the source is
translation from one representation to another.  This project models the parts
where a translation depends on something else: fixed points over a control flow
graph, an order of visits, iterations that overlap, threads that share memory,
state that outlives a call.

Paths are relative to `src/`.

- [Inventory](#inventory)
- [Modules](#modules)
- [Runs](#runs)
- [Fairness](#fairness)
- [Proofs](#proofs)
- [Where the code departs from its documentation](#where-the-code-departs-from-its-documentation)
- [What is not modelled](#what-is-not-modelled)
- [Plan](#plan)

## Inventory

### The shared-memory chain of the compiler

A kernel's tensors live in registers; what threads exchange goes through one
block of shared memory per program.  Three analyses, which run one after the
other over a module of functions, decide what lies where and where the threads
have to wait for one another.

**Call graph** (`include/triton/Analysis/Utility.h:266-401`).
*State*: `graph` (the calls of each function, in order), `roots`, `funcMap` (a
result per function).  *Operations*: `build`, and `walk` with callbacks per edge
and per node, before or after the callees.  *Interacts* with `ModuleAllocation`,
`ModuleMembarAnalysis` and `ModuleAxisInfoAnalysis`, which derive from it and
fill `funcMap` from the callbacks.  *Hard*: a callee shared by two callers is
walked once per path; `visited` is never inserted into.  *Must hold*: a
function's result is there before a caller needs it, and the last result is the
one that counts.

**Allocation** (`lib/Analysis/Allocation.cpp`, `include/triton/Analysis/Allocation.h`).
*State*: buffers (explicit, scratch, and a virtual one per call) with live range,
size, alignment and offset; the triples of the first placement; the interference
graph, the colours, `sharedMemorySize`.  *Operations*: `resolveLiveness`,
`calculateStarts`, `buildInterferenceGraph`, `allocate`, repeated until no
conflict is left.  *Interacts*: a call's virtual buffer has the size of the
callee's memory; the offsets go to Membar, and to the lowering as the attribute
`allocation.offset`.  *Hard*: bumping creates conflicts that were not there; a
map that a loop empties and refills; the end of the loop.  *Must hold*: buffers
that are live together are apart, aligned, and inside the declared size; the
loop ends.

**Membar** (`lib/Analysis/Membar.cpp`, `include/triton/Analysis/Membar.h`).
*State*: per block the accesses pending on entry and at its end, a worklist, the
barriers inserted so far, a summary per function.  *Operations*: visit an
operation (a barrier, an asynchronous wait, an access, a call), a terminator,
join into the successors, summarise the returns.  *Interacts*: intervals from
Allocation, summaries of callees, in the order of the call graph; it changes the
program it is analysing.  *Hard*: a revisited block already has the barriers of
earlier visits; a skipped successor may have seen an older state; loops.
*Must hold*: no path of the kernel runs two conflicting accesses without a
barrier between them; the worklist empties.

**Calls in the lowering** (`lib/Conversion/TritonGPUToLLVM/ControlFlowOpToLLVM.cpp`).
*State*: the base of shared memory every function receives.  *Must hold*: what a
callee does through the base it is given leaves alone what its caller has live,
and races with nothing.

### Proton

**Session manager** (`third_party/proton/csrc/lib/Session/Session.cpp`).
*State*: sessions by id and by path, which are active, and per scope interface
and op interface a counter of the active sessions that use it.  *Operations*:
the bindings `start`, `activate`, `deactivate`, `finalize`, `finalize_all`,
`enter_scope`, `exit_scope`, `enter_op`, `exit_op`, `add_metrics`.  *Interacts*:
a session refers to a profiler, a singleton it shares with other sessions; to
its data; and to a context source.  *Hard*: registrations in three places that
must stay together, exceptions in the middle, finalizing what others use.
*Must hold*: active means registered everywhere and profiled; what is finalized
is never touched.

**Context sources** (`csrc/lib/Context`).  *State*: `ShadowContextSource` keeps one
stack of scopes per session; the python source reads the interpreter's frames,
under the interpreter lock.  *Must hold*: a scope that was entered can be left,
and the stack of an active session is where the program is.

**Python layer** (`proton/profile.py`, `scope.py`, `flags.py`, `hook.py`).
*State*: the flag `profiling_on`, the scopes open in a thread.  *Interacts* with
the manager through the bindings, and with the launcher through the launch hooks.
*Hard*: the flag is read on entry and on exit of a scope; scopes are open while
sessions come and go.

**Profiler and data** (`csrc/include/Profiler/*.h`, `csrc/lib/Profiler/CuptiProfiler.cpp`,
`csrc/lib/Data/TreeData.cpp`).  *State*: the set of registered data, the
correlation ids submitted and completed, the map from scope to context, the
op that is in progress per thread, and a snapshot of the data set per launch.
*Operations*: callbacks on entry and exit of a launch, in the launching thread;
`completeBuffer` in a worker of CUPTI; `start`, `flush`, `stop`, `registerData`,
`unregisterData`, `dump` under the bindings.  *Interacts* through three locks (the
interpreter's, `Profiler::mutex`, `Data::mutex`), the callbacks and the worker's
queue.  *Hard*: all of it at once.  *Must hold*: nobody waits for ever, no data is
touched after it was destroyed, a metric is under the launch it belongs to, and
what had returned before a flush is recorded.

### The runtime

**Kernel cache and compile driver** (`python/triton/runtime/cache.py`,
`python/triton/compiler/compiler.py`).  *State*: files per key, and a group file
that names them.  *Hard*: several processes compile one key, one dies between
two files, a cleaner removes some; a remote cache with an index of its own.
*Must hold*: a hit is a whole kernel, made from one compilation's key.

**JIT function** (`python/triton/runtime/jit.py`).  *State*: kernels by device and
key, the hash of the source, captured globals.  *Hard*: two threads, a changed
source, a preloaded kernel.  *Must hold*: the kernel that is launched was compiled
from the current source and globals.

**Autotuner** (`python/triton/runtime/autotuner.py`).  *State*: the best configuration
by key, the arguments of the call under way, the copies to restore.  *Hard*: a
configuration that fails in the middle, two threads.  *Must hold*: benchmarking
leaves the arguments as they were, and the cached configuration ran.

**Code generator, language, interpreter** (`python/triton/compiler/code_generator.py`,
`python/triton/language`, `python/triton/runtime/interpreter.py`).  Sequential
translation of a syntax tree.

### Transformations

**Software pipeliner** (`lib/Dialect/TritonGPU/Transforms/Pipeliner`).  *State*: a
schedule of stages and clusters, the expanded loop, the buffers' insert and
extract indices, the number of copies each wait leaves in flight.  *Operations*:
choose the loads to copy asynchronously, schedule, allocate the rings, expand,
put the waits right.  *Hard*: the index of a ring, the parity of a barrier and the
count of a wait must be right on every path through prologue, kernel and exit,
for every trip count.  *Must hold*: the pipelined loop does what the loop says.

**Layout passes** (`TritonToTritonGPUPass.cpp`, `Coalesce.cpp`, `PlanCTA.cpp`,
`RemoveLayoutConversions.cpp`, `Utility.cpp`, the canonicalization
of `Dialect.cpp`, `ReduceDataDuplication.cpp`, `ReorderInstructions.cpp`).  *State*: the
function, the planner's queue of casts, the candidate layouts of each value, the values already rewritten, the
values already made again in another layout, operations waiting to be erased.
*Hard*: rewriting while half of the function still has the old layouts; loops and
conditions whose signatures change under a slice; patterns that feed one another; casts of two
directions that move towards one another, split and merge.
*Must hold*: the function stays well formed, does what it did, keeps the layouts
of its memory accesses and dots; the patterns run out.

**Axis information** (`lib/Analysis/AxisInfo.cpp`).  *State*: per value what is known
of its contiguity, divisibility and constancy; a worklist of a data flow analysis.
*Hard*: three facts inferred apart and used together to make accesses wider.
*Must hold*: what is claimed is true of the values; a vector access touches the
elements of its own registers.

**Layouts and lowering** (`lib/Dialect/TritonGPU/IR`, `lib/Tools/LinearLayout.cpp`,
`lib/Conversion`, `third_party/nvidia/lib/TritonNVIDIAGPUToLLVM`).  *State*: the
registers of lanes, warps and CTAs, and the shared memory they exchange values
through.  *Hard*: two emitters of one index function; tensors smaller than a layout,
so that elements repeat; barriers between phases.  *Must hold*: every register
holds the element that everybody thinks it holds; a store writes each element once;
reductions, scans and conversions give the right elements under every interleaving
of warps.

**Other passes.**  `AccelerateMatmul`, `Prefetch`, `OptimizeDotOperands`,
`OptimizeThreadLocality`, fences: choices of layouts and local rewrites.

**Back ends and build** (`third_party/*/backend`, `python/setup_tools`,
`documents/decoupling`).  A specialization mechanism (`spec(...)`, `FLAGTREE_SPEC_*`)
replaces functions by a vendor's; drivers call vendor libraries.

`PROJECT.json` lists the same components with their status, and every hazard
with the line at which it bites and the properties that cover it.

## Modules

| module | models | built on |
|---|---|---|
| `CallGraph` | `CallGraph::walk` and the sizes that functions hand up | |
| `Allocation` | `AllocationAnalysis::computeOffsets` | |
| `ModuleAllocation` | both in one: a function's buffers are placed in the walk; implements `CallGraph` | `CallGraph`, `Allocation` |
| `Membar` | `MembarAnalysis` and `ModuleMembarAnalysis` | takes the order of `CallGraph` as given |
| `MembarKernel` | the kernel Membar leaves, executed | `Membar` |
| `MembarCalls` | the same with calls really entered, and shared memory's contents | `MembarKernel` |
| `SessionManager` | the manager, the shadow contexts, the registrations of the profiler | |
| `ProtonApi` | `profile.py` and `scope.py` | `SessionManager` |
| `ProtonLaunch` | launches, callbacks, worker and bindings at once | |
| `SequentialLoop` | what a loop promises | |
| `PipelineSchedule` | `MatmulLoopPipeline.cpp` and `PipelineExpander.cpp` as functions of a loop | |
| `Pipeliner` | the expanded loop, executed; implements `SequentialLoop` | `PipelineSchedule` |
| `KernelStore` | what a cache of kernels promises | |
| `KernelCache` | `compile()` over `FileCacheManager`; implements `KernelStore` | |
| `JitFunction` | `run`, `warmup`, `preload`, the cache in memory and the captured globals | `KernelCache` |
| `Autotuner` | `run`, `_bench`, hooks and pruning | |
| `TensorIR` | functions with nested blocks and a layout per value, their verifiers, the inference of layouts | |
| `LayoutPropagation` | `LayoutPropagation` of `RemoveLayoutConversions.cpp` | `TensorIR` |
| `RemoveLayoutConversions` | the whole pass | `LayoutPropagation` |
| `LayoutAssignment` | where layouts come from: `ConvertTritonToTritonGPU`, `Coalesce` and `PlanCTA` | `RemoveLayoutConversions` |
| `LayoutPasses` | these, `RemoveLayoutConversions` and the two passes behind it in a row, and what a function means | `LayoutAssignment` |
| `Encodings`, `LinearLayouts`, `IndexEmission` | the layout attributes, linear layouts, and the two emitters of indices | |
| `AxisInfo` | `AxisInfoAnalysis` and its visitors | `Encodings` |
| `SimtKernel` | lanes, warps, CTAs and barriers | `IndexEmission` |
| `StoreLowering`, `ReduceLowering`, `ScanLowering`, `ConvertLowering`, `AccessLowering` | the lowering of one kind of operation each, executed | `SimtKernel` (and `AxisInfo`) |
| `MC*` | the inputs of the runs | |
| `*Proofs` | theorems | |

### `Membar`, `MembarKernel`, `MembarCalls`

One action of `Membar` visits one operation.  `work`, `cur`, `pos`, `info`,
`inMap`, `outMap`, `seen`, `funcInfo` are `blockList`, the block and operation under
the iterator, the running copy of `inputBlockInfo`, the two maps, the keys of
`outputBlockInfoMap`, and `funcBlockInfoMap`.  A barrier that the pass inserts is
not spliced into the body: `bars` holds the positions that have one in front of
them, and a visit runs into it as the code would.  A program is a record of
blocks, successors, operations and the buffers' intervals; operations that touch
no shared memory are left out, an access is the sets of buffers it reads,
writes and uses as scratch.  The intervals come from the program and not from the
buffers' names, so that two buffers that share bytes conflict as in the code.
The code notices write after write as well, whatever the comment of
`Membar.h:92` says.

`MembarKernel` adds a program counter and what is pending since the last barrier
(`at`, `pend`).  The kernel is launched when the pass is done, takes any branch,
and treats a call as the analysis does.  `MembarCalls` gives up that last
abstraction: it has a stack of frames with the base each was handed, and the
contents of every byte, to see what a call does to its caller.

### `Allocation`

`offset`, `triples`, `left`, `edges`, `colors`, `smem` are the variables of
`calculateStarts` and `allocate`; one action is one iteration of one of their
loops.  Live ranges, sizes and alignments are inputs.  The multimap keeps equal
keys in the order of insertion, which `stamp` stands for.  `buffers[0]` is the
only buffer that begins with a colour, which the model keeps.

### `CallGraph` and `ModuleAllocation`

A frame of `stack` is one activation of `doWalk` with its next edge.
`LeaveFunction` runs the node callback of `ModuleAllocation`: the function's own
need, and the largest of its callees', which stand for the virtual buffers.
`size` and `done` are `funcMap`.  In `CallGraph` sizes add up by maximum and sum
only.  `ModuleAllocation` runs all of `Allocation` where that module only leaves a
function: its buffers and a virtual one per call are placed, and the size is what
the placement needed.  `ImplementsWalk` maps the one to the other.

### `SessionManager` and `ProtonApi`

Each binding is one action, since the manager's mutex (taken for writing by the
calls that change it) makes it one; the loop of `exit_scope` that may throw
half way chooses which sessions it got to.  A call that dereferences an absent
session sets `crashed`.  `counts` and `opCounts` are `scopeInterfaceCounts` and
`opInterfaceCounts`; `dataSet` and `started` are the profilers'.

`ProtonApi` wraps the bindings in Python.  The program it models nests its
scopes in every thread, as a `with` block or as a pair of calls, and obeys the
rules of a run:

| rule | the program ... | without it |
|---|---|---|
| known backend | starts no profiler that does not exist | the path stays registered (`Session.cpp:117`); the second start dereferences a null session: `NoCrash` fails |
| live session | activates only what is not finalized | the same, at `Session.cpp:82` |
| outside scopes | starts, (de)activates and finalizes with no scope open | a scope that is open when its session starts cannot be left (`Shadow.cpp:12`, `scope.py:54-57`): `ScopesExitCleanly` fails |
| one thread | opens scopes in one thread at a time | the one stack of `Shadow.h:24` serves all threads; `ScopesExitCleanly` and `ContextIsProgram` fail |
| no one else | finalizes a session with no other active on its profiler | the shared profiler is stopped (`Session.cpp:52-55`), and an active session is no longer profiled: `ContextIsProgram` fails |

`RuleSets` gives a run the sets of rules its programs keep to.  `proton_program` has
those that keep all of them and those that keep only to one thread: the manager's
own promises are checked for both, those to the program for the first.

### `ProtonLaunch`

The state of a launcher is a record: its step in `launch()` of nvidia's
`driver.py`, whether the profiler's op and the data's op are in progress in its
thread, its stack of external correlation ids, its snapshot.  `main` is the step
of the binding under way.  `gil`, `profLock` and `dataLock` name the holders of
the locks that are kept over several actions; a lock that is taken and given
back inside one action is a guard.  CUPTI, the device and the driver are
external: a launch with callbacks leaves a kernel with the id on top of the
stack, the kernel finishes some time, its record goes to the worker some time,
`activityFlushAll` returns when all finished records were handed over, and a
forced flush hands over the unfinished ones without their times.  A launch is
one pair of callbacks.  `caught`, `returned`, `owed` and `stale` are history.

A program is a record of what it knows to do: which calls it makes only after all
launches have returned, whether the Triton hook is registered, whether a
launch can fail, whether the main thread has a device context, and the context
source.  A finalizing program always joins: `finalize` destroys the data, and
nothing in the code protects a launch that is under way.

### `Pipeliner`

`PipelineSchedule` turns a loop into a program: which loads become asynchronous
copies (through `cp.async` or bulk copies with barriers), the length of the ring, the
rewritten body, the stage and cluster of each operation; its second part gives the
prologue and the kernel, the arguments that carry values over stages, the predicates,
the count of each wait (`minNumInterleavedCommitOps`), and which Hopper dots are
left in flight (`asyncLaunchDots`).  An `if` that uses such a dot begins with a wait,
unless it only yields it (`OnlyYields`, the uses that `insertAsyncDotWaitInLoop` skips): it
hands on a dot that is still in flight, and what uses the `if` must wait for it, or
accumulate onto it (`HandsOn`, `prog.flow`).  These are functions; the state machine of
`Pipeliner` runs what they give.  A copy lands and a dot retires at any time between
its issue and the wait that covers it.  A value is the number of the iteration it
belongs to, or `Wrong` if anything it was made of was not of that iteration, had
not landed, or was overwritten.  So `SequentialLoop` can ask that effect number *i*
has the values of iteration *i*, without a model of arithmetic.

### `KernelStore`, `KernelCache`, `JitFunction`, `Autotuner`

Files hold the number of the build that wrote them; `put` is atomic (it replaces by
name), a group is many puts, and a reader reads each file when it gets there.
Processes die between any two steps, and a lossy directory loses files.
Making a kernel may fail at any stage, with the files of the stages before it put
(`MakeFails`).
`KernelStore` is the map from keys to kernels that this must look like: what was
published is found, what was found is given, unless the store is lossy, and it
never gives another kernel.  `JitFunction` sits on the concrete cache: arguments
are records of what the two keys read of them (type, divisible by 16, equal to one),
the source and one global may be changed, threads share a process's caches.
`Autotuner` abstracts the kernel to what its arguments go through.

### `TensorIR` and the layout passes

A function is a map from numbers to operations and blocks; a value is `<<n, k>>`, the
k-th result of operation n or argument of block n.  A layout is a tuple whose head
is its kind: blocked layouts with their threads and order, tensor cores with version and
warps, slices and dot operands of these, shared memory as one.  Shapes are gone,
except for what decisions read of them: a load is `"cheap"` or `"expensive"`, a
reduction gives something `"small"` or `"big"`, and `ElemsPerThread` says which
layouts an expensive view changes between.

`LayoutPropagation` collects anchors, follows their layouts forward by a queue, picks
one per value, and rewrites; rewriting takes a step per operation, with `pending`
the worklist of regions, so that one half of the function is new while the other
is old, as in the code.  `RemoveLayoutConversions` goes on as
`runOnOperation` does: patterns, backward rematerialization, hoisting,
accumulators, and the final clean-up with the removal of dead loop arguments.  Patterns
apply in any order (the greedy driver's is an implementation detail).

`LayoutAssignment` puts in front of this what gives a function its first layouts.  A
type is `<<"tensor", shape>>` until `ConvertTritonToTritonGPU` has replaced it, and a
blocked layout is then `<<extent, sizePerThread, CTAsPerCGA, CTASplitNum>>` for each
dimension, and an order, from which the threads and warps follow.  `Coalesce` gives every access
a layout of its own; which dimension and how many elements for a thread the axis analysis
finds is a choice among those that the function is given.  With several CTAs, `PlanCTA` puts casts around the dots, the reductions or
else the stores; a cast has its direction as an attribute, and the queue, from which one
cast at a time is moved, merged or dropped, is `worklist`, with `stepUnchanged` as in
the code.  An assertion that fails, or an error that the planner reports, is a step that
there is not, and `PassEnds` has to hold in spite of it.  The anchors whose layouts the
passes keep are those that a function has when its layouts are assigned (`source` starts
anew there), while its meaning is compared over all passes.

`LayoutPasses` appends the passes that follow it for nvidia, and says what a function
means: `Meaning` runs it on terms and collects its effects; conversions mean nothing.

Kept in the code's order: use lists and forward slices (in reverse and in program
order), topological sorts (in program order).  Left out: induction variables and
bounds of loops, which have no layouts; `join`, `split`, `cat`; reshapes that may not
reorder.  For functions that come without layouts also: `while` loops over tensors,
accesses that mix scalars and tensors, slices of slices, and two dots on several
CTAs, which the planner refuses (`PlanCTA.cpp:230`); and the passes that nvidia runs between
the first and the last removal of conversions, so that their dots stay blocked.

### Layouts, `AxisInfo` and the lowering

`Encodings` and `LinearLayouts` give the two descriptions of a distributed layout and
`IndexEmission` the element each register holds by either.  A kernel of one operation is then run
by `SimtKernel`: the lanes of a warp go together, warps in any order, with the
barriers the lowering emits.  The values are symbolic so that nothing can be right
by chance: a reduction's value is the set of elements summed (with a mark if one was
summed twice), a scan's is the sequence combined, a conversion's is the element itself.
`AxisInfo` runs the data flow analysis on a program of integers and pointers and
`AccessLowering` evaluates the same program, so that a claim is compared with every
value it is about, and each vector access with the addresses of its registers.

## Runs

`tlc -config X.cfg M`, with `M` as listed in `PROJECT.json`.

| run | question | bounds, and why they are enough | states |
|---|---|---|---|
| `membar_kernel` | Is every kernel free of races, are summaries sound for those who return, does the worklist empty? | all bodies of up to three operations over three buffers, two of which share bytes, on the control flow graphs of `scf.for`, nested loops, `scf.if` and a caller with a callee, some of which are also run with the call entered; a loop needs two visits and an `async_wait` next to a barrier for the interesting cases, all of which occur | 146 629 |
| `membar_while` | Does the worklist empty for `scf.while`? | ten blocks, the smallest found | violation |
| `membar_call_clobber` | What does a callee do to its caller's data? | a callee that uses one buffer | violation |
| `allocation` | Is the placement sound, does it end, and do the sizes of a module add up? | a kernel of up to three buffers with every live range over four ids, two sizes and alignments; one of five buffers with profiles of sizes chosen so that a bump makes a conflict that was not there; every acyclic graph of three functions with up to two calls each, with a buffer over the first call | 523 031 |
| `proton_program` | What does a program that keeps the rules see, and what holds for any? | three sessions over two paths and two profilers (and one that does not exist), two threads, nesting of two | 820 391 |
| `proton_launch` | Nobody stuck, nothing freed used, metrics where they belong? | two launchers, two launches, four calls, one retry of the flush (100 in the code): the calls suffice for activate, deactivate, activate, finalize around and inside launches | 369 693 |
| `proton_deadlock` | The same with the python context source and no join | two calls | violation |
| `pipeline` | Is a pipelined loop the loop? | eleven loops: products, with an index loaded first, on Hopper with and without bulk copies, with conditions, with a sum that an `if` scales or just hands on, two dots, no dot, nothing to pipeline; 2 to 4 stages; 0 to 4 iterations, so that the loop is shorter than, as long as and longer than the pipeline | 21 724 |
| `runtime` | Is the kernel that runs the one asked for, and does tuning leave no trace? | two calls by one thread with any of six arguments, or one each by two threads of one process or of two, which die and start again, and lose files in one program; the arguments cover the classes of the keys; up to three configurations in any mix of fast, slow, too large and failing | 103 454 |
| `runtime_globals` | Is it compiled under the globals of now? | one thread, three calls | violation |
| `lowering` | Do registers, vectors, reductions, scans and conversions hold the elements they should? | 965 kernels: blocked layouts with four lanes a warp, two to four warps, tensors smaller than, equal to and larger than the layout, tensor cores of nvidia and amd with their own warps, slices, CTAs that split | 23 190 |
| `layout_passes` | Do the layout passes keep what a function does, and end? | 54 functions with layouts and 11 without, with at most 25 operations: what each pattern, each branch of a slice's rewriting and each move of a cast needs to occur was checked one by one; of those without layouts, one is for one CTA, nine are for two and one is for four, with 128 threads each, and shapes for which the tiles of a dot split either dimension; two elements for a thread at most (`PerThread`), along either dimension for seven of them and along one for the others (`fast`; the interleaving of patterns makes the rest too large); loops run 0 to 2 times | 33 005 |

Deadlock is checked where the system goes on for ever or ends in a step of its own
(`membar_kernel`, `pipeline`, `lowering`, `layout_passes`) and switched off where it
stops: the passes end, and a program of Proton or of the runtime is through
when its bounds are reached.

What the properties say is stated above each of them.  In short:

* `MembarInv` (of which `AnalysisInv`, the loop invariant of the worklist, and
  `KernelInv` are parts): what is pending at run time is within what the analysis
  assumed there.  `NoRace` and `SummaryCoversReturn` follow.  `Termination`: `<>Done`.
* `CallerViewSound`: back from a call, the caller's pending accesses are covered.
* `AllocationInv`, `Placed` (at the end all that is live together is apart
  and inside `sharedMemorySize`), `AllAllocated` (the walk ends with every function
  allocated).  The comment at `Allocation.cpp:518-520`
  argues that conflicts keep being reduced; that is not what ends the loop: the
  instances with five buffers have passes that put two buffers on one another
  that were apart before.  Termination holds on all instances.
* `RootsSuffice` (the largest of the roots, which `getSharedMemorySize` returns, is
  enough for every function), `ImplementsWalk`.
* `SessionInv`, `FinalizedForGood`, `SkippedIsSkipped`; `NoCrash`,
  `ScopesExitCleanly`, `ContextIsProgram` for programs that keep the rules.
* `NoUseAfterFree`, `MetricsAttributed`, `ReturnedIsRecorded`, `CallsReturn`.
* `SchedulesAreSound` (before it runs, the program is as the theorems need it),
  `RefinesSequentialLoop`, `DotsKeepTheirBuffers`, `NothingBeyondTheLoop`,
  `LongLoopResultsAreLast`.
* `LaunchedIsCurrent`, `ImplementsStore`; `MeasuringLeavesNoTrace`, `MeasuredForThisKey`.
* `HoldsTheTensor` (of which a part is that the two emitters agree), `MaskedOnce`,
  `ReduceExact`, `ScanExact`, `ConvertExact`, `InfoHolds` (what `AxisInfo` claims is so),
  `AccessesOwnElements`.
* `Verified`, `MeaningKept`, `AnchorsKeepLayouts`, `PassEnds`.

Every property of a passing run has a mutant in `PROJECT.json`: a definition of the
model changed as a plausible bug would change the code, under which the run
finds the property violated.  The mutants stand beside what they mutate and are
marked as such.

## Fairness

* The compiler's passes are one thread that nothing blocks: `WF_vars(Next)`.  In
  `membar_kernel` the fairness is on the pass alone; nobody has to launch.
  `LayoutPasses` has a variable that turns over with every step, so that its fairness
  (`WF_tick`) need not ask which pattern matches; that there always is a step until the
  passes are over is what the deadlock check shows.
* `Pipeliner`: the program runs on while it is not waiting, and the hardware completes
  what was issued (`WF` of each).
* `ProtonLaunch` assumes that each thread is scheduled when its lock is free
  (`WF` of each launcher's steps once it has begun, and of the call under way), that
  the device finishes kernels, and that CUPTI's worker handles records.
  Launching and calling are not fair: nobody has to.  A lock that
  is free now and then would need strong fairness of its waiters; with a bounded
  number of launches and calls there is an end to the contention, so weak
  fairness is enough.
* The session manager, the runtime and the lowering have no liveness property and no
  fairness; that no lowered kernel gets stuck at a barrier is the deadlock check.

## Proofs

`tlapm X.tla`.  The theorems hold for every value of the constants under the
named assumptions of the modules.

**`MembarProofs`** (`NoBlockAssumption`, `ProgramsAssumption`: a well-formed program
whose calls go to earlier functions).  `TypeCorrect`, `AnalysisCorrect`,
`PendingIsAnalysed`, `RaceFree`, `SummarySound`.  Race freedom is not inductive: it
needs to know that the barriers and the maps agree.  `AnalysisInv` says so at
every point of the loop.  A block that neither waits nor is being visited is
*settled*: from its input on, every operation is either behind a barrier or does
not conflict, and what is pending is passed on (`Link`, `Chain`), up to its
output; every successor's input covers that output; the block under the
iterator is a chain up to its position.  A visit that skips its successors is
the hard case: its output equals the joined one, so that the edges still hold.
The inputs of a block only grow, so barriers once needed are still
there, which is why joined outputs are enough.  `KernelInv` then follows the
kernel along the chain.  No assumption on the control flow graph is needed:
race freedom holds even where termination does not.

**`AllocationProofs`** (`InstancesAssumption`).  `AllocationCorrect`,
`TripleMapNeverEmpty`, `PlacedApart`, `PassesSeparate`.  The map is never empty
because the triples together always reach each live range that is left.
A pass separates its edges because colour 0 is an independent set and buffers
after it go beyond all neighbours' ends; the invariant carries that
through the loop of the bumping, where some neighbours are already at their new
offsets and some are not.

**`CallGraphProofs`** (`GraphsAssumption`, `SizesAssumption`, `MaxDepthAssumption`; for the composition
also `ModulesAssumption`, `ScratchAssumption`, `NoFunctionAssumption`).
`WalkCorrect`, `CalleesBeforeCallers`, `CallersHoldCallees`.  The strengthening is
`EdgesDone`: on each frame, all edges before the next one lead to functions that
are done, and the next one to the frame above.  It holds of cyclic graphs too, up
to the depth at which the process ends.  `RootsAreEnough` is about acyclic graphs
(`NoCycle`: callers have a smaller number than what they call).  `RootsInv` knows the
roots that were walked.  Instead of an induction on the depth, take a function of
least number that is not held by a root: it is no root, so it has a caller, which has
a smaller number, is held, and holds it.

`PlacementsImplementWalk` composes this with `AllocationProofs`: `ModuleSpec` implements
`CallGraph` (with `Sizes = Nat`: the abstract walk may report any amount).  `ModuleInv` says
that while a function is allocated, the walk stands behind its edges (`AtItsEnd`) and the
allocation's input is what its buffers and the sizes of its callees make of it; so
`AllocationInv` holds of every function, and `Placed`, at its end, puts every virtual buffer
below the size that is reported.  `ModulesArePlaced` and `ModuleRootsAreEnough` are what
follows for the composition.

**`SessionProofs`** (the assumptions of `SessionManager` and `ProtonApi`).
`ManagerCorrect`, `FinalizedIsFinal`, `SkippedStaysSkipped` hold for any sequence of
calls.  The three registrations are equal to functions of `activeSessions` and
`sessions`; the counters need the cardinality of sets that gain or lose one element,
or all sessions at once in `finalize_all`.  Ids are fresh because a live session is
below `nextSessionId`.  `ProgramsKeepManager` carries that over to every program of
the Python layer, with rules or without.  `RulesPreventCrashes`, `RulesLetScopesExit`
and `ContextsAreThePrograms` are about programs that keep all the rules of the table
above.  Their invariant `ProgramInv` says that a path leads to the session which has
it, that live sessions have the flag on, that one thread at most has a scope open, that
every open scope was entered under the flag as it is, and that an active session's
stack is that thread's.  `_local.scopes` is the subsequence of the open scopes that
`enter_scope` opened; `Opened` says so with an increasing map of places, since the
prover has no induction to compute a filter by.

**`LaunchProofs`** (`ProgramsAssumption` and the others of `ProtonLaunch`): any number of
launching threads, launches, calls and retries.  `TypeOK` and `BaseInv` (the holders of the locks
are where they took them, enter and exit of a callback come in pairs, a call knows
what it has switched off) hold of all programs.  Each theorem then names the weakest
rule under which we found it to hold; TLC finds a violation without it.

| theorem | rule | invariant |
|---|---|---|
| `JoinedDataIsNotTouched` | who joins before `finalize` joins before `deactivate` too | `FreedInv`: what is drained at each step of the call (first the device, then the records and the worker), and that freed data is in no snapshot |
| `MetricsAreAttributed` | with the Triton hook, no launch fails behind it | `AttributedInv`: an op under way carries the scope of its own launch, ids are distinct, and the activity of a launch is in one place only, on its way from the device to the data |
| `ReturnedLaunchesAreRecorded` | the same, and with the hook launches return before `deactivate` | `RecordedInv`: a launch that returned, and was not caught by a deactivation, is recorded or on its way with a scope that the tree knows, and what the flush waited for is no longer on the device |

**`PipelinerProofs`** (`StagesAssumption`, `TripAssumption`), for any loop, number of stages
and of iterations, and whenever copies land and dots retire.
`DynamicLoopsReadNothingBeyond` asks nothing of the schedule: the predicates are enough
for loops whose bounds are not constants (`BeyondInv`: what a copy in flight will put into
a buffer is of an iteration of the loop).  `CrossingValuesAreCarried` asks only that the
order is kept: the values that `analyzeCrossStageValues` lets the kernel carry are then all
that are used in a later stage than the loop's own arguments reach, each up to its last
use (`ValuesAreCarried`).  The other three have the hypothesis `SoundSchedule`, a condition on the program that the pass made and not on how it runs:

| part | says | from |
|---|---|---|
| `OrderIsKept`, `PrologueIsComplete` | what an operation needs runs before it; the prologue is all of the turns before the first, in order | `verifySchedule`, `emitPrologue` |
| `IndicesStandAlone`, `EffectsComeLast` | the ring's counters need no predicate; effects are of the last stage | `createKernel` |
| `RingIsLongEnough` | a buffer's readers are through before it is filled again | `createAsyncOps` |
| `CopiesLand`, `BulkCopiesLand` | between a copy and its first reader there is a wait that lets pass no more groups than were committed since; barriers expect, are waited for and come round in order | `updateWaits`, `createTMABarrierAndWait` |
| `DotsRetire` | a dot in flight is waited for before its buffers are filled and before its result is used, also through the `if`s that hand it on | `asyncLaunchDots` |

`SchedulesAreSound` checks it, and `ValuesAreCarried`, of every program of the run, whose loops are of the kinds
that the tests of the repository have.  What it asks for every iteration it asks up to the largest
stage, from where each turn is like the one before (`LandsShift`, `RetiresShift`); so the
hypothesis is finite and the theorems hold for any number of iterations.

The argument gives each operation of each iteration a time: its turn, which is negative
in the prologue, and its place in the kernel.  The program's position is a time as well,
and what has run is what has an earlier one (`Ran`), in the prologue and the kernel alike.
`LoopInv` says, in these terms, what every variable holds: a value is that of the iteration
that this turn runs its operation for (`FlowInv`); a group of copies that is the *n*-th to
be committed is the *n*-th to land, so that the number of groups that are left tells which
have landed (`GroupInv`); a buffer holds the iteration that filled it last, landed or on its
way (`SlotInv`); a barrier has gone round as often as the ring has (`BarrierInv`); the *n*-th
dot to be issued is the *n*-th to retire (`DotsInv`); effects were done once a turn (`DidInv`).
None of these holds alone: that a buffer may be filled needs the order of the copies, that a
wait is enough needs the counting of the groups, and that a value is right needs both.
`SoundPipelinesKeepBuffers` and `SoundPipelinesLeaveTheLast` follow from `LoopInv`, and
`SoundPipelinesImplementTheLoop` shows each step to be one of `SequentialLoop`, or none.

**`RuntimeProofs`** (the assumptions of `KernelCache`, `JitFunction` and `Autotuner`).
`LaunchesAreCurrent`: what a kernel was built for is what its key says (`Suits`), in the
files, the jobs of `compile()`, the caches and the calls under way, for any number of
processes and threads, whatever dies, is evicted or edited; and two arguments of one key
were compiled under attributes that hold of both (`SameKeyFits`).
`ImplementsKernelStore` shows each step of all this to be one of `KernelStore`, or none:
a group file names only files that were put, while nothing is evicted, so a hit is whole.
`TunerLeavesNoTrace` knows where the copy is while a configuration is measured
(`Restorable`); `TunerMeasuresForTheKey`, that what is remembered under a key is of
arguments with that key, and that places in the key are places in `_args` when what the
configurations give is declared last (`MetaLast`, the premise of the property).

**`MembarProofs`** also has `CallerViewIsSound`, with the calls entered as they are
lowered.  What is pending in the function that was launched is not inductive, because
inside a callee nothing bounds it but the callee's own analysis: `CallsInv` says that
what is pending is within what some frame of the stack assumes, and a return hands
the callee's part to the summary.

Every inductive invariant was an `INVARIANT` of a TLC run before it was proved, those of
`ProtonLaunch` with all 64 programs there are rather than the four of the run.

Only model-checked:

* termination of the passes, `PassEnds`, `AllAllocated` and `CallsReturn`: liveness is out
  of the prover's reach;
* `SoundSchedule` of what the pass makes, the hypothesis of three theorems on the pipeliner, and that a pipelined
  loop is left (`<>over` in `RefinesSequentialLoop`): the first is about what folds over the
  operations of a loop compute, which needs an induction over them, the second is liveness;
* all properties of layouts, `AxisInfo`, the lowering and the layout passes, for the same
  reason: `TensorIR`, `AxisInfo` and `Encodings` are built from recursive operators.

## Where the code departs from its documentation

Each has a run that ends in a violation, and an entry under `findings` that quotes
the line.

1. **The worklist of Membar may not empty** (`Membar.cpp:57`).  It compares this
   visit's output with the join of all; a barrier inserted on a revisit keeps them
   apart for good, and two such blocks on a cycle re-enter each other for ever.
   It takes a loop whose condition uses shared memory, with conditionals before it
   that make the inputs grow in the right order.
2. **A callee gets its caller's own base** (`ControlFlowOpToLLVM.cpp:81`), because the
   offset is looked up on the function; it then writes over what is live across
   the call.  This concerns functions that are not inlined.
3. **The data's mutex and the interpreter lock are taken in both orders**
   (`TreeData.cpp:21`, `Python.cpp:75`) with the python context source.
4. **A kernel compiled under one value of a global is launched under another**
   (`jit.py:686`): it is kept before the globals are compared, and no key has their
   values.

### Limits the runs stay within

Reading the code for these models showed inputs for which a property does not hold.
The runs leave them out, which is why they are listed here.

*Membar.*  What a callee accesses before its own first barrier is not in its summary
(`Membar.cpp:126` and `72-78`, against `Membar.h:138-140`) and can race with what the
caller has pending.

*Pipeliner.*  `insertAsyncDotWaitInLoop` returns early and leaves a use inside an `if`
without a wait (`MatmulLoopPipeline.cpp:1498-1500`); of a Hopper dot that is used under an
`if` and never yielded, rule 3 takes the uses of a null `iterArg`
(`MatmulLoopPipeline.cpp:1594`; `Init` leaves out loops with such a dot, `NullIterArg`);
`PipelineExpander.cpp:136` compares
the trip count with `maxStage` before that is set; a schedule may be rejected after the
body was rewritten (`MatmulLoopPipeline.cpp:826`); stores in early stages cannot be
predicated; with more stages than iterations, a pointer that is used after the loop is
that of a later iteration (`PipelineExpander.cpp:587-600`; `LongLoopResultsAreLast` says
for which loops it is not).

*Runtime.*  An annotated `int` parameter given `None` has the key of an int; setting `src`
resets the hash and not the caches of kernels; an evicted binary makes a hit that
fails every time; globals whose value is `None` are not tracked; `key_idx` counts all
parameters and `_args` holds only those the caller gives, so that a parameter of the
configurations that is declared before a key parameter shifts the key
(`autotuner.py:153`; `MeasuredForThisKey` is about the others); pruning to
nothing ends in a `ValueError`.

*Scans.*  A reverse scan flips lanes that repeat elements (`ScanOpToLLVM.cpp:464`);
a forward scan is wrong with one thread on the axis, several elements per thread and
several blocks (`AddPartialReduceOneWarp`), and for an axis shorter than a thread's
elements.

*Masks.*  `MaskedOnce` says nothing of slices.  `redundantDataMask` lets duplicates through for slices and for CTAs whose share is
less than a tile, and for a slice of a layout with two threads by two in column
order on two elements it masks one that no other thread writes.

*Indices.*  The legacy emitter ignores the batch of ampere layouts of rank three where it
exceeds the warps; volta and mfma layouts need tensors no smaller than an instruction.

*Axis information.*  A constant minus something contiguous is claimed contiguous
(`AxisInfo.cpp:281-285`), as are vector loads made from it; maxima and minima, sums that cut
runs short, and joins keep a divisor that belongs to a longer run; signed division of
negative ranges; a shift by an unknown amount uses its divisor as the amount; negative
constants are compared as large ones.

*Layout passes.*  The removal of dead loop arguments marks what a nested `if` yields as
live and not its condition, nor the bounds of a nested loop (`Utility.cpp:913-922`);
a `while` whose initial operand is a cheap load or an argument of the function, or whose
arguments and results change layouts separately, ends in an assertion
(`"unexpected op in rewrite"`); `updateRematMapping` tracks one layout per value, so that a
copy is made twice; `cvt(local_load)` becomes a load at the conversion's place
(`Dialect.cpp:2807-2814`), past stores to the buffer and its deallocation in between, and
without its token; the reordering sinks a load into a loop past the same
(`ReorderInstructions.cpp:90-91`), and looks for the first use of a conversion in its
block only, which is null where an early return puts the use into another.  In the
planner of CTAs, a second dot trips an assertion (`PlanCTA.cpp:230`); what is left of the CTAs
after a reduction's layout is filled is multiplied in twice, so that there can be more in the
layout than in the cluster (`PlanCTA.cpp:340-348`); a value with several users is cloned for
one of them, loads included, and the loop over the uses ends there (`PlanCTA.cpp:924-951`);
a cast never moves forward through `expand_dims`, which keeps its layout then.

## What is not modelled

* Where live ranges, sizes and aliases come from (`Allocation.cpp:218-456`,
  `Alias.cpp`): MLIR's liveness and shapes.  `Allocation` ranges over the results.
* Of the pipeliner: stores through bulk copies (`TMAStoresPipeline.cpp`), outer loops
  (`OuterLoopPipeline.cpp`), the test whether to pipeline at all.
* Of the layout passes: `AccelerateMatmul`, `Prefetch`, `OptimizeDotOperands`,
  `OptimizeThreadLocality`, `FenceInsertion`.  They choose layouts, tiles and
  orders by heuristics whose result may be anything; what they
  leave is, as a list of functions, an input of the passes that are modelled.
* Of `AxisInfo`: results of `scf.if`, `scf.while` and calls.  Of linear layouts: their
  inversion and the composition of memory layouts.
* Of the lowering: dot products, the tables of swizzled operands and shortcuts that move
  registers of one tensor core layout to another, `stmatrix`, distributed shared memory,
  `redux` and atomics; amd's loads and stores.
* The tree of contexts, the values of metrics and the file formats of Proton; the
  viewer.  `proton`'s command line mode.
* Callbacks nested in a launch, several sessions per profiler in `ProtonLaunch`,
  and Roctracer.
* Of the runtime: the override, dump and remote caches; the hash of a function's
  dependencies, which is an opaque value; two threads in one autotuner; heuristics.
* Drivers other than nvidia's, whose launchers differ in whether they release the
  interpreter lock; the code generator, the language and the interpreter, which translate
  a tree in one pass; build tools; the vendors' variants behind `FLAGTREE_SPEC_*`.
* A cyclic call graph: the language admits none, since the hash of a recursive
  function never ends.

## Plan

Done: the shared-memory chain, Proton, and the runtime, with their safety invariants
proved; the pipeliner, its runs proved from what the schedule has to guarantee, and that the
schedule does model-checked; the layout passes, the axis analysis and the lowering,
model-checked.

Next, in this order:

1. **More of the compiler's passes**: the liveness that `Allocation` takes as given
   (`Allocation.cpp:218-456`), and the passes between the assignment of layouts and the last
   removal of conversions (`AccelerateMatmul`, `OptimizeDotOperands`, `Prefetch`), so that the
   inputs of what follows come from a model instead of a list.
2. **The schedule proved**: `SoundSchedule` of what `PipelineSchedule` makes, part by part, as
   `ValuesAreCarried` has been.  The parts that are left are made by folds, which needs a
   prover with induction over sequences, or `PipelineSchedule` as steps instead of folds.
3. **`Roctracer`** as a variant of `ProtonLaunch`: another order of flush and another queue.
4. The stores of the pipeliner, against `SequentialLoop`; the dot lowering on `SimtKernel`.
