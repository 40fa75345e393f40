# Takion: a verification project

TLA+ models of Takion (a C++17 deep-learning library), checked with TLC on small
instances and, for the engine, its front end, the spin lock, the queue, the
shared pointers, the tensors and the kernels, proved with TLAPS for every value of
the constants. Paths below are relative to the repository's
root (`src/` in `PROJECT.json`).

1. Inventory of the system
2. The modules and the code they model
3. What each run checks; bounds and fairness
4. What is proved, and how
5. What the checks found
6. What is not modelled
7. Plan

## 1. Inventory of the system

A user describes a network with the builder calls of `Model`; `Compile` turns the
description into units with tensors; `Train` and `Predict` push data through
them. The caller's thread does all of it; the only threads the code starts in use
are those of the OpenMP loops in the matrix kernels. The lock, the queue and the
shared pointer are utilities for callers with threads of their own.

| Component | State | Operations | Talks to |
|---|---|---|---|
| Front end: `Model`, `UnitMetaData` | unit metadata, output lists, id counter, loaders | builder calls, `Compile`, `Train`, `Predict`, `Fit` | calls the engine, hands it the loaders |
| Execution engine: `UnitManager` | `m_unitMap` (unordered), metadata | `Forward`, `Backward`, the copies, `ResetState`, `ChangeBatchSize`, `AsyncForward/Backward` | calls the units, reads their `State` |
| Units: Dense, ReLU, Sigmoid, SoftMax, MSE, CrossEntropy, PlaceHolder, Constant | `ForwardInputMap`, `ForwardOutput`, `BackwardInputMap`, `BackwardOutputMap`, internal tensors, a `State` counter on each tensor | `Forward`, `Backward`, readiness tests, `ResetState`, `ChangeBatchSize` | call the kernels |
| Tensor | shape, device, `BatchSize`, `Data` span, `m_hasOwnership`, `State` | constructors, `SetData`, copy, move, forward, assignment, `ChangeBatchSize`, `At` | allocates buffers |
| Matrix kernels: `MathKernel`, `FloatGemm`, `IntegerGemm` | none; write tensors in place | `Multiply`, `Transpose`, `Shrink`, `Add`, `Sub`, `Dot`, `Div`, `ScalarMul/Div`, `Set`, `Apply` | OpenMP |
| Optimizer (`SGD`), initializers, loaders | learning rate; a distribution; a data source | `Optimize`, `Initialize`, `operator()` | called by units |
| `SpinLock` | one atomic flag, one atomic counter | exclusive and shared lock and release | used by the queue |
| `SpinLockQueue` | ring, two indices, `m_empty`, a lock | `Enqueue`, `TryEnqueue`, `Dequeue`, `TryDequeue`, `Size` | spin lock |
| `SharedPtr`, `WeakPtr` | pointer and `SharedObjectInfo` with an atomic `RefCount` | construction, copy, move, assignment, destruction, `Lock` | – |
| `Shape`, `Device`, `Parameter`, `UnitType` | values | – | – |

What is hard about it, and what would make it correct:

- **The engine has no schedule.** It sweeps an unordered map until a whole sweep
  changes nothing, guided only by `State` counters which must rise in step: a
  unit runs when all its inputs are at 1 and its output at 0, an output is copied
  when it is one ahead of its consumers. Any readiness test that is wrong shows
  only in some graphs and some iteration orders. Correct means: each unit fires
  once, after what it depends on, in every order; a sweep stops only when nothing
  can fire; the call returns.
- **`ResetState` clears counters, never data.** One counter forgotten and a unit
  runs on the previous call's values; `Predict()` does not reset at all, and a
  loader that fails throws out of the middle of a sweep. A loader keeps what it
  was last given, and a call may fill only some. Correct means: what a
  tensor marked as written holds was read from the loaders since the last reset.
- **Building a model can fail half-way.** `Dense` links an id to its producer and
  may then throw; `Compile` throws at the first unit it cannot make, in the order
  of an unordered map, and moves the loaders out of the front end as it goes. The
  caller may catch and go on. Correct means: the tensors of what was made fit
  together, a loader is with the unit it is for, and no null pointer is followed
  unless something failed before.
- **The asynchronous passes never advance a `State`.** `AsyncForward` and
  `AsyncBackward` look at each unit once per call, by counters only the copies
  raise; a second call meets what the first one left. The question is what they
  can and cannot do at all.
- **Tensors move buffers about by hand**, across devices with different padding,
  and a moved-from tensor keeps its pointer. Correct means: one owner per buffer,
  and tensors that behave as values.
- **Kernels are blocked, padded, broadcast, parallel and in place.** Correct
  means: the textbook result whatever the padding held, and the internal tensors a
  pass overwrites, without two iterations of a parallel loop writing the same place.
- **The lock, queue and counter interleave at single atomic accesses.** Correct
  means: mutual exclusion and progress; a FIFO; an exact count, and the object
  deleted by its last owner and not before.

`PROJECT.json` lists each of these hazards at its line, with the properties that
are about it.

## 2. The modules and the code they model

| Module | Models | State ↔ code |
|---|---|---|
| `UnitGraph` | the graph the builder calls leave | `input[u]`, `grad[u]`: keys of `ForwardInputMap` and `BackwardOutputMap` of unit `u`; ids rise, as `m_id` does |
| `UnitManager` | the sweeps and the `Model` calls | `fin`, `fout`, `bin`, `bout`: the `State` of each tensor; `data`: the vectors its contents were computed from, each with the call that gave it to the loader and the call that read it; `held`: since which call a loader holds its `m_data`; `order`: iteration order of `m_unitMap`; `pos`, `stage`, `done`: where the loop is |
| `Dataflow` | what the engine promises | the sets of units that have fired |
| `Shapes` | the `Shape` functions units and tensors use | operators on sequences of extents |
| `ModelBuilder` | every builder call of `Model` and `UnitManager::Compile`, with the units' checks and every place they throw | `meta`: `m_unitMetaDataMap`; `outs`: the `OutputUnitVector`s; `nextId`: `m_id`; `loaderMap`; `unitMap`: the units made; `holding`: the PlaceHolders whose loader is not null |
| `AsyncEngine` | `AsyncForward`, `AsyncBackward` and `ResetState` on the units made | `fin`, `fout`, `bin`, `bout`: the `State` of each tensor; `gradients[u]`: keys of `BackwardInputMap`; `input`, `output`: the calls a tensor's contents come from |
| `SpinLock` | `ExclusiveLock/Release`, `SharedLock/Release` | `exclusive`, `refCount`: the two atomics; `lpc`: a thread's next atomic access |
| `SharedExclusive` | many readers or one writer | who is in |
| `SpinLockQueue` | the ring buffer over `SpinLock` | `container`, `front`, `back`, `empty`: the members; `op`, `at`, `arg`, `temp`, `ok`: a thread's call and its locals |
| `BoundedFifo` | a bounded FIFO queue to which each thread adds what it was called with | a sequence; `offered`: the object each thread has yet to enqueue |
| `SharedPtr` | `SharedPtr`, and `WeakPtr`'s construction, copies, moves and `Lock` | `ptr`, `weak`: what each variable points to; `life`, `count`: the object and `RefCount`; `at`, `old`: a thread's place in the load / compare-exchange / `m_delete` code |
| `Tensor` | memory of `Tensor<T>` | `owns`, `base`, `batch`, `device`: the members; `heap`, `allocated`: the allocator; `did`: the last call, "misuse" if the code should have refused it |
| `TensorValues` | tensors as independent values | a value per tensor |
| `Kernels` | `Forward`, `Backward` and their asynchronous versions of each hidden and loss unit, as the `Compute` calls they make and the loops in each; the initializers; every `Compute` function by itself, for float and for int | `mem`: tensors with padding; `pc[m]`: loop counters of parallel iteration `m` |
| `MC*` | instances for TLC | – |
| `UnitManagerProofs`, `UnitManagerRefinement`, `AsyncEngineProofs` | proofs about the engine and the front end | – |
| `SpinLockProofs`, `SpinLockQueueProofs`, `SharedPtrProofs` | proofs about the utilities | – |
| `TensorProofs`, `KernelsProofs` | proofs about the tensors and what works on them | – |

`SpinLockQueue` composes `SpinLock` (it extends it; a thread in a method drives
the lock's own steps). `UnitManager` composes the engine, the units' `State`
protocol and the `Model` calls, over `UnitGraph`. `AsyncEngine` extends
`ModelBuilder`: it runs whatever the builder calls and `Compile` left, also after
they failed, where `UnitManager` starts from any graph that compiled. `Kernels` composes the units'
`Compute` calls, the kernels, the optimizer and the tensors' layout.

**Granularity.** In the engine a step is one test-and-act of the sweep: one
thread executes it, so nothing finer can be seen. In `AsyncEngine` a whole pass is
a step: the units fulfil their promises before they return, so one thread does
everything; no run touches a `State`, so neither the order of the runs nor that
of the copies can be seen, and what a throw leaves behind is any subset of them.
`Compile` is a step for the same reason: the order of the map decides only which
units were made before one could not be. In `SpinLock` and `SharedPtr` a
step is one atomic access. In `SpinLockQueue` the critical sections are split
wherever a thread let in by mistake would see or spoil the intermediate state,
and the unlocked poll of `m_empty` is a step. In `Tensor` a step is a call: tensors are
not shared between threads. In `Kernels` a step is one vector register of output;
`Transpose`, SoftMax's sums, a loss's sum and `VectorInitializer` go through `At`
and are one step per matrix or tensor. Any number of iterations of an OpenMP loop may be under way at once: that
allows more interleavings than `schedule(static)`, and the barrier at the loop's
end is kept.

**Abstraction of data.** In `UnitManager` the contents of a tensor are the set of loaded
vectors they were computed from, each by its fetcher, the call that gave it to the loader and
the call that read it; in `AsyncEngine` the set of calls: this is what tells stale data from fresh. In `Tensor` an
element is (input, logical index), so a misplaced element is noticed. In
`Kernels` a number is the expression that computed it, so a missing, doubled or
reordered term is noticed; rounding and reassociation are not considered.

**What callers must do.** Where the code relies on its callers the models do too.
In a guard, so that the models say nothing of the other case:

- a `SharedPtr` variable is not written while another thread uses it;
- `CopyTensorData` is called between tensors of one layout if the destination has no data,
  and assignment is to a tensor without data or of the same layout (which is what the
  repository's calls do; otherwise buffers of the wrong size result);
- a loss is not consumed. The front end takes a loss's `AbsTensor` as a source like any other
  and hands out an empty `Shape()` for it; `Forward` would never copy its output
  (`UnitManager.hpp:223`), `AsyncForward` would (159-163).

As a step, which ends the behaviour and up to which alone `OneOwner`, `AtKnowsAllocation`
and `ImplementsValues` are claimed (`Careful`):

- `ChangeBatchSize` is not called on a tensor whose data was moved away:
  `Data.Clear()` asks nobody who owns the buffer (`Tensor.hpp:400`), and the source of
  a move keeps its pointer (341), so this frees the buffer of the tensor that was moved to,
  or one that is free already;
- a tensor is not moved to itself (it frees its buffer and then owns a null pointer), nor to
  one of another batch size (whose `At` then goes by a limit that is not the buffer's).

And as nothing at all, since the models have either case: callers fill every loader in each
call, or get results from old data.

**Memory model.** Accesses to atomics are sequentially consistent. The code asks
for less (`memory_order_acquire` and `release`), under which C++ alone would let a
reader's second look at the flag precede its count-in and so let a reader and a
writer in together; but the kernels are written with AVX intrinsics, so the build
targets x86, where the read-modify-write between the two is a full barrier. The
models say nothing of a port to another architecture. `m_empty` in the queue is
a plain `bool` that `Dequeue` polls without the lock; the model lets it be read at any
moment, and nothing depends on what was seen.

## 3. What each run checks; bounds and fairness

| Run | Distinct states | Question |
|---|---|---|
| `um_runnable` | 1,118,522 | On graphs that can complete: does the engine implement `Dataflow`, with failing and unfilled loaders and all calls? |
| `um_all` | 725,760 | On any graph: fixpoint, exact back propagation, results from what the loaders hold in the call, and exactly when calls return |
| `um_unconnected` | violation | "Unconnected tensors are not executed" |
| `sl_lock` | 4,636 | Exclusion, exact counter, refinement, progress |
| `slq_fifo` | 1,068,457 | Bounded FIFO of the threads' own objects, truthful sizes and failures |
| `sp_counts` | 3,013,559 | Exact `RefCount` and no dangling pointer, with aliasing moves and `WeakPtr` |
| `sp_race` | violation | "Deletes object if this is the last" |
| `sp_weak` | violation | "If expired, returns empty" |
| `tn_values` | 50,633 | One owner per buffer, tensors are values, up to the first misuse |
| `tn_batch` | violation | `At` knows the allocation |
| `kn_passes` | 21,028 | Textbook result of every pass; progress of the loops |
| `ae_models` | 400,527 | On every small model that can be built, failures included: do the tensors fit, where are the loaders, what do the asynchronous passes do? |

**Bounds, and why they are enough.**

- `um_*`: all graphs of `N = 4` units (3 in `um_unconnected`) in all 24 iteration
  orders, with at least one loss. Four units hold chains, fan-out to two
  consumers, two losses, a shared label, a label that is a hidden unit, a
  constant, a loss fed twice by one unit, and units nobody consumes. As the only
  bound on graphs besides `N`, a constant can only be the second unit.
  `MaxCalls = 2`: a second call meets whatever the first one left. `BadLoads`
  lets any subset of the loaders filled in a call be given data of the wrong size. `Fills` says which
  loaders a call fills: in `um_all` all of them or only that of the first unit (so that a second call
  computes from new and old vectors together), in `um_runnable` all or none (as `Train()`,
  `Predict()` and `Fit` do; loaders then also keep wrong-sized data). The theorems of section 4 have
  none of these bounds.
- `sl_lock`: four threads, so that two writers and two readers meet.
- `slq_fifo`: three threads on a ring of two, which wraps, fills and empties;
  two values tell a lost element from a repeated one. Threads and values are symmetric
  and no liveness property is checked with symmetry.
- `sp_*`: in `sp_counts` two threads, one with two variables and one with one, each
  with a `WeakPtr`, over two objects: a thread can move between its own variables
  while the other copies from them. `MaxCount = 2` bounds the `RefCount` up to which
  callers copy and lock, `MaxGarbage = 1` what a deleted counter may read as. The
  counts are per object, and the races are between pairs of accesses; the theorems
  of section 4 have none of these bounds. `sp_race` needs one variable of each of
  two threads, `sp_weak` one of one thread.
- `tn_*`: three tensors, three buffers, a 2×1 shape padded by 2 on the CPU and
  not on the GPU, batches 1 and 2. Three tensors are a source, a destination and
  a bystander.
- `kn_passes`: registers of 2 instead of 8, blocks of 4 columns and 2 rows
  instead of 512 and 24; shapes up to 2×5 times 5×6, batches of 1 and 2, both broadcasts, one or
  two consumers. Every loop has no, one and several whole blocks and a partial
  one, and rows with and without padding. The asynchronous passes and the
  initializers make the same calls again and are run for a few sizes. 946 passes.
- `ae_models`: every sequence of up to three builder calls, which holds a Dense that
  throws after it was linked, a loss with a computed and a fetched input, a unit
  that feeds a loss, and a chain; the shapes `<2>` and `<2,2>`, Dense widths 2 and
  0 (the one that throws), an optimizer that exists and one that does not. Two
  compilations, since a loader is gone after one; five calls, enough for two passes
  of each kind and a reset between them; cycles 0 and 1, of which the second never
  finds a unit ready. The theorems have none of these bounds.

**Deadlock** is not checked (`CHECK_DEADLOCK FALSE`) where the system may rightly
stop: the user has made `MaxCalls` calls; every thread polls an empty queue; the
bounds of `SharedPtr` are reached; the pass has returned; the asynchronous engine
has crashed or made its calls; a tensor was misused, with which a behaviour of `Tensor`
ends. It is checked in `sl_lock`, where somebody can always move.

**Fairness.** `UnitManager`: weak fairness of the engine's steps (the thread in a
call keeps executing), none of the user's calls. `SpinLock`: weak fairness of each
thread's steps inside the lock and of its release (threads are scheduled, and a
holder lets go); none of the decision to ask for it. Under it some thread gets in
and a writer that owns the flag gets in; that every reader does is false, the
lock has no queue. `Kernels`: weak fairness of the loops' steps.

**The properties to read first.** `ImplementsDataflow`, `DataOfThisEpoch`,
`TrainedOnce` and `CallReturns` of the engine; `ImplementsSharedExclusive` and
`ImplementsFifo`; `CountExact` and `NoDangling`; `ImplementsValues`; `PartialSums` and
`ResultExact`; `ShapesFit`, `CrashOnlyAfterFailure` and `OneGradient`. Each has in `PROJECT.json` a mutant of the code's model that breaks it.

`ResultExact` states what the code means to compute, and is no more than that where the
code is in doubt: it would not tell a reader that the update means accumulate, that
`Transpose` is none, or that the passes in `Deviates` deviate. It leaves out the passes
that `Deviates` names (section 5), and includes three choices of the code a reader may want to question: SoftMax's `Backward` does not divide by
the number of consumers as the other activations do; the means of the weight and
bias updates are never zeroed, so that `Shrink` adds each call's sum to the last
call's mean; and the gradient of a layer whose weights are neither square nor a
vector is left out, because `Transpose` is no transposition there (section 5).

## 4. What is proved, and how

From the assumptions `NAssumption`, `GraphsAssumption`, `CallsAssumption` (there is a
unit; the graphs are those builder calls make), `BuilderAssumption` and
`AsyncAssumption` (there is an id; the shapes callers give have extents above
zero), `ThreadsAssumption` and `PoolAssumption` (finitely many threads, objects and
variables), `CapacityAssumption` (the ring has a slot; the capacity is a number),
`TensorAssumption` (positive shape, padding and batch sizes; `Null` is no buffer),
`BlockAssumption` (a vector has an element; the columns of a block of the product are whole
vectors) and `PassesAssumption` (tensors of at least one element, with the shapes the
units' `m_checkShape` lets through), for every value of the constants:

**Engine.** `TypeCorrect` is `Spec => []TypeOK`, and every proof below uses it.

- `SweepsEndAtFixpoint`. `FixpointReached` speaks of the moment the loop ends, so
  it is strengthened to `SweepInv`: while `done` is still up, no unit at a
  position already visited in this sweep is ready, in either test. A step that could
  make a visited unit ready lowers `done`; `OrderCovers` says the last position covers all units.
- `ForwardRunsEverything`. `FlowInv` relates counters to each other: an output
  is at 0 or 1 and is `ran`; an input is raised only if its producer has run, and all
  inputs keyed by one producer rise together. With the fixpoint, `QuietMeansComplete`
  takes the first unit that has not run (`FirstUnit`): its inputs are from
  smaller units, so they have run and been copied, so it is ready, which
  contradicts quiet. A loss fed twice by one unit has its input at 2 and never
  runs.
- `UnconsumedUnitBlocks`. `StuckInv`: once a call has started, a graph with a unit
  nobody consumes stays in the forward phase. By `SweepInv` the loop ends only
  when every unit is quiet, and that unit's copy test, vacuously true, never is.
- `EngineImplementsDataflow`. `BackInv` says of the backward counters what
  `FlowInv` says of the forward ones. Each engine step is then a `Dataflow` step
  or a stutter (`StepSimulates`): a run is a firing, a copy or a skip a stutter,
  the end of a loop `ForwardDone` or `BackwardDone`, justified by the two
  theorems above. It assumes that no graph has a loss with one unit as prediction
  and label: that graph has a pass that ends with a unit unfired.
- `TrainsExactlyReached`. `TrainedOnce` is about the units back propagation reaches, a
  recursive function that goes through the graph from the largest unit down.
  `TrainedUnfolds` turns it into what each unit has to do with its consumers, `Receives`.
  `SentInv` (who ran `Backward` has consumers that ran it and send it their
  gradient) and the fixpoint give the same for the units that ran once the sweeps are
  quiet (`QuietUnitsReceived`). The largest unit where the two differ would have consumers
  where they agree, so there is none.
- `NothingCrossesReset`. `EpochInv` adds two facts to `DataOfThisEpoch`: constants
  hold no call's data, and inside a call the epoch has begun. `FlowInv` is what
  makes it inductive: a unit computes only from inputs that are marked as written.

**Spin lock.** `LockInvariant`: `LockInv`, with the types it needs, is inductive:
the flag is up exactly while one thread owns it, and `refCount` is the number of
threads between their count-in and their count-out. From it follow
`LockTypeCorrect` (the counter never drops below zero), `LockExcludes` and
`LockImplements`, the refinement of `SharedExclusive`.

**Queue.** `QueueImplementsFifo`, `SizeAlwaysExact`, `FailureAlwaysJustified` and
`TypesAlways` from one invariant over the lock's own, which is used through its
theorem: every step of the queue is a step of the lock or leaves it alone
(`LockSteps`). `Structure` says where a thread in each method is in the lock's code,
`Ring` that `front = back` when the queue is empty, and `Knows` what a thread that holds the
lock may rely on: that the slot it claimed is not taken back, that what it read is
still at the front, that the size it measured is the size. `Knows` is inductive
because whoever changes the ring holds the lock alone (`Exclusion`). The refinement
maps the ring to the sequence of its elements from `front`, less the slot that is
claimed and not yet stored, and offers of a thread in `Enqueue` or `TryEnqueue` what it was
called with until it is stored or given up; a store appends the caller's own object, an advance takes the head.

**Shared pointers.** `InvariantAlways`, and from it `TypesAlways`, `CountExactAlways`,
`NeverUndercountedAlways` and `NoDanglingAlways`. None of the three is inductive by
itself: a thread inside a compare-exchange loop or `m_delete` acts on what it read
before. `Structure` fixes what a thread at each place points at (`Places`), that no
other thread touches a variable being written (`Apart`), and that nothing leads to an
object not yet made (`Untouched`). On top of it `Counted` counts the references about to be
handed out together with the owners; `Kept` says that they keep the object
alive and `Alone` that a thread about to delete holds the only one, both as long
as no `WeakPtr` is locked; `Positive` bounds the counter.

**Tensor.** `TensorTypeCorrect`: `TypeOK` is inductive by itself, whatever is called.
`BuffersHaveOneOwner` adds `OneOwner`: every buffer that is allocated has one owner, as
long as nobody has reallocated a tensor whose data was moved away or moved one to itself or to
another batch size. `ChangeBatchSize` frees what the tensor points to, and the invariant
says that this is its own buffer if it is the owner; if it is not, the step is the misuse that
ends the behaviour. `AtAlwaysKnowsAllocation` adds `FitsAll`: each
owner's buffer has the room its device, shape and batch size call for. It assumes
that batch sizes are not changed; `tn_batch` shows that it must. `TensorsAreValues`
refines `TensorValues`, which promises nothing of a misuse, under the same assumption and one more: `Null`, which stands for
no value, is none of the values a tensor can hold. A tensor's value is read off its
buffer through the layout of its device, so the proof is about that layout first:
`PositionInjective` and `PositionRoom` say that two elements never share a place and that
all of them have one inside `Room`, because a padded row is no shorter than a row
(`PaddedAtLeast`); `StoreReads` that what is stored is what is read back. `Placed` (an
owner is on a device) joins the invariant. `WriteVal`, `CopyVal` and `MoveVal` then say
what each memory operation does to the values, by `OneOwner` to that tensor's only, and
the step lemmas that each call does what `did` records of it.

**Engine, calls that reset.** `ResultsComeFromTheLoaders`: `CallInv` says that a caller who
uses neither `Predict()` nor a loader that fails starts every call with all counters at 0;
that inside a call a fetcher that ran put out what its loader holds (`OwnVectors`), and that all
tensors marked as written, the gradients too, are of vectors the loaders hold (`MarkedIn`); a
loader's vector does not change inside a call. `CoherentInv` says, for every caller, that an
input marked as written holds its producer's output and an output all of its unit's inputs. Nothing is said of when the loader got it: that is up to the caller.

**Front end and asynchronous engine.** All of `AsyncEngineProofs` is for any number
of units, compilations and calls.

- `LoadersAlwaysOnce`. `Numbered` (a unit's id is new, links go to ids handed out)
  and `Handed` (a loader is with the front end until its unit is made, with the unit
  while it was made once, nowhere afterwards) are inductive.
- `CrashesOnlyAfterFailure`. In a model made whole by one `Compile`, without a ghost,
  every fetcher holds its loader and every consumer was made (`SoundModelRuns`), so
  `AsyncForward` has nothing null to follow.
- `FirstDataAlways` and `FetchedLabelAlwaysIdle`. `Rows` says what the builder calls
  write down (a unit is in the output list of each of its producers), `EngineTypes`
  that no output's `State` ever moves, so that only cycle 0 finds anything ready. `Flow`
  is about the counts of copies: a source runs in every call that runs anything, so
  once a call returned every copy of a source is at 1 at least, and once a computed
  unit was copied it is at 2 at least. A loss sees both at 1 in no state, and what is at 1 is the
  first call's.
- `OneGradientAlways`. `Gradients`: a gradient that arrived comes from a unit that was
  made and has this one target; a unit between losses that was trained once has
  every gradient at 2 at least, because the losses it was ready with copy into it in
  the same call. A pass that throws half-way needs a target that was not made, which a
  model compiled whole does not have (`TargetsMade`).
- `ShapesAlwaysFit`. `Shaped` is what the builder calls write down of the shapes of a unit
  and its inputs, whether they throw afterwards or not; `Fitted` is what the checks of
  `Compile` add for the units it made. The three products of a Dense unit then fit by
  the sizes of vectors and matrices (`ProductsFit`).
- `TypesAlways` puts these together.

**Kernels.** All of `KernelsProofs` is for tensors, vectors, blocks and batches of any
size, every pass and every interleaving of the iterations of a parallel loop. It rests on
what the passes are, `ProgramProper`: each is a sequence of calls of which each `Fits`. No
call puts out an operand of the pass, only the `Backward` of a `DenseUnit` the weights; a
product never puts out one of its operands nor a tensor put out before, and the columns of its
first operand are the rows of its second.

- `AccessesInBounds` (`TypeOK`: every tensor keeps exactly the elements it was
  allocated with). `Invariant` adds `Counters`: each counter of the loops is inside the loop it
  belongs to, in whole vectors from the start of its block. Without it a store could be
  anywhere. `StoresRoom` then puts every address of a store inside the output, because a row
  is padded to whole vectors (`PaddedWhole`) and the last vector of a matrix ends with it
  (`WholeGap`).
- `IterationsWriteOwnPart`. From `Counters` again: a store lies in the part of its own
  iteration, and two parts share no address (`PartsApart`), because a number is in one block
  of `n` only (`BlockUnique`).
- `OperandsStayKept`. `Untouched`, the third conjunct of `Invariant`: a tensor no call so
  far has put out holds what it held before the pass.
- `ProductsSumUp`. `PartialSums` says of a product at any moment how many terms each element of
  the output has accumulated, and that they are the first ones, in order. The four loops add
  the terms of an element in blocks of `KB` rows, so the proof needs that adding up in two
  parts is adding up (`AddUpInParts`), which is an induction on the length of a
  sequence, and what `Advance` does to the number accumulated by each element
  (`AccumulatedMoves`): it grows by one block for the vector just stored and stays for all
  the others, also where the loops over `j`, `i`, `kk` and `jj` start over.

- `ResultsAreExact`. `ResultExact` speaks of the end of a pass only, and what the tensors
  hold then was put there by a dozen and more calls, each from what the calls before it
  left. `Explained` makes it inductive: there is a history of memories, one between any
  two calls, which begins with the one the pass found. Each call that is over has turned
  the memory before it into the memory after it (`Completed`), and the call under way has
  `Computed`, from the memory it found, exactly the elements its iterations have gone past
  (`Outcome`, `Reached`). `IterateComputes` shows that a step keeps this: what it stores are the elements
  the loops go past in it (`StepReaches`), the rest stays (`StepKept`), and what it
  loads is of other tensors or of elements of its own output not reached before,
  hence what the call found (`StepResult`). The two sums that grow in place are told apart:
  `Shrink`'s by the number of rounds over an element, a product's by `PartialSums`, which
  `ProductsSumUp` supplies. At the end of a pass one lemma for each `Compute` function says
  what it did to the elements (`BinaryDoes`, `ShrinkDoes`, `TransposeDoes`, ...), and one
  for each kind of pass chains them along its calls and compares with `Expected`
  (`MultiplyExact`, `SoftMaxBackwardExact`, `DenseBackwardExact`, ...); `PassExact` puts them
  together.

Where an argument goes by induction (`AddUpInParts`, `ReachesExists`, `FirstUnit`), the
proof takes the least number for which it fails (`FirstNumber`, from the library's `WFMin`).

**Only model-checked.** Liveness (`CallReturns`, `WriterGetsIn`, `SomeoneGetsIn`,
`Returns`), out of the prover's reach, as is anything about ENABLED. Every invariant and every
action property a passing run checks is stated by a theorem. Conversely, `Explained`
is proved and not model-checked: it asks for a history, which TLC cannot
enumerate; its consequence `ResultExact` and its ingredient `PartialSums` are checked by `kn_passes`.

## 5. What the checks found

Shown by a run that TLC finds violated:

- `um_unconnected`: a unit without consumers is executed, and `Forward` never
  returns (`DanglingNeverReturns`); `code_structure.md:25-26` says it is not
  executed.
- `sp_race`: two last owners destroyed at the same time both load `RefCount` 2
  in `m_delete` and neither deletes; `SharedPtr-Decl.hpp:51-52` promises it.
- `sp_weak`: `WeakPtr::Lock` never looks whether the object is alive;
  `WeakPtr-Decl.hpp:77-80` promises an empty pointer.
- `tn_batch`: `Tensor::ChangeBatchSize` reallocates without changing
  `BatchSize`, so `At` checks against the old size.

Part of what holds, and worth knowing:

- A loader keeps what it was last given (`Loader.hpp:30-33`), and `Predict(inputDataMap)` fills
  only the given ones (`Model.hpp:311-323`), `Train()`, `Predict()` and `Fit` none. After
  `Train` with `x1` and label `y1`, `Predict` with `x2` alone computes the loss of `x2` against
  `y1`, although both calls reset. `DataOfThisCall` therefore says only that results are
  computed in the call from what the loaders hold then.
- `ChangeBatchSize` on a tensor whose data was moved away frees another tensor's buffer
  (`Tensor.hpp:341`, 400), and a move to itself leaves an owner of nothing. `OneOwner` with
  `Careful` dropped fails in `tn_values`.

Met while modelling, without a run of its own because no document states
otherwise or because the code is not instantiated:

- `SharedPtr`'s move assignment between owners of one object clears the source
  without counting it out (`SharedPtr-Decl.hpp:112-115`); `NeverUndercounted` is
  what remains true.
- `Transpose` (`MathKernel.hpp:191`) permutes a matrix that is neither square nor
  a vector otherwise than transposing it; `DenseUnit::Backward` uses it for the
  gradient, and the reference in the tests has the same formula. With
  `Transposable` dropped from `Results` TLC finds `ResultExact` violated.
- `DenseUnit::ChangeBatchSize` resizes `weightUpdate` but not `delta` and
  `previousInputTranspose`.
- `AsyncForward` raises no `State` (`UnitManager.hpp:143-172`): sources run in every
  call and the units above them on the first call's data only, and a loss with a
  computed prediction and a fetched label, which any trained model has, never runs
  (`FetchedLabelIdle`, `FirstDataOnly`). Neither does `AsyncBackward`, so that a unit
  is trained in one of its calls at most (`OneGradient`).
- A second `Compile`, or one after a `Compile` that threw, gives PlaceHolders a null
  loader (`UnitManager.hpp:336`, `LoadersOnce`); `Dense(..., 0, ...)` throws after its
  id was linked, and the model keeps a consumer that never is made
  (`Model.hpp:113`, `CrashOnlyAfterFailure`).
- `Sigmoid`'s `AsyncBackward` (`Sigmoid.hpp:153`) applies its function to the gradient and
  multiplies by the input, unlike `Backward`; `MSE`'s `AsyncBackward` writes
  `ForwardOutput`; `SubCpu` for int (`IntegerGemm.cpp:251`) advances by 16 and stores 8.
  The models have them as coded and `ResultExact` leaves them out (`Deviates`).
- `CrossEntropy`'s `AsyncForward` fulfils its promise only on the CPU.
- `Tensor::At(batchIdx, index)` has a check of its own that is off by one.
- The uniform initializers draw floats from a `uniform_int_distribution`.
- `Reshape.hpp`, `Tensor::SubTensor`, `SpinLockQueue::At`, `MultiplyAdd<float>`,
  `LecunNormal` and `WeakPtr`'s move assignment would not compile if they were
  instantiated.
- `Shape::Expand`'s test (92-101), `Shape::Reshape`'s `newSize *= 1` (137-153)
  and `Shape`'s `operator*` (69-90) look unintended.

## 6. What is not modelled

- `Device` and the distributions of the initializers (immutable values, random
  numbers), `Parameter`'s string maps, names; arithmetic, rounding and traps; the
  order of destruction at exit.
- `ChangeBatchSize` of `Model`, the engine and the units. The units' versions call
  `Tensor::ChangeBatchSize` on their tensors one after another, and that step is in
  `Tensor`: `tn_batch` shows that already there a tensor no longer knows its
  allocation, so nothing that is composed of it would hold.
- The GPU: no kernel for it exists in the repository, `Device` only chooses the
  padding, which `Tensor` models.
- The functions of `Shape` nothing calls (`Expand`, `Shrink`, `Squeeze`, `Reshape`,
  `Transpose`, `operator*`), and what would not compile if instantiated.
- Exceptions thrown by the types stored in the queue.
- Weaker memory orders than sequential consistency (section 2).

Everything else that is left out is named under its component in `PROJECT.json`.

## 7. Plan

Done: the engine, its front end and its asynchronous passes; the lock and the queue;
the shared pointers; the tensors; the kernels; a theorem for every safety property the passing
runs check. Left, in order:

1. `BatchResize`: `Model::ChangeBatchSize` through the engine and the units to the
   tensors, followed by a call, once `Tensor::ChangeBatchSize` keeps `BatchSize`.
2. `um_runnable` and `um_all` as one run, if another run is wanted.
