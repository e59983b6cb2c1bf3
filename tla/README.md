# metal-runtime in TLA+

A model of [metal-runtime](../src/README.md), a C++ library with Python and C
interfaces that compiles Metal (MSL) kernels at run time and launches them on
an Apple GPU. The modules say what its concurrent, its stateful and its
arithmetical parts do, TLC checks them on small instances, and TLAPS proves most
of their safety for any number of threads, batches, objects and calls and any
width of `size_t`.

Paths below are relative to `src/` of this repository (`src/src/dispatch.cpp` in
`PROJECT.json` is `src/dispatch.cpp` of the library).

## Inventory

| component | code | state | operations | what is hard |
| --- | --- | --- | --- | --- |
| command batches, `dispatch()` | `dispatch.cpp`, `dispatch.h` | command buffer, encoder, `committed_`, `discarded_`, `gpu_time_`, `state_mutex_` | construct, `add`, `barrier`, `commit`, `wait`, `discard`, `gpu_time`, destroy | several threads on one batch; `wait` blocks outside the mutex; the queue is bounded; Metal's rules for encoders |
| launch validation | `dispatch.cpp`, `prepare` in `bindings.cpp` | none (a pure check of a launch) | `prepare`, `validate`, `rounded_threadgroup_length`, `default_threadgroup` | wrapping `size_t` sums, the order of the checks |
| Python `Batch`, `run()` | `bindings.cpp` | a `CommandBatch`, `keepalive_`, `keepalive_mutex_`, the interpreter lock | the same, as Python methods; `run`; `with Batch()` | built free-threaded; finalizers that re-enter; blocking with the lock held; exceptions past the cleanup |
| LRU cache | `lru.h` | `order_`, `entries_`, `limit_` | `find`, `insert`, `set_limit`, `clear` | list and map kept apart, boundaries of the limit |
| library and pipeline caches | `runtime.cpp`, `library.cpp` | two levels of LRU caches with a mutex each | `library_for`, `pipeline_for`, `set_library_cache_limit`, `clear_library_cache` | the build runs with no lock: racing misses, eviction in between |
| function constants, cache keys | `library.cpp`, `parse_constants` in `bindings.cpp` | what is cached under a key | `create_specialized`, `coerce`, `cache_key`, `pipeline_key` | Metal accepts wrong constants silently; narrowing; injectivity |
| GPU trace capture | `runtime.cpp`, `metal_runtime/__init__.py` | `capture_started_`, Metal's shared capture manager | `start_capture`, `stop_capture`, `is_capturing`, `with Capture` | other code of the process uses the same manager |
| C API buffers | `c_api.cpp`, `buffer.cpp` | `MRBuffer` | `mr_wrap_buffer`, `mr_buffer_flush_to`, `mr_release_buffer`, offsets in `build_launch` | page rounding and overflow; zero-copy against private copies |
| C API handles | `c_api.cpp`, `c_api.h`, `errors.h` | heap handles, shared pipelines, the message of a call | create, use, release, status codes | lifetimes, partial failure, the order of `mr_guard`'s clauses |
| Python buffers, dtypes | `bindings.cpp`, `dtype.cpp`, `buffer.cpp` | memory, shape and dtype of a `Buffer`, views over it | construct, `zeros`, `empty`, `copy_from`, `to_numpy`, DLPack export | size arithmetic; views that outlive the buffer |
| device queries, start-up, MSL assembly, helpers, build | `runtime.cpp`, `source.py`, `metal.*`, `ns_ptr.h`, `CMakeLists.txt` | the `MetalRuntime` singleton | read-only queries | none |

How they interact: `Kernel(...)` goes through the library cache and then the
pipeline cache of that library, under the keys of `cache_key` and
`pipeline_key`. `run()` and `Batch.add()` turn Python arguments into a `Launch`
(`prepare`), the C API does so in `build_launch`; both end in
`CommandBatch::add`, which validates and encodes. All batches share the one
command queue of the `MetalRuntime`, which makes constructors block while it is
full. `PyBatch` adds to a `CommandBatch` the Python references that the GPU
relies on.

What makes each part correct is the properties of its module; `hazards` in
`PROJECT.json` lists what is hard to test, line by line, with the properties
that would catch it going wrong.

## Modules

| module | models | composed with |
| --- | --- | --- |
| `CommandBatch` | `metalrt::CommandBatch` and `dispatch()`, threads with a program point each | implements `BatchSpec` |
| `BatchSpec` | what a batch promises, without mutex, pointers and calls in progress | used by `PyBatch` and `CApi` |
| `CommandBatchProofs`, `PyBatchProofs`, `LruCacheProofs`, `LibraryCacheProofs`, `CApiProofs`, `WrapBufferProofs`, `LaunchValidationProofs` | theorems about the module named, lemmas about `LruCache` | |
| `PythonProofs` | theorems about `KernelConstants`, `PyBuffer` and `Capture` | |
| `PyBatch` | the Python class, `run()` and `with` blocks on top of the batches of `BatchSpec` | |
| `LruCache` | `LruCache<V>` as a value | used by `LibraryCache` and `CApi` |
| `LibraryCache` | `library_for` and `pipeline_for` as one find, build, insert protocol over many caches | implements `SharedCache` |
| `SharedCache` | what callers may rely on from such a cache: each request, named by its key, is answered at one instant | |
| `KernelConstants` | the two keys, and what a constant goes through on its way to Metal | |
| `LaunchValidation` | `prepare()` and `validate()` check by check, the default threadgroup, the encoding | |
| `Capture` | captures, with the rest of the process as an adversary | |
| `CApi` | the handles, the pipelines they share, and the status of every call | uses `BatchSpec` and `LruCache` |
| `WrapBuffer` | the buffers of the C API, in word arithmetic | |
| `PyBuffer` | the buffers of Python, in word arithmetic | |
| `MC...` | symmetry sets and enumerated inputs for TLC | |

### CommandBatch and the code

A thread is outside (`idle`) or at one point of a call. `lock` waits for
`state_mutex_`, `body` is the locked section up to its first effect, and
`encode`, `submit` and `drop` are the rest of that section where the code has
raised a flag, or decided, and calls Metal next. `await` is
`waitUntilCompleted`, which runs with the mutex free, and `relock`/`finish` are
the second locked section of `wait()`. Splitting the sections is what makes the
mutex matter: with `Acquire` replaced by one that takes nothing,
`RunsWhatWasAccepted` fails. `owner[b]` names the thread whose `dispatch()` has
the batch as a local variable; `Return` sends that thread on from `add` to
`wait` and, at the end or on an exception, to the destructor.

Metal is external. `metal[b]` is the life of a command buffer (`encoding`,
`committed`, `completed` or `error`, or `dropped` when its last reference goes
before it is committed), `encState[b]` that of its encoder, and `encoded[b]`
what has been recorded. A queue slot is held while `metal[b]` is `encoding` or
`committed`. A launch is a model value that `validate()` accepts or not.

### PyBatch and CApi

Both use `BatchSpec` for the batches inside them, which is justified because
`CommandBatch` implements `BatchSpec` (checked by `batch`, proved in
`CommandBatchProofs`).

In both a constructor that was given its slot may still throw, when Metal has no
command buffer or no encoder (`CreateFails`).

In `PyBatch`, `gil` is the owner of the interpreter lock or `Disabled`: the
extension is built free-threaded (`CMakeLists.txt:92`), so both are initial
states. `frame[t]` holds the references of a C++ frame, so an object is alive
while the program, a frame or `keepalive_` refers to it. `body` and `left` say
which batch belongs to a `with` block and whether that block is over; `run()`
is a batch that lives in the frame of a call. `sent` is a history of the batches
that a `commit()` of the program submitted.

`UsedObjectsAlive` has one exception, which is what the code does: a program that
calls `commit()` and then drops the `Batch` without `wait()` drops `keepalive_`
with it (`bindings.cpp:397-401`), while the GPU may still be at work. What is left
then is what Metal's command buffer itself retains, which is external. A `Batch`
that is dropped otherwise (never committed, waited for, or submitted by `wait()`
itself), and a program that forgets anything but a committed `Batch`, are covered.

In `CApi` a pipeline handle and a cache entry each own a reference to a
`ComputePipeline`, counted by `refs` as each operation adds or drops one. The
three calls that block (`mr_batch_create`, `mr_batch_wait`, `mr_dispatch`)
are split where they block. `result` is what the last call to return returned;
its bit `turn` tells two equal results apart. The program is assumed to follow
the rules of C: live handles only, and none released under a call that uses it.

### The others

`LibraryCache` gives the two levels one protocol: thread `t` looks for
`want[t]` in the cache `at[t]`. A value is named by key, cache and maker, which
makes two builds of one key differ. `answered` is a history of requests, each
with the cache and the key it was for and the value it got; `RightValue`,
`OneBuildIsShared` and the refinement are about it. `later` is a history of which keys were
asked for after which, kept apart from the list of the cache, so that
`EvictsOldest` does not ask the list about itself.

`KernelConstants` is the one module with texts, because where a text ends is
what the length prefixes of the keys are for. A text is a sequence of ASCII
codes, and a key is put together as the code does, from `std::to_string` on. Its
libraries are cached by key and dropped at any time, and what a kernel was made
of is remembered beside the key.

`LaunchValidation` has an action per check, in the order of the code, and
`reason` is the check that threw. `MetalAccepts` lists Metal's rules for what was
encoded: threads of threadgroup and grid, alignment and sum of threadgroup memory,
number of bindings, arguments that are used, offsets, the ceiling of `setBytes`,
and place and alignment of indirect arguments. `WrapBuffer`, `PyBuffer` and
`LaunchValidation` compute in words as `size_t` does, modulo `WordMax + 1`,
and state their properties in the integers. That a view keeps the memory of its
`Buffer` is the owner that nanobind holds for it: `Forget` and `ForgetView` take
that as given, and `WithinMemory` is about sizes and types.

## Runs

| run | question | instance | result |
| --- | --- | --- | --- |
| `batch` | safety of the batch, no `commit()` before the submission, refinement of `BatchSpec`, calls return, a full queue drains | 2 threads, 2 batches, one slot, 2 calls each, fairness | holds |
| `py_batch` | objects live as long as the GPU needs them and no longer; no deadlock between interpreter lock, `keepalive_mutex_` and the queue; `with` blocks give their slot back | 2 threads, 2 batches, one slot, 2 objects, one with a finalizer that re-enters, 3 calls, fairness | holds |
| `py_fault` | "Pinned once each until wait()" | 2 threads, 1 batch, 3 objects, 3 calls | violated (finding 1) |
| `library_cache` | racing builds are never visible; what is evicted is the oldest | 2 threads, 3 sources, limits 0 and 2, 2 calls each | holds |
| `constants` | each request gets its own kernel, with the values asked for | every scalar type around its bounds, 2 requests in a row | holds |
| `py_buffer` | sizes are exact, copies and views stay within memory | 12 shapes, 8 arrays, 6 types, `size_t` of 5 bits, 5 calls | holds |
| `c_api` | statuses tell the truth, failure leaves nothing, pipelines live as long as their owners | 2 threads, 2 pipelines, 2 batches, one slot, 4 names, 7 calls | holds |
| `launch` | validated launches meet Metal's rules | the launches of `MCLaunchValidation`, `size_t` of 5 bits | holds |
| `launch_narrow` | the default threadgroup on kernels narrower than a SIMD group | as `launch` | violated (finding 2) |
| `capture` | captures of ours and of others | 2 threads, 3 calls each, 2 foreign captures, fairness | holds |
| `wrap` | every range of an address space, on both paths | 4-bit addresses, 4-byte pages, 3 memory maps | holds |
| `wrap_doc` | when a private copy is taken | as `wrap` | violated (finding 3) |

Every run lets the system come to rest (`CHECK_DEADLOCK FALSE`): callers may
stop calling, the bounds on calls end a run, and a constructor may wait for a
slot that nobody frees. Calls that must not hang are covered by the liveness
properties.

### Bounds, and why they are enough

* Two threads, because every hazard of a batch is a race of two calls, and two
  batches over a queue of one slot, because that is the least where a
  constructor waits for another batch. Two calls per thread, after the
  constructor of either or inside a `dispatch()`, give every race of two calls
  on one batch and every order of closing it twice. The theorems remove these
  bounds for safety.
* Three calls on Python batches, in any of the threads, allow construct, add
  and wait, a racing add, or two constructors at a full queue; the ends of
  `with` blocks are not counted, so every block can end.
* Three sources and a limit of two let an eviction choose between keys, in
  every order of use; a limit of 0 means none. Two calls on each of two threads
  give every race of two builds with a third key, a limit or a clear in
  between.
* In `constants` a byte has two values, so that the types have the widths of
  the code but small ranges (-128..127 for `long`), and floats are 32 apart.
  TLC tries each type at both bounds and one beyond. Two requests suffice
  because a wrong kernel is a pair of requests with one key. The theorems are
  about any even number of values, 256 among them.
* A 5-bit `size_t` wraps within reach of the sizes used: 28 + 8 is 4, and
  shapes such as 4 x 8 or 6 x 11 wrap to small numbers. The constants (16-byte
  alignment, 31 bindings, 4096-byte scalars) are scaled down with it.
  `PipelineAssumption` keeps the one relation that the code relies on, that the
  cube of a kernel's thread limit fits a word (1024 in 64 bits).
* Seven calls of a C program reach a dispatch or a batch whose library is
  released and whose pipeline is evicted by a second one. Threads, pipelines
  and batches are interchangeable, hence the symmetry.
* Sixteen addresses and four pages let a range start and end anywhere in a
  page, cross a page, two regions and the top of the address space.

### Fairness

Weak fairness of each thread's `Step`: a thread inside a call is scheduled. It
is not assumed that a thread makes another call, releases a batch, or that a
full queue drains. Weak fairness of `GpuFinish`: Metal completes or aborts what
was committed; its watchdog ends a kernel that does not. Every thread makes
finitely many calls, so taking a mutex needs no strong fairness. In `Capture`
and `PyBatch` the exit of a `with` block is fair, since its body ends.

## Proofs

Every theorem holds for all values of the constants that satisfy the `ASSUME`s
of its module: any sets of threads, handles, sources, objects and launches (the
batches of `CommandBatch` and the handles of `CApi` are finitely many), any
bounds on calls, any limits. All but the refinements come from an inductive
invariant of their module (`IInv`, or one for each part of `PythonProofs`), proved
with a lemma per action; TLC has checked each on the instance of the module's
run (`KernelInv` with five of the types).

### CommandBatchProofs

`Invariance`, and from it type correctness and the safety properties of
`batch`: `HandlesAreValid`, `EncoderIsDisciplined`, `AcceptedIsEncoded`,
`SlotsAreReleased`, `DispatchIsSynchronous`, and `BatchHasOneFate`, that no
batch is both committed and discarded, which `ImplementsBatchSpec` covers in the
run; `CommitsAreSubmitted` (`CommitSubmits`) and `WaitIsHonest`, properties of steps;
and `Implementation`: `CommandBatch` implements `BatchSpec`.

None of the properties is inductive. That `wait()` may use `command_buffer_`
outside the mutex, say, needs that a waiting thread's batch is committed for
good, which needs that `discard()` cannot be between its flag and its release
at that moment, which needs the mutex. `IInv` therefore has three parts:
`ThreadOK(t)`, what thread t knows of its batch at each program point;
`BatchOK(b)`, the shapes in which a batch can be, where a batch whose flag is
raised but whose Metal calls are still to come must have a thread `At` that
point; and `Exclusive`, that a batch under construction is known to its
constructor alone. `OtherBatches` and `StaysExclusive` take care of what an
action does not touch. `BatchSpec` sees no call that returns, so it cannot tell a second
`commit()` that came back too early; `CommitSubmits` does, and holds because the
flag and the submission are under one lock. The refinement splits actions into those `BatchSpec`
does not see and those that are one of its steps.

### PyBatchProofs

`TypesCorrect`, `LaunchesStayAlive` (`UsedObjectsAlive`) and `WaitUnpins`
(`NothingPinnedAfterWait`), with and without the interpreter lock.

That a launch on the GPU has its objects follows from `BatchOK`: while a batch
is open, what its launches use is in `Held(b)`, the pins together with the
frames of an `add()` that is about to pin and of a `run()`. The interval between
the submission and the pin is why `Held` names frames. `Submitted(b)` is the
other half: a batch that is committed and whose object is gone was submitted by
the program (`sent`), so the exception above is the only one. That nothing is pinned
once a `wait()` has succeeded rests on `keepalive_mutex_`: no thread is at the
point of pinning when the swap runs, and afterwards `add()` is refused because
the batch is committed.

### LruCacheProofs and LibraryCacheProofs

The lemmas of `LruCacheProofs` say what each operation of `LruCache` returns and
that it keeps `Agrees` (the list and the map name the same keys, each once) and
`WithinLimit`. `LibraryCacheProofs` and `CApiProofs` cite them.

`TypesCorrect`, `NoMixUp` (`RightValue`), `RacesShareOneBuild`
(`OneBuildIsShared`), `OldestAreEvicted` (`EvictsOldest`) and `Implementation`,
the refinement of `SharedCache`. `AnswersFit` says that each request was answered
with a value of its key, which needs that entries carry theirs (`Fits`). The
invariant has to say that an insertion
brings a value nobody has seen (`NothingSeenEarly`), because otherwise a value
could come back after it was dropped; that takes `BuiltByCalls`, every value
belongs to a call that has begun. `OrderIsLater` ties the list of a cache to the
history of requests and gives `EvictsOldest`.

### PythonProofs: constants and keys

`KernelsAreAsAsked` (`GivesWhatWasAsked`), `MetalIsLeftNothing`
(`NothingLeftToMetal`) and `RefusalsHaveCause` (`RefusedForCause`), for any
requests, any sources and any caches that drop what they like.

The invariant `KernelInv` says that whatever is cached under a key was made for
some request with that key. That alone says nothing of the request that finds
it: the proof needs that two requests with one key are the same request
(`KeyOfApart`, `PipelineKeyApart`), which is what the comments "Length-prefixed
fields keep the key injective" and "Injective, like CompileOptions::cache_key"
claim (`library.cpp:17`, `186`). The lemmas before it take a key apart in the
order in which it was put together:

* `NumeralsApart`: no two numbers have the same decimals, by their last digit;
  `NumeralThen`: a number can be read back when no digit follows it.
* `FieldThen`: a field can be read back whatever follows it, because its length
  is in front. This is false for `Field_Bare`, the mutant.
* `BytesThen`, `ValueThen`: the bytes of a numpy scalar, of which the type in
  front tells how many there are, and the four kinds of value with their letters.
  A value ends without a mark, so its text can be read back only if what follows
  does not go on with a digit or a sign (`Stops`).
* `ItemsApart`: what follows a value is nothing or a `;`, so items can be read
  back name by name, in the order in which `std::map` and `std::sort` have them.

That values reach Metal unchanged is arithmetic: `WholeRead` (an int that passes
`int_to_bytes` is read back from its two's complement), `Nearest` (no float is
nearer than the one chosen) and, for refusals, `ReadFits` (a number out of range
has no bits). `NotCoerced` is the other direction of `Coerced`: nothing that the
type could take is refused.

### PythonProofs: buffers

For every `WordMax`, shape and array: `SizesAreExact` (`SizesExact`) and
`CopiesAndViewsFit` (`WithinMemory`). `CountsExact` compares the loop of
`checked_element_count` with the product in the integers, round by round: it
throws at the first product that does not fit (`MultipliedExact`), also if a zero
follows. `BufferInv` has the size of the buffer, what `TooLarge` means for the
last shape asked for, and that the dtypes of views are as wide as the buffer's.

### PythonProofs: captures

`OwnCapturesAreStoppable` and `StopsAreOurs`. The flag and Metal's capture change
in different steps, so `CaptureInv` says where they may differ: at the program
points of the owner of `capture_mutex_` (`OwnerKnows`), and after other code has
stopped a capture of ours (`FlagIsOurs`).

`PythonProofs` extends all three modules, which share no state. That is why the
names in `PyBuffer` and `Capture` say whose they are (`BufferSpec`,
`CaptureSpec`, `bufferVars`, ...). TLC evaluates the `ASSUME`s of the three in
the runs `constants`, `py_buffer` and `capture`.

### CApiProofs

`OwnersAreCounted` (`PipelinesOutliveLibraries`): the count of each pipeline is
the number of live handles and caches that own it, through every eviction and
release, hence `LiveHandlesWork`: no live handle refers to a deleted pipeline.
`StatusIsTrue` and `FailuresAreClean`, properties of the steps in which a call
returns. The invariant adds finiteness of the owners, for the cardinalities, and
that a call in progress has its batch to itself unless it only waits
(`Exclusive`).

### WrapBufferProofs

For every `WordMax`, page size that divides the address space, and memory map:
`OverflowIsRefused`, `LaunchesStayInside` (`BoundWhereAsked`) and `PathsLookAlike`
(`Transparent`). `Placed` says where the Metal buffer lies in relation to the
caller's range, `Accounted` where each byte is that a kernel was launched on: in
the caller's memory, in the copy, or yet to be written.

### LaunchValidationProofs

For every `WordMax`, kernel, launch and device: `MetalIsSatisfied`,
`ScalarsAreWide`, `GridIsCovered`, `RefusalsAreFounded`, and, for kernels that
take at least one SIMD group, `DefaultsAreTaken`; the run `launch_narrow`
(finding 2) shows that this hypothesis is needed. `IInv` says which checks a
launch has passed at each stage (`Passed`), that the sum of threadgroup memory
is the exact one so far (`Summed`), and what was wrong with a launch that was
refused (`Blamed`). The two arithmetical facts underneath: a length whose
rounding overflows alone exceeds every budget (`RoundedFacts`, from the
alignment dividing `WordMax + 1`), and the wrapping product of a threadgroup is
compared only after each factor was (`ThreadsFacts`, from `PipelineAssumption`).

`Sums` is a recursive function, so facts about it need an induction. It is done
with the least counterexample (`Least`): the set of lengths at which a fact fails
is a subset of `Nat`, and would have a least element. This is how an induction
can be proved without the library theorems that take an operator as a parameter.
`PythonProofs` does the same for decimals, lists of bytes and items, and products
of shapes. That there is a function that obeys such a rule at all is proved
first, from the one that obeys it up to the number before (`Recursion`,
`NumeralsExist`).

### What the proofs changed in the models

In TLA+ a `CASE` with overlapping guards does not take the first arm, as TLC
does, but any. `GetOutcome` and `AddOutcome` in `CApi` and three operators of
`KernelConstants` were written so; they are `IF`/`ELSE IF` chains now, in the
order of the code. `SIZE_MAX` became a constant instead of a power of two, and
`LibraryCache` remembers pairs of keys rather than a sequence of requests. Texts
in `KernelConstants` were strings, which to the provers have no characters; they
are sequences of codes now, and a byte has any even number of values.

### Only model-checked

* Liveness and fairness, which are out of TLAPS's reach here: `CallsReturn`,
  `ClosedBatchesFreeTheQueue`, `WithBlocksFreeTheQueue`, `CaptureEnds`.

Every safety property of the runs that hold is proved.

No module declares a `RECURSIVE` operator.

## Findings

1. `PyBatch::wait()` throws out of `batch_.wait()` when the GPU faulted, past
   the swap that releases the pins (`bindings.cpp:380-389`). Kernels and buffers
   then live as long as the `Batch`, while the comment says "Pinned once each
   until wait()." (`bindings.cpp:367`). `discard()` keeps the pins too.
2. `default_threadgroup` takes one SIMD group along x for 2D and 3D grids
   whatever the kernel's ceiling is (`dispatch.cpp:206`), so for a kernel with
   `max_total_threads_per_threadgroup` below the SIMD width the threadgroup it
   picks is refused by `validate()`; "Whole SIMD groups up to the kernel's
   ceiling" (`dispatch.h:57`) holds for 1D grids only.
3. `mr_wrap_buffer` also copies a range inside one mapping that is not writable
   (`c_api.cpp:96`); the header says it copies "only if the rounded range would
   leave ptr's VM mapping" (`c_api.h:82-84`).

Weaker observations:

* A `Batch` that was committed and is dropped before the GPU is done takes its
  references to kernels and buffers along (`bindings.cpp:397-401`); the comment
  "Pinned once each until wait()" (`bindings.cpp:367`) does not say so.
  `UsedObjectsAlive` states it as its exception.
* If other code stops our capture and starts its own, `stop_capture()` ends
  that one, because `capture_started_` does not say which capture is active.
  `StopsOnlyOurs` states it as an exception.
* A shape with a zero in front is always small; the same dimensions with the
  zero last are refused when a product before it does not fit
  (`bindings.cpp:111-114`). `SizesExact` states that exactly.
* `numpy.float64` is a subclass of Python's `float`, so such a scalar is
  coerced to a `float` constant although "a numpy scalar must match it exactly"
  (`bindings.cpp:224`). The model has it as a Python float.
* The header says that a full queue blocks callers "until one completes or is
  released" (`c_api.h:116-117`): releasing the handle frees the place of a batch
  that was not committed, while a committed one keeps it until the GPU is done.

## Not modelled, and why

Device queries only read, and the `MetalRuntime` singleton is built under the
lock of a static local (`CApi` has a machine without a device); MSL assembly is
a string concatenation; the helpers over Apple's headers have no state. Inside
modelled parts: what a kernel computes; the ordering that `barrier()` imposes on
a concurrent encoder (a property of the GPU; that the barrier is recorded where
it was asked for is in `RunsWhatWasAccepted`); `gpu_time`, `is_capturing` and
`size()` of the Python and cache classes, which only read; the contents of
buffers beyond who wrote a byte last; NaN, infinities and -0 among constants;
and out-of-memory outside `CApi` and `PyBuffer`. `WrapBuffer` and `PyBuffer`
have one buffer at a time, and in `WrapBuffer` the host does not write to a
wrapped range: two private copies of one range overwrite each other when
flushed, and the header promises nothing for that.

## Plan

1. Done: the batch and its proofs, the Python batch with `run()` and `with`,
   the caches, keys and constants, validation, captures, the buffers and
   handles of the C API, the buffers of Python. The safety of all of these is
   proved.
2. A second wrapped buffer, with overlapping ranges and a host that writes.
3. NaN, infinities and -0 among the constants, whose bits differ although they
   compare equal, or do not although they are the same.
