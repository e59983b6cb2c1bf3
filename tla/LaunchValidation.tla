--------------------------- MODULE LaunchValidation ---------------------------
(***************************************************************************)
(* What Batch.add() and run() do with one launch.  prepare() makes it out  *)
(* of the Python arguments (src/src/bindings.cpp), with a threadgroup of   *)
(* default_threadgroup if none is given.  In CommandBatch::add             *)
(* (src/src/dispatch.cpp) validate() runs its checks in order, the first   *)
(* that fails throws, and a launch that passes them all is encoded.        *)
(*                                                                         *)
(* size_t is 0..WordMax, and + and * wrap.  Metal's own rules are stated   *)
(* in the properties, about what was encoded and in the integers.          *)
(***************************************************************************)
EXTENDS Integers, Sequences, FiniteSetsExt

CONSTANTS
  WordMax,          \* SIZE_MAX
  Pipelines,        \* kernels: [maxTotal, width, static, bindings, arrays]
  Launches,         \* arguments: [grid, tg, buffers, scalars, memory, indirect, indirect_offset]
  Budgets,          \* values of max_threadgroup_memory_length()
  kThreadgroupMemoryAlignment,
  kMaxInlineScalarBytes,
  MaxBindings,      \* 31
  None              \* a threadgroup left open, no indirect grid, a None among the buffers,
                    \* a scalar whose dtype Metal does not have

Word(n) == n % (WordMax + 1)
Size    == 0..WordMax

\* Alignments divide 2^64; no word is None.
ASSUME ConstantsAssumption ==
  /\ WordMax \in Nat /\ kThreadgroupMemoryAlignment \in 1..WordMax
  /\ (WordMax + 1) % kThreadgroupMemoryAlignment = 0
  /\ MaxBindings \in Nat /\ kMaxInlineScalarBytes \in Nat
  /\ Budgets \subseteq Size /\ None \notin Size

\* A kernel's threads fit a word, as Metal's 1024 per threadgroup do in 64 bits.
ASSUME PipelineAssumption == \A p \in Pipelines :
  /\ p.maxTotal \in Size /\ p.maxTotal * p.maxTotal * p.maxTotal <= WordMax
  /\ p.width \in Size /\ p.static \in Size
  /\ p.bindings \subseteq [index : Size, size : Size] /\ p.arrays \subseteq Size

ASSUME LaunchAssumption == \A l \in Launches :
  /\ l.grid \in Seq(Size) /\ (l.tg # None => l.tg \in Seq(Size))
  /\ l.buffers \in Seq([size : Size, offset : Size] \cup {None})
  /\ l.scalars \in Seq(Size \cup {None}) /\ l.memory \in Seq(Size)
  /\ l.indirect \in Size \cup {None} /\ l.indirect_offset \in Size

VARIABLES
  pipeline, launch,
  nonUniform, budget,   \* the device: non_uniform_, max_threadgroup_memory_
  stage,                \* the next check, or how add() ended
  total, next,          \* threadgroup_total, and the allocation it adds next
  reason,               \* the check that threw
  encoded               \* what the encoder was told

input == <<pipeline, launch, nonUniform, budget>>
vars  == <<input, stage, total, next, reason, encoded>>

Dims == 1..3

Init ==
  /\ pipeline \in Pipelines /\ launch \in Launches
  /\ nonUniform \in BOOLEAN /\ budget \in Budgets
  /\ stage = "prepare" /\ total = 0 /\ next = 1 /\ reason = "none" /\ encoded = None

-----------------------------------------------------------------------------
(* default_threadgroup *)

\* Mutant: the rounding to whole SIMD groups goes up.
DefaultThreadgroup_RoundsUp(p, grid) ==
  LET maxTotal == Max({p.maxTotal, 1})
      width    == Max({p.width, 1})
      x        == Max({Min({grid[1], width}), 1})
      y        == Max({Min({grid[2], maxTotal \div x}), 1})
  IN IF grid[2] <= 1 /\ grid[3] <= 1
     THEN <<Max({Min({grid[1], ((maxTotal + width - 1) \div width) * width}), 1}), 1, 1>>
     ELSE <<x, y, Max({Min({grid[3], maxTotal \div Word(x * y)}), 1})>>

\* 1D: whole SIMD groups up to the ceiling; else one SIMD group along x.
DefaultThreadgroup(p, grid) ==
  LET maxTotal == Max({p.maxTotal, 1})
      width    == Max({p.width, 1})
      groups   == (maxTotal \div width) * width
      x        == Max({Min({grid[1], width}), 1})
      y        == Max({Min({grid[2], maxTotal \div x}), 1})
  IN IF grid[2] <= 1 /\ grid[3] <= 1
     THEN <<Max({Min({grid[1], IF groups = 0 THEN maxTotal ELSE groups}), 1}), 1, 1>>
     ELSE <<x, y, Max({Min({grid[3], maxTotal \div Word(x * y)}), 1})>>

\* to_dim3, where it does not throw: dimensions left out are 1.
HasDims(extent) == Len(extent) \in Dims
ToDim3(extent)  == [d \in Dims |-> IF d <= Len(extent) THEN extent[d] ELSE 1]

Grid == ToDim3(launch.grid)

Threadgroup == IF launch.tg = None THEN DefaultThreadgroup(pipeline, Grid) ELSE ToDim3(launch.tg)

\* What prepare() throws on.
Malformed ==
  \/ launch.tg # None /\ ~HasDims(launch.tg)
  \/ IF launch.indirect # None THEN launch.tg = None
     ELSE launch.indirect_offset # 0 \/ ~HasDims(launch.grid)
  \/ \E i \in 1..Len(launch.buffers) : launch.buffers[i] = None
  \/ \E i \in 1..Len(launch.scalars) : launch.scalars[i] = None

Prepare ==
  /\ stage = "prepare"
  /\ stage'  = IF Malformed THEN "rejected" ELSE "grid"
  /\ reason' = IF Malformed THEN "prepare" ELSE "none"
  /\ UNCHANGED <<input, total, next, encoded>>

-----------------------------------------------------------------------------
(* validate() *)

Bound == Len(launch.buffers) + Len(launch.scalars)

TooManyThreads(tg) ==
  \/ \E d \in Dims : tg[d] > pipeline.maxTotal
  \/ Word(Word(tg[1] * tg[2]) * tg[3]) > pipeline.maxTotal

\* A used argument beyond what the launch binds.
Uncovered(binding) == binding.index >= Bound

\* The size of the scalar at a buffer index after the buffers.
ScalarAt(index) == launch.scalars[index - Len(launch.buffers) + 1]

\* Mutant: a scalar may be narrower than the element the kernel reads.
Narrow_DividesOnly(binding) == ScalarAt(binding.index) % binding.size # 0

\* A scalar is a whole number, at least one, of the elements the kernel reads.
Narrow(binding) ==
  \/ ScalarAt(binding.index) < binding.size
  \/ ScalarAt(binding.index) % binding.size # 0

OutOfBounds(b) == b.offset >= b.size /\ ~(b.offset = 0 /\ b.size = 0)

kIndirectArgumentsSize == 12

Misplaced(offset, size) ==
  offset % 4 # 0 \/ offset > size \/ kIndirectArgumentsSize > size - offset

Rounds(length) == length <= WordMax - (kThreadgroupMemoryAlignment - 1)

\* rounded_threadgroup_length(), where it does not throw.
Rounded(length) ==
  (Word(length + kThreadgroupMemoryAlignment - 1) \div kThreadgroupMemoryAlignment)
    * kThreadgroupMemoryAlignment

\* One check: it throws, or the next one runs.
Check(here, fault, there) ==
  /\ stage = here
  /\ stage'  = IF fault THEN "rejected" ELSE there
  /\ reason' = IF fault THEN here ELSE reason
  /\ UNCHANGED <<input, total, next, encoded>>

CheckGrid ==
  Check("grid", launch.indirect = None /\ \E d \in Dims : Grid[d] = 0, "threadgroup")
CheckThreadgroup == Check("threadgroup", \E d \in Dims : Threadgroup[d] = 0, "threads")
CheckThreads     == Check("threads", TooManyThreads(Threadgroup), "count")
CheckCount       == Check("count", Bound > MaxBindings, "bindings")
CheckBindings    == Check("bindings", \E b \in pipeline.bindings : Uncovered(b), "arrays")
CheckScalars     == Check("scalars",
  \E i \in 1..Len(launch.scalars) : launch.scalars[i] > kMaxInlineScalarBytes, "widths")
CheckOffsets     == Check("offsets",
  \E i \in 1..Len(launch.buffers) : OutOfBounds(launch.buffers[i]),
  IF launch.indirect = None THEN "uniform" ELSE "indirect")
CheckIndirect    == Check("indirect",
  Misplaced(launch.indirect_offset, launch.indirect), "accepted")
CheckUniform     == Check("uniform",
  ~nonUniform /\ \E d \in Dims : Grid[d] % Threadgroup[d] # 0, "accepted")

\* Reads the scalar of every binding that is not a buffer.
CheckWidths == Check("widths",
  \E b \in pipeline.bindings : b.index >= Len(launch.buffers) /\ b.size # 0 /\ Narrow(b),
  "offsets")

\* Used threadgroup arrays have a size; the static allocation starts the sum.
CheckArrays ==
  LET fault == \E i \in pipeline.arrays : i >= Len(launch.memory) IN
  /\ stage = "arrays"
  /\ stage'  = IF fault THEN "rejected" ELSE "memory"
  /\ reason' = IF fault THEN "arrays" ELSE reason
  /\ total'  = pipeline.static
  /\ UNCHANGED <<input, next, encoded>>

\* Mutants: adds first, compares later; off by one at the budget.
Overruns_Wraps(rounded)    == Word(total + rounded) > budget
Overruns_OffByOne(rounded) == total > budget \/ rounded >= budget - total

\* The sum would exceed the budget; written so that it cannot wrap.
Overruns(rounded) == total > budget \/ rounded > budget - total

\* One round of the loop over threadgroup_memory.
CheckMemory ==
  LET length == launch.memory[next]
      fault  == ~Rounds(length) \/ Overruns(Rounded(length)) IN
  /\ stage = "memory" /\ next <= Len(launch.memory)
  /\ next'   = next + 1
  /\ total'  = IF fault THEN total ELSE Word(total + Rounded(length))
  /\ stage'  = IF fault THEN "rejected" ELSE stage
  /\ reason' = IF fault THEN "memory" ELSE reason
  /\ UNCHANGED <<input, encoded>>

CheckBudget ==
  /\ next > Len(launch.memory)
  /\ Check("memory", total > budget, "scalars")

-----------------------------------------------------------------------------
(* The rest of add() *)

\* Mutant: a device without non-uniform threadgroups gets the grid in threads rounded up.
Threads_RoundUp(d) ==
  IF nonUniform THEN Grid[d]
  ELSE (Grid[d] \div Threadgroup[d] + 1) * Threadgroup[d]

\* dispatchThreads, or dispatchThreadgroups with grid / tg threadgroups.
Threads(d) ==
  IF nonUniform THEN Grid[d]
  ELSE (Grid[d] \div Threadgroup[d]) * Threadgroup[d]

\* The encoder's argument table: the buffers, then the bytes of the scalars.
Table ==
  launch.buffers
    \o [i \in 1..Len(launch.scalars) |-> [offset |-> 0, size |-> launch.scalars[i]]]

\* What the encoder is told; of an indirect dispatch, the buffer has the threadgroups.
Encoding ==
  [ table   |-> Table,
    memory  |-> [i \in 1..Len(launch.memory) |-> Rounded(launch.memory[i])],
    tg      |-> Threadgroup,
    threads |-> [d \in Dims |-> IF launch.indirect = None THEN Threads(d) ELSE 0] ]

Encode ==
  /\ stage = "accepted"
  /\ stage' = "encoded" /\ encoded' = Encoding
  /\ UNCHANGED <<input, total, next, reason>>

Next ==
  \/ Prepare \/ CheckGrid \/ CheckThreadgroup \/ CheckThreads \/ CheckCount
  \/ CheckBindings \/ CheckArrays \/ CheckMemory \/ CheckBudget \/ CheckScalars
  \/ CheckWidths \/ CheckOffsets \/ CheckIndirect \/ CheckUniform \/ Encode

Spec == Init /\ [][Next]_vars

-----------------------------------------------------------------------------
(* Properties *)

RoundUp(n) ==
  CHOOSE m \in n..(n + kThreadgroupMemoryAlignment) : m % kThreadgroupMemoryAlignment = 0
    /\ m < n + kThreadgroupMemoryAlignment

\* The sums of the first elements of s, from none to all of them.
Sums(s)  == LET sum[n \in 0..Len(s)] == IF n = 0 THEN 0 ELSE sum[n - 1] + s[n] IN sum
SumOf(s) == Sums(s)[Len(s)]

Volume(tg) == tg[1] * tg[2] * tg[3]

\* What Metal asks of a dispatch, in the integers: anything else is an abort of the
\* process, a fault or a read of unbound memory (dispatch.cpp:37-38).  In the order of
\* the rules: the threadgroup and the grid have threads, the former not too many; all
\* threadgroup memory is aligned and fits the device together; every argument the kernel
\* uses is bound, inside its buffer or small enough for setBytes; and an indirect grid
\* lies aligned in its buffer.
MetalAccepts == stage = "encoded" =>
  /\ Volume(encoded.tg) \in 1..pipeline.maxTotal
  /\ launch.indirect = None => \A d \in Dims : encoded.threads[d] > 0
  /\ pipeline.static + SumOf(encoded.memory) <= budget
  /\ \A i \in 1..Len(encoded.memory) : encoded.memory[i] % kThreadgroupMemoryAlignment = 0
  /\ \A i \in pipeline.arrays : i < Len(encoded.memory)
  /\ Len(encoded.table) <= MaxBindings
  /\ \A b \in pipeline.bindings : b.index < Len(encoded.table)
  /\ \A i \in 1..Len(encoded.table) :
       /\ encoded.table[i].offset < encoded.table[i].size \/ encoded.table[i].offset = 0
       /\ i > Len(launch.buffers) => encoded.table[i].size <= kMaxInlineScalarBytes
  /\ launch.indirect # None =>
       /\ launch.indirect_offset % 4 = 0
       /\ launch.indirect_offset + 12 <= launch.indirect

\* Every scalar the kernel reads is as wide as what it reads, whatever mix of buffers
\* and scalars the launch binds (dispatch.cpp:113-128).
ScalarsCoverReads == stage = "encoded" =>
  \A b \in pipeline.bindings : b.index >= Len(launch.buffers) /\ b.size > 0 =>
    \E k \in 1..kMaxInlineScalarBytes : encoded.table[b.index + 1].size = k * b.size

\* Both dispatch calls run exactly the threads of the grid (dispatch.cpp:258-268),
\* whatever dimensions were left out: what a device without non-uniform threadgroups
\* cannot run was refused.
EveryThreadRuns == stage = "encoded" /\ launch.indirect = None =>
  \A d \in Dims : encoded.threads[d] = IF d \in DOMAIN launch.grid THEN launch.grid[d] ELSE 1

\* The checks refuse nothing that the integers allow: no overflow makes a good
\* launch look bad (dispatch.cpp:85-105, 138-147).
NoFalseAlarm ==
  /\ reason = "memory" =>
       pipeline.static
         + SumOf([i \in 1..Len(launch.memory) |-> RoundUp(launch.memory[i])]) > budget
  /\ reason = "indirect" =>
       launch.indirect_offset % 4 # 0 \/ launch.indirect_offset + 12 > launch.indirect
  /\ reason = "threads" => Volume(Threadgroup) > pipeline.maxTotal

\* The threadgroup the runtime picks is one its own validation takes: "Whole SIMD
\* groups up to the kernel's ceiling" (dispatch.h:57).
DefaultWithinCeiling == launch.tg = None /\ launch.indirect = None =>
  reason \notin {"threadgroup", "threads"}
=============================================================================
