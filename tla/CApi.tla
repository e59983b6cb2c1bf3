-------------------------------- MODULE CApi --------------------------------
(***************************************************************************)
(* The C API (src/src/c_api.cpp): handles for libraries, pipelines and     *)
(* batches, shared by the threads of a C program, and the status that      *)
(* mr_guard makes of each exception (src/src/errors.h).                    *)
(*                                                                         *)
(* A handle of a pipeline shares its ComputePipeline with the cache of the *)
(* library and with other handles: `refs' counts the owners.  The          *)
(* CommandBatch in a batch handle, or local to mr_dispatch, is the batch   *)
(* of BatchSpec.  The program keeps to the rules of C: it passes live      *)
(* handles, and releases none that a call in progress uses.  Buffers are   *)
(* in WrapBuffer, the contents of a launch in LaunchValidation: here they  *)
(* are a defect that a call may meet.                                      *)
(***************************************************************************)
EXTENDS LruCache, Integers, FiniteSets

CONSTANTS
  Threads, Libs, Pipes, Batches,    \* handles, each used once
  Names,                            \* function names
  Exported,                         \* those that a compiled library has
  Buildable,                        \* those of which Metal makes a pipeline
  kMaxCachedPipelines, QueueLimit,
  MaxCalls,                         \* bound: calls that the program makes
  Null

ASSUME CApiAssumption ==
  /\ Buildable \subseteq Exported /\ Exported \subseteq Names
  /\ Null \notin Libs \cup Pipes \cup Batches \cup Names
  /\ kMaxCachedPipelines \in Nat \ {0} /\ QueueLimit \in Nat \ {0} /\ MaxCalls \in Nat

VARIABLES
  device,               \* the machine has a Metal device
  lib, pipe, handle,    \* libraries, pipelines, batches: "none", "live" or "released"
  object,               \* ComputePipeline of a pipeline handle, named after its first handle
  cache,                \* the LruCache of each library: its ComputePipelines by function name
  refs,                 \* owners of a ComputePipeline
  state, work, told,    \* the batches: see BatchSpec
  pc, call,             \* a call that blocks: mr_batch_create, mr_batch_wait, mr_dispatch
  result,               \* what the last call to return returned
  calls

batchVars  == <<state, work, told>>
pipeVars   == <<lib, pipe, object, cache, refs>>
vars       == <<device, pipeVars, handle, batchVars, pc, call, result, calls>>

Batch == INSTANCE BatchSpec WITH Items <- Pipes

\* arg is a pipeline handle, or the name that is looked up; defect is what is wrong with
\* the arguments, or that memory runs out.
Call(op, b, arg, defect) == [op |-> op, batch |-> b, arg |-> arg, defect |-> defect]

Init ==
  /\ device \in BOOLEAN
  /\ lib    = [l \in Libs |-> "none"]
  /\ pipe   = [p \in Pipes |-> "none"]
  /\ handle = [b \in Batches |-> "none"]
  /\ object = [p \in Pipes |-> Null]
  /\ cache  = [l \in Libs |-> EmptyLru(kMaxCachedPipelines)]
  /\ refs   = [p \in Pipes |-> 0]
  /\ Batch!SpecInit
  /\ pc     = [t \in Threads |-> "idle"]
  /\ call   = [t \in Threads |-> Call("none", Null, Null, "none")]
  /\ result = [turn |-> FALSE]
  /\ calls  = 0

-----------------------------------------------------------------------------
(* mr_guard *)

\* The classes of errors.h and of the standard library, with their bases.
Bases == [
  MSLFunctionNotFoundError |-> {"MSLCompileError", "MetalError", "exception"},
  PipelineBuildError       |-> {"MSLCompileError", "MetalError", "exception"},
  MSLCompileError          |-> {"MetalError", "exception"},
  DispatchError            |-> {"MetalError", "exception"},
  NoDeviceError            |-> {"MetalError", "exception"},
  AllocationError          |-> {"exception"},
  invalid_argument         |-> {"exception"},
  bad_alloc                |-> {"exception"}]

\* Mutant: the base class is caught first.
Catches_BaseFirst == <<
  <<"MSLCompileError", "MR_ERROR_COMPILE">>,
  <<"MSLFunctionNotFoundError", "MR_ERROR_FUNCTION_NOT_FOUND">>,
  <<"DispatchError", "MR_ERROR_DISPATCH">>,
  <<"NoDeviceError", "MR_ERROR_NO_DEVICE">>,
  <<"AllocationError", "MR_ERROR_ALLOCATION">>,
  <<"invalid_argument", "MR_ERROR_INVALID_ARGUMENT">>,
  <<"exception", "MR_ERROR_UNKNOWN">> >>

\* The catch clauses, in order.
Catches == <<
  <<"MSLFunctionNotFoundError", "MR_ERROR_FUNCTION_NOT_FOUND">>,
  <<"MSLCompileError", "MR_ERROR_COMPILE">>,
  <<"DispatchError", "MR_ERROR_DISPATCH">>,
  <<"NoDeviceError", "MR_ERROR_NO_DEVICE">>,
  <<"AllocationError", "MR_ERROR_ALLOCATION">>,
  <<"invalid_argument", "MR_ERROR_INVALID_ARGUMENT">>,
  <<"exception", "MR_ERROR_UNKNOWN">> >>

Caught(e) ==
  LET fits(i) == Catches[i][1] \in Bases[e] \cup {e} IN
  Catches[CHOOSE i \in DOMAIN Catches : fits(i) /\ \A j \in 1..(i - 1) : ~fits(j)][2]

\* Call c returns, after exception e or "none": the out-parameter was set to
\* null before anything else, and the message is written only for an exception.
Return(c, e, out) ==
  result' = [turn    |-> ~result.turn,
             call    |-> c,
             status  |-> IF e = "none" THEN "MR_OK" ELSE Caught(e),
             out     |-> IF e = "none" THEN out ELSE Null,
             message |-> e # "none"]

\* A thread makes a call: one that does not block is over at once.
Begins(t) == pc[t] = "idle" /\ calls < MaxCalls /\ calls' = calls + 1

\* What runtime() adds to the ways a call can end.
NeedsDevice(outcomes) == IF device THEN outcomes ELSE {"NoDeviceError"}

-----------------------------------------------------------------------------
(* Libraries and pipelines *)

\* An unknown math mode is refused before runtime() is called, a source that is not text
\* after it.
CompileOutcomes(defect) ==
  CASE defect = "null"      -> {"invalid_argument"}
    [] defect = "memory"    -> {"bad_alloc"}
    [] defect = "malformed" -> {"invalid_argument"} \cup NeedsDevice({"invalid_argument"})
    [] OTHER                -> NeedsDevice({"none", "MSLCompileError"})

mr_compile_library(t, l, defect) ==
  /\ Begins(t) /\ lib[l] = "none"
  /\ \E e \in CompileOutcomes(defect) :
       /\ Return(Call("mr_compile_library", Null, Null, defect), e, l)
       /\ lib' = IF e = "none" THEN [lib EXCEPT ![l] = "live"] ELSE lib
  /\ UNCHANGED <<device, pipe, handle, object, cache, refs, batchVars, pc, call>>

In(c) == {c.entries[n] : n \in Keys(c)}

\* One owner of each of these objects goes; an object that nobody owns is destroyed.
Unref(owned) == [o \in Pipes |-> refs[o] - (IF o \in owned THEN 1 ELSE 0)]

\* The Library goes, with what its cache owns.
mr_release_library(t, l) ==
  /\ Begins(t) /\ lib[l] = "live"
  /\ lib'   = [lib EXCEPT ![l] = "released"]
  /\ refs'  = Unref(In(cache[l]))
  /\ cache' = [cache EXCEPT ![l] = Clear(@)]
  /\ UNCHANGED <<device, pipe, handle, object, batchVars, pc, call, result>>

GetOutcome(n, defect) ==
  IF defect \in {"null", "malformed"} THEN "invalid_argument"
  ELSE IF defect = "memory" THEN "bad_alloc"
  ELSE IF n \notin Exported THEN "MSLFunctionNotFoundError"
  ELSE IF n \notin Buildable THEN "PipelineBuildError"
  ELSE "none"

\* Mutant: the handle of a cached pipeline is only a pointer to it.
Share_Borrows(owners, hit, o) == IF hit THEN owners ELSE [owners EXCEPT ![o] = 2]

\* The new handle owns object o; the cache does too, since it was made or before.
Share(owners, hit, o) == [owners EXCEPT ![o] = IF hit THEN @ + 1 ELSE 2]

\* Library::pipeline_for: object p is made if the cache has none of that name, and may
\* push others out.
mr_get_pipeline(t, l, n, p, defect) ==
  LET e   == GetOutcome(n, defect)
      lru == IF Has(cache[l], n) THEN Find(cache[l], n) ELSE Insert(cache[l], n, p) IN
  /\ Begins(t) /\ lib[l] = "live" /\ pipe[p] = "none"
  /\ Return(Call("mr_get_pipeline", Null, n, defect), e, p)
  /\ IF e # "none" THEN UNCHANGED pipeVars
     ELSE /\ pipe'   = [pipe EXCEPT ![p] = "live"]
          /\ object' = [object EXCEPT ![p] = lru.entries[n]]
          /\ cache'  = [cache EXCEPT ![l] = lru]
          /\ refs'   = Share(Unref(In(cache[l]) \ In(lru)), Has(cache[l], n), lru.entries[n])
          /\ UNCHANGED lib
  /\ UNCHANGED <<device, handle, batchVars, pc, call>>

\* No call in progress uses pipeline handle p.
mr_release_pipeline(t, p) ==
  /\ Begins(t) /\ pipe[p] = "live"
  /\ \A u \in Threads : pc[u] # "idle" => call[u].arg # p
  /\ pipe' = [pipe EXCEPT ![p] = "released"]
  /\ refs' = Unref({object[p]})
  /\ UNCHANGED <<device, lib, handle, object, cache, batchVars, pc, call, result>>

\* mr_device_info and mr_pipeline_info only read, the former from runtime().
mr_info(t, defect) ==
  /\ Begins(t)
  /\ \E e \in IF defect = "null" THEN {"invalid_argument"} ELSE NeedsDevice({"none"}) :
       Return(Call("mr_info", Null, Null, defect), e, Null)
  /\ UNCHANGED <<device, pipeVars, handle, batchVars, pc, call>>

\* mr_wrap_buffer: see WrapBuffer for what it makes.
mr_wrap_buffer(t, defect) ==
  /\ Begins(t)
  /\ \E e \in IF defect = "null" THEN {"invalid_argument"}
              ELSE NeedsDevice({"none", "AllocationError"}) :
       Return(Call("mr_wrap_buffer", Null, Null, defect), e, Null)
  /\ UNCHANGED <<device, pipeVars, handle, batchVars, pc, call>>

-----------------------------------------------------------------------------
(* Batches.  A call that blocks goes through several points. *)

Goto(t, label) == pc' = [pc EXCEPT ![t] = label]

\* Thread t goes on inside c, at label.
Blocks(t, c, label) ==
  /\ Goto(t, label)
  /\ call' = [call EXCEPT ![t] = c]
  /\ UNCHANGED result

\* A call of t that has blocked returns.
Leaves(t, e, out) ==
  /\ Goto(t, "idle")
  /\ UNCHANGED <<call, calls>>
  /\ Return(call[t], e, out)

\* Batch b is nobody's yet.
Unused(b) == state[b] = "none" /\ \A u \in Threads : pc[u] # "idle" => call[u].batch # b

\* mr_batch_create up to queue->commandBuffer().
mr_batch_create(t, b, defect) ==
  LET c == Call("mr_batch_create", b, Null, defect) IN
  /\ Begins(t) /\ Unused(b) /\ handle[b] = "none"
  /\ \/ defect = "none" /\ device /\ Blocks(t, c, "creating")
     \/ /\ \E e \in CASE defect = "null"   -> {"invalid_argument"}
                      [] defect = "memory" -> {"bad_alloc"}
                      [] OTHER             -> NeedsDevice({}) :
             Return(c, e, Null)
        /\ UNCHANGED <<pc, call>>
  /\ UNCHANGED <<device, pipeVars, handle, batchVars>>

\* build_launch throws on a null; batch.add on a batch that is committed, and then in
\* validate() on a launch that does not fit its kernel.
AddOutcome(b, defect) ==
  IF defect = "null" THEN "invalid_argument"
  ELSE IF state[b] # "encoding" THEN "DispatchError"
  ELSE IF defect = "malformed" THEN "invalid_argument"
  ELSE "none"

mr_batch_add(t, b, p, defect) ==
  LET e == AddOutcome(b, defect) IN
  /\ Begins(t) /\ handle[b] = "live" /\ pipe[p] = "live"
  /\ Return(Call("mr_batch_add", b, p, defect), e, Null)
  /\ IF e = "none" THEN Batch!Add(b, object[p]) ELSE UNCHANGED batchVars
  /\ UNCHANGED <<device, pipeVars, handle, pc, call>>

SubmitIfOpen(b) == IF state[b] = "encoding" THEN Batch!Submit(b) ELSE UNCHANGED batchVars

mr_batch_commit(t, b) ==
  /\ Begins(t) /\ handle[b] = "live"
  /\ Return(Call("mr_batch_commit", b, Null, "none"), "none", Null)
  /\ SubmitIfOpen(b)
  /\ UNCHANGED <<device, pipeVars, handle, pc, call>>

mr_batch_wait(t, b) ==
  /\ Begins(t) /\ handle[b] = "live"
  /\ Blocks(t, Call("mr_batch_wait", b, Null, "none"), "waiting")
  /\ SubmitIfOpen(b)
  /\ UNCHANGED <<device, pipeVars, handle>>

\* No call in progress uses batch handle b.  A batch that is still open goes with it.
mr_release_batch(t, b) ==
  /\ Begins(t) /\ handle[b] = "live"
  /\ \A u \in Threads : pc[u] # "idle" => call[u].batch # b
  /\ handle' = [handle EXCEPT ![b] = "released"]
  /\ IF state[b] = "encoding" THEN Batch!Drop(b) ELSE UNCHANGED batchVars
  /\ UNCHANGED <<device, pipeVars, pc, call, result>>

\* mr_dispatch: build_launch throws on a null; then dispatch() on a batch b that is a local
\* variable.
mr_dispatch(t, b, p, defect) ==
  LET c == Call("mr_dispatch", b, p, defect) IN
  /\ Begins(t) /\ Unused(b) /\ handle[b] = "none" /\ pipe[p] = "live"
  /\ \/ defect # "null" /\ Blocks(t, c, "creating")
     \/ defect = "null" /\ Return(c, "invalid_argument", Null) /\ UNCHANGED <<pc, call>>
  /\ UNCHANGED <<device, pipeVars, handle, batchVars>>

\* The command buffer is there.
Created(t) ==
  LET b == call[t].batch IN
  /\ pc[t] = "creating"
  /\ Batch!Create(b)
  /\ IF call[t].op = "mr_dispatch"
     THEN /\ Goto(t, "encode")
          /\ UNCHANGED <<handle, call, result, calls>>
     ELSE /\ handle' = [handle EXCEPT ![b] = "live"]
          /\ Leaves(t, "none", b)
  /\ UNCHANGED <<device, pipeVars>>

\* Metal has no command buffer, or no encoder, for it: the constructor throws.
CreateFails(t) ==
  /\ pc[t] = "creating"
  /\ Cardinality(Batch!Holding) < QueueLimit
  /\ Leaves(t, "DispatchError", Null)
  /\ UNCHANGED <<device, pipeVars, handle, batchVars>>

\* Mutant: the local batch of a dispatch that throws is left open.
Encode_LeavesOpen(t) ==
  LET b == call[t].batch IN
  /\ pc[t] = "encode"
  /\ \/ /\ call[t].defect = "malformed"
        /\ Leaves(t, "invalid_argument", Null)
        /\ UNCHANGED batchVars
     \/ /\ call[t].defect # "malformed"
        /\ Batch!Add(b, object[call[t].arg])
        /\ Goto(t, "submit")
        /\ UNCHANGED <<call, result, calls>>
  /\ UNCHANGED <<device, pipeVars, handle>>

\* batch.add in dispatch(): an exception destroys the batch.
Encode(t) ==
  LET b == call[t].batch IN
  /\ pc[t] = "encode"
  /\ \/ /\ call[t].defect = "malformed"
        /\ Leaves(t, "invalid_argument", Null)
        /\ Batch!Drop(b)
     \/ /\ call[t].defect # "malformed"
        /\ Batch!Add(b, object[call[t].arg])
        /\ Goto(t, "submit")
        /\ UNCHANGED <<call, result, calls>>
  /\ UNCHANGED <<device, pipeVars, handle>>

\* batch.wait in dispatch() submits.
Submit(t) ==
  /\ pc[t] = "submit"
  /\ Batch!Submit(call[t].batch)
  /\ Goto(t, "waiting")
  /\ UNCHANGED <<device, pipeVars, handle, call, result, calls>>

\* wait() is over, and throws if the GPU faulted.
Waited(t) ==
  LET b == call[t].batch IN
  /\ pc[t] = "waiting"
  /\ Batch!Report(b)
  /\ Leaves(t, IF state[b] = "error" THEN "DispatchError" ELSE "none", Null)
  /\ UNCHANGED <<device, pipeVars, handle>>

GpuFinish(b) ==
  /\ Batch!Complete(b)
  /\ UNCHANGED <<device, pipeVars, handle, pc, call, result, calls>>

Defects == {"none", "null", "malformed", "memory"}

Next ==
  \/ \E t \in Threads :
       \/ \E l \in Libs, defect \in Defects :
            \/ mr_compile_library(t, l, defect)
            \/ \E n \in Names, p \in Pipes : mr_get_pipeline(t, l, n, p, defect)
       \/ \E l \in Libs : mr_release_library(t, l)
       \/ \E p \in Pipes : mr_release_pipeline(t, p)
       \/ \E defect \in {"none", "null"} : mr_info(t, defect) \/ mr_wrap_buffer(t, defect)
       \/ \E b \in Batches :
            \/ \E defect \in {"none", "null", "memory"} : mr_batch_create(t, b, defect)
            \/ \E p \in Pipes, defect \in {"none", "null", "malformed"} :
                 mr_batch_add(t, b, p, defect) \/ mr_dispatch(t, b, p, defect)
            \/ mr_batch_commit(t, b) \/ mr_batch_wait(t, b) \/ mr_release_batch(t, b)
       \/ Created(t) \/ CreateFails(t) \/ Encode(t) \/ Submit(t) \/ Waited(t)
  \/ \E b \in Batches : GpuFinish(b)

Spec == Init /\ [][Next]_vars

-----------------------------------------------------------------------------
(* Properties *)

\* A call returns in this step.
Returns == result' # result

TellsTruth(r) ==
  LET c     == r.call
      waits == c.op \in {"mr_batch_wait", "mr_dispatch"} IN
  /\ r.message = (r.status # "MR_OK")
  /\ r.status = "MR_OK" =>
       /\ c.defect = "none"
       /\ waits => state[c.batch] = "completed" /\ work[c.batch] = work'[c.batch]
       /\ c.op = "mr_batch_add" => work'[c.batch] = Append(work[c.batch], object[c.arg])
       /\ c.op = "mr_get_pipeline" => c.arg \in Buildable
  /\ r.status = "MR_ERROR_FUNCTION_NOT_FOUND" <=>
       c.op = "mr_get_pipeline" /\ c.defect = "none" /\ c.arg \notin Exported
  /\ r.status = "MR_ERROR_COMPILE" =>
       \/ c.op = "mr_compile_library"
       \/ c.op = "mr_get_pipeline" /\ c.arg \in Exported \ Buildable
  /\ r.status = "MR_ERROR_DISPATCH" =>
       \/ waits /\ state[c.batch] = "error"
       \/ c.op = "mr_dispatch" /\ state[c.batch] = "none"
       \/ c.op = "mr_batch_add" /\ state[c.batch] # "encoding"
       \/ c.op = "mr_batch_create" /\ c.defect = "none"
  /\ r.status = "MR_ERROR_INVALID_ARGUMENT" => c.defect \in {"null", "malformed"}
  /\ r.status = "MR_ERROR_NO_DEVICE" => ~device
  /\ r.status = "MR_ERROR_UNKNOWN" => c.defect = "memory"

\* A status says what happened: OK only for what was done, and finished if the call
\* waits; a fault, a closed batch, a missing function, a machine without a device each
\* by its own code; a message exactly for an error (c_api.h:25-45, 113-123;
\* c_api.cpp:49-78).
StatusTellsTruth == [][Returns => TellsTruth(result')]_vars

LeavesNothing(r) ==
  /\ r.out = Null
  /\ UNCHANGED <<pipeVars, handle>>
  /\ \A b \in Batches : handle[b] = "live" => state'[b] = state[b] /\ work'[b] = work[b]
  /\ r.call.op = "mr_dispatch" => state'[r.call.batch] \notin {"encoding", "committed"}

\* A call that fails makes no handle, changes no cache and no batch the program can see,
\* and a mr_dispatch that fails holds no place in the queue (c_api.cpp:107, 135, 314;
\* dispatch.cpp:328-332).
FailureLeavesNothing ==
  [][Returns /\ result'.status # "MR_OK" => LeavesNothing(result')]_vars

\* Every ComputePipeline has as many owners as handles and caches that refer to it, so
\* a handle works on after its library was released or evicted it, and nothing is kept
\* once all are gone (c_api.cpp:28-30, 131-145).
PipelinesOutliveLibraries == \A o \in Pipes :
  refs[o] = Cardinality({p \in Pipes : pipe[p] = "live" /\ object[p] = o})
          + Cardinality({l \in Libs : o \in In(cache[l])})
=============================================================================
