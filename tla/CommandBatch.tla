---------------------------- MODULE CommandBatch ----------------------------
(***************************************************************************)
(* metalrt::CommandBatch (src/src/dispatch.h, src/src/dispatch.cpp): a     *)
(* Metal command buffer that several threads encode into, commit, wait for *)
(* and discard, and dispatch(), which runs one launch in a private batch.  *)
(*                                                                         *)
(* All batches take their command buffer from the one command queue of the *)
(* MetalRuntime, which holds at most QueueLimit command buffers that are   *)
(* neither completed nor released; queue->commandBuffer() blocks while it  *)
(* is full.  Metal itself is external: `metal' is the life of a command    *)
(* buffer, `encState' the life of its encoder and `encoded' what the       *)
(* encoder has recorded.                                                   *)
(*                                                                         *)
(* A critical section of state_mutex_ is at least two steps, taking the    *)
(* mutex and the body, and three where the code first raises its flag and  *)
(* then calls Metal.  waitUntilCompleted runs between two critical         *)
(* sections of wait(), with the mutex free.                                *)
(***************************************************************************)
EXTENDS Integers, FiniteSets, Sequences

CONSTANTS
  Threads,      \* callers
  Batches,      \* batch objects, each constructed at most once
  Launches,     \* arguments of add()
  Valid,        \* the launches validate() accepts
  QueueLimit,   \* command buffers the queue holds, 64 by Metal's default
  MaxCalls,     \* bound: calls each thread makes
  NoThread,     \* no owner
  NoBatch,      \* no batch
  Barrier       \* a memory barrier in an encoder, and the argument of others

ASSUME ThreadsAssumption == NoThread \notin Threads
ASSUME BatchesAssumption == NoBatch \notin Batches /\ IsFiniteSet(Batches)
ASSUME LaunchesAssumption == Valid \subseteq Launches /\ Barrier \notin Launches
ASSUME LimitAssumption == QueueLimit \in Nat \ {0} /\ MaxCalls \in Nat

VARIABLES
  \* the members of each CommandBatch
  obj,          \* life of the object
  committed,    \* committed_
  discarded,    \* discarded_
  cmdbuf,       \* command_buffer_ is not null
  encoder,      \* encoder_ is not null
  gpuTime,      \* gpu_time_, as the status of the command buffer it was read from
  mutex,        \* owner of state_mutex_
  owner,        \* the thread whose dispatch() holds the batch as a local
  \* Metal
  metal,        \* status of the batch's command buffer
  encState,     \* state of its compute encoder
  encoded,      \* launches and barriers recorded by the encoder
  \* the calls in progress
  pc, op, bat, arg, calls,
  \* history: what the callers were told
  accepted,     \* launches and barriers whose call returned normally
  heard         \* verdicts that wait() calls have delivered

objVars    == <<obj, committed, discarded, cmdbuf, encoder, gpuTime, owner>>
metalVars  == <<metal, encState, encoded>>
threadVars == <<pc, op, bat, arg, calls>>
history    == <<accepted, heard>>
vars       == <<objVars, mutex, metalVars, threadVars, history>>

Items    == Launches \cup {Barrier}
Finished == {"completed", "error"}
Status   == {"none", "encoding", "committed", "dropped"} \cup Finished
Ops      == {"new", "add", "barrier", "commit", "wait", "discard", "gpuTime"}

\* Program points at which the thread owns the state_mutex_ of its batch.
Critical == {"body", "encode", "submit", "drop", "finish"}
Points   == Critical \cup
  {"idle", "newBuffer", "newEncoder", "lock", "await", "relock", "destroy"}

TypeOK ==
  /\ obj       \in [Batches -> {"unused", "constructing", "live", "destroyed"}]
  /\ committed \in [Batches -> BOOLEAN]
  /\ discarded \in [Batches -> BOOLEAN]
  /\ cmdbuf    \in [Batches -> BOOLEAN]
  /\ encoder   \in [Batches -> BOOLEAN]
  /\ gpuTime   \in [Batches -> Finished \cup {"unset"}]
  /\ mutex     \in [Batches -> Threads \cup {NoThread}]
  /\ owner     \in [Batches -> Threads \cup {NoThread}]
  /\ metal     \in [Batches -> Status]
  /\ encState  \in [Batches -> {"none", "open", "ended", "misused"}]
  /\ encoded   \in [Batches -> Seq(Items)]
  /\ pc        \in [Threads -> Points]
  /\ op        \in [Threads -> Ops]
  /\ bat       \in [Threads -> Batches \cup {NoBatch}]
  /\ arg       \in [Threads -> Items]
  /\ calls     \in [Threads -> 0..MaxCalls]
  /\ accepted  \in [Batches -> Seq(Items)]
  /\ heard     \in [Batches -> SUBSET {"ok", "fault"}]

Init ==
  /\ obj       = [b \in Batches |-> "unused"]
  /\ committed = [b \in Batches |-> FALSE]
  /\ discarded = [b \in Batches |-> FALSE]
  /\ cmdbuf    = [b \in Batches |-> FALSE]
  /\ encoder   = [b \in Batches |-> FALSE]
  /\ gpuTime   = [b \in Batches |-> "unset"]
  /\ mutex     = [b \in Batches |-> NoThread]
  /\ owner     = [b \in Batches |-> NoThread]
  /\ metal     = [b \in Batches |-> "none"]
  /\ encState  = [b \in Batches |-> "none"]
  /\ encoded   = [b \in Batches |-> << >>]
  /\ pc        = [t \in Threads |-> "idle"]
  /\ op        = [t \in Threads |-> "new"]
  /\ bat       = [t \in Threads |-> NoBatch]
  /\ arg       = [t \in Threads |-> Barrier]
  /\ calls     = [t \in Threads |-> 0]
  /\ accepted  = [b \in Batches |-> << >>]
  /\ heard     = [b \in Batches |-> {}]

-----------------------------------------------------------------------------
(* Metal, as the code uses it. *)

\* The command buffers that occupy a slot of the queue.
InFlight == {b \in Batches : metal[b] \in {"encoding", "committed"}}

\* encoder_->endEncoding(): once, on an open encoder; anything else is an
\* assertion of Metal.
EndEncoding(b) ==
  encState' = [encState EXCEPT ![b] = IF @ = "open" THEN "ended" ELSE "misused"]

\* Recording a command: only an open encoder keeps it.
Record(b, item) ==
  /\ encoded'  = [encoded EXCEPT ![b] = IF encState[b] = "open" THEN Append(@, item) ELSE @]
  /\ encState' = [encState EXCEPT ![b] = IF @ = "open" THEN @ ELSE "misused"]

\* The last reference to an uncommitted command buffer goes: its slot is free.
\* A committed one stays in the queue until the GPU is done with it.
Released(b) == IF metal[b] = "encoding" THEN "dropped" ELSE metal[b]

\* The GPU finishes a committed command buffer, or aborts it.
GpuFinish(b) ==
  /\ metal[b] = "committed"
  /\ \E s \in Finished : metal' = [metal EXCEPT ![b] = s]
  /\ UNCHANGED <<objVars, mutex, encState, encoded, threadVars, history>>

-----------------------------------------------------------------------------
(* Calls. *)

Goto(t, label) == pc' = [pc EXCEPT ![t] = label]

\* Mutant: dispatch() commits its batch and does not wait.
Return_CommitsOnly(t, ok) ==
  LET goesOn == owner[bat[t]] = t /\ op[t] = "add" /\ ok IN
  /\ Goto(t, IF owner[bat[t]] # t THEN "idle" ELSE IF goesOn THEN "lock" ELSE "destroy")
  /\ op'  = [op EXCEPT ![t] = IF goesOn THEN "commit" ELSE @]
  /\ bat' = [bat EXCEPT ![t] = IF owner[@] = t THEN @ ELSE NoBatch]
  /\ UNCHANGED <<arg, calls>>

\* Where a call leaves thread t.  A call by the caller itself leaves the batch;
\* dispatch() goes on from add() to wait(), and unwinds to ~CommandBatch when
\* add() throws and when wait() is over.
Return(t, ok) ==
  LET goesOn == owner[bat[t]] = t /\ op[t] = "add" /\ ok IN
  /\ Goto(t, IF owner[bat[t]] # t THEN "idle" ELSE IF goesOn THEN "lock" ELSE "destroy")
  /\ op'  = [op EXCEPT ![t] = IF goesOn THEN "wait" ELSE @]
  /\ bat' = [bat EXCEPT ![t] = IF owner[@] = t THEN @ ELSE NoBatch]
  /\ UNCHANGED <<arg, calls>>

Unlock(b) == mutex' = [mutex EXCEPT ![b] = NoThread]

\* Thread t enters operation o on batch b with argument l.
Enter(t, o, b, l, label) ==
  /\ pc[t] = "idle"
  /\ calls[t] < MaxCalls
  /\ Goto(t, label)
  /\ op'    = [op EXCEPT ![t] = o]
  /\ bat'   = [bat EXCEPT ![t] = b]
  /\ arg'   = [arg EXCEPT ![t] = l]
  /\ calls' = [calls EXCEPT ![t] = @ + 1]

\* new CommandBatch(rt), shared between the threads once constructed.
New(t, b) ==
  /\ obj[b] = "unused"
  /\ Enter(t, "new", b, Barrier, "newBuffer")
  /\ obj' = [obj EXCEPT ![b] = "constructing"]
  /\ UNCHANGED <<committed, discarded, cmdbuf, encoder, gpuTime, owner,
                 mutex, metalVars, history>>

\* dispatch(rt, l): its batch is a local of the calling thread.
Dispatch(t, b, l) ==
  /\ obj[b] = "unused"
  /\ Enter(t, "new", b, l, "newBuffer")
  /\ obj'   = [obj EXCEPT ![b] = "constructing"]
  /\ owner' = [owner EXCEPT ![b] = t]
  /\ UNCHANGED <<committed, discarded, cmdbuf, encoder, gpuTime,
                 mutex, metalVars, history>>

Call(t, b) ==
  /\ obj[b] = "live"
  /\ owner[b] = NoThread
  /\ \/ \E l \in Launches : Enter(t, "add", b, l, "lock")
     \/ \E o \in Ops \ {"new", "add"} : Enter(t, o, b, Barrier, "lock")
  /\ UNCHANGED <<objVars, mutex, metalVars, history>>

-----------------------------------------------------------------------------
(* CommandBatch::CommandBatch *)

\* queue->commandBuffer(): blocks while the queue is full.
NewBuffer(t) ==
  /\ pc[t] = "newBuffer"
  /\ Cardinality(InFlight) < QueueLimit
  /\ metal'  = [metal EXCEPT ![bat[t]] = "encoding"]
  /\ cmdbuf' = [cmdbuf EXCEPT ![bat[t]] = TRUE]
  /\ Goto(t, "newEncoder")
  /\ UNCHANGED <<obj, committed, discarded, encoder, gpuTime, owner, mutex,
                 encState, encoded, op, bat, arg, calls, history>>

NewEncoder(t) ==
  LET b == bat[t] IN
  /\ pc[t] = "newEncoder"
  /\ encoder'  = [encoder EXCEPT ![b] = TRUE]
  /\ encState' = [encState EXCEPT ![b] = "open"]
  /\ obj'      = [obj EXCEPT ![b] = "live"]
  /\ IF owner[b] = t
     THEN /\ Goto(t, "lock")
          /\ op' = [op EXCEPT ![t] = "add"]
          /\ UNCHANGED bat
     ELSE /\ Goto(t, "idle")
          /\ bat' = [bat EXCEPT ![t] = NoBatch]
          /\ UNCHANGED op
  /\ UNCHANGED <<committed, discarded, cmdbuf, gpuTime, owner, mutex, metal,
                 encoded, arg, calls, history>>

\* Metal returns null for the command buffer or for the encoder: the
\* constructor throws, so the members are destroyed and ~CommandBatch is not run.
NewFails(t) ==
  LET b == bat[t] IN
  /\ \/ pc[t] = "newBuffer" /\ Cardinality(InFlight) < QueueLimit
     \/ pc[t] = "newEncoder"
  /\ cmdbuf' = [cmdbuf EXCEPT ![b] = FALSE]
  /\ metal'  = [metal EXCEPT ![b] = Released(b)]
  /\ obj'    = [obj EXCEPT ![b] = "destroyed"]
  /\ Goto(t, "idle")
  /\ bat'    = [bat EXCEPT ![t] = NoBatch]
  /\ UNCHANGED <<committed, discarded, encoder, gpuTime, owner, mutex,
                 encState, encoded, op, arg, calls, history>>

\* Mutant: the destructor ends the encoder of a committed batch as well.
Destructor_EndsTwice(b) ==
  /\ IF encoder[b] THEN EndEncoding(b) ELSE UNCHANGED encState
  /\ encoder' = [encoder EXCEPT ![b] = FALSE]
  /\ cmdbuf'  = [cmdbuf EXCEPT ![b] = FALSE]
  /\ metal'   = [metal EXCEPT ![b] = Released(b)]
  /\ obj'     = [obj EXCEPT ![b] = "destroyed"]
  /\ UNCHANGED <<committed, discarded, gpuTime, owner, mutex, encoded, history>>

\* CommandBatch::~CommandBatch, then its members.
Destructor(b) ==
  /\ IF ~committed[b] /\ encoder[b] THEN EndEncoding(b) ELSE UNCHANGED encState
  /\ encoder' = [encoder EXCEPT ![b] = FALSE]
  /\ cmdbuf'  = [cmdbuf EXCEPT ![b] = FALSE]
  /\ metal'   = [metal EXCEPT ![b] = Released(b)]
  /\ obj'     = [obj EXCEPT ![b] = "destroyed"]
  /\ UNCHANGED <<committed, discarded, gpuTime, owner, mutex, encoded, history>>

\* The last owner of a shared batch drops it: no call on it is in progress.
Delete(t, b) ==
  /\ obj[b] = "live"
  /\ owner[b] = NoThread
  /\ pc[t] = "idle"
  /\ \A u \in Threads : bat[u] # b
  /\ Destructor(b)
  /\ UNCHANGED threadVars

\* The end of dispatch()'s scope.
Unwind(t) ==
  /\ pc[t] = "destroy"
  /\ Destructor(bat[t])
  /\ Goto(t, "idle")
  /\ bat' = [bat EXCEPT ![t] = NoBatch]
  /\ UNCHANGED <<op, arg, calls>>

-----------------------------------------------------------------------------
(* The methods.  std::lock_guard lock(state_mutex_) is Acquire. *)

\* Mutant: the methods do not take state_mutex_.
Acquire_NoLock(t) ==
  /\ pc[t] \in {"lock", "relock"}
  /\ Goto(t, IF pc[t] = "lock" THEN "body" ELSE "finish")
  /\ UNCHANGED <<objVars, mutex, metalVars, op, bat, arg, calls, history>>

Acquire(t) ==
  /\ pc[t] \in {"lock", "relock"}
  /\ mutex[bat[t]] = NoThread
  /\ mutex' = [mutex EXCEPT ![bat[t]] = t]
  /\ Goto(t, IF pc[t] = "lock" THEN "body" ELSE "finish")
  /\ UNCHANGED <<objVars, metalVars, op, bat, arg, calls, history>>

Body(t, ops) == pc[t] = "body" /\ op[t] \in ops

\* Mutant: one of the two flags is not looked at.
Closed_NotDiscarded(b) == committed[b]

Closed(b) == committed[b] \/ discarded[b]

\* Mutant: a call that throws leaves the mutex locked.
Reject_KeepsLock(t) ==
  /\ Body(t, {"add", "barrier"})
  /\ Closed(bat[t]) \/ (op[t] = "add" /\ arg[t] \notin Valid)
  /\ Return(t, FALSE)
  /\ UNCHANGED <<objVars, mutex, metalVars, history>>

\* add() and barrier() throw before they touch the encoder.
Reject(t) ==
  /\ Body(t, {"add", "barrier"})
  /\ Closed(bat[t]) \/ (op[t] = "add" /\ arg[t] \notin Valid)
  /\ Unlock(bat[t])
  /\ Return(t, FALSE)
  /\ UNCHANGED <<objVars, metalVars, history>>

Accept(t) ==
  /\ Body(t, {"add", "barrier"})
  /\ ~Closed(bat[t])
  /\ op[t] = "add" => arg[t] \in Valid
  /\ Goto(t, "encode")
  /\ UNCHANGED <<objVars, mutex, metalVars, op, bat, arg, calls, history>>

Encode(t) ==
  LET b == bat[t] IN
  /\ pc[t] = "encode"
  /\ Record(b, arg[t])
  /\ accepted' = [accepted EXCEPT ![b] = Append(@, arg[t])]
  /\ Unlock(b)
  /\ Return(t, TRUE)
  /\ UNCHANGED <<objVars, metal, heard>>

\* commit_locked() on a discarded batch throws, out of commit() and of wait().
CommitDiscarded(t) ==
  /\ Body(t, {"commit", "wait"})
  /\ discarded[bat[t]]
  /\ Unlock(bat[t])
  /\ Return(t, FALSE)
  /\ UNCHANGED <<objVars, metalVars, history>>

\* What follows commit_locked(): commit() returns, wait() blocks.
AfterCommit(t) ==
  /\ Unlock(bat[t])
  /\ \/ op[t] = "commit" /\ Return(t, TRUE)
     \/ op[t] = "wait" /\ Goto(t, "await") /\ UNCHANGED <<op, bat, arg, calls>>

CommitAgain(t) ==
  /\ Body(t, {"commit", "wait"})
  /\ ~discarded[bat[t]] /\ committed[bat[t]]
  /\ AfterCommit(t)
  /\ UNCHANGED <<objVars, metalVars, history>>

\* Mutant: the mutex only covers the flag, the work is submitted after it.
CommitFirst_Unlocks(t) ==
  /\ Body(t, {"commit", "wait"})
  /\ ~discarded[bat[t]] /\ ~committed[bat[t]]
  /\ committed' = [committed EXCEPT ![bat[t]] = TRUE]
  /\ Unlock(bat[t])
  /\ Goto(t, "submit")
  /\ UNCHANGED <<obj, discarded, cmdbuf, encoder, gpuTime, owner,
                 metalVars, op, bat, arg, calls, history>>

CommitFirst(t) ==
  /\ Body(t, {"commit", "wait"})
  /\ ~discarded[bat[t]] /\ ~committed[bat[t]]
  /\ committed' = [committed EXCEPT ![bat[t]] = TRUE]
  /\ Goto(t, "submit")
  /\ UNCHANGED <<obj, discarded, cmdbuf, encoder, gpuTime, owner, mutex,
                 metalVars, op, bat, arg, calls, history>>

\* encoder_->endEncoding(); command_buffer_->commit();
Submit(t) ==
  LET b == bat[t] IN
  /\ pc[t] = "submit"
  /\ EndEncoding(b)
  /\ metal' = [metal EXCEPT ![b] = "committed"]
  /\ AfterCommit(t)
  /\ UNCHANGED <<objVars, encoded, history>>

\* Mutant: wait() goes on as soon as the command buffer is committed.
Await_Committed(t) ==
  /\ pc[t] = "await"
  /\ metal[bat[t]] \in Finished \cup {"committed"}
  /\ Goto(t, "relock")
  /\ UNCHANGED <<objVars, mutex, metalVars, op, bat, arg, calls, history>>

\* command_buffer_->waitUntilCompleted() returns, with state_mutex_ free.
Await(t) ==
  /\ pc[t] = "await"
  /\ metal[bat[t]] \in Finished
  /\ Goto(t, "relock")
  /\ UNCHANGED <<objVars, mutex, metalVars, op, bat, arg, calls, history>>

\* Mutant: only the caller that sets gpu_time_ looks at the status.
Finish_FaultOnce(t) ==
  LET b == bat[t]
      fault == metal[b] = "error" /\ gpuTime[b] = "unset" IN
  /\ pc[t] = "finish"
  /\ gpuTime' = [gpuTime EXCEPT ![b] = IF @ = "unset" THEN metal[b] ELSE @]
  /\ heard'   = [heard EXCEPT ![b] = @ \cup {IF fault THEN "fault" ELSE "ok"}]
  /\ Unlock(b)
  /\ Return(t, ~fault)
  /\ UNCHANGED <<obj, committed, discarded, cmdbuf, encoder, owner, metalVars, accepted>>

\* The second critical section of wait(): gpu_time_, then the verdict.
Finish(t) ==
  LET b == bat[t] IN
  /\ pc[t] = "finish"
  /\ gpuTime' = [gpuTime EXCEPT ![b] = IF @ = "unset" THEN metal[b] ELSE @]
  /\ heard'   = [heard EXCEPT ![b] = @ \cup {IF metal[b] = "error" THEN "fault" ELSE "ok"}]
  /\ Unlock(b)
  /\ Return(t, metal[b] # "error")
  /\ UNCHANGED <<obj, committed, discarded, cmdbuf, encoder, owner, metalVars, accepted>>

\* discard() of a batch that is already closed.
DiscardClosed(t) ==
  /\ Body(t, {"discard"})
  /\ Closed(bat[t])
  /\ Unlock(bat[t])
  /\ Return(t, TRUE)
  /\ UNCHANGED <<objVars, metalVars, history>>

DiscardOpen(t) ==
  /\ Body(t, {"discard"})
  /\ ~Closed(bat[t])
  /\ discarded' = [discarded EXCEPT ![bat[t]] = TRUE]
  /\ Goto(t, "drop")
  /\ UNCHANGED <<obj, committed, cmdbuf, encoder, gpuTime, owner, mutex,
                 metalVars, op, bat, arg, calls, history>>

\* Mutant: discard() keeps the command buffer until the batch is destroyed.
Drop_KeepsBuffer(t) ==
  LET b == bat[t] IN
  /\ pc[t] = "drop"
  /\ EndEncoding(b)
  /\ encoder' = [encoder EXCEPT ![b] = FALSE]
  /\ Unlock(b)
  /\ Return(t, TRUE)
  /\ UNCHANGED <<obj, committed, discarded, cmdbuf, metal, gpuTime, owner, encoded, history>>

\* endEncoding(), encoder_.reset(), command_buffer_.reset()
Drop(t) ==
  LET b == bat[t] IN
  /\ pc[t] = "drop"
  /\ EndEncoding(b)
  /\ encoder' = [encoder EXCEPT ![b] = FALSE]
  /\ cmdbuf'  = [cmdbuf EXCEPT ![b] = FALSE]
  /\ metal'   = [metal EXCEPT ![b] = Released(b)]
  /\ Unlock(b)
  /\ Return(t, TRUE)
  /\ UNCHANGED <<obj, committed, discarded, gpuTime, owner, encoded, history>>

\* gpu_time() reads gpuTime[b] under the mutex.
ReadTime(t) ==
  /\ Body(t, {"gpuTime"})
  /\ Unlock(bat[t])
  /\ Return(t, TRUE)
  /\ UNCHANGED <<objVars, metalVars, history>>

-----------------------------------------------------------------------------

\* A thread starts a call, or drops a batch: nothing obliges it to.
Begin(t) == \E b \in Batches :
  \/ New(t, b)
  \/ \E l \in Launches : Dispatch(t, b, l)
  \/ Call(t, b)
  \/ Delete(t, b)

\* A thread goes on with the call it is in.
Step(t) ==
  \/ NewBuffer(t) \/ NewEncoder(t) \/ NewFails(t) \/ Unwind(t)
  \/ Acquire(t)
  \/ Reject(t) \/ Accept(t) \/ Encode(t)
  \/ CommitDiscarded(t) \/ CommitAgain(t) \/ CommitFirst(t) \/ Submit(t)
  \/ Await(t) \/ Finish(t)
  \/ DiscardClosed(t) \/ DiscardOpen(t) \/ Drop(t)
  \/ ReadTime(t)

Next ==
  \/ \E t \in Threads : Begin(t) \/ Step(t)
  \/ \E b \in Batches : GpuFinish(b)

Spec == Init /\ [][Next]_vars

\* A thread inside a call keeps running and the GPU finishes what it was given.
\* With finitely many calls this needs no fairness of the mutex.
Fairness ==
  /\ \A t \in Threads : WF_vars(Step(t))
  /\ \A b \in Batches : WF_vars(GpuFinish(b))

FairSpec == Spec /\ Fairness

-----------------------------------------------------------------------------
(* Properties *)

\* A pointer is dereferenced only while it is set: nobody encodes into, submits,
\* waits for or reads the times of a command buffer that discard() has reset,
\* although wait() lets go of state_mutex_ while it blocks (dispatch.cpp:296-308).
HandlesValid == \A t \in Threads :
  /\ pc[t] \in {"encode", "submit", "drop"} => encoder[bat[t]] /\ cmdbuf[bat[t]]
  /\ pc[t] \in {"await", "relock", "finish"} => cmdbuf[bat[t]]

\* Metal's rule, kept by commit(), discard() and the destructor together
\* (dispatch.cpp:231-234, 290-291, 323): the encoder records and ends only while
\* open, and is ended before its command buffer is submitted or released.
EncoderDiscipline == \A b \in Batches :
  /\ encState[b] # "misused"
  /\ encState[b] = "open" => metal[b] = "encoding" /\ cmdbuf[b] /\ encoder[b]

\* The command buffer holds exactly the launches and barriers whose add() and
\* barrier() returned, in that order, whoever commits it meanwhile (dispatch.cpp:236-283).
RunsWhatWasAccepted == \A b \in Batches : encoded[b] = accepted[b]

\* discard() frees the slot of the queue, and so does every other end of a batch
\* (dispatch.cpp:157, 316-326): an uncommitted command buffer belongs to an object
\* that can still commit it, or to a discard() about to release it.
NoLeakedSlot == \A b \in Batches : metal[b] = "encoding" =>
  /\ obj[b] \in {"constructing", "live"}
  /\ discarded[b] => \E t \in Threads : pc[t] = "drop" /\ bat[t] = b

\* A discarded batch never reaches the GPU, a committed one is never dropped,
\* and no batch is both (dispatch.cpp:286-288, 318-319).
OneFate == \A b \in Batches :
  /\ ~(committed[b] /\ discarded[b])
  /\ discarded[b] => metal[b] \in {"encoding", "dropped"}
  /\ committed[b] => metal[b] # "dropped"

\* dispatch() is synchronous: when its batch is gone the GPU has finished with it,
\* or never got it (dispatch.cpp:328-332), so its arguments may be freed.
DispatchSynchronous == \A b \in Batches :
  owner[b] # NoThread /\ obj[b] = "destroyed" => metal[b] # "committed"

\* commit_locked() raises committed_ before it ends the encoder and submits
\* (dispatch.cpp:287-292), and a second caller that finds the flag up does neither: all
\* the same no commit() returns, and no wait() goes on to block, while the command
\* buffer is still being encoded.
CommitSubmits == [][\A t \in Threads :
  /\ op[t] \in {"commit", "wait"}
  /\ pc[t] \in {"body", "submit"} /\ pc'[t] \notin {"body", "submit"}
  => metal'[bat[t]] # "encoding"]_vars

\* Every wait() that gets past the commit blocks until the GPU is done, sets
\* gpu_time_ even when it throws, and throws exactly when the GPU faulted,
\* however many callers wait and however often (dispatch.h:113-115).
WaitVerdict == [][\A t \in Threads :
  pc[t] = "finish" /\ pc'[t] # "finish" =>
    LET b == bat[t] IN
    /\ metal[b] \in Finished /\ gpuTime'[b] = metal[b]
    /\ heard'[b] = {IF metal[b] = "error" THEN "fault" ELSE "ok"}]_vars

\* What was submitted cannot change, and a finished batch stays as it is.
Abstract == INSTANCE BatchSpec WITH state <- metal, work <- accepted, told <- heard

\* CommandBatch implements the promises of BatchSpec.
ImplementsBatchSpec == Abstract!AbstractSpec

\* Every call returns once it has its command buffer: no caller holds
\* state_mutex_ for good and no waiter misses the completion.
CallsReturn == \A t \in Threads :
  pc[t] \notin {"idle", "newBuffer"} ~> pc[t] = "idle"

\* A constructor blocked on a full queue goes on once every batch in the queue is
\* committed or discarded, unless a batch that is neither takes a place.
ClosedBatchesFreeTheQueue == \A t \in Threads :
  pc[t] = "newBuffer" /\ (\A b \in InFlight : Closed(b))
    ~> pc[t] # "newBuffer" \/ (\E b \in InFlight : ~Closed(b))

-----------------------------------------------------------------------------
(* The inductive invariant: what is true of a thread inside a call, what a *)
(* batch can look like, and what ties the two together.                    *)

Building == {"newBuffer", "newEncoder"}

\* Somebody is between the flag and the Metal calls of a critical section on b.
At(b, label) == \E t \in Threads : bat[t] = b /\ pc[t] = label

ThreadOK(t) ==
  LET b == bat[t] IN
  /\ pc[t] = "idle" <=> b = NoBatch
  /\ pc[t] # "idle" =>
       /\ op[t] = "new" <=> pc[t] \in Building
       /\ obj[b] = IF pc[t] \in Building THEN "constructing" ELSE "live"
       /\ owner[b] \in {NoThread, t}
       /\ owner[b] = t => op[t] \in {"new", "add", "wait"}
       /\ owner[b] = t /\ op[t] # "wait" => ~Closed(b)
  /\ pc[t] \in Critical => mutex[b] = t
  /\ pc[t] = "newBuffer" => metal[b] = "none"
  /\ pc[t] = "newEncoder" => metal[b] = "encoding"
  /\ pc[t] = "encode" => op[t] \in {"add", "barrier"} /\ ~Closed(b)
  /\ pc[t] = "submit" => op[t] \in {"commit", "wait"} /\ committed[b] /\ metal[b] = "encoding"
  /\ pc[t] = "drop" => op[t] = "discard" /\ discarded[b] /\ metal[b] = "encoding"
  /\ pc[t] = "await" => op[t] = "wait" /\ metal[b] \in Finished \cup {"committed"}
  /\ pc[t] \in {"relock", "finish"} => op[t] = "wait" /\ metal[b] \in Finished
  /\ pc[t] = "destroy" =>
       /\ owner[b] = t
       /\ op[t] \in {"add", "wait"}
       /\ committed[b] => metal[b] \in Finished

\* The mutex of a batch says who is in a critical section on it, and only the
\* constructing thread knows a batch that is being built.
Exclusive == \A t, u \in Threads :
  t # u /\ bat[t] = bat[u] /\ bat[t] # NoBatch => pc[t] \notin Building

Held(b) == cmdbuf[b] /\ encoder[b] /\ metal[b] = "encoding" /\ encState[b] = "open"

BatchOK(b) ==
  /\ ~(committed[b] /\ discarded[b])
  /\ obj[b] \in {"unused", "constructing"} =>
       ~Closed(b) /\ ~encoder[b] /\ encState[b] = "none"
  /\ obj[b] = "unused" => metal[b] = "none" /\ ~cmdbuf[b] /\ owner[b] = NoThread
  /\ obj[b] = "constructing" =>
       IF cmdbuf[b] THEN metal[b] = "encoding" ELSE metal[b] = "none"
  /\ obj[b] = "live" =>
       \/ ~Closed(b) /\ Held(b)
       \/ committed[b] /\ Held(b) /\ At(b, "submit")
       \/ discarded[b] /\ Held(b) /\ At(b, "drop")
       \/ /\ committed[b] /\ cmdbuf[b] /\ encoder[b]
          /\ metal[b] \in Finished \cup {"committed"} /\ encState[b] = "ended"
       \/ /\ discarded[b] /\ ~cmdbuf[b] /\ ~encoder[b]
          /\ metal[b] = "dropped" /\ encState[b] = "ended"
  /\ obj[b] = "destroyed" =>
       /\ ~cmdbuf[b] /\ ~encoder[b]
       /\ encState[b] \in {"none", "ended"}
       /\ IF committed[b] THEN metal[b] \in Finished \cup {"committed"}
                          ELSE metal[b] \in {"none", "dropped"}
       /\ discarded[b] => metal[b] = "dropped"
       /\ committed[b] /\ owner[b] # NoThread => metal[b] \in Finished
  /\ encoded[b] = accepted[b]
  /\ gpuTime[b] # "unset" => metal[b] = gpuTime[b]
  /\ heard[b] # {} => /\ metal[b] \in Finished
                     /\ heard[b] = {IF metal[b] = "error" THEN "fault" ELSE "ok"}

\* Every reachable state satisfies all three (proved in CommandBatchProofs).
IInv ==
  /\ TypeOK
  /\ Exclusive
  /\ \A t \in Threads : ThreadOK(t)
  /\ \A b \in Batches : BatchOK(b)
=============================================================================
