------------------------------- MODULE PyBatch -------------------------------
(***************************************************************************)
(* The Python class Batch (PyBatch in src/src/bindings.cpp): a             *)
(* CommandBatch plus keepalive_, the Python objects its launches point     *)
(* into, guarded by keepalive_mutex_; the function run(), which has a      *)
(* CommandBatch as a local variable; and `with Batch() as b' blocks.       *)
(*                                                                         *)
(* The CommandBatch inside is the batch of BatchSpec, which CommandBatch   *)
(* implements: its calls are atomic here, except that wait() blocks.  A    *)
(* launch is the set of Python objects it uses.  The extension is built    *)
(* FREE_THREADED: `gil' is the owner of the interpreter lock, or Disabled  *)
(* on an interpreter that has none.                                        *)
(***************************************************************************)
EXTENDS Integers, FiniteSets, Sequences

CONSTANTS
  Threads, Batches,
  Objects,      \* kernels and buffers
  Launches,     \* arguments of add(), each the set of objects it uses
  Reentrant,    \* objects whose finalizer calls a method of a batch it was pinned by
  QueueLimit,   \* command buffers the queue holds
  MaxCalls,     \* bound: calls the program makes, the ends of its with-blocks not counted
  NoThread, NoBatch, Disabled

ASSUME PyAssumption ==
  /\ NoThread \notin Threads /\ Disabled \notin Threads /\ NoThread # Disabled
  /\ NoBatch \notin Batches
  /\ Launches \subseteq SUBSET Objects
  /\ QueueLimit \in Nat \ {0} /\ MaxCalls \in Nat

VARIABLES
  state, work, told,    \* the CommandBatch: see BatchSpec
  pins,                 \* keepalive_
  kmutex,               \* owner of keepalive_mutex_
  gone,                 \* the Python object has been destroyed
  body, left,           \* thread whose with-block the batch was made for; it is over
  sent,                 \* history: batches that a commit() of the program submitted
  gil,                  \* owner of the interpreter lock
  user,                 \* objects the program itself still refers to
  pc, op, bat,
  frame,                \* objects that only the C++ frame of a call refers to
  calls

batchVars  == <<state, work, told>>
threadVars == <<pc, op, bat, frame, calls>>
withVars   == <<body, left, sent>>
vars       == <<batchVars, pins, kmutex, gone, withVars, gil, user, threadVars>>

\* A barrier is an item of work that uses no object.
Batch == INSTANCE BatchSpec WITH Items <- Launches \cup {{}}

Finished == {"completed", "error"}
Makes    == {"new", "run"}
Ops      == Makes \cup {"add", "barrier", "commit", "wait", "discard"}
Points   == {"idle", "run", "creating", "encode", "submit", "pin", "blocked",
             "reacquire", "swap", "decref", "return"}

TypeOK ==
  /\ state  \in [Batches -> {"none", "encoding", "committed", "dropped"} \cup Finished]
  /\ \A b \in Batches : \A i \in 1..Len(work[b]) : work[b][i] \in Launches \cup {{}}
  /\ told   \in [Batches -> SUBSET {"ok", "fault"}]
  /\ pins   \in [Batches -> SUBSET Objects]
  /\ kmutex \in [Batches -> Threads \cup {NoThread}]
  /\ gone   \in [Batches -> BOOLEAN]
  /\ body   \in [Batches -> Threads \cup {NoThread}]
  /\ left \subseteq Batches /\ sent \subseteq Batches
  /\ gil    \in Threads \cup {NoThread, Disabled}
  /\ user   \subseteq Objects
  /\ pc     \in [Threads -> Points]
  /\ op     \in [Threads -> Ops \cup {"none"}]
  /\ bat    \in [Threads -> Batches \cup {NoBatch}]
  /\ frame  \in [Threads -> SUBSET Objects]
  /\ calls  \in 0..MaxCalls
  /\ gil \in Threads => pc[gil] \in {"run", "pin", "swap", "decref"}

Init ==
  /\ Batch!SpecInit
  /\ pins   = [b \in Batches |-> {}]
  /\ kmutex = [b \in Batches |-> NoThread]
  /\ gone   = [b \in Batches |-> FALSE]
  /\ body   = [b \in Batches |-> NoThread]
  /\ left = {} /\ sent = {}
  /\ gil    \in {NoThread, Disabled}
  /\ user   = Objects
  /\ pc     = [t \in Threads |-> "idle"]
  /\ op     = [t \in Threads |-> "none"]
  /\ bat    = [t \in Threads |-> NoBatch]
  /\ frame  = [t \in Threads |-> {}]
  /\ calls  = 0

-----------------------------------------------------------------------------

Goto(t, label) == pc' = [pc EXCEPT ![t] = label]

\* nb::gil_scoped_release, and the return from a call into the interpreter.
ReleaseGil(t) == gil' = IF gil = t THEN NoThread ELSE gil

Leave(t) ==
  /\ Goto(t, "idle")
  /\ bat'   = [bat EXCEPT ![t] = NoBatch]
  /\ frame' = [frame EXCEPT ![t] = {}]
  /\ op'    = [op EXCEPT ![t] = "none"]
  /\ ReleaseGil(t)
  /\ UNCHANGED calls

\* The with-block of t that batch b was made for is not over.
Inside(t, b) == body[b] = t /\ b \notin left

\* Taking the interpreter lock.
TakesGil(t) ==
  /\ gil \in {NoThread, Disabled}
  /\ gil' = IF gil = Disabled THEN Disabled ELSE t

\* Thread t, which runs Python code and so has the interpreter lock, begins o on batch b.
Enter(t, o, b, launch) ==
  /\ pc[t] = "idle"
  /\ TakesGil(t)
  /\ Goto(t, "run")
  /\ op'    = [op EXCEPT ![t] = o]
  /\ bat'   = [bat EXCEPT ![t] = b]
  /\ frame' = [frame EXCEPT ![t] = launch]
  /\ UNCHANGED <<batchVars, pins, kmutex, gone, user>>

\* A batch that is yet to be made; which one makes no difference.
Fresh == CHOOSE b \in Batches : state[b] = "none" /\ \A u \in Threads : bat[u] # b
Used(b) == state[b] # "none" \/ \E u \in Threads : bat[u] = b

\* The program calls o on batch b; a launch uses objects that the program has, and
\* run() has a batch that no other thread knows of.
Call(t, o, b, launch) ==
  /\ calls < MaxCalls
  /\ ~gone[b]
  /\ IF o \in Makes THEN ~Used(b) /\ b = Fresh
                     ELSE state[b] # "none" /\ \A u \in Threads : bat[u] = b => op[u] # "run"
  /\ IF o \in {"add", "run"} THEN launch \in Launches /\ launch \subseteq user
                             ELSE launch = {}
  /\ Enter(t, o, b, launch)
  /\ calls' = calls + 1
  /\ UNCHANGED withVars

\* Mutant: __exit__ leaves a batch to its destructor when the body raised.
Exit_KeepsFailed(t, b) ==
  /\ Inside(t, b) /\ state[b] # "none"
  /\ \/ Enter(t, "wait", b, {})
     \/ pc[t] = "idle"
        /\ UNCHANGED <<pc, op, bat, frame, batchVars, pins, kmutex, gone, gil, user>>
  /\ left' = left \cup {b}
  /\ UNCHANGED <<calls, body, sent>>

\* __exit__: the body is over, and raised or not.
Exit(t, b) ==
  /\ Inside(t, b) /\ state[b] # "none"
  /\ \E raised \in BOOLEAN : Enter(t, IF raised THEN "discard" ELSE "wait", b, {})
  /\ left' = left \cup {b}
  /\ UNCHANGED <<calls, body, sent>>

\* wait() goes on, with the lock again.
Reacquire(t) ==
  /\ pc[t] = "reacquire"
  /\ TakesGil(t)
  /\ Goto(t, "swap")
  /\ UNCHANGED <<batchVars, pins, kmutex, gone, withVars, user, op, bat, frame, calls>>

\* The end of a call that was running without the lock and has nothing left to do.
Return(t) ==
  /\ pc[t] = "return" /\ gil \in {NoThread, Disabled}
  /\ op[t] # "run"
  /\ Leave(t)
  /\ UNCHANGED <<batchVars, pins, kmutex, gone, withVars, user>>

Runs(t, o) == pc[t] = "run" /\ op[t] = o

\* Mutant: a batch waits for its command buffer with the interpreter lock held.
New_KeepsGil(t) ==
  /\ Runs(t, "new") \/ Runs(t, "run")
  /\ Goto(t, "creating")
  /\ UNCHANGED <<batchVars, pins, kmutex, gone, withVars, gil, user, op, bat, frame, calls>>

\* nb::init with call_guard<gil_scoped_release>; run() releases the lock after prepare().
New(t) ==
  /\ Runs(t, "new") \/ Runs(t, "run")
  /\ Goto(t, "creating")
  /\ ReleaseGil(t)
  /\ UNCHANGED <<batchVars, pins, kmutex, gone, withVars, user, op, bat, frame, calls>>

\* The CommandBatch: queue->commandBuffer() blocks while the queue is full.  The new
\* Python object may be the target of a with-block.
Create(t) ==
  /\ pc[t] = "creating"
  /\ Batch!Create(bat[t])
  /\ Goto(t, IF op[t] = "run" THEN "encode" ELSE "return")
  /\ body' \in {body} \cup IF op[t] = "new" THEN {[body EXCEPT ![bat[t]] = t]} ELSE {}
  /\ UNCHANGED <<pins, kmutex, gone, left, sent, gil, user, op, bat, frame, calls>>

\* Metal has no command buffer, or no encoder, for it: the constructor throws, and what
\* it had goes with it.
CreateFails(t) ==
  /\ pc[t] = "creating"
  /\ Cardinality(Batch!Holding) < QueueLimit
  /\ Goto(t, "return")
  /\ UNCHANGED <<batchVars, pins, kmutex, gone, withVars, gil, user, op, bat, frame, calls>>

-----------------------------------------------------------------------------
(* run() without the lock: dispatch() on a batch that is a local variable.  The *)
(* frame holds the launch's objects to the end.                                 *)

\* batch.add: validate() throws, and the batch is destroyed, or the launch is encoded.
RunAdd(t) ==
  /\ pc[t] = "encode"
  /\ \/ Batch!Drop(bat[t]) /\ Goto(t, "return")
     \/ Batch!Add(bat[t], frame[t]) /\ Goto(t, "submit")
  /\ UNCHANGED <<pins, kmutex, gone, withVars, gil, user, op, bat, frame, calls>>

\* batch.wait submits and then blocks: see Unblock.
RunWait(t) ==
  /\ pc[t] = "submit"
  /\ Batch!Submit(bat[t])
  /\ Goto(t, "blocked")
  /\ UNCHANGED <<pins, kmutex, gone, withVars, gil, user, op, bat, frame, calls>>

\* The batch, if there was one, is gone; the lock is taken again before the launch is
\* destroyed.
RunReturn(t) ==
  /\ pc[t] = "return" /\ op[t] = "run"
  /\ TakesGil(t)
  /\ Goto(t, "decref")
  /\ gone' = IF state[bat[t]] = "none" THEN gone ELSE [gone EXCEPT ![bat[t]] = TRUE]
  /\ UNCHANGED <<batchVars, pins, kmutex, withVars, user, op, bat, frame, calls>>

-----------------------------------------------------------------------------
(* add(): the frame holds the launch's objects, from prepare() on. *)

\* prepare() throws; or batch_.add, on a closed batch or in validate(): nothing is pinned.
AddThrows(t) ==
  /\ \/ Runs(t, "add") /\ kmutex[bat[t]] = NoThread
     \/ Runs(t, "run")
  /\ Goto(t, "decref")
  /\ UNCHANGED <<batchVars, pins, kmutex, gone, withVars, gil, user, op, bat, frame, calls>>

\* Mutant: keepalive_mutex_ is taken only after batch_.add.
Add_LocksLate(t) ==
  /\ Runs(t, "add")
  /\ Batch!Add(bat[t], frame[t])
  /\ Goto(t, "pin")
  /\ UNCHANGED <<pins, kmutex, gone, withVars, gil, user, op, bat, frame, calls>>

Add(t) ==
  /\ Runs(t, "add") /\ kmutex[bat[t]] = NoThread
  /\ Batch!Add(bat[t], frame[t])
  /\ kmutex' = [kmutex EXCEPT ![bat[t]] = t]
  /\ Goto(t, "pin")
  /\ UNCHANGED <<pins, gone, withVars, gil, user, op, bat, frame, calls>>

\* Mutant: an object that is already pinned is taken for the whole launch.
Pin_FirstOnly(t) ==
  LET b == bat[t] IN
  /\ pc[t] = "pin"
  /\ pins'   = [pins EXCEPT ![b] = IF @ \cap frame[t] = {} THEN @ \cup frame[t] ELSE @]
  /\ frame'  = [frame EXCEPT ![t] = @ \cap pins[b]]
  /\ kmutex' = [kmutex EXCEPT ![b] = NoThread]
  /\ Goto(t, "decref")
  /\ UNCHANGED <<batchVars, gone, withVars, gil, user, op, bat, calls>>

\* try_emplace moves into keepalive_ what is not pinned yet; the rest stays in
\* the frame, which is destroyed after the lock.
Pin(t) ==
  LET b == bat[t] IN
  /\ pc[t] = "pin"
  /\ pins'   = [pins EXCEPT ![b] = @ \cup frame[t]]
  /\ frame'  = [frame EXCEPT ![t] = @ \cap pins[b]]
  /\ kmutex' = [kmutex EXCEPT ![b] = NoThread]
  /\ Goto(t, "decref")
  /\ UNCHANGED <<batchVars, gone, withVars, gil, user, op, bat, calls>>

\* barrier() keeps the interpreter lock; it throws on a closed batch.
BarrierCall(t) ==
  /\ Runs(t, "barrier")
  /\ Batch!Add(bat[t], {}) \/ (state[bat[t]] # "encoding" /\ UNCHANGED batchVars)
  /\ Leave(t)
  /\ UNCHANGED <<pins, kmutex, gone, withVars, user>>

-----------------------------------------------------------------------------
(* commit(), wait(), discard() *)

SubmitIfOpen(b) == IF state[b] = "encoding" THEN Batch!Submit(b) ELSE UNCHANGED batchVars

\* With the lock released; throws on a discarded batch.
Commit(t) ==
  /\ Runs(t, "commit")
  /\ SubmitIfOpen(bat[t])
  /\ sent' = IF state[bat[t]] = "encoding" THEN sent \cup {bat[t]} ELSE sent
  /\ ReleaseGil(t)
  /\ Goto(t, "return")
  /\ UNCHANGED <<pins, kmutex, gone, body, left, user, op, bat, frame, calls>>

\* batch_.wait with the lock released: throws on a discarded batch, else blocks.
Wait(t) ==
  /\ Runs(t, "wait")
  /\ SubmitIfOpen(bat[t])
  /\ ReleaseGil(t)
  /\ Goto(t, IF state[bat[t]] = "dropped" THEN "return" ELSE "blocked")
  /\ UNCHANGED <<pins, kmutex, gone, withVars, user, op, bat, frame, calls>>

\* batch_.wait is over; on a fault it throws past the rest of wait().  run() has no more
\* to do with it.
Unblock(t) ==
  /\ pc[t] = "blocked"
  /\ Batch!Report(bat[t])
  /\ Goto(t, IF state[bat[t]] = "error" \/ op[t] = "run" THEN "return" ELSE "reacquire")
  /\ UNCHANGED <<pins, kmutex, gone, withVars, gil, user, op, bat, frame, calls>>

\* Mutant: the pins are dropped while keepalive_mutex_ is held.
Swap_KeepsLock(t) ==
  LET b == bat[t] IN
  /\ pc[t] = "swap" /\ kmutex[b] = NoThread
  /\ frame'  = [frame EXCEPT ![t] = pins[b]]
  /\ pins'   = [pins EXCEPT ![b] = {}]
  /\ kmutex' = [kmutex EXCEPT ![b] = IF pins[b] \cap Reentrant = {} THEN NoThread ELSE t]
  /\ Goto(t, "decref")
  /\ UNCHANGED <<batchVars, gone, withVars, gil, user, op, bat, calls>>

\* released.swap(keepalive_) under keepalive_mutex_
Swap(t) ==
  LET b == bat[t] IN
  /\ pc[t] = "swap" /\ kmutex[b] = NoThread
  /\ frame' = [frame EXCEPT ![t] = pins[b]]
  /\ pins'  = [pins EXCEPT ![b] = {}]
  /\ Goto(t, "decref")
  /\ UNCHANGED <<batchVars, kmutex, gone, withVars, gil, user, op, bat, calls>>

\* Objects that die when thread t drops its references.
Dying(t) == frame[t] \ (user \cup (UNION {pins[b] : b \in Batches})
                              \cup (UNION {frame[u] : u \in Threads \ {t}}))

\* The references of the frame go: finalizers run, and may call this batch again,
\* which takes keepalive_mutex_.
Decref(t) ==
  /\ pc[t] = "decref"
  /\ Dying(t) \cap Reentrant # {} => kmutex[bat[t]] = NoThread
  /\ Leave(t)
  /\ UNCHANGED <<batchVars, pins, kmutex, gone, withVars, user>>

\* discard() keeps the interpreter lock, and the pins.
Discard(t) ==
  /\ Runs(t, "discard")
  /\ IF state[bat[t]] = "encoding" THEN Batch!Drop(bat[t]) ELSE UNCHANGED batchVars
  /\ Leave(t)
  /\ UNCHANGED <<pins, kmutex, gone, withVars, user>>

-----------------------------------------------------------------------------
(* The program and the GPU. *)

\* The program lets go of an object.
Forget(o) ==
  /\ o \in user
  /\ user' = user \ {o}
  /\ UNCHANGED <<batchVars, pins, kmutex, gone, withVars, gil, threadVars>>

\* The last reference to the Batch goes: keepalive_ is destroyed, then batch_.
Delete(b) ==
  /\ ~gone[b] /\ state[b] # "none"
  /\ \A t \in Threads : bat[t] # b /\ ~Inside(t, b)
  /\ gone' = [gone EXCEPT ![b] = TRUE]
  /\ pins' = [pins EXCEPT ![b] = {}]
  /\ IF state[b] = "encoding" THEN Batch!Drop(b) ELSE UNCHANGED batchVars
  /\ UNCHANGED <<kmutex, withVars, gil, user, threadVars>>

GpuFinish(b) ==
  /\ Batch!Complete(b)
  /\ UNCHANGED <<pins, kmutex, gone, withVars, gil, user, threadVars>>

Step(t) ==
  \/ Reacquire(t) \/ Return(t) \/ New(t) \/ Create(t) \/ CreateFails(t)
  \/ RunAdd(t) \/ RunWait(t) \/ RunReturn(t)
  \/ AddThrows(t) \/ Add(t) \/ Pin(t) \/ BarrierCall(t)
  \/ Commit(t) \/ Wait(t) \/ Unblock(t) \/ Swap(t) \/ Decref(t) \/ Discard(t)

Next ==
  \/ \E t \in Threads, o \in Ops, b \in Batches, launch \in Launches \cup {{}} :
       Call(t, o, b, launch)
  \/ \E t \in Threads : Step(t) \/ \E b \in Batches : Exit(t, b)
  \/ \E o \in Objects : Forget(o)
  \/ \E b \in Batches : Delete(b) \/ GpuFinish(b)

Spec == Init /\ [][Next]_vars

\* Threads inside a call go on as soon as they can, the body of a with-block ends, and
\* the GPU finishes its work.
FairSpec ==
  /\ Spec
  /\ \A t \in Threads : WF_vars(Step(t)) /\ WF_vars(\E b \in Batches : Exit(t, b))
  /\ \A b \in Batches : WF_vars(GpuFinish(b))

-----------------------------------------------------------------------------
(* Properties *)

Alive == user \cup (UNION {pins[b] : b \in Batches}) \cup (UNION {frame[t] : t \in Threads})

\* No object of an accepted launch dies before the GPU is done with it, whatever the
\* program forgets meanwhile (bindings.cpp:364-369), the Batch itself included as long as
\* the program did not submit it by a commit() of its own: who commits a Batch and drops
\* it without wait() drops keepalive_ too (bindings.cpp:397-401).
UsedObjectsAlive == \A b \in Batches :
  state[b] \in {"encoding", "committed"} /\ ~(gone[b] /\ b \in sent) =>
    \A i \in 1..Len(work[b]) : work[b][i] \subseteq Alive

\* Once a wait() has returned and nobody is using the batch, nothing is pinned, nor
\* will be: a racing add() either pinned before the swap or was refused
\* (bindings.cpp:365-389).
NothingPinnedAfterWait == \A b \in Batches :
  "ok" \in told[b] /\ (\A t \in Threads : bat[t] # b) => pins[b] = {}

\* The comment on keepalive_, "Pinned once each until wait()" (bindings.cpp:367),
\* for every wait() that is over, one that threw included.
PinnedUntilWait == \A b \in Batches :
  told[b] # {} /\ (\A t \in Threads : bat[t] # b) => pins[b] = {}

\* No call blocks for good, except a constructor on a full queue, and that one
\* holds nobody else up (bindings.cpp:374-390, 716-718).
CallsReturn == \A t \in Threads : pc[t] \notin {"idle", "creating"} ~> pc[t] \in {"idle", "creating"}

\* While batches are used in with-blocks only, and no thread makes one inside the block
\* of another, every constructor gets its command buffer: __exit__ closes the batch
\* even when the body raised (bindings.cpp:391-392, 758-765).
WithBlocksFreeTheQueue == \A t \in Threads :
  pc[t] = "creating" ~>
    \/ pc[t] # "creating"
    \/ \E b \in Batches : state[b] = "encoding" /\
         \/ body[b] = NoThread /\ \A u \in Threads : bat[u] # b
         \/ body[b] # NoThread /\ Inside(body[b], b) /\ pc[body[b]] = "creating"
=============================================================================
