-------------------------------- MODULE Capture --------------------------------
(***************************************************************************)
(* GPU trace captures (MetalRuntime::start_capture, stop_capture and       *)
(* is_capturing in src/src/runtime.cpp, and the context manager Capture of *)
(* src/src/metal_runtime/__init__.py).  Metal's shared CaptureManager has  *)
(* one capture per process, which other code of the process may start and  *)
(* stop too.  capture_mutex_ serialises this runtime's calls, not that     *)
(* code: it may act between the steps of a call.                           *)
(*                                                                         *)
(* This module, PyBuffer and KernelConstants have no name in common, for   *)
(* PythonProofs extends all three.                                         *)
(***************************************************************************)
EXTENDS Naturals, FiniteSets

CONSTANTS
  Threads,
  Foreign,          \* the rest of the process
  MaxCaptureCalls,  \* bound: calls of each thread
  MaxForeign,       \* bound: captures that the rest of the process starts
  Nobody

ASSUME CaptureAssumption ==
  /\ Nobody \notin Threads /\ Foreign \notin Threads /\ Foreign # Nobody
  /\ MaxCaptureCalls \in Nat /\ MaxForeign \in Nat

VARIABLES
  active,           \* who started the capture in progress
  capture_started_,
  mutex,            \* owner of capture_mutex_
  pc, op,
  with,             \* threads inside `with Capture(...)'
  captureCalls,     \* counters for the bounds
  foreign,
  stopped,          \* history: whose capture the last stopCapture of a thread ended
  meddled           \* history: the rest of the process has stopped a capture of ours

threadVars  == <<pc, op, with, captureCalls>>
history     == <<stopped, meddled>>
captureVars == <<active, capture_started_, mutex, threadVars, foreign, history>>

Ours(who) == who \in Threads

CaptureInit ==
  /\ active = Nobody /\ capture_started_ = FALSE /\ mutex = Nobody
  /\ pc    = [t \in Threads |-> "idle"]
  /\ op    = [t \in Threads |-> "stop"]
  /\ with  = {}
  /\ captureCalls = [t \in Threads |-> 0]
  /\ foreign = 0 /\ stopped = Nobody /\ meddled = FALSE

Goto(t, label) == pc' = [pc EXCEPT ![t] = label]

\* start_capture(path), on its own or to enter a `with', and stop_capture().
Call(t) ==
  /\ pc[t] = "idle" /\ captureCalls[t] < MaxCaptureCalls /\ t \notin with
  /\ Goto(t, "lock")
  /\ captureCalls' = [captureCalls EXCEPT ![t] = @ + 1]
  /\ \E o \in {"start", "enter", "stop"} : op' = [op EXCEPT ![t] = o]
  /\ UNCHANGED <<active, capture_started_, mutex, with, foreign, history>>

\* The body of a `with' ends, normally or not: stop_capture().
Exit(t) ==
  /\ pc[t] = "idle" /\ t \in with
  /\ Goto(t, "lock")
  /\ op'   = [op EXCEPT ![t] = "stop"]
  /\ with' = with \ {t}
  /\ UNCHANGED <<active, capture_started_, mutex, captureCalls, foreign, history>>

\* Mutant: the mutex is not taken.
Acquire_NoLock(t) ==
  /\ pc[t] = "lock"
  /\ Goto(t, "check")
  /\ UNCHANGED <<active, capture_started_, mutex, op, with, captureCalls, foreign, history>>

\* std::lock_guard lock(capture_mutex_)
Acquire(t) ==
  /\ pc[t] = "lock" /\ mutex = Nobody
  /\ mutex' = t
  /\ Goto(t, "check")
  /\ UNCHANGED <<active, capture_started_, op, with, captureCalls, foreign, history>>

\* The call returns or throws.  A `with' is entered when its start returns.
Leave(t, ok) ==
  /\ mutex' = Nobody
  /\ Goto(t, "idle")
  /\ with'  = IF ok /\ op[t] = "enter" THEN with \cup {t} ELSE with
  /\ UNCHANGED <<op, captureCalls, foreign>>

\* start_capture: isCapturing().
CheckFree(t) ==
  /\ pc[t] = "check" /\ op[t] # "stop"
  /\ \/ active # Nobody /\ Leave(t, FALSE)
     \/ active = Nobody /\ Goto(t, "start")
        /\ UNCHANGED <<mutex, op, with, captureCalls, foreign>>
  /\ UNCHANGED <<active, capture_started_, history>>

\* startCapture() succeeds only while there is no capture; it may fail anyway.
Start(t) ==
  /\ pc[t] = "start"
  /\ \/ active = Nobody /\ active' = t /\ Goto(t, "mark")
        /\ UNCHANGED <<mutex, op, with, captureCalls, foreign>>
     \/ Leave(t, FALSE) /\ UNCHANGED active
  /\ UNCHANGED <<capture_started_, history>>

\* Mutant: the flag is not set.
Mark_Forgets(t) ==
  /\ pc[t] = "mark"
  /\ Leave(t, TRUE)
  /\ UNCHANGED <<active, capture_started_, history>>

Mark(t) ==
  /\ pc[t] = "mark"
  /\ capture_started_' = TRUE
  /\ Leave(t, TRUE)
  /\ UNCHANGED <<active, history>>

\* stop_capture: throws unless the flag is set and there is a capture; a flag
\* without a capture is reset.
CheckStarted(t) ==
  /\ pc[t] = "check" /\ op[t] = "stop"
  /\ IF capture_started_ /\ active # Nobody
     THEN /\ Goto(t, "stop")
          /\ UNCHANGED <<capture_started_, mutex, op, with, captureCalls, foreign>>
     ELSE capture_started_' = FALSE /\ Leave(t, FALSE)
  /\ UNCHANGED <<active, history>>

\* stopCapture() ends whatever capture there is.
Stop(t) ==
  /\ pc[t] = "stop"
  /\ stopped' = active
  /\ active'  = Nobody
  /\ Goto(t, "clear")
  /\ UNCHANGED <<capture_started_, mutex, op, with, captureCalls, foreign, meddled>>

\* Mutant: the flag survives the capture.
Clear_KeepsFlag(t) ==
  /\ pc[t] = "clear"
  /\ Leave(t, TRUE)
  /\ UNCHANGED <<active, capture_started_, history>>

Clear(t) ==
  /\ pc[t] = "clear"
  /\ capture_started_' = FALSE
  /\ Leave(t, TRUE)
  /\ UNCHANGED <<active, history>>

\* The rest of the process starts a capture, stops its own, or ours.
ForeignStart ==
  /\ active = Nobody /\ foreign < MaxForeign
  /\ active'  = Foreign
  /\ foreign' = foreign + 1
  /\ UNCHANGED <<capture_started_, mutex, threadVars, history>>

ForeignStop ==
  /\ active # Nobody
  /\ active'  = Nobody
  /\ meddled' = (meddled \/ Ours(active))
  /\ UNCHANGED <<capture_started_, mutex, threadVars, foreign, stopped>>

Step(t) ==
  Acquire(t) \/ CheckFree(t) \/ Start(t) \/ Mark(t) \/ CheckStarted(t) \/ Stop(t) \/ Clear(t)

CaptureNext ==
  \/ \E t \in Threads : Call(t) \/ Exit(t) \/ Step(t)
  \/ ForeignStart \/ ForeignStop

CaptureSpec == CaptureInit /\ [][CaptureNext]_captureVars

\* A thread in a call goes on, and leaves its `with' blocks.
CaptureFairSpec ==
  CaptureSpec /\ \A t \in Threads : WF_captureVars(Step(t)) /\ WF_captureVars(Exit(t))

-----------------------------------------------------------------------------
(* Properties *)

\* A capture that this runtime started can always be stopped through it: only the
\* thread that has just started it, or is stopping it, is ahead of the flag
\* (runtime.cpp:94-98, 103-109).
OwnCaptureStoppable == Ours(active) =>
  capture_started_ \/ \E t \in Threads : pc[t] = "mark"

\* stop_capture() ends a capture of other code only where that code had stopped one
\* of ours first, which capture_started_ cannot tell (runtime.cpp:100-109).
StopsOnlyOurs == stopped = Foreign => meddled

\* Every capture that a `with Capture(...)' started is over some time, even if
\* somebody else stops it first (__init__.py:63-69).
CaptureEnds == \A t \in Threads : (t \in with /\ active = t) ~> active # t
=============================================================================
