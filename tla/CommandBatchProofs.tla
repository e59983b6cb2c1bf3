------------------------- MODULE CommandBatchProofs -------------------------
(***************************************************************************)
(* What CommandBatch guarantees for every number of threads, batches and   *)
(* calls and every size of the queue.                                      *)
(*                                                                         *)
(* IInv is the inductive invariant.  It says what a thread may rely on at  *)
(* each point of a call (ThreadOK), the shapes a batch goes through        *)
(* (BatchOK) and that a batch being built is known to one thread only      *)
(* (Exclusive).  There is one lemma per action; in it, TypeOK', Exclusive',*)
(* ThreadOK' of any thread u and BatchOK' of any batch c are proved apart. *)
(***************************************************************************)
EXTENDS CommandBatch, TLAPS

\* A thread inside a call has a batch.
LEMMA InsideACall ==
  ASSUME IInv, NEW t \in Threads, pc[t] # "idle"
  PROVE  bat[t] \in Batches
BY DEF IInv, TypeOK, ThreadOK

\* Nothing that belongs to batch c changes.
SameBatch(c) ==
  /\ obj'[c] = obj[c] /\ committed'[c] = committed[c] /\ discarded'[c] = discarded[c]
  /\ cmdbuf'[c] = cmdbuf[c] /\ encoder'[c] = encoder[c] /\ gpuTime'[c] = gpuTime[c]
  /\ owner'[c] = owner[c] /\ metal'[c] = metal[c] /\ encState'[c] = encState[c]
  /\ encoded'[c] = encoded[c] /\ accepted'[c] = accepted[c] /\ heard'[c] = heard[c]

\* Only thread t moves.
OnlyMoves(t) == \A u \in Threads : u # t => pc'[u] = pc[u] /\ bat'[u] = bat[u]

\* A step of t inside a call on one batch keeps BatchOK of every other.
LEMMA OtherBatches ==
  ASSUME NEW t \in Threads, NEW c \in Batches, BatchOK(c), bat[t] # c,
         SameBatch(c), OnlyMoves(t)
  PROVE  BatchOK(c)'
<1>1. ASSUME NEW label, At(c, label) PROVE At(c, label)'
  BY <1>1 DEF At, OnlyMoves
<1>2. QED
  BY <1>1 DEF BatchOK, SameBatch, Closed, Held

\* A step that leaves t outside a constructor, on its batch or on none, keeps Exclusive.
LEMMA StaysExclusive ==
  ASSUME IInv, NEW t \in Threads, pc'[t] \notin Building, bat'[t] \in {bat[t], NoBatch},
         OnlyMoves(t)
  PROVE  Exclusive'
BY DEF IInv, Exclusive, OnlyMoves

\* commit() is over for its caller, wait() goes on to block.
CommitOver(t) ==
  /\ mutex' = [mutex EXCEPT ![bat[t]] = NoThread]
  /\ op' = op /\ arg' = arg /\ calls' = calls
  /\ \/ /\ op[t] = "commit"
        /\ pc' = [pc EXCEPT ![t] = "idle"]
        /\ bat' = [bat EXCEPT ![t] = NoBatch]
     \/ /\ op[t] = "wait"
        /\ pc' = [pc EXCEPT ![t] = "await"]
        /\ bat' = bat

LEMMA AfterCommitCases ==
  ASSUME IInv, NEW t \in Threads, pc[t] \in {"body", "submit"}, AfterCommit(t)
  PROVE  CommitOver(t)
<1>1. CASE op[t] = "commit"
  <2>1. bat[t] \in Batches /\ owner[bat[t]] # t
    BY <1>1, InsideACall DEF IInv, ThreadOK
  <2>2. QED
    BY <1>1, <2>1 DEF CommitOver, AfterCommit, Unlock, Return, Goto, IInv, TypeOK
<1>2. CASE op[t] # "commit"
  BY <1>2 DEF CommitOver, AfterCommit, Unlock, Goto
<1>3. QED
  BY <1>1, <1>2

LEMMA AfterCommitTypes ==
  ASSUME IInv, NEW t \in Threads, pc[t] \in {"body", "submit"}, AfterCommit(t)
  PROVE  /\ pc' \in [Threads -> Points] /\ op' \in [Threads -> Ops]
         /\ bat' \in [Threads -> Batches \cup {NoBatch}] /\ arg' \in [Threads -> Items]
         /\ calls' \in [Threads -> 0..MaxCalls]
         /\ mutex' \in [Batches -> Threads \cup {NoThread}]
<1>1. TypeOK /\ CommitOver(t)
  BY AfterCommitCases DEF IInv
<1>2. op' \in [Threads -> Ops] /\ arg' \in [Threads -> Items] /\ calls' \in [Threads -> 0..MaxCalls]
  BY <1>1 DEF CommitOver, TypeOK
<1>3. mutex' \in [Batches -> Threads \cup {NoThread}]
  BY <1>1 DEF CommitOver, TypeOK
<1>4. pc' \in [Threads -> Points]
  <2>1. pc \in [Threads -> Points] /\ "idle" \in Points /\ "await" \in Points
    BY <1>1 DEF TypeOK, Points
  <2>2. QED
    BY <1>1, <2>1 DEF CommitOver
<1>5. bat' \in [Threads -> Batches \cup {NoBatch}]
  BY <1>1 DEF CommitOver, TypeOK
<1>6. QED
  BY <1>2, <1>3, <1>4, <1>5

LEMMA InitInv == ASSUME Init PROVE IInv
<1>1. TypeOK
  BY LimitAssumption DEF Init, TypeOK, Status, Finished, Ops, Critical, Points, Items
<1>2. Exclusive /\ \A t \in Threads : ThreadOK(t)
  BY DEF Init, Exclusive, ThreadOK, Building, Critical
<1>3. \A b \in Batches : BatchOK(b)
  BY DEF Init, BatchOK, Closed
<1>4. QED
  BY <1>1, <1>2, <1>3 DEF IInv

LEMMA NewInv ==
  ASSUME IInv, NEW t \in Threads, NEW b \in Batches, New(t, b)
  PROVE  IInv'
<1>1. TypeOK'
  BY ThreadsAssumption, BatchesAssumption, LaunchesAssumption, LimitAssumption
  DEF IInv, TypeOK, ThreadOK, New, Enter, Goto, metalVars, history, Status, Finished, Ops,
      Critical, Points, Items, Building
<1>2. Exclusive'
  BY ThreadsAssumption, BatchesAssumption
  DEF IInv, TypeOK, ThreadOK, BatchOK, Exclusive, Building, New, Enter, Goto, metalVars, history
<1>3. ASSUME NEW u \in Threads PROVE ThreadOK(u)'
  BY ThreadsAssumption, BatchesAssumption
  DEF IInv, TypeOK, Exclusive, ThreadOK, BatchOK, Held, Closed, New, Enter, Goto, metalVars,
      history, Finished, Critical, Building, Ops
<1>4. ASSUME NEW c \in Batches PROVE BatchOK(c)'
  BY ThreadsAssumption, BatchesAssumption
  DEF IInv, TypeOK, Exclusive, ThreadOK, BatchOK, Closed, Held, At, New, Enter, Goto, metalVars,
      history, Finished, Critical, Building
<1>5. QED
  BY <1>1, <1>2, <1>3, <1>4 DEF IInv

LEMMA DispatchInv ==
  ASSUME IInv, NEW t \in Threads, NEW b \in Batches, NEW l \in Launches, Dispatch(t, b, l)
  PROVE  IInv'
<1>1. TypeOK'
  BY ThreadsAssumption, BatchesAssumption, LaunchesAssumption, LimitAssumption
  DEF IInv, TypeOK, ThreadOK, Dispatch, Enter, Goto, metalVars, history, Status, Finished, Ops,
      Critical, Points, Items, Building
<1>2. Exclusive'
  BY ThreadsAssumption, BatchesAssumption
  DEF IInv, TypeOK, ThreadOK, BatchOK, Exclusive, Building, Dispatch, Enter, Goto, metalVars,
      history
<1>3. ASSUME NEW u \in Threads PROVE ThreadOK(u)'
  BY ThreadsAssumption, BatchesAssumption
  DEF IInv, TypeOK, Exclusive, ThreadOK, BatchOK, Held, Closed, Dispatch, Enter, Goto,
      metalVars, history, Finished, Critical, Building, Ops
<1>4. ASSUME NEW c \in Batches PROVE BatchOK(c)'
  BY ThreadsAssumption, BatchesAssumption
  DEF IInv, TypeOK, Exclusive, ThreadOK, BatchOK, Closed, Held, At, Dispatch, Enter, Goto,
      metalVars, history, Finished, Critical, Building
<1>5. QED
  BY <1>1, <1>2, <1>3, <1>4 DEF IInv

LEMMA CallInv ==
  ASSUME IInv, NEW t \in Threads, NEW b \in Batches, Call(t, b)
  PROVE  IInv'
<1>1. PICK o \in Ops \ {"new"}, l \in Items : Enter(t, o, b, l, "lock")
  BY DEF Call, Items, Ops
<1>2. TypeOK'
  BY <1>1, LimitAssumption
  DEF IInv, TypeOK, Call, Enter, Goto, objVars, metalVars, history, Points
<1>3. Exclusive'
  BY <1>1, BatchesAssumption
  DEF IInv, TypeOK, ThreadOK, Exclusive, Building, Call, Enter, Goto, objVars
<1>4. ASSUME NEW u \in Threads PROVE ThreadOK(u)'
  <2>1. UNCHANGED <<obj, committed, discarded, owner, mutex, metal>>
    BY DEF Call, objVars, metalVars
  <2>2. CASE u = t
    <3>1. pc'[u] = "lock" /\ op'[u] = o /\ bat'[u] = b
      BY <1>1, <2>2 DEF Enter, Goto, IInv, TypeOK
    <3>2. obj[b] = "live" /\ owner[b] = NoThread
      BY DEF Call
    <3>3. QED
      BY <2>1, <3>1, <3>2, ThreadsAssumption, BatchesAssumption
      DEF ThreadOK, Critical, Building
  <2>3. CASE u # t
    <3>1. pc'[u] = pc[u] /\ op'[u] = op[u] /\ bat'[u] = bat[u] /\ ThreadOK(u)
      BY <1>1, <2>3 DEF Enter, Goto, IInv, TypeOK
    <3>2. QED
      BY <2>1, <3>1 DEF ThreadOK, Closed
  <2>4. QED
    BY <2>2, <2>3
<1>5. ASSUME NEW c \in Batches PROVE BatchOK(c)'
  <2>1. bat[t] # c
    BY <1>1, BatchesAssumption DEF Enter, IInv, ThreadOK
  <2>2. SameBatch(c)
    BY DEF Call, SameBatch, objVars, metalVars, history
  <2>3. OnlyMoves(t)
    BY <1>1 DEF Enter, Goto, IInv, TypeOK, OnlyMoves
  <2>4. QED
    BY <2>1, <2>2, <2>3, OtherBatches DEF IInv
<1>6. QED
  BY <1>2, <1>3, <1>4, <1>5 DEF IInv

\* What ~CommandBatch leaves of batch c.
DestroyedFrom(c) ==
  /\ obj'[c] = "destroyed" /\ ~cmdbuf'[c] /\ ~encoder'[c]
  /\ metal'[c] = Released(c)
  /\ encState'[c] = IF ~committed[c] /\ encoder[c]
                    THEN IF encState[c] = "open" THEN "ended" ELSE "misused"
                    ELSE encState[c]
  /\ committed'[c] = committed[c] /\ discarded'[c] = discarded[c]
  /\ owner'[c] = owner[c] /\ gpuTime'[c] = gpuTime[c] /\ heard'[c] = heard[c]
  /\ encoded'[c] = encoded[c] /\ accepted'[c] = accepted[c]

LEMMA DestructorEffect ==
  ASSUME IInv, NEW c \in Batches, Destructor(c)
  PROVE  DestroyedFrom(c)
<1>1. TypeOK
  BY DEF IInv
<1>2. obj'[c] = "destroyed" /\ ~cmdbuf'[c] /\ ~encoder'[c] /\ metal'[c] = Released(c)
  BY <1>1 DEF Destructor, TypeOK
<1>3. encState'[c] = IF ~committed[c] /\ encoder[c]
                    THEN IF encState[c] = "open" THEN "ended" ELSE "misused"
                    ELSE encState[c]
  BY <1>1 DEF Destructor, EndEncoding, TypeOK
<1>4. UNCHANGED <<committed, discarded, owner, gpuTime, heard, encoded, accepted>>
  BY DEF Destructor, history
<1>5. QED
  BY <1>2, <1>3, <1>4 DEF DestroyedFrom

\* A live batch nobody is submitting or dropping may be destroyed: by its last
\* owner, or by dispatch() once the GPU is done with it.
LEMMA DestroyedOK ==
  ASSUME IInv, NEW c \in Batches, DestroyedFrom(c), obj[c] = "live",
         ~At(c, "submit"), ~At(c, "drop"),
         owner[c] # NoThread => (committed[c] => metal[c] \in Finished)
  PROVE  BatchOK(c)'
<1>1. BatchOK(c) /\ gpuTime[c] \in Finished \cup {"unset"}
  BY DEF IInv, TypeOK
<1>2. CASE ~Closed(c)
  <2>1. Held(c)
    BY <1>1, <1>2 DEF BatchOK, Closed
  <2>2. metal'[c] = "dropped" /\ encState'[c] = "ended"
    BY <1>2, <2>1 DEF DestroyedFrom, Closed, Held, Released
  <2>3. gpuTime[c] = "unset" /\ heard[c] = {}
    BY <1>1, <2>1 DEF BatchOK, Held, Finished
  <2>4. QED
    BY <1>1, <1>2, <2>2, <2>3 DEF DestroyedFrom, BatchOK, Closed
<1>3. CASE committed[c]
  <2>1. ~discarded[c] /\ metal[c] \in Finished \cup {"committed"} /\ encState[c] = "ended"
    BY <1>1, <1>3 DEF BatchOK, Closed
  <2>2. metal'[c] = metal[c] /\ encState'[c] = "ended"
    BY <1>3, <2>1 DEF DestroyedFrom, Released, Finished
  <2>3. QED
    BY <1>1, <1>3, <2>1, <2>2 DEF DestroyedFrom, BatchOK, Closed
<1>4. CASE discarded[c] /\ ~committed[c]
  <2>1. ~encoder[c] /\ metal[c] = "dropped" /\ encState[c] = "ended"
    BY <1>1, <1>4 DEF BatchOK, Closed
  <2>2. metal'[c] = "dropped" /\ encState'[c] = "ended"
    BY <2>1 DEF DestroyedFrom, Released
  <2>3. QED
    BY <1>1, <1>4, <2>1, <2>2 DEF DestroyedFrom, BatchOK, Closed
<1>5. QED
  BY <1>2, <1>3, <1>4 DEF Closed

LEMMA DeleteInv ==
  ASSUME IInv, NEW t \in Threads, NEW b \in Batches, Delete(t, b)
  PROVE  IInv'
<1>1. TypeOK'
  BY ThreadsAssumption, BatchesAssumption, LaunchesAssumption, LimitAssumption
  DEF IInv, TypeOK, ThreadOK, Delete, Destructor, EndEncoding, Released, threadVars, history,
      Status, Finished, Ops, Critical, Points, Items, Building
<1>2. Exclusive'
  BY ThreadsAssumption, BatchesAssumption
  DEF IInv, TypeOK, ThreadOK, BatchOK, Exclusive, Building, Delete, Destructor, EndEncoding,
      Released, threadVars, history
<1>3. ASSUME NEW u \in Threads PROVE ThreadOK(u)'
  BY ThreadsAssumption, BatchesAssumption
  DEF IInv, TypeOK, Exclusive, ThreadOK, BatchOK, Held, Closed, Delete, Destructor, EndEncoding,
      Released, threadVars, history, Finished, Critical, Building, Ops
<1>4. ASSUME NEW c \in Batches PROVE BatchOK(c)'
  <2>1. CASE c # b
    <3>1. SameBatch(c) /\ OnlyMoves(t)
      BY <2>1 DEF IInv, TypeOK, SameBatch, OnlyMoves, Delete, Destructor, EndEncoding,
          threadVars, history
    <3>2. bat[t] # c
      BY BatchesAssumption DEF Delete, IInv, ThreadOK
    <3>3. QED
      BY <3>1, <3>2, OtherBatches DEF IInv
  <2>2. CASE c = b
    <3>1. obj[b] = "live" /\ owner[b] = NoThread /\ ~At(b, "submit") /\ ~At(b, "drop")
      BY DEF Delete, At
    <3>2. DestroyedFrom(b)
      BY DestructorEffect DEF Delete
    <3>3. QED
      BY <2>2, <3>1, <3>2, DestroyedOK
  <2>3. QED
    BY <2>1, <2>2
<1>5. QED
  BY <1>1, <1>2, <1>3, <1>4 DEF IInv

LEMMA NewBufferInv ==
  ASSUME IInv, NEW t \in Threads, NewBuffer(t)
  PROVE  IInv'
<1>1. bat[t] \in Batches
  BY InsideACall DEF NewBuffer
<1>2. TypeOK'
  BY <1>1, ThreadsAssumption, BatchesAssumption, LaunchesAssumption, LimitAssumption
  DEF IInv, TypeOK, ThreadOK, NewBuffer, Goto, history, Status, Finished, Ops, Critical, Points,
      Items, Building
<1>3. Exclusive'
  BY <1>1, ThreadsAssumption, BatchesAssumption
  DEF IInv, TypeOK, ThreadOK, BatchOK, Exclusive, Building, NewBuffer, Goto, history
<1>4. ASSUME NEW u \in Threads PROVE ThreadOK(u)'
  BY <1>1, ThreadsAssumption, BatchesAssumption
  DEF IInv, TypeOK, Exclusive, ThreadOK, BatchOK, Held, Closed, NewBuffer, Goto, history,
      Finished, Critical, Building, Ops
<1>5. ASSUME NEW c \in Batches PROVE BatchOK(c)'
  <2>1. CASE c # bat[t]
    <3>1. OnlyMoves(t)
      BY DEF IInv, TypeOK, OnlyMoves, NewBuffer, Goto
    <3>2. SameBatch(c)
      BY <1>1, <2>1 DEF IInv, TypeOK, SameBatch, NewBuffer, history
    <3>3. QED
      BY <2>1, <3>1, <3>2, OtherBatches DEF IInv
  <2>2. CASE c = bat[t]
    <3>1. obj[c] = "constructing" /\ metal[c] = "none"
      BY <1>1, <2>2 DEF NewBuffer, IInv, ThreadOK, Building
    <3>2. gpuTime[c] = "unset" /\ heard[c] = {}
      BY <3>1 DEF IInv, TypeOK, BatchOK, Finished
    <3>3. QED
      BY <1>1, <2>2, <3>1, <3>2 DEF NewBuffer, IInv, TypeOK, BatchOK, Closed, history
  <2>3. QED
    BY <2>1, <2>2
<1>6. QED
  BY <1>2, <1>3, <1>4, <1>5 DEF IInv

LEMMA NewEncoderInv ==
  ASSUME IInv, NEW t \in Threads, NewEncoder(t)
  PROVE  IInv'
<1> DEFINE b == bat[t]
<1>1. b \in Batches /\ pc[t] = "newEncoder"
  BY InsideACall DEF NewEncoder
<1>2. /\ obj[b] = "constructing" /\ metal[b] = "encoding" /\ cmdbuf[b] /\ ~Closed(b)
      /\ owner[b] \in {t, NoThread}
      /\ \A u \in Threads : bat[u] = b => u = t
  BY <1>1, BatchesAssumption DEF IInv, TypeOK, Exclusive, ThreadOK, BatchOK, Building
<1>3. /\ encoder' = [encoder EXCEPT ![b] = TRUE]
      /\ encState' = [encState EXCEPT ![b] = "open"]
      /\ obj' = [obj EXCEPT ![b] = "live"]
      /\ UNCHANGED <<committed, discarded, cmdbuf, gpuTime, owner, mutex, metal,
                     encoded, arg, calls, history>>
  BY DEF NewEncoder
<1>4. \/ /\ owner[b] = t
         /\ pc' = [pc EXCEPT ![t] = "lock"]
         /\ op' = [op EXCEPT ![t] = "add"]
         /\ bat' = bat
      \/ /\ owner[b] # t
         /\ pc' = [pc EXCEPT ![t] = "idle"]
         /\ op' = op
         /\ bat' = [bat EXCEPT ![t] = NoBatch]
  BY DEF NewEncoder, Goto
<1>5. OnlyMoves(t) /\ pc'[t] \notin Building /\ bat'[t] \in {b, NoBatch}
  BY <1>1, <1>4 DEF IInv, TypeOK, OnlyMoves, Building
<1>6. TypeOK'
  <2>1. /\ pc' \in [Threads -> Points] /\ op' \in [Threads -> Ops]
        /\ bat' \in [Threads -> Batches \cup {NoBatch}]
    <3>1. /\ pc \in [Threads -> Points] /\ op \in [Threads -> Ops]
          /\ bat \in [Threads -> Batches \cup {NoBatch}]
      BY DEF IInv, TypeOK
    <3>2. "lock" \in Points /\ "idle" \in Points /\ "add" \in Ops
      BY DEF Points, Ops
    <3>3. CASE owner[b] = t
      BY <1>4, <3>1, <3>2, <3>3
    <3>4. CASE owner[b] # t
      BY <1>4, <3>1, <3>2, <3>4
    <3>5. QED
      BY <3>3, <3>4
  <2>2. QED
    BY <1>3, <2>1 DEF IInv, TypeOK, history
<1>7. Exclusive'
  BY <1>5, StaysExclusive
<1>8. ASSUME NEW u \in Threads PROVE ThreadOK(u)'
  BY <1>1, <1>2, <1>3, <1>4, ThreadsAssumption, BatchesAssumption
  DEF IInv, TypeOK, ThreadOK, Closed, Critical, Building
<1>9. ASSUME NEW c \in Batches PROVE BatchOK(c)'
  <2>1. CASE c # b
    BY <1>1, <1>3, <1>5, <2>1, OtherBatches DEF IInv, TypeOK, SameBatch, history
  <2>2. CASE c = b
    <3>1. /\ obj'[b] = "live" /\ encoder'[b] /\ encState'[b] = "open"
          /\ cmdbuf'[b] /\ metal'[b] = "encoding" /\ ~committed'[b] /\ ~discarded'[b]
      BY <1>1, <1>2, <1>3 DEF IInv, TypeOK, Closed
    <3>2. BatchOK(b)
      BY <1>1 DEF IInv
    <3>3. gpuTime[b] = "unset" /\ heard[b] = {} /\ encoded[b] = accepted[b]
      <4>1. gpuTime[b] \in Finished \cup {"unset"}
        BY <1>1 DEF IInv, TypeOK
      <4>2. QED
        BY <1>2, <3>2, <4>1 DEF BatchOK, Finished
    <3>4. gpuTime'[b] = "unset" /\ heard'[b] = {} /\ encoded'[b] = accepted'[b]
      BY <1>3, <3>3 DEF history
    <3>5. QED
      BY <2>2, <3>1, <3>4 DEF BatchOK, Closed, Held
  <2>3. QED
    BY <2>1, <2>2
<1>10. QED
  BY <1>6, <1>7, <1>8, <1>9 DEF IInv

LEMMA NewFailsInv ==
  ASSUME IInv, NEW t \in Threads, NewFails(t)
  PROVE  IInv'
<1>1. bat[t] \in Batches
  BY InsideACall DEF NewFails
<1>2. TypeOK'
  BY <1>1, ThreadsAssumption, BatchesAssumption, LaunchesAssumption, LimitAssumption
  DEF IInv, TypeOK, ThreadOK, NewFails, Goto, Released, history, Status, Finished, Ops,
      Critical, Points, Items, Building
<1>3. Exclusive'
  BY <1>1, ThreadsAssumption, BatchesAssumption
  DEF IInv, TypeOK, ThreadOK, BatchOK, Exclusive, Building, NewFails, Goto, Released, history
<1>4. ASSUME NEW u \in Threads PROVE ThreadOK(u)'
  BY <1>1, ThreadsAssumption, BatchesAssumption
  DEF IInv, TypeOK, Exclusive, ThreadOK, BatchOK, Held, Closed, NewFails, Goto, Released,
      history, Finished, Critical, Building, Ops
<1>5. ASSUME NEW c \in Batches PROVE BatchOK(c)'
  BY <1>1, ThreadsAssumption, BatchesAssumption
  DEF IInv, TypeOK, Exclusive, ThreadOK, BatchOK, Closed, Held, At, NewFails, Goto, Released,
      history, Finished, Critical, Building
<1>6. QED
  BY <1>2, <1>3, <1>4, <1>5 DEF IInv

LEMMA UnwindInv ==
  ASSUME IInv, NEW t \in Threads, Unwind(t)
  PROVE  IInv'
<1>1. bat[t] \in Batches
  BY InsideACall DEF Unwind
<1>2. TypeOK'
  BY <1>1, ThreadsAssumption, BatchesAssumption, LaunchesAssumption, LimitAssumption
  DEF IInv, TypeOK, ThreadOK, Unwind, Destructor, EndEncoding, Released, Goto, history, Status,
      Finished, Ops, Critical, Points, Items, Building
<1>3. Exclusive'
  BY <1>1, ThreadsAssumption, BatchesAssumption
  DEF IInv, TypeOK, ThreadOK, BatchOK, Exclusive, Building, Unwind, Destructor, EndEncoding,
      Released, Goto, history
<1>4. ASSUME NEW u \in Threads PROVE ThreadOK(u)'
  BY <1>1, ThreadsAssumption, BatchesAssumption
  DEF IInv, TypeOK, Exclusive, ThreadOK, BatchOK, Held, Closed, Unwind, Destructor, EndEncoding,
      Released, Goto, history, Finished, Critical, Building, Ops
<1>5. ASSUME NEW c \in Batches PROVE BatchOK(c)'
  <2>1. CASE c # bat[t]
    <3>1. OnlyMoves(t)
      BY DEF IInv, TypeOK, OnlyMoves, Unwind, Goto
    <3>2. SameBatch(c)
      BY <1>1, <2>1 DEF IInv, TypeOK, SameBatch, Unwind, Destructor, EndEncoding, Released, history
    <3>3. QED
      BY <2>1, <3>1, <3>2, OtherBatches DEF IInv
  <2>2. CASE c = bat[t]
    <3>1. obj[c] = "live" /\ owner[c] = t /\ (committed[c] => metal[c] \in Finished)
      BY <1>1, <2>2 DEF Unwind, IInv, ThreadOK, Building
    <3>2. ~At(c, "submit") /\ ~At(c, "drop")
      BY <3>1, ThreadsAssumption DEF Unwind, IInv, ThreadOK, At
    <3>3. DestroyedFrom(c)
      BY <1>1, <2>2, DestructorEffect DEF Unwind
    <3>4. QED
      BY <3>1, <3>2, <3>3, DestroyedOK
  <2>3. QED
    BY <2>1, <2>2
<1>6. QED
  BY <1>2, <1>3, <1>4, <1>5 DEF IInv

LEMMA AcquireInv ==
  ASSUME IInv, NEW t \in Threads, Acquire(t)
  PROVE  IInv'
<1>1. bat[t] \in Batches
  BY InsideACall DEF Acquire
<1>2. TypeOK'
  BY <1>1, ThreadsAssumption, BatchesAssumption, LaunchesAssumption, LimitAssumption
  DEF IInv, TypeOK, ThreadOK, Acquire, Goto, objVars, metalVars, history, Status, Finished, Ops,
      Critical, Points, Items, Building
<1>3. Exclusive'
  BY <1>1, ThreadsAssumption, BatchesAssumption
  DEF IInv, TypeOK, ThreadOK, BatchOK, Exclusive, Building, Acquire, Goto, objVars, metalVars,
      history
<1>4. ASSUME NEW u \in Threads PROVE ThreadOK(u)'
  BY <1>1, ThreadsAssumption, BatchesAssumption
  DEF IInv, TypeOK, Exclusive, ThreadOK, BatchOK, Held, Closed, Acquire, Goto, objVars,
      metalVars, history, Finished, Critical, Building, Ops
<1>5. ASSUME NEW c \in Batches PROVE BatchOK(c)'
  BY <1>1, ThreadsAssumption, BatchesAssumption
  DEF IInv, TypeOK, Exclusive, ThreadOK, BatchOK, Closed, Held, At, Acquire, Goto, objVars,
      metalVars, history, Finished, Critical, Building
<1>6. QED
  BY <1>2, <1>3, <1>4, <1>5 DEF IInv

LEMMA RejectInv ==
  ASSUME IInv, NEW t \in Threads, Reject(t)
  PROVE  IInv'
<1>1. bat[t] \in Batches
  BY InsideACall DEF Reject, Body
<1>2. TypeOK'
  BY <1>1, ThreadsAssumption, BatchesAssumption, LaunchesAssumption, LimitAssumption
  DEF IInv, TypeOK, ThreadOK, Reject, Body, Unlock, Return, Goto, objVars, metalVars, history,
      Status, Finished, Ops, Critical, Points, Items, Building
<1>3. Exclusive'
  BY <1>1, ThreadsAssumption, BatchesAssumption
  DEF IInv, TypeOK, ThreadOK, BatchOK, Exclusive, Building, Reject, Body, Unlock, Return, Goto,
      objVars, metalVars, history
<1>4. ASSUME NEW u \in Threads PROVE ThreadOK(u)'
  BY <1>1, ThreadsAssumption, BatchesAssumption
  DEF IInv, TypeOK, Exclusive, ThreadOK, BatchOK, Held, Closed, Reject, Body, Unlock, Return,
      Goto, objVars, metalVars, history, Finished, Critical, Building, Ops
<1>5. ASSUME NEW c \in Batches PROVE BatchOK(c)'
  BY <1>1, ThreadsAssumption, BatchesAssumption
  DEF IInv, TypeOK, Exclusive, ThreadOK, BatchOK, Closed, Held, At, Reject, Body, Unlock,
      Return, Goto, objVars, metalVars, history, Finished, Critical, Building
<1>6. QED
  BY <1>2, <1>3, <1>4, <1>5 DEF IInv

LEMMA AcceptInv ==
  ASSUME IInv, NEW t \in Threads, Accept(t)
  PROVE  IInv'
<1>1. bat[t] \in Batches
  BY InsideACall DEF Accept, Body
<1>2. TypeOK'
  BY <1>1, ThreadsAssumption, BatchesAssumption, LaunchesAssumption, LimitAssumption
  DEF IInv, TypeOK, ThreadOK, Accept, Body, Goto, objVars, metalVars, history, Status, Finished,
      Ops, Critical, Points, Items, Building
<1>3. Exclusive'
  BY <1>1, ThreadsAssumption, BatchesAssumption
  DEF IInv, TypeOK, ThreadOK, BatchOK, Exclusive, Building, Accept, Body, Goto, objVars,
      metalVars, history
<1>4. ASSUME NEW u \in Threads PROVE ThreadOK(u)'
  BY <1>1, ThreadsAssumption, BatchesAssumption
  DEF IInv, TypeOK, Exclusive, ThreadOK, BatchOK, Held, Closed, Accept, Body, Goto, objVars,
      metalVars, history, Finished, Critical, Building, Ops
<1>5. ASSUME NEW c \in Batches PROVE BatchOK(c)'
  BY <1>1, ThreadsAssumption, BatchesAssumption
  DEF IInv, TypeOK, Exclusive, ThreadOK, BatchOK, Closed, Held, At, Accept, Body, Goto, objVars,
      metalVars, history, Finished, Critical, Building
<1>6. QED
  BY <1>2, <1>3, <1>4, <1>5 DEF IInv

LEMMA EncodeInv ==
  ASSUME IInv, NEW t \in Threads, Encode(t)
  PROVE  IInv'
<1>1. bat[t] \in Batches
  BY InsideACall DEF Encode
<1>2. TypeOK'
  BY <1>1, ThreadsAssumption, BatchesAssumption, LaunchesAssumption, LimitAssumption
  DEF IInv, TypeOK, ThreadOK, Encode, Record, Unlock, Return, Goto, objVars, Status, Finished,
      Ops, Critical, Points, Items, Building
<1>3. Exclusive'
  BY <1>1, ThreadsAssumption, BatchesAssumption
  DEF IInv, TypeOK, ThreadOK, BatchOK, Exclusive, Building, Encode, Record, Unlock, Return,
      Goto, objVars
<1>4. ASSUME NEW u \in Threads PROVE ThreadOK(u)'
  BY <1>1, ThreadsAssumption, BatchesAssumption
  DEF IInv, TypeOK, Exclusive, ThreadOK, BatchOK, Held, Closed, Encode, Record, Unlock, Return,
      Goto, objVars, Finished, Critical, Building, Ops
<1>5. ASSUME NEW c \in Batches PROVE BatchOK(c)'
  <2>1. CASE c # bat[t]
    <3>1. OnlyMoves(t)
      BY DEF IInv, TypeOK, OnlyMoves, Encode, Goto, Return, Unlock
    <3>2. SameBatch(c)
      BY <1>1, <2>1 DEF IInv, TypeOK, SameBatch, Encode, Record, Unlock, Return, objVars
    <3>3. QED
      BY <2>1, <3>1, <3>2, OtherBatches DEF IInv
  <2>2. CASE c = bat[t]
    <3>1. obj[c] = "live" /\ ~Closed(c)
      BY <1>1, <2>2 DEF Encode, IInv, ThreadOK, Building
    <3>2. Held(c)
      BY <3>1 DEF IInv, BatchOK, Closed
    <3>3. /\ encState'[c] = "open" /\ encoded'[c] = Append(encoded[c], arg[t])
          /\ accepted'[c] = Append(accepted[c], arg[t])
      BY <1>1, <2>2, <3>2 DEF Encode, Record, Held, IInv, TypeOK
    <3>4. BatchOK(c)
      BY DEF IInv
    <3>5. QED
      BY <3>1, <3>2, <3>3, <3>4 DEF Encode, BatchOK, Closed, Held, objVars
  <2>3. QED
    BY <2>1, <2>2
<1>6. QED
  BY <1>2, <1>3, <1>4, <1>5 DEF IInv

LEMMA CommitDiscardedInv ==
  ASSUME IInv, NEW t \in Threads, CommitDiscarded(t)
  PROVE  IInv'
<1>1. bat[t] \in Batches
  BY InsideACall DEF CommitDiscarded, Body
<1>2. TypeOK'
  BY <1>1, ThreadsAssumption, BatchesAssumption, LaunchesAssumption, LimitAssumption
  DEF IInv, TypeOK, ThreadOK, CommitDiscarded, Body, Unlock, Return, Goto, objVars, metalVars,
      history, Status, Finished, Ops, Critical, Points, Items, Building
<1>3. Exclusive'
  BY <1>1, ThreadsAssumption, BatchesAssumption
  DEF IInv, TypeOK, ThreadOK, BatchOK, Exclusive, Building, CommitDiscarded, Body, Unlock,
      Return, Goto, objVars, metalVars, history
<1>4. ASSUME NEW u \in Threads PROVE ThreadOK(u)'
  <2>1. CASE u = t
    BY <1>1, <2>1, ThreadsAssumption, BatchesAssumption
    DEF IInv, TypeOK, Exclusive, ThreadOK, BatchOK, Held, Closed, CommitDiscarded, Body,
        Unlock, Return, Goto, objVars, metalVars, history, Finished, Critical, Building,
        Ops
  <2>2. CASE u # t
    BY <1>1, <2>2, ThreadsAssumption, BatchesAssumption
    DEF IInv, TypeOK, Exclusive, ThreadOK, BatchOK, Held, Closed, CommitDiscarded, Body,
        Unlock, Return, Goto, objVars, metalVars, history, Finished, Critical, Building,
        Ops
  <2>3. QED
    BY <2>1, <2>2
<1>5. ASSUME NEW c \in Batches PROVE BatchOK(c)'
  BY <1>1, ThreadsAssumption, BatchesAssumption
  DEF IInv, TypeOK, Exclusive, ThreadOK, BatchOK, Closed, Held, At, CommitDiscarded, Body,
      Unlock, Return, Goto, objVars, metalVars, history, Finished, Critical, Building
<1>6. QED
  BY <1>2, <1>3, <1>4, <1>5 DEF IInv

LEMMA CommitAgainInv ==
  ASSUME IInv, NEW t \in Threads, CommitAgain(t)
  PROVE  IInv'
<1>1. /\ pc[t] = "body" /\ committed[bat[t]] /\ ~discarded[bat[t]]
      /\ AfterCommit(t)
      /\ UNCHANGED <<objVars, metalVars, history>>
  BY DEF CommitAgain, Body
<1>2. bat[t] \in Batches /\ CommitOver(t)
  BY <1>1, InsideACall, AfterCommitCases
<1>3. OnlyMoves(t) /\ pc'[t] \notin Building /\ bat'[t] \in {bat[t], NoBatch}
  BY <1>1, <1>2 DEF CommitOver, IInv, TypeOK, OnlyMoves, Building
<1>4. TypeOK'
  BY <1>1, AfterCommitTypes DEF IInv, TypeOK, objVars, metalVars, history
<1>5. Exclusive'
  BY <1>3, StaysExclusive
<1>6. ASSUME NEW u \in Threads PROVE ThreadOK(u)'
  BY <1>1, <1>2
  DEF CommitOver, IInv, TypeOK, ThreadOK, BatchOK, Held, At, Closed, objVars, metalVars, Critical, Building
<1>7. ASSUME NEW c \in Batches PROVE BatchOK(c)'
  <2>1. CASE c # bat[t]
    BY <1>1, <1>3, <2>1, OtherBatches DEF IInv, SameBatch, objVars, metalVars, history
  <2>2. CASE c = bat[t]
    <3>1. mutex[c] = t /\ obj[c] = "live"
      BY <1>1, <2>2 DEF IInv, ThreadOK, Critical, Building
    <3>2. ~At(c, "submit")
      BY <1>1, <3>1 DEF IInv, ThreadOK, At, Critical
    <3>3. QED
      BY <1>1, <2>2, <3>1, <3>2 DEF IInv, BatchOK, Closed, Held, objVars, metalVars, history
  <2>3. QED
    BY <2>1, <2>2
<1>8. QED
  BY <1>4, <1>5, <1>6, <1>7 DEF IInv

LEMMA CommitFirstInv ==
  ASSUME IInv, NEW t \in Threads, CommitFirst(t)
  PROVE  IInv'
<1>1. bat[t] \in Batches
  BY InsideACall DEF CommitFirst, Body
<1>2. TypeOK'
  BY <1>1, ThreadsAssumption, BatchesAssumption, LaunchesAssumption, LimitAssumption
  DEF IInv, TypeOK, ThreadOK, CommitFirst, Body, Goto, metalVars, history, Status, Finished,
      Ops, Critical, Points, Items, Building
<1>3. Exclusive'
  BY <1>1, ThreadsAssumption, BatchesAssumption
  DEF IInv, TypeOK, ThreadOK, BatchOK, Exclusive, Building, CommitFirst, Body, Goto, metalVars,
      history
<1>4. ASSUME NEW u \in Threads PROVE ThreadOK(u)'
  BY <1>1, ThreadsAssumption, BatchesAssumption
  DEF IInv, TypeOK, Exclusive, ThreadOK, BatchOK, Held, Closed, CommitFirst, Body, Goto,
      metalVars, history, Finished, Critical, Building, Ops
<1>5. ASSUME NEW c \in Batches PROVE BatchOK(c)'
  BY <1>1, ThreadsAssumption, BatchesAssumption
  DEF IInv, TypeOK, Exclusive, ThreadOK, BatchOK, Closed, Held, At, CommitFirst, Body, Goto,
      metalVars, history, Finished, Critical, Building
<1>6. QED
  BY <1>2, <1>3, <1>4, <1>5 DEF IInv

LEMMA SubmitInv ==
  ASSUME IInv, NEW t \in Threads, Submit(t)
  PROVE  IInv'
<1> DEFINE b == bat[t]
<1>1. /\ pc[t] = "submit" /\ b \in Batches
      /\ AfterCommit(t) /\ CommitOver(t)
      /\ UNCHANGED <<objVars, encoded, history>>
  BY InsideACall, AfterCommitCases DEF Submit
<1>2. committed[b] /\ ~discarded[b] /\ Held(b) /\ obj[b] = "live" /\ mutex[b] = t
  BY <1>1 DEF IInv, ThreadOK, BatchOK, Held, Finished, Building, Critical
<1>3. /\ metal' = [metal EXCEPT ![b] = "committed"]
      /\ encState' = [encState EXCEPT ![b] = "ended"]
  BY <1>1, <1>2 DEF Submit, EndEncoding, IInv, TypeOK, Held
<1>4. OnlyMoves(t) /\ pc'[t] \notin Building /\ bat'[t] \in {b, NoBatch}
  BY <1>1 DEF CommitOver, IInv, TypeOK, OnlyMoves, Building
<1>5. TypeOK'
  BY <1>1, <1>3, AfterCommitTypes DEF IInv, TypeOK, objVars, history, Status
<1>6. Exclusive'
  BY <1>4, StaysExclusive
<1>7. ASSUME NEW u \in Threads PROVE ThreadOK(u)'
  BY <1>1, <1>2, <1>3
  DEF CommitOver, IInv, TypeOK, Exclusive, ThreadOK, Closed, Held, objVars, Critical, Building, Finished
<1>8. ASSUME NEW c \in Batches PROVE BatchOK(c)'
  <2>1. CASE c # b
    BY <1>1, <1>3, <1>4, <2>1, OtherBatches DEF IInv, TypeOK, SameBatch, objVars, history
  <2>2. CASE c = b
    <3>1. /\ obj'[b] = "live" /\ committed'[b] /\ ~discarded'[b] /\ cmdbuf'[b] /\ encoder'[b]
          /\ metal'[b] = "committed" /\ encState'[b] = "ended" /\ encoded'[b] = accepted'[b]
      BY <1>1, <1>2, <1>3 DEF IInv, TypeOK, BatchOK, Held, objVars, history
    <3>2. gpuTime'[b] = "unset" /\ heard'[b] = {}
      <4>1. BatchOK(b) /\ gpuTime[b] \in Finished \cup {"unset"}
        BY <1>1 DEF IInv, TypeOK
      <4>2. gpuTime[b] = "unset" /\ heard[b] = {}
        BY <1>2, <4>1 DEF BatchOK, Held, Finished
      <4>3. QED
        BY <1>1, <4>2 DEF objVars, history
    <3>3. QED
      BY <2>2, <3>1, <3>2 DEF BatchOK, Closed
  <2>3. QED
    BY <2>1, <2>2
<1>9. QED
  BY <1>5, <1>6, <1>7, <1>8 DEF IInv

LEMMA AwaitInv ==
  ASSUME IInv, NEW t \in Threads, Await(t)
  PROVE  IInv'
<1>1. bat[t] \in Batches
  BY InsideACall DEF Await
<1>2. TypeOK'
  BY <1>1, ThreadsAssumption, BatchesAssumption, LaunchesAssumption, LimitAssumption
  DEF IInv, TypeOK, ThreadOK, Await, Goto, objVars, metalVars, history, Status, Finished, Ops,
      Critical, Points, Items, Building
<1>3. Exclusive'
  BY <1>1, ThreadsAssumption, BatchesAssumption
  DEF IInv, TypeOK, ThreadOK, BatchOK, Exclusive, Building, Await, Goto, objVars, metalVars,
      history
<1>4. ASSUME NEW u \in Threads PROVE ThreadOK(u)'
  BY <1>1, ThreadsAssumption, BatchesAssumption
  DEF IInv, TypeOK, Exclusive, ThreadOK, BatchOK, Held, Closed, Await, Goto, objVars, metalVars,
      history, Finished, Critical, Building, Ops
<1>5. ASSUME NEW c \in Batches PROVE BatchOK(c)'
  BY <1>1, ThreadsAssumption, BatchesAssumption
  DEF IInv, TypeOK, Exclusive, ThreadOK, BatchOK, Closed, Held, At, Await, Goto, objVars,
      metalVars, history, Finished, Critical, Building
<1>6. QED
  BY <1>2, <1>3, <1>4, <1>5 DEF IInv

LEMMA FinishInv ==
  ASSUME IInv, NEW t \in Threads, Finish(t)
  PROVE  IInv'
<1>1. bat[t] \in Batches
  BY InsideACall DEF Finish
<1>2. TypeOK'
  BY <1>1, ThreadsAssumption, BatchesAssumption, LaunchesAssumption, LimitAssumption
  DEF IInv, TypeOK, ThreadOK, Finish, Unlock, Return, Goto, metalVars, Status, Finished, Ops,
      Critical, Points, Items, Building
<1>3. Exclusive'
  BY <1>1, ThreadsAssumption, BatchesAssumption
  DEF IInv, TypeOK, ThreadOK, BatchOK, Exclusive, Building, Finish, Unlock, Return, Goto,
      metalVars
<1>4. ASSUME NEW u \in Threads PROVE ThreadOK(u)'
  <2>1. CASE u = t
    BY <1>1, <2>1, ThreadsAssumption, BatchesAssumption
    DEF IInv, TypeOK, Exclusive, ThreadOK, BatchOK, Held, Closed, Finish, Unlock,
        Return, Goto, metalVars, Finished, Critical, Building, Ops
  <2>2. CASE u # t
    BY <1>1, <2>2, ThreadsAssumption, BatchesAssumption
    DEF IInv, TypeOK, Exclusive, ThreadOK, BatchOK, Held, Closed, Finish, Unlock,
        Return, Goto, metalVars, Finished, Critical, Building, Ops
  <2>3. QED
    BY <2>1, <2>2
<1>5. ASSUME NEW c \in Batches PROVE BatchOK(c)'
  BY <1>1, ThreadsAssumption, BatchesAssumption
  DEF IInv, TypeOK, Exclusive, ThreadOK, BatchOK, Closed, Held, At, Finish, Unlock, Return,
      Goto, metalVars, Finished, Critical, Building
<1>6. QED
  BY <1>2, <1>3, <1>4, <1>5 DEF IInv

LEMMA DiscardClosedInv ==
  ASSUME IInv, NEW t \in Threads, DiscardClosed(t)
  PROVE  IInv'
<1>1. bat[t] \in Batches
  BY InsideACall DEF DiscardClosed, Body
<1>2. TypeOK'
  BY <1>1, ThreadsAssumption, BatchesAssumption, LaunchesAssumption, LimitAssumption
  DEF IInv, TypeOK, ThreadOK, DiscardClosed, Body, Unlock, Return, Goto, objVars, metalVars,
      history, Status, Finished, Ops, Critical, Points, Items, Building
<1>3. Exclusive'
  BY <1>1, ThreadsAssumption, BatchesAssumption
  DEF IInv, TypeOK, ThreadOK, BatchOK, Exclusive, Building, DiscardClosed, Body, Unlock, Return,
      Goto, objVars, metalVars, history
<1>4. ASSUME NEW u \in Threads PROVE ThreadOK(u)'
  BY <1>1, ThreadsAssumption, BatchesAssumption
  DEF IInv, TypeOK, Exclusive, ThreadOK, BatchOK, Held, Closed, DiscardClosed, Body, Unlock,
      Return, Goto, objVars, metalVars, history, Finished, Critical, Building, Ops
<1>5. ASSUME NEW c \in Batches PROVE BatchOK(c)'
  BY <1>1, ThreadsAssumption, BatchesAssumption
  DEF IInv, TypeOK, Exclusive, ThreadOK, BatchOK, Closed, Held, At, DiscardClosed, Body, Unlock,
      Return, Goto, objVars, metalVars, history, Finished, Critical, Building
<1>6. QED
  BY <1>2, <1>3, <1>4, <1>5 DEF IInv

LEMMA DiscardOpenInv ==
  ASSUME IInv, NEW t \in Threads, DiscardOpen(t)
  PROVE  IInv'
<1>1. bat[t] \in Batches
  BY InsideACall DEF DiscardOpen, Body
<1>2. TypeOK'
  BY <1>1, ThreadsAssumption, BatchesAssumption, LaunchesAssumption, LimitAssumption
  DEF IInv, TypeOK, ThreadOK, DiscardOpen, Body, Goto, metalVars, history, Status, Finished,
      Ops, Critical, Points, Items, Building
<1>3. Exclusive'
  BY <1>1, ThreadsAssumption, BatchesAssumption
  DEF IInv, TypeOK, ThreadOK, BatchOK, Exclusive, Building, DiscardOpen, Body, Goto, metalVars,
      history
<1>4. ASSUME NEW u \in Threads PROVE ThreadOK(u)'
  BY <1>1, ThreadsAssumption, BatchesAssumption
  DEF IInv, TypeOK, Exclusive, ThreadOK, BatchOK, Held, Closed, DiscardOpen, Body, Goto,
      metalVars, history, Finished, Critical, Building, Ops
<1>5. ASSUME NEW c \in Batches PROVE BatchOK(c)'
  <2>1. CASE c # bat[t]
    <3>1. OnlyMoves(t)
      BY DEF IInv, TypeOK, OnlyMoves, DiscardOpen, Goto
    <3>2. SameBatch(c)
      BY <1>1, <2>1 DEF IInv, TypeOK, SameBatch, DiscardOpen, Body, metalVars, history
    <3>3. QED
      BY <2>1, <3>1, <3>2, OtherBatches DEF IInv
  <2>2. CASE c = bat[t]
    <3>1. At(c, "drop")'
      BY <2>2 DEF DiscardOpen, Body, Goto, IInv, TypeOK, At
    <3>2. obj[c] = "live" /\ ~Closed(c)
      BY <1>1, <2>2 DEF DiscardOpen, Body, IInv, ThreadOK, Building
    <3>3. Held(c) /\ discarded' = [discarded EXCEPT ![c] = TRUE] /\ discarded'[c]
      BY <2>2, <3>2 DEF DiscardOpen, IInv, TypeOK, BatchOK, Closed
    <3>4. QED
      BY <1>1, <2>2, <3>1, <3>2, <3>3
      DEF DiscardOpen, IInv, BatchOK, Closed, Held, metalVars, history
  <2>3. QED
    BY <2>1, <2>2
<1>6. QED
  BY <1>2, <1>3, <1>4, <1>5 DEF IInv

LEMMA DropInv ==
  ASSUME IInv, NEW t \in Threads, Drop(t)
  PROVE  IInv'
<1>1. bat[t] \in Batches
  BY InsideACall DEF Drop
<1>2. TypeOK'
  BY <1>1, ThreadsAssumption, BatchesAssumption, LaunchesAssumption, LimitAssumption
  DEF IInv, TypeOK, ThreadOK, Drop, EndEncoding, Released, Unlock, Return, Goto, history,
      Status, Finished, Ops, Critical, Points, Items, Building
<1>3. Exclusive'
  BY <1>1, ThreadsAssumption, BatchesAssumption
  DEF IInv, TypeOK, ThreadOK, BatchOK, Exclusive, Building, Drop, EndEncoding, Released, Unlock,
      Return, Goto, history
<1>4. ASSUME NEW u \in Threads PROVE ThreadOK(u)'
  BY <1>1, ThreadsAssumption, BatchesAssumption
  DEF IInv, TypeOK, Exclusive, ThreadOK, BatchOK, Held, Closed, Drop, EndEncoding, Released,
      Unlock, Return, Goto, history, Finished, Critical, Building, Ops
<1>5. ASSUME NEW c \in Batches PROVE BatchOK(c)'
  <2>1. CASE c # bat[t]
    <3>1. OnlyMoves(t)
      BY DEF IInv, TypeOK, OnlyMoves, Drop, Goto, Return, Unlock
    <3>2. SameBatch(c)
      BY <1>1, <2>1 DEF IInv, TypeOK, SameBatch, Drop, EndEncoding, Released, Unlock, Return, history
    <3>3. QED
      BY <2>1, <3>1, <3>2, OtherBatches DEF IInv
  <2>2. CASE c = bat[t]
    <3>1. obj[c] = "live" /\ discarded[c] /\ ~committed[c] /\ metal[c] = "encoding"
      BY <1>1, <2>2 DEF Drop, IInv, ThreadOK, BatchOK, Building
    <3>2. Held(c) /\ gpuTime[c] = "unset" /\ heard[c] = {}
      BY <3>1 DEF IInv, TypeOK, BatchOK, Closed, Held, Finished
    <3>3. /\ metal'[c] = "dropped" /\ encState'[c] = "ended" /\ ~cmdbuf'[c] /\ ~encoder'[c]
          /\ gpuTime'[c] = "unset" /\ heard'[c] = {}
      BY <1>1, <2>2, <3>1, <3>2
      DEF Drop, EndEncoding, Released, Held, IInv, TypeOK, history
    <3>4. obj'[c] = "live" /\ discarded'[c] /\ ~committed'[c] /\ encoded'[c] = accepted'[c]
      BY <1>1, <2>2, <3>1 DEF Drop, IInv, BatchOK, history
    <3>5. QED
      BY <3>3, <3>4 DEF BatchOK, Closed
  <2>3. QED
    BY <2>1, <2>2
<1>6. QED
  BY <1>2, <1>3, <1>4, <1>5 DEF IInv

LEMMA ReadTimeInv ==
  ASSUME IInv, NEW t \in Threads, ReadTime(t)
  PROVE  IInv'
<1>1. bat[t] \in Batches
  BY InsideACall DEF ReadTime, Body
<1>2. TypeOK'
  BY <1>1, ThreadsAssumption, BatchesAssumption, LaunchesAssumption, LimitAssumption
  DEF IInv, TypeOK, ThreadOK, ReadTime, Body, Unlock, Return, Goto, objVars, metalVars, history,
      Status, Finished, Ops, Critical, Points, Items, Building
<1>3. Exclusive'
  BY <1>1, ThreadsAssumption, BatchesAssumption
  DEF IInv, TypeOK, ThreadOK, BatchOK, Exclusive, Building, ReadTime, Body, Unlock, Return,
      Goto, objVars, metalVars, history
<1>4. ASSUME NEW u \in Threads PROVE ThreadOK(u)'
  BY <1>1, ThreadsAssumption, BatchesAssumption
  DEF IInv, TypeOK, Exclusive, ThreadOK, BatchOK, Held, Closed, ReadTime, Body, Unlock, Return,
      Goto, objVars, metalVars, history, Finished, Critical, Building, Ops
<1>5. ASSUME NEW c \in Batches PROVE BatchOK(c)'
  BY <1>1, ThreadsAssumption, BatchesAssumption
  DEF IInv, TypeOK, Exclusive, ThreadOK, BatchOK, Closed, Held, At, ReadTime, Body, Unlock,
      Return, Goto, objVars, metalVars, history, Finished, Critical, Building
<1>6. QED
  BY <1>2, <1>3, <1>4, <1>5 DEF IInv

LEMMA GpuFinishInv ==
  ASSUME IInv, NEW b \in Batches, GpuFinish(b)
  PROVE  IInv'
<1>1. TypeOK'
  BY ThreadsAssumption, BatchesAssumption, LaunchesAssumption, LimitAssumption
  DEF IInv, TypeOK, ThreadOK, GpuFinish, objVars, threadVars, history, Status, Finished, Ops,
      Critical, Points, Items, Building
<1>2. Exclusive'
  BY ThreadsAssumption, BatchesAssumption
  DEF IInv, TypeOK, ThreadOK, BatchOK, Exclusive, Building, GpuFinish, objVars, threadVars,
      history
<1>3. ASSUME NEW u \in Threads PROVE ThreadOK(u)'
  BY ThreadsAssumption, BatchesAssumption
  DEF IInv, TypeOK, Exclusive, ThreadOK, BatchOK, Held, Closed, GpuFinish, objVars, threadVars,
      history, Finished, Critical, Building, Ops
<1>4. ASSUME NEW c \in Batches PROVE BatchOK(c)'
  BY ThreadsAssumption, BatchesAssumption
  DEF IInv, TypeOK, Exclusive, ThreadOK, BatchOK, Closed, Held, At, GpuFinish, objVars,
      threadVars, history, Finished, Critical, Building
<1>5. QED
  BY <1>1, <1>2, <1>3, <1>4 DEF IInv

LEMMA Stutter == ASSUME IInv, UNCHANGED vars PROVE IInv'
<1>1. TypeOK'
  BY DEF IInv, TypeOK, vars, objVars, metalVars, threadVars, history
<1>2. Exclusive' /\ \A u \in Threads : ThreadOK(u)'
  BY DEF IInv, Exclusive, ThreadOK, Closed, vars, objVars, metalVars, threadVars, history
<1>3. \A c \in Batches : BatchOK(c)'
  BY DEF IInv, BatchOK, Closed, Held, At, vars, objVars, metalVars, threadVars, history
<1>4. QED
  BY <1>1, <1>2, <1>3 DEF IInv

LEMMA NextInv == ASSUME IInv, [Next]_vars PROVE IInv'
<1>1. ASSUME NEW t \in Threads, Begin(t) PROVE IInv'
  BY <1>1, NewInv, DispatchInv, CallInv, DeleteInv DEF Begin
<1>2. ASSUME NEW t \in Threads, Step(t) PROVE IInv'
  BY <1>2, NewBufferInv, NewEncoderInv, NewFailsInv, UnwindInv, AcquireInv, RejectInv,
     AcceptInv, EncodeInv, CommitDiscardedInv, CommitAgainInv, CommitFirstInv, SubmitInv,
     AwaitInv, FinishInv, DiscardClosedInv, DiscardOpenInv, DropInv, ReadTimeInv
  DEF Step
<1>3. ASSUME NEW b \in Batches, GpuFinish(b) PROVE IInv'
  BY <1>3, GpuFinishInv
<1>4. CASE UNCHANGED vars
  BY <1>4, Stutter
<1>5. QED
  BY <1>1, <1>2, <1>3, <1>4 DEF Next

\* Every reachable state of any number of threads and batches satisfies the
\* inductive invariant (all of dispatch.cpp:212-332).
THEOREM Invariance == Spec => []IInv
<1>1. Init => IInv
  BY InitInv
<1>2. IInv /\ [Next]_vars => IInv'
  BY NextInv
<1>3. QED
  BY <1>1, <1>2, PTL DEF Spec

\* The members of a batch and the program points stay in their types; in
\* particular gpu_time_ is only ever taken from a finished command buffer.
THEOREM TypeCorrect == Spec => []TypeOK
<1>1. IInv => TypeOK
  BY DEF IInv
<1>2. QED
  BY <1>1, Invariance, PTL

\* No thread uses a command buffer or an encoder that discard() has reset.
THEOREM HandlesAreValid == Spec => []HandlesValid
<1>1. ASSUME IInv PROVE HandlesValid
  <2>1. SUFFICES ASSUME NEW t \in Threads,
                        pc[t] \in {"encode", "submit", "drop", "await", "relock", "finish"}
                 PROVE  /\ cmdbuf[bat[t]]
                        /\ pc[t] \in {"encode", "submit", "drop"} => encoder[bat[t]]
    BY DEF HandlesValid
  <2>2. bat[t] \in Batches /\ obj[bat[t]] = "live"
    BY <1>1, <2>1, InsideACall DEF IInv, ThreadOK, Building
  <2>3. BatchOK(bat[t]) /\ ThreadOK(t)
    BY <1>1, <2>2 DEF IInv
  <2>4. QED
    BY <2>1, <2>2, <2>3 DEF BatchOK, ThreadOK, Closed, Held, Finished
<1>2. QED
  BY <1>1, Invariance, PTL

\* The encoder is used while open, ended once, and ended before its command buffer goes.
THEOREM EncoderIsDisciplined == Spec => []EncoderDiscipline
<1>1. ASSUME IInv PROVE EncoderDiscipline
  <2>1. SUFFICES ASSUME NEW b \in Batches
                 PROVE  /\ encState[b] # "misused"
                        /\ encState[b] = "open" => metal[b] = "encoding" /\ cmdbuf[b] /\ encoder[b]
    BY DEF EncoderDiscipline
  <2>2. BatchOK(b) /\ obj[b] \in {"unused", "constructing", "live", "destroyed"}
    BY <1>1 DEF IInv, TypeOK
  <2>3. QED
    BY <2>2 DEF BatchOK, Held
<1>2. QED
  BY <1>1, Invariance, PTL

\* The command buffer of a batch holds what add() and barrier() accepted, in that order.
THEOREM AcceptedIsEncoded == Spec => []RunsWhatWasAccepted
<1>1. IInv => RunsWhatWasAccepted
  BY DEF IInv, BatchOK, RunsWhatWasAccepted
<1>2. QED
  BY <1>1, Invariance, PTL

\* Only batches that can still be committed, or are being discarded, hold a slot
\* of the queue without having been committed.
THEOREM SlotsAreReleased == Spec => []NoLeakedSlot
<1>1. ASSUME IInv PROVE NoLeakedSlot
  <2>1. SUFFICES ASSUME NEW b \in Batches, metal[b] = "encoding"
                 PROVE  /\ obj[b] \in {"constructing", "live"}
                        /\ discarded[b] => At(b, "drop")
    BY DEF NoLeakedSlot, At
  <2>2. BatchOK(b) /\ obj[b] \in {"unused", "constructing", "live", "destroyed"}
    BY <1>1 DEF IInv, TypeOK
  <2>3. QED
    BY <2>1, <2>2 DEF BatchOK, Closed, Held, Finished
<1>2. QED
  BY <1>1, Invariance, PTL

\* A batch is committed or discarded, never both, and only a committed one runs.
THEOREM BatchHasOneFate == Spec => []OneFate
<1>1. ASSUME IInv PROVE OneFate
  <2>1. SUFFICES ASSUME NEW b \in Batches
                 PROVE  /\ ~(committed[b] /\ discarded[b])
                        /\ discarded[b] => metal[b] \in {"encoding", "dropped"}
                        /\ committed[b] => metal[b] # "dropped"
    BY DEF OneFate
  <2>2. BatchOK(b) /\ obj[b] \in {"unused", "constructing", "live", "destroyed"}
    BY <1>1 DEF IInv, TypeOK
  <2>3. ~(discarded[b] /\ metal[b] = "none")
    BY <2>2 DEF BatchOK, Closed, Held, Finished
  <2>4. QED
    BY <2>2, <2>3 DEF BatchOK, Closed, Held, Finished
<1>2. QED
  BY <1>1, Invariance, PTL

\* When dispatch() has returned or thrown, the GPU is done with its launch.
THEOREM DispatchIsSynchronous == Spec => []DispatchSynchronous
<1>1. ASSUME IInv PROVE DispatchSynchronous
  BY <1>1 DEF IInv, BatchOK, DispatchSynchronous, Finished
<1>2. QED
  BY <1>1, Invariance, PTL

\* A thread moves only by steps of its own.
LEMMA OthersStay ==
  ASSUME IInv, NEW t \in Threads, NEW u \in Threads, u # t, Begin(u) \/ Step(u)
  PROVE  pc'[t] = pc[t]
<1>1. pc \in [Threads -> Points]
  BY DEF IInv, TypeOK
<1>2. CASE Begin(u)
  BY <1>1, <1>2 DEF Begin, New, Dispatch, Call, Delete, Enter, Goto, threadVars
<1>3. CASE NewBuffer(u) \/ NewEncoder(u) \/ NewFails(u) \/ Unwind(u) \/ Acquire(u)
  BY <1>1, <1>3 DEF NewBuffer, NewEncoder, NewFails, Unwind, Acquire, Goto
<1>4. CASE Reject(u) \/ Accept(u) \/ Encode(u) \/ CommitDiscarded(u) \/ CommitFirst(u)
  BY <1>1, <1>4 DEF Reject, Accept, Encode, CommitDiscarded, CommitFirst, Return, Goto
<1>5. CASE CommitAgain(u) \/ Submit(u)
  BY <1>1, <1>5 DEF CommitAgain, Submit, AfterCommit, Return, Goto
<1>6. CASE \/ Await(u) \/ Finish(u) \/ DiscardClosed(u) \/ DiscardOpen(u)
           \/ Drop(u) \/ ReadTime(u)
  BY <1>1, <1>6 DEF Await, Finish, DiscardClosed, DiscardOpen, Drop, ReadTime, Return, Goto
<1>7. QED
  BY <1>2, <1>3, <1>4, <1>5, <1>6 DEF Step

\* No caller gets past commit_locked() while the command buffer is still being encoded,
\* the one that only found the flag up included.
THEOREM CommitsAreSubmitted == Spec => CommitSubmits
<1>1. ASSUME IInv, [Next]_vars, NEW t \in Threads, op[t] \in {"commit", "wait"},
             pc[t] \in {"body", "submit"}, pc'[t] \notin {"body", "submit"}
      PROVE  metal'[bat[t]] # "encoding"
  <2> DEFINE b == bat[t]
  <2>1. /\ b \in Batches /\ ThreadOK(t) /\ BatchOK(b) /\ obj[b] = "live"
        /\ mutex[b] = t /\ metal \in [Batches -> Status]
    BY <1>1, InsideACall DEF IInv, ThreadOK, TypeOK, Building, Critical
  <2>2. CommitDiscarded(t) \/ CommitAgain(t) \/ Submit(t)
    <3>1. ASSUME NEW u \in Threads, Begin(u) \/ Step(u) PROVE u = t
      BY <1>1, <3>1, OthersStay
    <3>2. ~Begin(t)
      BY <1>1 DEF Begin, New, Dispatch, Call, Delete, Enter
    <3>3. ~CommitFirst(t)
      BY <1>1 DEF CommitFirst, Goto, IInv, TypeOK
    <3>4. ASSUME Step(t) PROVE CommitDiscarded(t) \/ CommitAgain(t) \/ Submit(t)
      BY <1>1, <3>3, <3>4
      DEF Step, NewBuffer, NewEncoder, NewFails, Unwind, Acquire, Reject, Accept, Encode,
          Await, Finish, DiscardClosed, DiscardOpen, Drop, ReadTime, Body
    <3>5. ~(UNCHANGED vars) /\ ~(\E c \in Batches : GpuFinish(c))
      BY <1>1 DEF vars, GpuFinish, threadVars
    <3>6. QED
      BY <1>1, <3>1, <3>2, <3>4, <3>5 DEF Next
  <2>3. CASE Submit(t)
    BY <2>1, <2>3 DEF Submit
  <2>4. CASE CommitDiscarded(t) \/ CommitAgain(t)
    <3>1. pc[t] = "body" /\ Closed(b) /\ metal' = metal
      BY <2>4 DEF CommitDiscarded, CommitAgain, Body, Closed, metalVars
    <3>2. ~At(b, "submit") /\ ~At(b, "drop")
      BY <1>1, <2>1, <3>1 DEF At, IInv, ThreadOK, Critical
    <3>3. QED
      BY <2>1, <3>1, <3>2 DEF BatchOK, Closed, Finished
  <2>5. QED
    BY <2>2, <2>3, <2>4
<1>2. ASSUME IInv, [Next]_vars
      PROVE  [\A t \in Threads :
                /\ op[t] \in {"commit", "wait"}
                /\ pc[t] \in {"body", "submit"} /\ pc'[t] \notin {"body", "submit"}
                => metal'[bat[t]] # "encoding"]_vars
  BY <1>1, <1>2
<1>3. QED
  BY <1>2, Invariance, PTL DEF Spec, CommitSubmits

\* Every wait() that gets as far as its second critical section reports what the
\* GPU made of the batch, after it is finished, and leaves gpu_time_ set.
THEOREM WaitIsHonest == Spec => WaitVerdict
<1>1. ASSUME IInv, [Next]_vars, NEW t \in Threads, pc[t] = "finish", pc'[t] # "finish"
      PROVE  LET b == bat[t] IN
             /\ metal[b] \in Finished /\ gpuTime'[b] = metal[b]
             /\ heard'[b] = {IF metal[b] = "error" THEN "fault" ELSE "ok"}
  <2> DEFINE b == bat[t]
  <2>1. Finish(t)
    <3>1. ASSUME NEW u \in Threads, Begin(u) \/ Step(u) PROVE u = t
      BY <1>1, <3>1, OthersStay
    <3>2. ~Begin(t)
      BY <1>1 DEF Begin, New, Dispatch, Call, Delete, Enter
    <3>3. ASSUME Step(t) PROVE Finish(t)
      BY <1>1, <3>3
      DEF Step, NewBuffer, NewEncoder, NewFails, Unwind, Acquire, Reject, Accept, Encode,
          CommitDiscarded, CommitAgain, CommitFirst, Submit, Await, DiscardClosed,
          DiscardOpen, Drop, ReadTime, Body
    <3>4. ~(UNCHANGED vars) /\ ~(\E c \in Batches : GpuFinish(c))
      BY <1>1 DEF vars, GpuFinish, threadVars
    <3>5. QED
      BY <1>1, <3>1, <3>2, <3>3, <3>4 DEF Next
  <2>2. b \in Batches /\ metal[b] \in Finished /\ BatchOK(b)
    BY <1>1, InsideACall DEF IInv, ThreadOK
  <2>3. gpuTime'[b] = metal[b]
    <3>1. gpuTime'[b] = IF gpuTime[b] = "unset" THEN metal[b] ELSE gpuTime[b]
      BY <1>1, <2>1, <2>2 DEF Finish, IInv, TypeOK
    <3>2. QED
      BY <2>2, <3>1 DEF BatchOK
  <2>4. heard'[b] = {IF metal[b] = "error" THEN "fault" ELSE "ok"}
    <3>1. heard'[b] = heard[b] \cup {IF metal[b] = "error" THEN "fault" ELSE "ok"}
      BY <1>1, <2>1, <2>2 DEF Finish, IInv, TypeOK
    <3>2. CASE heard[b] = {}
      BY <3>1, <3>2
    <3>3. CASE heard[b] # {}
      BY <2>2, <3>1, <3>3 DEF BatchOK
    <3>4. QED
      BY <3>2, <3>3
  <2>5. QED
    BY <2>2, <2>3, <2>4
<1>2. ASSUME IInv, [Next]_vars
      PROVE  [\A t \in Threads : pc[t] = "finish" /\ pc'[t] # "finish" =>
                LET b == bat[t] IN
                /\ metal[b] \in Finished /\ gpuTime'[b] = metal[b]
                /\ heard'[b] = {IF metal[b] = "error" THEN "fault" ELSE "ok"}]_vars
  BY <1>1, <1>2
<1>3. QED
  BY <1>2, Invariance, PTL DEF Spec, WaitVerdict

-----------------------------------------------------------------------------
(* The batch implements BatchSpec. *)

specVars == <<metal, accepted, heard>>

\* The actions that BatchSpec does not see.
LEMMA HiddenSteps ==
  ASSUME NEW t \in Threads,
         \/ Begin(t) /\ ~\E b \in Batches : Delete(t, b)
         \/ Acquire(t) \/ Reject(t) \/ Accept(t) \/ CommitDiscarded(t) \/ CommitAgain(t)
         \/ CommitFirst(t) \/ Await(t) \/ DiscardClosed(t) \/ DiscardOpen(t) \/ ReadTime(t)
  PROVE  UNCHANGED specVars
BY DEF Begin, New, Dispatch, Call, Acquire, Reject, Accept, CommitDiscarded, CommitAgain,
    CommitFirst, Await, DiscardClosed, DiscardOpen, ReadTime, specVars, metalVars, history

\* Letting go of a command buffer drops the batch while it is being encoded, and
\* is nothing to BatchSpec otherwise.
LEMMA ReleaseStep ==
  ASSUME IInv, NEW b \in Batches, metal' = [metal EXCEPT ![b] = Released(b)],
         UNCHANGED <<accepted, heard>>
  PROVE  Abstract!SpecNext \/ UNCHANGED specVars
<1>1. CASE metal[b] = "encoding"
  BY <1>1 DEF Released, Abstract!SpecNext, Abstract!Drop, Abstract!Become
<1>2. CASE metal[b] # "encoding"
  BY <1>2 DEF Released, IInv, TypeOK, specVars
<1>3. QED
  BY <1>1, <1>2

LEMMA VisibleSteps ==
  ASSUME IInv, NEW t \in Threads,
         \/ \E b \in Batches : Delete(t, b)
         \/ NewBuffer(t) \/ NewEncoder(t) \/ NewFails(t) \/ Unwind(t)
         \/ Encode(t) \/ Submit(t) \/ Finish(t) \/ Drop(t)
  PROVE  Abstract!SpecNext \/ UNCHANGED specVars
<1> DEFINE b == bat[t]
<1>1. ASSUME NEW c \in Batches, Delete(t, c) PROVE Abstract!SpecNext \/ UNCHANGED specVars
  BY <1>1, ReleaseStep DEF Delete, Destructor, history
<1>2. ASSUME NewFails(t) \/ Unwind(t) \/ Drop(t)
      PROVE  Abstract!SpecNext \/ UNCHANGED specVars
  BY <1>2, InsideACall, ReleaseStep DEF NewFails, Unwind, Destructor, Drop, history
<1>3. ASSUME NewEncoder(t) PROVE UNCHANGED specVars
  BY <1>3 DEF NewEncoder, specVars, history
<1>4. ASSUME NewBuffer(t) PROVE Abstract!Create(b) /\ b \in Batches
  <2>1. b \in Batches /\ metal[b] = "none"
    BY <1>4, InsideACall DEF NewBuffer, IInv, ThreadOK
  <2>2. InFlight = Abstract!Holding
    BY DEF InFlight, Abstract!Holding
  <2>3. Cardinality(Abstract!Holding) < QueueLimit
    BY <1>4, <2>2 DEF NewBuffer
  <2>4. Abstract!Become(b, "none", "encoding")
    BY <1>4, <2>1 DEF NewBuffer, history, Abstract!Become
  <2>5. QED
    BY <2>1, <2>3, <2>4 DEF Abstract!Create, Abstract!Cardinality, Cardinality
<1>5. ASSUME Encode(t) PROVE Abstract!Add(b, arg[t]) /\ b \in Batches /\ arg[t] \in Items
  <2>1. b \in Batches /\ arg[t] \in Items
    BY <1>5, InsideACall DEF Encode, IInv, TypeOK
  <2>2. obj[b] = "live" /\ ~Closed(b)
    BY <1>5 DEF Encode, IInv, ThreadOK, Building
  <2>3. metal[b] = "encoding"
    BY <2>1, <2>2 DEF IInv, BatchOK, Closed, Held
  <2>4. QED
    BY <1>5, <2>1, <2>3 DEF Encode, Abstract!Add
<1>6. ASSUME Submit(t) PROVE Abstract!Submit(b) /\ b \in Batches
  BY <1>6, InsideACall
  DEF Submit, IInv, ThreadOK, history, Abstract!Submit, Abstract!Become
<1>7. ASSUME Finish(t) PROVE Abstract!Report(b) /\ b \in Batches
  BY <1>7, InsideACall
  DEF Finish, IInv, ThreadOK, Finished, metalVars, Abstract!Report
<1>8. QED
  BY <1>1, <1>2, <1>3, <1>4, <1>5, <1>6, <1>7 DEF Abstract!SpecNext

\* CommandBatch keeps every promise of BatchSpec: a step maps to a step or a stutter.
THEOREM Implementation == Spec => ImplementsBatchSpec
<1>1. Init => Abstract!SpecInit
  BY DEF Init, Abstract!SpecInit
<1>2. ASSUME IInv, [Next]_vars PROVE [Abstract!SpecNext]_specVars
  <2>1. ASSUME NEW b \in Batches, GpuFinish(b) PROVE Abstract!SpecNext
    BY <2>1
    DEF GpuFinish, Finished, history, Abstract!SpecNext, Abstract!Complete, Abstract!Become
  <2>2. ASSUME NEW t \in Threads, Begin(t) \/ Step(t) PROVE [Abstract!SpecNext]_specVars
    BY <1>2, <2>2, HiddenSteps, VisibleSteps DEF Step
  <2>3. ASSUME UNCHANGED vars PROVE UNCHANGED specVars
    BY <2>3 DEF vars, metalVars, history, specVars
  <2>4. QED
    BY <1>2, <2>1, <2>2, <2>3 DEF Next
<1>3. QED
  BY <1>1, <1>2, Invariance, PTL
  DEF Spec, ImplementsBatchSpec, Abstract!AbstractSpec, Abstract!specVars, specVars
=============================================================================
