---------------------------- MODULE PyBatchProofs ----------------------------
(***************************************************************************)
(* PyBatch keeps what the GPU uses alive, and nothing longer than a wait(),*)
(* for any number of threads, batches, objects and calls, with or without  *)
(* an interpreter lock.                                                    *)
(*                                                                         *)
(* IInv says what a thread may rely on at each point of a call (ThreadOK), *)
(* who holds the objects of a batch (BatchOK), and that the batch of a     *)
(* run(), and one that is yet to be created, is known to one thread only   *)
(* (Exclusive).                                                            *)
(***************************************************************************)
EXTENDS PyBatch, TLAPS

Open == {"encoding", "committed"}

\* work is a sequence of what add() was given.
Types == TypeOK /\ work \in [Batches -> Seq(Launches \cup {{}})]

Exclusive == \A t, u \in Threads :
  t # u /\ bat[t] \in Batches /\ bat[u] = bat[t] => op[t] # "run" /\ state[bat[t]] # "none"

ThreadOK(t) ==
  /\ pc[t] = "idle" => bat[t] = NoBatch
  /\ pc[t] # "idle" => bat[t] \in Batches /\ op[t] \in Ops
  /\ pc[t] \in {"run", "creating", "encode"} /\ op[t] \in {"add", "run"} => frame[t] \in Launches
  /\ pc[t] = "run" => (op[t] \in Makes <=> state[bat[t]] = "none")
  /\ pc[t] = "creating" => op[t] \in Makes /\ state[bat[t]] = "none"
  /\ pc[t] \in {"encode", "submit"} => op[t] = "run"
  /\ pc[t] = "blocked" => op[t] \in {"wait", "run"}
  /\ pc[t] = "pin" => op[t] = "add" /\ kmutex[bat[t]] = t /\ state[bat[t]] # "none"
  /\ pc[t] \in {"reacquire", "swap"} => op[t] = "wait" /\ state[bat[t]] = "completed"
  /\ pc[t] = "return" => op[t] \in Makes \/ state[bat[t]] # "none"
  /\ pc[t] = "return" /\ op[t] = "run" => state[bat[t]] \notin Open
  /\ pc[t] = "decref" => op[t] # "new"
                         /\ (op[t] = "run" => gone[bat[t]] \/ state[bat[t]] = "none")

\* Some thread is in a call on b, at one of the points, by one of the operations.
At(b, points) == \E t \in Threads : bat[t] = b /\ pc[t] \in points
Doing(b, o)   == \E t \in Threads : bat[t] = b /\ op[t] = o

\* What is pinned, about to be pinned, or held by the frame of run().
Held(b) == pins[b] \cup
  UNION {frame[t] : t \in {u \in Threads : bat[u] = b /\ (pc[u] = "pin" \/ op[u] = "run")}}

\* Who submits a batch waits for it, or it was the program's own commit(); so a batch that
\* is gone is done, or it was such a commit.
Submitted(b) ==
  /\ state[b] = "committed" => b \in sent \/ At(b, {"blocked"})
  /\ gone[b] => state[b] \notin {"none", "encoding"} /\ (state[b] = "committed" => b \in sent)

BatchOK(b) ==
  /\ Submitted(b)
  /\ state[b] = "none" => pins[b] = {} /\ work[b] = << >> /\ told[b] = {} /\ body[b] = NoThread
  /\ Doing(b, "run") => body[b] = NoThread /\ pins[b] = {}
  /\ "ok" \in told[b] => /\ state[b] = "completed"
                         /\ At(b, {"reacquire", "swap"}) \/ (pins[b] = {} /\ ~At(b, {"pin"}))
  /\ ~gone[b] /\ state[b] \in Open => \A i \in 1..Len(work[b]) : work[b][i] \subseteq Held(b)

IInv ==
  /\ Types /\ Exclusive
  /\ \A t \in Threads : ThreadOK(t)
  /\ \A b \in Batches : BatchOK(b)

-----------------------------------------------------------------------------
(* Steps of one thread on one batch *)

\* Only thread t moves.
Moves(t) == \A u \in Threads \ {t} :
  pc'[u] = pc[u] /\ op'[u] = op[u] /\ bat'[u] = bat[u] /\ frame'[u] = frame[u]

\* Nothing that belongs to c changes.
SameBatch(c) ==
  /\ state'[c] = state[c] /\ work'[c] = work[c] /\ told'[c] = told[c] /\ pins'[c] = pins[c]
  /\ kmutex'[c] = kmutex[c] /\ gone'[c] = gone[c] /\ body'[c] = body[c]
  /\ c \in sent' <=> c \in sent

\* How the state of a batch may change under the feet of the other threads.
Progress(b) ==
  /\ state[b] # "none" => state'[b] # "none"
  /\ state[b] = "completed" => state'[b] = "completed"
  /\ state[b] = "committed" => state'[b] # "encoding"
  /\ state[b] # "none" /\ state[b] \notin Open => state'[b] \notin Open
  /\ gone[b] => gone'[b]

\* The batch keeps BatchOK when it is given no work and no verdict, nothing is pinned or
\* unpinned, and those who hold its objects go on holding them.
LEMMA BatchKept ==
  ASSUME NEW b \in Batches, BatchOK(b), Progress(b),
         told'[b] = told[b], pins'[b] = pins[b], work'[b] = work[b], Submitted(b)',
         body'[b] = body[b] \/ (state'[b] # "none" /\ ~Doing(b, "run")),
         state'[b] = "none" => state[b] = "none",
         Doing(b, "run")' => Doing(b, "run"),
         At(b, {"reacquire", "swap"}) => At(b, {"reacquire", "swap"})',
         At(b, {"pin"})' => At(b, {"pin"}),
         ~gone'[b] /\ state'[b] \in Open /\ work[b] # << >> =>
           state[b] \in Open /\ Held(b) \subseteq Held(b)'
  PROVE  BatchOK(b)'
<1>1. state'[b] = "none" =>
        pins'[b] = {} /\ work'[b] = << >> /\ told'[b] = {} /\ body'[b] = NoThread
  BY DEF BatchOK
<1>2. Doing(b, "run")' => body'[b] = NoThread /\ pins'[b] = {}
  BY DEF BatchOK
<1>3. "ok" \in told'[b] =>
        /\ state'[b] = "completed"
        /\ At(b, {"reacquire", "swap"})' \/ (pins'[b] = {} /\ ~At(b, {"pin"})')
  BY DEF BatchOK, Progress
<1>4. ASSUME ~gone'[b], state'[b] \in Open, NEW i \in 1..Len(work'[b])
      PROVE  work'[b][i] \subseteq Held(b)'
  <2>1. work[b] # << >>
    BY <1>4
  <2>2. ~gone[b] /\ state[b] \in Open /\ Held(b) \subseteq Held(b)'
    BY <1>4, <2>1 DEF Progress
  <2>3. work[b][i] \subseteq Held(b)
    BY <1>4, <2>2 DEF BatchOK
  <2>4. QED
    BY <2>2, <2>3
<1>5. QED
  BY <1>1, <1>2, <1>3, <1>4 DEF BatchOK

\* A batch that t does not submit, unless by commit() or to wait for it.
LEMMA SubmittedKept ==
  ASSUME NEW t \in Threads, NEW b \in Batches, Submitted(b), Progress(b), Moves(t),
         b \in sent => b \in sent',
         gone'[b] => gone[b] \/ state'[b] \notin Open \cup {"none"},
         state'[b] = "committed" => \/ b \in sent'
                                    \/ bat'[t] = b /\ pc'[t] = "blocked"
                                    \/ state[b] = "committed" /\ pc[t] # "blocked"
  PROVE  Submitted(b)'
<1>1. ASSUME state'[b] = "committed", b \notin sent' PROVE At(b, {"blocked"})'
  <2>1. CASE bat'[t] = b /\ pc'[t] = "blocked"
    BY <2>1 DEF At
  <2>2. CASE state[b] = "committed" /\ pc[t] # "blocked"
    <3>1. PICK u \in Threads : bat[u] = b /\ pc[u] = "blocked"
      BY <1>1, <2>2 DEF Submitted, At
    <3>2. bat'[u] = b /\ pc'[u] = "blocked"
      BY <2>2, <3>1 DEF Moves
    <3>3. QED
      BY <3>2 DEF At
  <2>3. QED
    BY <1>1, <2>1, <2>2
<1>2. gone'[b] => state'[b] \notin {"none", "encoding"} /\ (state'[b] = "committed" => b \in sent')
  BY DEF Submitted, Progress, Open
<1>3. QED
  BY <1>1, <1>2 DEF Submitted

LEMMA OtherBatch ==
  ASSUME NEW t \in Threads, NEW c \in Batches, BatchOK(c), bat[t] # c, bat'[t] # c,
         Moves(t), SameBatch(c)
  PROVE  BatchOK(c)'
<1>1. \A o : Doing(c, o)' <=> Doing(c, o)
  BY DEF Doing, Moves
<1>2. \A points : At(c, points)' <=> At(c, points)
  BY DEF At, Moves
<1>3. Held(c)' = Held(c)
  <2>1. \A u \in Threads : bat'[u] = c <=> bat[u] = c
    BY DEF Moves
  <2>2. \A u \in Threads : bat[u] = c => pc'[u] = pc[u] /\ op'[u] = op[u] /\ frame'[u] = frame[u]
    BY DEF Moves
  <2>3. {u \in Threads : bat'[u] = c /\ (pc'[u] = "pin" \/ op'[u] = "run")}
          = {u \in Threads : bat[u] = c /\ (pc[u] = "pin" \/ op[u] = "run")}
    BY <2>1, <2>2
  <2>4. QED
    BY <2>2, <2>3 DEF Held, SameBatch
<1>4. Progress(c)
  BY DEF SameBatch, Progress
<1>5. Submitted(c)'
  BY <1>2 DEF SameBatch, BatchOK, Submitted
<1>6. QED
  BY <1>1, <1>2, <1>3, <1>4, <1>5, BatchKept DEF SameBatch, BatchOK

\* A step inside a call, on the batch of the call.
LEMMA StepInv ==
  ASSUME IInv, NEW t \in Threads, NEW b \in Batches, bat[t] = b,
         Types', Moves(t), \A c \in Batches \ {b} : SameBatch(c), Progress(b),
         bat'[t] = NoBatch \/ (bat'[t] = b /\ op'[t] = op[t]),
         \A u \in Threads \ {t} : kmutex[b] = u => kmutex'[b] = u,
         ThreadOK(t)', BatchOK(b)'
  PROVE  IInv'
<1>1. \A c \in Batches \ {b} : BatchOK(c)'
  BY PyAssumption, OtherBatch DEF IInv
<1>2. \A u \in Threads \ {t} : bat[u] = b => state[b] # "none" /\ op[u] # "run" /\ op[t] # "run"
  BY DEF IInv, Exclusive
<1>3. ASSUME NEW u \in Threads \ {t} PROVE ThreadOK(u)'
  <2>1. ThreadOK(u)
    BY DEF IInv
  <2>2. /\ pc'[u] = pc[u] /\ op'[u] = op[u] /\ bat'[u] = bat[u] /\ frame'[u] = frame[u]
    BY DEF Moves
  <2>3. CASE bat[u] = b
    BY <1>2, <2>1, <2>2, <2>3 DEF ThreadOK, Progress
  <2>4. CASE bat[u] # b /\ bat[u] \in Batches
    BY <2>1, <2>2, <2>4 DEF ThreadOK, SameBatch
  <2>5. CASE bat[u] \notin Batches
    BY <2>1, <2>2, <2>5 DEF ThreadOK
  <2>6. QED
    BY <2>3, <2>4, <2>5
<1>4. Exclusive'
  <2>1. ASSUME NEW u \in Threads, NEW w \in Threads, u # w, bat'[u] \in Batches, bat'[w] = bat'[u]
        PROVE  op'[u] # "run" /\ state'[bat'[u]] # "none"
    <3>1. /\ bat'[u] = bat[u] /\ op'[u] = op[u]
          /\ bat'[w] = bat[w] /\ op'[w] = op[w]
      BY <2>1, PyAssumption DEF Moves
    <3>2. op[u] # "run" /\ state[bat[u]] # "none"
      BY <2>1, <3>1 DEF IInv, Exclusive
    <3>3. QED
      BY <2>1, <3>1, <3>2 DEF SameBatch, Progress
  <2>2. QED
    BY <2>1 DEF Exclusive
<1>5. QED
  BY <1>1, <1>3, <1>4 DEF IInv

\* The threads on b after a step of t, one of them.
LEMMA StaysOn ==
  ASSUME NEW t \in Threads, NEW b \in Batches, bat[t] = b, Moves(t),
         bat'[t] = b, op'[t] = op[t]
  PROVE  /\ \A o : Doing(b, o)' <=> Doing(b, o)
         /\ pc[t] \notin {"reacquire", "swap"} \/ pc'[t] = "swap" =>
              (At(b, {"reacquire", "swap"}) => At(b, {"reacquire", "swap"})')
         /\ pc'[t] # "pin" => (At(b, {"pin"})' => At(b, {"pin"}))
         /\ pc[t] # "pin" /\ frame'[t] = frame[t] /\ pins[b] \subseteq pins'[b] =>
              Held(b) \subseteq Held(b)'
<1>1. \A u \in Threads : bat'[u] = bat[u] /\ op'[u] = op[u]
  BY DEF Moves
<1>2. \A o : Doing(b, o)' <=> Doing(b, o)
  BY <1>1 DEF Doing
<1>3. pc[t] \notin {"reacquire", "swap"} \/ pc'[t] = "swap" =>
        (At(b, {"reacquire", "swap"}) => At(b, {"reacquire", "swap"})')
  BY <1>1 DEF At, Moves
<1>4. pc'[t] # "pin" => (At(b, {"pin"})' => At(b, {"pin"}))
  BY <1>1 DEF At, Moves
<1>5. ASSUME pc[t] # "pin", frame'[t] = frame[t], pins[b] \subseteq pins'[b]
      PROVE  Held(b) \subseteq Held(b)'
  <2>1. ASSUME NEW u \in Threads, bat[u] = b, pc[u] = "pin" \/ op[u] = "run"
        PROVE  bat'[u] = b /\ (pc'[u] = "pin" \/ op'[u] = "run") /\ frame'[u] = frame[u]
    BY <1>1, <1>5, <2>1 DEF Moves
  <2>2. QED
    BY <1>5, <2>1 DEF Held
<1>6. QED
  BY <1>2, <1>3, <1>4, <1>5

LEMMA LeavesIt ==
  ASSUME NEW t \in Threads, NEW b \in Batches, bat[t] = b, Moves(t),
         bat'[t] = NoBatch, pc[t] \notin {"reacquire", "swap", "pin"}
  PROVE  /\ \A o : Doing(b, o)' => Doing(b, o)
         /\ At(b, {"reacquire", "swap"}) => At(b, {"reacquire", "swap"})'
         /\ At(b, {"pin"})' => At(b, {"pin"})
         /\ op[t] # "run" /\ pins[b] \subseteq pins'[b] => Held(b) \subseteq Held(b)'
<1>1. bat'[t] # b
  BY PyAssumption
<1>2. \A u \in Threads \ {t} : bat'[u] = bat[u] /\ op'[u] = op[u] /\ pc'[u] = pc[u]
  BY DEF Moves
<1>3. \A o : Doing(b, o)' => Doing(b, o)
  BY <1>1, <1>2 DEF Doing
<1>4. /\ At(b, {"reacquire", "swap"}) => At(b, {"reacquire", "swap"})'
      /\ At(b, {"pin"})' => At(b, {"pin"})
  BY <1>1, <1>2 DEF At
<1>5. ASSUME op[t] # "run", pins[b] \subseteq pins'[b] PROVE Held(b) \subseteq Held(b)'
  <2>1. ASSUME NEW u \in Threads, bat[u] = b, pc[u] = "pin" \/ op[u] = "run"
        PROVE  bat'[u] = b /\ (pc'[u] = "pin" \/ op'[u] = "run") /\ frame'[u] = frame[u]
    BY <1>2, <1>5, <2>1 DEF Moves
  <2>2. QED
    BY <1>5, <2>1 DEF Held
<1>6. QED
  BY <1>3, <1>4, <1>5

-----------------------------------------------------------------------------
(* The steps *)

LEMMA InACall ==
  ASSUME IInv, NEW t \in Threads, pc[t] # "idle"
  PROVE  bat[t] \in Batches /\ op[t] \in Ops /\ ThreadOK(t) /\ BatchOK(bat[t])
BY DEF IInv, ThreadOK

\* A step of t on b that changes no more than the state of b, or ends b.
Plain(t, b) ==
  /\ Moves(t) /\ (\A c \in Batches \ {b} : SameBatch(c)) /\ Progress(b)
  /\ told'[b] = told[b] /\ pins'[b] = pins[b] /\ work'[b] = work[b]
  /\ body'[b] = body[b] \/ (state'[b] # "none" /\ ~Doing(b, "run"))
  /\ state'[b] = "none" => state[b] = "none"
  /\ state'[b] \in Open => state[b] \in Open \/ state[b] = "none"
  /\ kmutex' = kmutex /\ (b \in sent => b \in sent')
  /\ gone'[b] => gone[b] \/ state'[b] \notin Open \cup {"none"}
  /\ state'[b] = "committed" => \/ b \in sent'
                                \/ bat'[t] = b /\ pc'[t] = "blocked"
                                \/ state[b] = "committed" /\ pc[t] # "blocked"

\* It goes on with the call, or ends it.
GoesOn(t, b) ==
  /\ bat'[t] = b /\ op'[t] = op[t] /\ frame'[t] = frame[t] /\ pc[t] # "pin" /\ pc'[t] # "pin"
  /\ pc[t] \notin {"reacquire", "swap"} \/ pc'[t] = "swap"
Ends(t, b) ==
  /\ bat'[t] = NoBatch /\ pc[t] \notin {"reacquire", "swap", "pin"}
  /\ op[t] = "run" => gone[b] \/ state'[b] \notin Open

LEMMA PlainStep ==
  ASSUME IInv, NEW t \in Threads, NEW b \in Batches, bat[t] = b, BatchOK(b), Plain(t, b),
         GoesOn(t, b) \/ Ends(t, b), Types', ThreadOK(t)'
  PROVE  IInv'
<1>1. /\ Moves(t) /\ Progress(b) /\ pins'[b] = pins[b] /\ Submitted(b)'
      /\ state'[b] \in Open /\ work[b] # << >> => state[b] \in Open
  BY SubmittedKept DEF Plain, BatchOK
<1>2. CASE GoesOn(t, b)
  <2>1. /\ Doing(b, "run")' <=> Doing(b, "run")
        /\ At(b, {"reacquire", "swap"}) => At(b, {"reacquire", "swap"})'
        /\ At(b, {"pin"})' => At(b, {"pin"})
        /\ Held(b) \subseteq Held(b)'
    BY <1>1, <1>2, StaysOn DEF GoesOn
  <2>2. BatchOK(b)'
    BY <1>1, <2>1, BatchKept DEF Plain
  <2>3. QED
    BY <1>2, <2>2, StepInv DEF Plain, GoesOn
<1>3. CASE Ends(t, b)
  <2>1. /\ Doing(b, "run")' => Doing(b, "run")
        /\ At(b, {"reacquire", "swap"}) => At(b, {"reacquire", "swap"})'
        /\ At(b, {"pin"})' => At(b, {"pin"})
        /\ op[t] # "run" => Held(b) \subseteq Held(b)'
    BY <1>1, <1>3, LeavesIt DEF Ends
  <2>2. ~gone'[b] /\ state'[b] \in Open /\ work[b] # << >> =>
          state[b] \in Open /\ Held(b) \subseteq Held(b)'
    BY <1>1, <1>3, <2>1 DEF Ends, Plain, Progress
  <2>3. BatchOK(b)'
    BY <1>1, <2>1, <2>2, BatchKept DEF Plain
  <2>4. QED
    BY <1>3, <2>3, StepInv DEF Plain, Ends
<1>4. QED
  BY <1>2, <1>3

LEMMA InitInv == ASSUME Init PROVE IInv
<1>1. Types
  BY PyAssumption DEF Init, Types, TypeOK, Batch!SpecInit, Points, Ops, Makes, Finished
<1>2. Exclusive /\ \A t \in Threads : ThreadOK(t)
  BY PyAssumption DEF Init, Exclusive, ThreadOK
<1>3. ASSUME NEW b \in Batches PROVE BatchOK(b)
  <2>1. \A o : ~Doing(b, o)
    BY PyAssumption DEF Init, Doing
  <2>2. QED
    BY <2>1 DEF Init, Batch!SpecInit, BatchOK, Submitted, Open
<1>4. QED
  BY <1>1, <1>2, <1>3 DEF IInv

LEMMA ReacquireInv ==
  ASSUME IInv, NEW t \in Threads, Reacquire(t)
  PROVE  IInv'
<1>1. PICK b \in Batches : b = bat[t] /\ ThreadOK(t) /\ BatchOK(b) /\ op[t] \in Ops
  BY InACall DEF Reacquire
<1>2. Types'
  BY <1>1, PyAssumption
  DEF IInv, Types, TypeOK, Points, Ops, Makes, Reacquire, Goto, TakesGil, batchVars,
      withVars
<1>3. Plain(t, b)
  BY <1>1
  DEF IInv, Types, TypeOK, Plain, Moves, SameBatch, Progress, Open, Finished, Reacquire,
      Goto, TakesGil, batchVars, withVars
<1>4. ThreadOK(t)'
  BY <1>1, PyAssumption
  DEF IInv, Types, TypeOK, ThreadOK, Open, Ops, Makes, Finished, Reacquire, Goto,
      TakesGil, batchVars, withVars
<1>5. GoesOn(t, b)
  BY <1>1
  DEF IInv, Types, TypeOK, ThreadOK, Open, Ops, Makes, GoesOn, Reacquire, Goto, TakesGil,
      batchVars, withVars
<1>6. QED
  BY <1>1, <1>2, <1>3, <1>4, <1>5, PlainStep

LEMMA ReturnInv ==
  ASSUME IInv, NEW t \in Threads, Return(t)
  PROVE  IInv'
<1>1. PICK b \in Batches : b = bat[t] /\ ThreadOK(t) /\ BatchOK(b) /\ op[t] \in Ops
  BY InACall DEF Return
<1>2. Types'
  BY <1>1, PyAssumption
  DEF IInv, Types, TypeOK, Points, Ops, Makes, Return, Goto, ReleaseGil, Leave, batchVars,
      withVars
<1>3. Plain(t, b)
  BY <1>1
  DEF IInv, Types, TypeOK, Plain, Moves, SameBatch, Progress, Open, Finished, Return,
      Goto, ReleaseGil, Leave, batchVars, withVars
<1>4. ThreadOK(t)'
  BY <1>1, PyAssumption
  DEF IInv, Types, TypeOK, ThreadOK, Open, Ops, Makes, Finished, Return, Goto, ReleaseGil,
      Leave, batchVars, withVars
<1>5. Ends(t, b)
  BY <1>1
  DEF IInv, Types, TypeOK, ThreadOK, Open, Ops, Makes, Ends, Return, Goto, ReleaseGil,
      Leave, batchVars, withVars
<1>6. QED
  BY <1>1, <1>2, <1>3, <1>4, <1>5, PlainStep

LEMMA NewInv ==
  ASSUME IInv, NEW t \in Threads, New(t)
  PROVE  IInv'
<1>1. PICK b \in Batches : b = bat[t] /\ ThreadOK(t) /\ BatchOK(b) /\ op[t] \in Ops
  BY InACall DEF New, Runs
<1>2. Types'
  BY <1>1, PyAssumption
  DEF IInv, Types, TypeOK, Points, Ops, Makes, New, Runs, Goto, ReleaseGil, batchVars,
      withVars
<1>3. Plain(t, b)
  BY <1>1
  DEF IInv, Types, TypeOK, Plain, Moves, SameBatch, Progress, Open, Finished, New, Runs,
      Goto, ReleaseGil, batchVars, withVars
<1>4. ThreadOK(t)'
  BY <1>1, PyAssumption
  DEF IInv, Types, TypeOK, ThreadOK, Open, Ops, Makes, Finished, New, Runs, Goto,
      ReleaseGil, batchVars, withVars
<1>5. GoesOn(t, b)
  BY <1>1
  DEF IInv, Types, TypeOK, ThreadOK, Open, Ops, Makes, GoesOn, New, Runs, Goto,
      ReleaseGil, batchVars, withVars
<1>6. QED
  BY <1>1, <1>2, <1>3, <1>4, <1>5, PlainStep

LEMMA CreateInv ==
  ASSUME IInv, NEW t \in Threads, Create(t)
  PROVE  IInv'
<1>1. PICK b \in Batches : b = bat[t] /\ ThreadOK(t) /\ BatchOK(b) /\ op[t] \in Ops
  BY InACall DEF Create
<1>2. Types'
  BY <1>1, PyAssumption
  DEF IInv, Types, TypeOK, Points, Ops, Makes, Create, Batch!Create, Batch!Become, Goto,
      withVars
<1>3. op[t] # "run" => ~Doing(b, "run")
  BY <1>1 DEF Create, Batch!Create, Batch!Become, Doing, IInv, Exclusive
<1>4. Plain(t, b)
  BY <1>1, <1>3
  DEF IInv, Types, TypeOK, Plain, Moves, SameBatch, Progress, Open, Finished, Create,
      Batch!Create, Batch!Become, Goto, withVars
<1>5. ThreadOK(t)'
  BY <1>1, PyAssumption
  DEF IInv, Types, TypeOK, ThreadOK, Open, Ops, Makes, Finished, Create, Batch!Create,
      Batch!Become, Goto, withVars
<1>6. GoesOn(t, b)
  BY <1>1
  DEF IInv, Types, TypeOK, ThreadOK, Open, Ops, Makes, GoesOn, Create, Batch!Create,
      Batch!Become, Goto, withVars
<1>7. QED
  BY <1>1, <1>2, <1>4, <1>5, <1>6, PlainStep

LEMMA CreateFailsInv ==
  ASSUME IInv, NEW t \in Threads, CreateFails(t)
  PROVE  IInv'
<1>1. PICK b \in Batches : b = bat[t] /\ ThreadOK(t) /\ BatchOK(b) /\ op[t] \in Ops
  BY InACall DEF CreateFails
<1>2. Types'
  BY <1>1, PyAssumption
  DEF IInv, Types, TypeOK, Points, Ops, Makes, CreateFails, batchVars, Goto,
      withVars
<1>3. Plain(t, b)
  BY <1>1
  DEF IInv, Types, TypeOK, Plain, Moves, SameBatch, Progress, Open, Finished, CreateFails,
      batchVars, Goto, withVars
<1>4. ThreadOK(t)'
  BY <1>1, PyAssumption
  DEF IInv, Types, TypeOK, ThreadOK, Open, Ops, Makes, Finished, CreateFails, batchVars,
      Goto, withVars
<1>5. GoesOn(t, b)
  BY <1>1
  DEF IInv, Types, TypeOK, ThreadOK, Open, Ops, Makes, GoesOn, CreateFails, batchVars,
      Goto, withVars
<1>6. QED
  BY <1>1, <1>2, <1>3, <1>4, <1>5, PlainStep

LEMMA RunWaitInv ==
  ASSUME IInv, NEW t \in Threads, RunWait(t)
  PROVE  IInv'
<1>1. PICK b \in Batches : b = bat[t] /\ ThreadOK(t) /\ BatchOK(b) /\ op[t] \in Ops
  BY InACall DEF RunWait
<1>2. Types'
  BY <1>1, PyAssumption
  DEF IInv, Types, TypeOK, Points, Ops, Makes, RunWait, Batch!Submit, Batch!Become, Goto,
      withVars
<1>3. Plain(t, b)
  BY <1>1
  DEF IInv, Types, TypeOK, Plain, Moves, SameBatch, Progress, Open, Finished, RunWait,
      Batch!Submit, Batch!Become, Goto, withVars
<1>4. ThreadOK(t)'
  BY <1>1, PyAssumption
  DEF IInv, Types, TypeOK, ThreadOK, Open, Ops, Makes, Finished, RunWait, Batch!Submit,
      Batch!Become, Goto, withVars
<1>5. GoesOn(t, b)
  BY <1>1
  DEF IInv, Types, TypeOK, ThreadOK, Open, Ops, Makes, GoesOn, RunWait, Batch!Submit,
      Batch!Become, Goto, withVars
<1>6. QED
  BY <1>1, <1>2, <1>3, <1>4, <1>5, PlainStep

LEMMA RunReturnInv ==
  ASSUME IInv, NEW t \in Threads, RunReturn(t)
  PROVE  IInv'
<1>1. PICK b \in Batches : b = bat[t] /\ ThreadOK(t) /\ BatchOK(b) /\ op[t] \in Ops
  BY InACall DEF RunReturn
<1>2. Types'
  BY <1>1, PyAssumption
  DEF IInv, Types, TypeOK, Points, Ops, Makes, RunReturn, Goto, TakesGil, batchVars,
      withVars
<1>3. Plain(t, b)
  BY <1>1
  DEF IInv, Types, TypeOK, ThreadOK, Plain, Moves, SameBatch, Progress, Open, Finished, RunReturn,
      Goto, TakesGil, batchVars, withVars
<1>4. ThreadOK(t)'
  BY <1>1, PyAssumption
  DEF IInv, Types, TypeOK, ThreadOK, Open, Ops, Makes, Finished, RunReturn, Goto,
      TakesGil, batchVars, withVars
<1>5. GoesOn(t, b)
  BY <1>1
  DEF IInv, Types, TypeOK, ThreadOK, Open, Ops, Makes, GoesOn, RunReturn, Goto, TakesGil,
      batchVars, withVars
<1>6. QED
  BY <1>1, <1>2, <1>3, <1>4, <1>5, PlainStep

LEMMA AddThrowsInv ==
  ASSUME IInv, NEW t \in Threads, AddThrows(t)
  PROVE  IInv'
<1>1. PICK b \in Batches : b = bat[t] /\ ThreadOK(t) /\ BatchOK(b) /\ op[t] \in Ops
  BY InACall DEF AddThrows, Runs
<1>2. Types'
  BY <1>1, PyAssumption
  DEF IInv, Types, TypeOK, Points, Ops, Makes, AddThrows, Runs, Goto, batchVars, withVars
<1>3. Plain(t, b)
  BY <1>1
  DEF IInv, Types, TypeOK, Plain, Moves, SameBatch, Progress, Open, Finished, AddThrows,
      Runs, Goto, batchVars, withVars
<1>4. ThreadOK(t)'
  BY <1>1, PyAssumption
  DEF IInv, Types, TypeOK, ThreadOK, Open, Ops, Makes, Finished, AddThrows, Runs, Goto,
      batchVars, withVars
<1>5. GoesOn(t, b)
  BY <1>1
  DEF IInv, Types, TypeOK, ThreadOK, Open, Ops, Makes, GoesOn, AddThrows, Runs, Goto,
      batchVars, withVars
<1>6. QED
  BY <1>1, <1>2, <1>3, <1>4, <1>5, PlainStep

LEMMA CommitInv ==
  ASSUME IInv, NEW t \in Threads, Commit(t)
  PROVE  IInv'
<1>1. PICK b \in Batches : b = bat[t] /\ ThreadOK(t) /\ BatchOK(b) /\ op[t] \in Ops
  BY InACall DEF Commit, Runs
<1>2. Types'
  <2>1. /\ state' \in [Batches -> {"none", "encoding", "committed", "dropped"} \cup Finished]
        /\ UNCHANGED <<work, told>>
    BY <1>1 DEF IInv, Types, TypeOK, Commit, SubmitIfOpen, Batch!Submit, Batch!Become, batchVars
  <2>2. /\ pc' \in [Threads -> Points] /\ op' \in [Threads -> Ops \cup {"none"}]
        /\ bat' \in [Threads -> Batches \cup {NoBatch}] /\ frame' \in [Threads -> SUBSET Objects]
        /\ gil' \in Threads \cup {NoThread, Disabled}
        /\ UNCHANGED <<calls, pins, kmutex, gone, body, left, user>> /\ sent' \subseteq Batches
    BY <1>1 DEF IInv, Types, TypeOK, Points, Commit, Runs, Goto, ReleaseGil, withVars
  <2>3. gil' \in Threads => pc'[gil'] \in {"run", "pin", "swap", "decref"}
    BY <1>1, PyAssumption DEF IInv, Types, TypeOK, Commit, Runs, Goto, ReleaseGil, withVars
  <2>4. QED
    BY <2>1, <2>2, <2>3 DEF IInv, Types, TypeOK
<1>3. Plain(t, b)
  BY <1>1
  DEF IInv, Types, TypeOK, Plain, Moves, SameBatch, Progress, Open, Finished, Commit,
      Runs, SubmitIfOpen, Batch!Submit, Batch!Become, batchVars, Goto, ReleaseGil, withVars
<1>4. ThreadOK(t)'
  BY <1>1, PyAssumption
  DEF IInv, Types, TypeOK, ThreadOK, Open, Ops, Makes, Finished, Commit, Runs,
      SubmitIfOpen, Batch!Submit, Batch!Become, batchVars, Goto, ReleaseGil, withVars
<1>5. GoesOn(t, b)
  BY <1>1
  DEF IInv, Types, TypeOK, ThreadOK, Open, Ops, Makes, GoesOn, Commit, Runs, SubmitIfOpen,
      Batch!Submit, Batch!Become, batchVars, Goto, ReleaseGil, withVars
<1>6. QED
  BY <1>1, <1>2, <1>3, <1>4, <1>5, PlainStep

LEMMA WaitInv ==
  ASSUME IInv, NEW t \in Threads, Wait(t)
  PROVE  IInv'
<1>1. PICK b \in Batches : b = bat[t] /\ ThreadOK(t) /\ BatchOK(b) /\ op[t] \in Ops
  BY InACall DEF Wait, Runs
<1>2. Types'
  BY <1>1, PyAssumption
  DEF IInv, Types, TypeOK, Points, Ops, Makes, Wait, Runs, SubmitIfOpen, Batch!Submit,
      Batch!Become, batchVars, Goto, ReleaseGil, withVars
<1>3. Plain(t, b)
  BY <1>1
  DEF IInv, Types, TypeOK, Plain, Moves, SameBatch, Progress, Open, Finished, Wait, Runs,
      SubmitIfOpen, Batch!Submit, Batch!Become, batchVars, Goto, ReleaseGil, withVars
<1>4. ThreadOK(t)'
  BY <1>1, PyAssumption
  DEF IInv, Types, TypeOK, ThreadOK, Open, Ops, Makes, Finished, Wait, Runs, SubmitIfOpen,
      Batch!Submit, Batch!Become, batchVars, Goto, ReleaseGil, withVars
<1>5. GoesOn(t, b)
  BY <1>1
  DEF IInv, Types, TypeOK, ThreadOK, Open, Ops, Makes, GoesOn, Wait, Runs, SubmitIfOpen,
      Batch!Submit, Batch!Become, batchVars, Goto, ReleaseGil, withVars
<1>6. QED
  BY <1>1, <1>2, <1>3, <1>4, <1>5, PlainStep

LEMMA DecrefInv ==
  ASSUME IInv, NEW t \in Threads, Decref(t)
  PROVE  IInv'
<1>1. PICK b \in Batches : b = bat[t] /\ ThreadOK(t) /\ BatchOK(b) /\ op[t] \in Ops
  BY InACall DEF Decref
<1>2. Types'
  BY <1>1, PyAssumption
  DEF IInv, Types, TypeOK, Points, Ops, Makes, Decref, Goto, ReleaseGil, Leave, batchVars,
      withVars
<1>3. Plain(t, b)
  BY <1>1
  DEF IInv, Types, TypeOK, Plain, Moves, SameBatch, Progress, Open, Finished, Decref,
      Goto, ReleaseGil, Leave, batchVars, withVars
<1>4. ThreadOK(t)'
  BY <1>1, PyAssumption
  DEF IInv, Types, TypeOK, ThreadOK, Open, Ops, Makes, Finished, Decref, Goto, ReleaseGil,
      Leave, batchVars, withVars
<1>5. Ends(t, b)
  BY <1>1
  DEF IInv, Types, TypeOK, ThreadOK, Open, Ops, Makes, Ends, Decref, Goto, ReleaseGil,
      Leave, batchVars, withVars
<1>6. QED
  BY <1>1, <1>2, <1>3, <1>4, <1>5, PlainStep

LEMMA DiscardInv ==
  ASSUME IInv, NEW t \in Threads, Discard(t)
  PROVE  IInv'
<1>1. PICK b \in Batches : b = bat[t] /\ ThreadOK(t) /\ BatchOK(b) /\ op[t] \in Ops
  BY InACall DEF Discard, Runs
<1>2. Types'
  <2>1. /\ state' \in [Batches -> {"none", "encoding", "committed", "dropped"} \cup Finished]
        /\ UNCHANGED <<work, told>>
    BY <1>1 DEF IInv, Types, TypeOK, Discard, Batch!Drop, Batch!Become, batchVars
  <2>2. /\ pc' \in [Threads -> Points] /\ op' \in [Threads -> Ops \cup {"none"}]
        /\ bat' \in [Threads -> Batches \cup {NoBatch}] /\ frame' \in [Threads -> SUBSET Objects]
        /\ gil' \in Threads \cup {NoThread, Disabled}
        /\ UNCHANGED <<calls, pins, kmutex, gone, body, left, sent, user>>
    BY <1>1 DEF IInv, Types, TypeOK, Points, Discard, Runs, Goto, ReleaseGil, Leave, withVars
  <2>3. gil' \in Threads => pc'[gil'] \in {"run", "pin", "swap", "decref"}
    BY <1>1, PyAssumption DEF IInv, Types, TypeOK, Discard, Runs, Goto, ReleaseGil, Leave, withVars
  <2>4. QED
    BY <2>1, <2>2, <2>3 DEF IInv, Types, TypeOK
<1>3. Plain(t, b)
  BY <1>1
  DEF IInv, Types, TypeOK, Plain, Moves, SameBatch, Progress, Open, Finished, Discard,
      Runs, Batch!Drop, Batch!Become, batchVars, Goto, ReleaseGil, Leave, withVars
<1>4. ThreadOK(t)'
  BY <1>1, PyAssumption
  DEF IInv, Types, TypeOK, ThreadOK, Open, Ops, Makes, Finished, Discard, Runs,
      Batch!Drop, Batch!Become, batchVars, Goto, ReleaseGil, Leave, withVars
<1>5. Ends(t, b)
  BY <1>1
  DEF IInv, Types, TypeOK, ThreadOK, Open, Ops, Makes, Ends, Discard, Runs, Batch!Drop,
      Batch!Become, batchVars, Goto, ReleaseGil, Leave, withVars
<1>6. QED
  BY <1>1, <1>2, <1>3, <1>4, <1>5, PlainStep

\* The batch keeps BatchOK when it is given work that is held.
LEMMA WorkAdded ==
  ASSUME IInv, NEW b \in Batches, BatchOK(b), NEW l, Batch!Add(b, l),
         l \subseteq Held(b)', Held(b) \subseteq Held(b)',
         pins'[b] = pins[b], body'[b] = body[b], gone' = gone, Doing(b, "run")' => Doing(b, "run")
  PROVE  BatchOK(b)' /\ Progress(b)
<1>1. /\ state[b] = "encoding" /\ state' = state /\ told' = told
      /\ work' = [work EXCEPT ![b] = Append(work[b], l)]
  BY DEF Batch!Add
<1>2. work[b] \in Seq(Launches \cup {{}}) /\ work'[b] = Append(work[b], l)
  BY <1>1 DEF IInv, Types
<1>3. /\ Len(work'[b]) = Len(work[b]) + 1 /\ work'[b][Len(work[b]) + 1] = l
      /\ \A i \in 1..Len(work[b]) : work'[b][i] = work[b][i]
      /\ Len(work[b]) \in Nat
  BY <1>2
<1>4. ASSUME ~gone[b], NEW i \in 1..Len(work'[b]) PROVE work'[b][i] \subseteq Held(b)'
  <2>1. CASE i \in 1..Len(work[b])
    <3>1. work[b][i] \subseteq Held(b)
      BY <1>1, <1>4, <2>1 DEF BatchOK, Open
    <3>2. QED
      BY <1>3, <2>1, <3>1
  <2>2. CASE i \notin 1..Len(work[b])
    <3>1. i = Len(work[b]) + 1
      BY <1>3, <2>2
    <3>2. QED
      BY <1>3, <3>1
  <2>3. QED
    BY <2>1, <2>2
<1>5. QED
  BY <1>1, <1>4 DEF BatchOK, Submitted, Progress, Open

LEMMA AddInv ==
  ASSUME IInv, NEW t \in Threads, Add(t)
  PROVE  IInv'
<1>1. PICK b \in Batches : b = bat[t] /\ ThreadOK(t) /\ BatchOK(b) /\ op[t] \in Ops
  BY InACall DEF Add, Runs
<1>2. /\ pc[t] = "run" /\ op[t] = "add" /\ kmutex[b] = NoThread
      /\ Batch!Add(b, frame[t]) /\ frame[t] \in Launches
  BY <1>1 DEF Add, Runs, ThreadOK
<1>3. Types'
  <2>1. TypeOK'
    BY <1>1, <1>2 DEF IInv, Types, TypeOK, Points, Add, Goto, withVars, Batch!Add
  <2>2. work' \in [Batches -> Seq(Launches \cup {{}})]
    BY <1>1, <1>2 DEF IInv, Types, Batch!Add
  <2>3. QED
    BY <2>1, <2>2 DEF Types
<1>4. /\ Moves(t) /\ (\A c \in Batches \ {b} : SameBatch(c))
      /\ bat' = bat /\ op' = op /\ frame' = frame /\ pins' = pins /\ gone' = gone /\ body' = body
      /\ pc'[t] = "pin" /\ kmutex'[b] = t /\ state' = state /\ sent' = sent
  BY <1>1 DEF IInv, Types, TypeOK, Moves, SameBatch, Add, Goto, withVars, Batch!Add
<1>5. (Doing(b, "run")' => Doing(b, "run")) /\ Held(b) \subseteq Held(b)'
  BY <1>1, <1>2, <1>4, StaysOn
<1>6. frame[t] \subseteq Held(b)'
  BY <1>1, <1>4 DEF Held
<1>7. BatchOK(b)' /\ Progress(b)
  BY <1>1, <1>2, <1>4, <1>5, <1>6, WorkAdded
<1>8. ThreadOK(t)'
  BY <1>1, <1>2, <1>4 DEF ThreadOK, Batch!Add
<1>9. QED
  BY <1>1, <1>2, <1>3, <1>4, <1>7, <1>8, PyAssumption, StepInv

LEMMA RunAddInv ==
  ASSUME IInv, NEW t \in Threads, RunAdd(t)
  PROVE  IInv'
<1>1. PICK b \in Batches : b = bat[t] /\ ThreadOK(t) /\ BatchOK(b) /\ op[t] \in Ops
  BY InACall DEF RunAdd
<1>2. pc[t] = "encode" /\ op[t] = "run" /\ frame[t] \in Launches
  BY <1>1 DEF RunAdd, ThreadOK
<1>3. /\ bat' = bat /\ op' = op /\ frame' = frame /\ Moves(t)
      /\ pins' = pins /\ kmutex' = kmutex /\ gone' = gone /\ body' = body
      /\ pc'[t] \in {"return", "submit"} /\ gil' = gil /\ user' = user /\ calls' = calls
      /\ left' = left /\ sent' = sent /\ pc' \in [Threads -> Points] /\ gil # t
  BY <1>2 DEF IInv, Types, TypeOK, Moves, RunAdd, Goto, withVars, Points
<1>4. CASE Batch!Drop(b) /\ pc'[t] = "return"
  <2>1. Types'
    BY <1>3, <1>4 DEF IInv, Types, TypeOK, Moves, Batch!Drop, Batch!Become
  <2>2. Plain(t, b)
    BY <1>3, <1>4 DEF IInv, Types, TypeOK, Plain, SameBatch, Progress, Open,
       Batch!Drop, Batch!Become
  <2>3. ThreadOK(t)'
    BY <1>1, <1>2, <1>3, <1>4 DEF IInv, Types, TypeOK, ThreadOK, Open, Batch!Drop, Batch!Become
  <2>4. GoesOn(t, b)
    BY <1>1, <1>2, <1>3, <1>4 DEF GoesOn
  <2>5. QED
    BY <1>1, <2>1, <2>2, <2>3, <2>4, PlainStep
<1>5. CASE Batch!Add(b, frame[t]) /\ pc'[t] = "submit"
  <2>1. Types'
    <3>1. TypeOK'
      BY <1>2, <1>3, <1>5 DEF IInv, Types, TypeOK, Moves, Batch!Add
    <3>2. work' \in [Batches -> Seq(Launches \cup {{}})]
      BY <1>2, <1>5 DEF IInv, Types, Batch!Add
    <3>3. QED
      BY <3>1, <3>2 DEF Types
  <2>2. \A c \in Batches \ {b} : SameBatch(c)
    BY <1>3, <1>5 DEF IInv, Types, SameBatch, Batch!Add
  <2>3. (Doing(b, "run")' => Doing(b, "run")) /\ Held(b) \subseteq Held(b)'
    BY <1>1, <1>2, <1>3, StaysOn
  <2>4. frame[t] \subseteq Held(b)'
    BY <1>1, <1>2, <1>3 DEF Held
  <2>5. BatchOK(b)' /\ Progress(b)
    BY <1>1, <1>3, <1>5, <2>3, <2>4, WorkAdded
  <2>6. ThreadOK(t)'
    BY <1>1, <1>2, <1>3, <1>5 DEF ThreadOK
  <2>7. QED
    BY <1>1, <1>3, <2>1, <2>2, <2>5, <2>6, StepInv
<1>6. QED
  BY <1>1, <1>2, <1>4, <1>5 DEF IInv, Types, TypeOK, RunAdd, Goto

LEMMA BarrierCallInv ==
  ASSUME IInv, NEW t \in Threads, BarrierCall(t)
  PROVE  IInv'
<1>1. PICK b \in Batches : b = bat[t] /\ ThreadOK(t) /\ BatchOK(b) /\ op[t] \in Ops
  BY InACall DEF BarrierCall, Runs
<1>2. /\ pc[t] = "run" /\ op[t] = "barrier"
      /\ pc' = [pc EXCEPT ![t] = "idle"] /\ bat' = [bat EXCEPT ![t] = NoBatch]
      /\ frame' = [frame EXCEPT ![t] = {}] /\ op' = [op EXCEPT ![t] = "none"]
      /\ gil' = (IF gil = t THEN NoThread ELSE gil)
      /\ UNCHANGED <<calls, pins, kmutex, gone, body, left, sent, user>>
      /\ Batch!Add(b, {}) \/ UNCHANGED <<state, work, told>>
  BY <1>1 DEF BarrierCall, Runs, Leave, Goto, ReleaseGil, withVars, batchVars
<1>3. /\ Moves(t) /\ pc'[t] = "idle" /\ bat'[t] = NoBatch /\ state' = state /\ told' = told
      /\ ThreadOK(t)'
  BY <1>2 DEF IInv, Types, TypeOK, Moves, ThreadOK, Batch!Add
<1>4. Types'
  <2>1. work' \in [Batches -> Seq(Launches \cup {{}})]
    <3>1. PICK l \in Launches \cup {{}} : l = {}
      OBVIOUS
    <3>2. Batch!Add(b, l) \/ work' = work
      BY <1>2, <3>1
    <3>3. CASE Batch!Add(b, l)
      <4>1. work' = [work EXCEPT ![b] = Append(work[b], l)] /\ work[b] \in Seq(Launches \cup {{}})
        BY <3>3 DEF IInv, Types, Batch!Add
      <4>2. Append(work[b], l) \in Seq(Launches \cup {{}})
        BY <4>1
      <4>3. QED
        BY <4>1, <4>2 DEF IInv, Types
    <3>4. QED
      BY <3>2, <3>3 DEF IInv, Types
  <2>2. /\ pc' \in [Threads -> Points] /\ op' \in [Threads -> Ops \cup {"none"}]
        /\ bat' \in [Threads -> Batches \cup {NoBatch}] /\ frame' \in [Threads -> SUBSET Objects]
        /\ gil' \in Threads \cup {NoThread, Disabled}
    BY <1>2 DEF IInv, Types, TypeOK, Points
  <2>3. gil' \in Threads => pc'[gil'] \in {"run", "pin", "swap", "decref"}
    BY <1>2, PyAssumption DEF IInv, Types, TypeOK
  <2>4. \A c \in Batches : \A i \in 1..Len(work'[c]) : work'[c][i] \in Launches \cup {{}}
    BY <2>1
  <2>5. QED
    BY <1>2, <1>3, <2>1, <2>2, <2>3, <2>4 DEF IInv, Types, TypeOK
<1>5. \A c \in Batches \ {b} : SameBatch(c)
  BY <1>2, <1>3 DEF IInv, Types, SameBatch, Batch!Add
<1>6. CASE Batch!Add(b, {})
  <2>1. (Doing(b, "run")' => Doing(b, "run")) /\ Held(b) \subseteq Held(b)'
    BY <1>1, <1>2, <1>3, LeavesIt
  <2>2. BatchOK(b)' /\ Progress(b)
    BY <1>1, <1>2, <1>6, <2>1, WorkAdded
  <2>3. QED
    BY <1>1, <1>2, <1>3, <1>4, <1>5, <2>2, StepInv
<1>7. CASE UNCHANGED <<state, work, told>>
  <2>1. Plain(t, b) /\ Ends(t, b)
    BY <1>1, <1>2, <1>3, <1>5, <1>7 DEF Plain, Ends, Progress
  <2>2. QED
    BY <1>1, <1>3, <1>4, <2>1, PlainStep
<1>8. QED
  BY <1>2, <1>6, <1>7

\* What was to be pinned is; the mutex was held, so no wait() has unpinned since.
LEMMA PinInv ==
  ASSUME IInv, NEW t \in Threads, Pin(t)
  PROVE  IInv'
<1>1. PICK b \in Batches : b = bat[t] /\ ThreadOK(t) /\ BatchOK(b) /\ op[t] \in Ops
  BY InACall DEF Pin
<1>2. /\ pc[t] = "pin" /\ op[t] = "add" /\ state[b] # "none" /\ kmutex[b] = t
      /\ pins' = [pins EXCEPT ![b] = @ \cup frame[t]]
      /\ frame' = [frame EXCEPT ![t] = @ \cap pins[b]]
      /\ kmutex' = [kmutex EXCEPT ![b] = NoThread]
      /\ pc' = [pc EXCEPT ![t] = "decref"]
      /\ UNCHANGED <<state, work, told, gone, body, left, sent, gil, user, op, bat, calls>>
  BY <1>1 DEF Pin, ThreadOK, Goto, batchVars, withVars
<1>3. Types'
  BY <1>2 DEF IInv, Types, TypeOK, Points
<1>4. /\ Moves(t) /\ (\A c \in Batches \ {b} : SameBatch(c)) /\ Progress(b)
      /\ pc'[t] = "decref" /\ pins'[b] = pins[b] \cup frame[t]
  BY <1>2 DEF IInv, Types, TypeOK, Moves, SameBatch, Progress
<1>5. ThreadOK(t)'
  BY <1>1, <1>2, <1>4 DEF ThreadOK
<1>6. ~Doing(b, "run")'
  BY <1>1, <1>2 DEF Doing, IInv, Exclusive
<1>7. At(b, {"pin"}) /\ (At(b, {"reacquire", "swap"}) => At(b, {"reacquire", "swap"})')
  BY <1>1, <1>2, <1>4 DEF At, Moves
<1>8. Held(b) \subseteq Held(b)'
  <2>1. ASSUME NEW u \in Threads \ {t}, bat[u] = b, pc[u] = "pin" \/ op[u] = "run"
        PROVE  frame[u] \subseteq Held(b)'
    BY <1>2, <1>4, <2>1 DEF Held, Moves
  <2>2. pins[b] \subseteq Held(b)' /\ frame[t] \subseteq Held(b)'
    BY <1>4 DEF Held
  <2>3. QED
    BY <2>1, <2>2 DEF Held
<1>9. BatchOK(b)'
  <2>1. ~gone'[b] /\ state'[b] \in Open =>
          \A i \in 1..Len(work'[b]) : work'[b][i] \subseteq Held(b)'
    BY <1>1, <1>2, <1>8 DEF BatchOK
  <2>2. Submitted(b)'
    BY <1>1, <1>2, <1>4, SubmittedKept DEF BatchOK
  <2>3. QED
    BY <1>1, <1>2, <1>6, <1>7, <2>1, <2>2 DEF BatchOK, Submitted
<1>10. QED
  BY <1>1, <1>2, <1>3, <1>4, <1>5, <1>9, PyAssumption, StepInv

\* A verdict is only told when the batch is finished, and who is told it is over goes
\* on to unpin; run() has pinned nothing.
LEMMA UnblockInv ==
  ASSUME IInv, NEW t \in Threads, Unblock(t)
  PROVE  IInv'
<1>1. PICK b \in Batches : b = bat[t] /\ ThreadOK(t) /\ BatchOK(b) /\ op[t] \in Ops
  BY InACall DEF Unblock
<1>2. /\ pc[t] = "blocked" /\ op[t] \in {"wait", "run"} /\ state[b] \in {"completed", "error"}
      /\ told' = [told EXCEPT ![b] = @ \cup {IF state[b] = "error" THEN "fault" ELSE "ok"}]
      /\ pc' = [pc EXCEPT ![t] =
                  IF state[b] = "error" \/ op[t] = "run" THEN "return" ELSE "reacquire"]
      /\ UNCHANGED <<state, work, pins, kmutex, gone, body, left, sent, gil, user, op, bat,
                     frame, calls>>
  BY <1>1 DEF Unblock, ThreadOK, Goto, withVars, Batch!Report
<1>3. Types'
  <2>1. pc' \in [Threads -> Points] /\ told' \in [Batches -> SUBSET {"ok", "fault"}]
    BY <1>2 DEF IInv, Types, TypeOK, Points
  <2>2. gil' \in Threads => pc'[gil'] \in {"run", "pin", "swap", "decref"}
    BY <1>2 DEF IInv, Types, TypeOK
  <2>3. QED
    BY <1>2, <2>1, <2>2 DEF IInv, Types, TypeOK
<1>4. /\ Moves(t) /\ (\A c \in Batches \ {b} : SameBatch(c)) /\ Progress(b)
      /\ pc'[t] = (IF state[b] = "error" \/ op[t] = "run" THEN "return" ELSE "reacquire")
      /\ told'[b] = told[b] \cup {IF state[b] = "error" THEN "fault" ELSE "ok"}
  BY <1>2 DEF IInv, Types, TypeOK, Moves, SameBatch, Progress
<1>5. ThreadOK(t)'
  BY <1>1, <1>2, <1>4 DEF ThreadOK, Open
<1>6. /\ Doing(b, "run")' <=> Doing(b, "run")
      /\ At(b, {"reacquire", "swap"}) => At(b, {"reacquire", "swap"})'
      /\ At(b, {"pin"})' => At(b, {"pin"})
  BY <1>1, <1>2, <1>4, StaysOn
<1>7. "ok" \in told'[b] =>
        /\ state'[b] = "completed"
        /\ At(b, {"reacquire", "swap"})' \/ (pins'[b] = {} /\ ~At(b, {"pin"})')
  <2>1. CASE state[b] = "error"
    BY <1>1, <1>2, <1>4, <1>6, <2>1 DEF BatchOK
  <2>2. CASE state[b] = "completed" /\ op[t] = "wait"
    BY <1>1, <1>2, <1>4, <2>2 DEF At
  <2>3. CASE state[b] = "completed" /\ op[t] = "run"
    <3>1. pins[b] = {}
      BY <1>1, <2>3 DEF BatchOK, Doing
    <3>2. ~At(b, {"pin"})
      BY <1>1, <1>2, <2>3 DEF At, IInv, Exclusive
    <3>3. QED
      BY <1>2, <1>6, <2>3, <3>1, <3>2
  <2>4. QED
    BY <1>2, <2>1, <2>2, <2>3
<1>8. BatchOK(b)'
  <2>1. Submitted(b)'
    BY <1>1, <1>2, <1>4, SubmittedKept DEF BatchOK
  <2>2. QED
    BY <1>1, <1>2, <1>6, <1>7, <2>1 DEF BatchOK, Open
<1>9. QED
  BY <1>1, <1>2, <1>3, <1>4, <1>5, <1>8, StepInv

\* Nobody can be about to pin: the mutex is free.
LEMMA SwapInv ==
  ASSUME IInv, NEW t \in Threads, Swap(t)
  PROVE  IInv'
<1>1. PICK b \in Batches : b = bat[t] /\ ThreadOK(t) /\ BatchOK(b) /\ op[t] \in Ops
  BY InACall DEF Swap
<1>2. /\ pc[t] = "swap" /\ op[t] = "wait" /\ state[b] = "completed" /\ kmutex[b] = NoThread
      /\ frame' = [frame EXCEPT ![t] = pins[b]] /\ pins' = [pins EXCEPT ![b] = {}]
      /\ pc' = [pc EXCEPT ![t] = "decref"]
      /\ UNCHANGED <<state, work, told, kmutex, gone, body, left, sent, gil, user, op, bat, calls>>
  BY <1>1 DEF Swap, ThreadOK, Goto, batchVars, withVars
<1>3. Types'
  BY <1>2 DEF IInv, Types, TypeOK, Points
<1>4. /\ Moves(t) /\ (\A c \in Batches \ {b} : SameBatch(c)) /\ Progress(b)
      /\ pc'[t] = "decref" /\ pins'[b] = {}
  BY <1>2 DEF IInv, Types, TypeOK, Moves, SameBatch, Progress
<1>5. ThreadOK(t)'
  BY <1>1, <1>2, <1>4 DEF ThreadOK
<1>6. ~At(b, {"pin"})'
  BY <1>2, <1>4, PyAssumption DEF At, Moves, IInv, ThreadOK
<1>7. Doing(b, "run")' => Doing(b, "run")
  BY <1>2 DEF Doing
<1>8. BatchOK(b)'
  <2>1. Submitted(b)'
    BY <1>1, <1>2, <1>4, SubmittedKept DEF BatchOK
  <2>2. QED
    BY <1>1, <1>2, <1>4, <1>6, <1>7, <2>1 DEF BatchOK, Open
<1>9. QED
  BY <1>1, <1>2, <1>3, <1>4, <1>5, <1>8, StepInv

-----------------------------------------------------------------------------
(* Calls begin, and what happens outside of any call. *)

LEMMA EnterInv ==
  ASSUME IInv, NEW t \in Threads, NEW o \in Ops, NEW b \in Batches, NEW launch \in SUBSET Objects,
         Enter(t, o, b, launch),
         IF o \in Makes THEN ~Used(b)
                        ELSE state[b] # "none" /\ \A u \in Threads : bat[u] = b => op[u] # "run",
         o \in {"add", "run"} => launch \in Launches,
         body' = body, sent' = sent, calls' \in 0..MaxCalls, left' \subseteq Batches
  PROVE  IInv'
<1>1. /\ pc[t] = "idle" /\ bat[t] = NoBatch
      /\ pc' = [pc EXCEPT ![t] = "run"] /\ op' = [op EXCEPT ![t] = o]
      /\ bat' = [bat EXCEPT ![t] = b] /\ frame' = [frame EXCEPT ![t] = launch]
      /\ gil' = (IF gil = Disabled THEN Disabled ELSE t)
      /\ UNCHANGED <<state, work, told, pins, kmutex, gone, user>>
  BY DEF Enter, TakesGil, Goto, batchVars, IInv, ThreadOK
<1>2. Types'
  <2>1. /\ pc' \in [Threads -> Points] /\ op' \in [Threads -> Ops \cup {"none"}]
        /\ bat' \in [Threads -> Batches \cup {NoBatch}] /\ frame' \in [Threads -> SUBSET Objects]
        /\ gil' \in Threads \cup {NoThread, Disabled}
    BY <1>1 DEF IInv, Types, TypeOK, Points
  <2>2. gil' \in Threads => pc'[gil'] \in {"run", "pin", "swap", "decref"}
    BY <1>1, PyAssumption DEF IInv, Types, TypeOK
  <2>3. QED
    BY <1>1, <2>1, <2>2 DEF IInv, Types, TypeOK
<1>3. /\ Moves(t) /\ \A c \in Batches \ {b} : SameBatch(c)
      /\ pc'[t] = "run" /\ op'[t] = o /\ bat'[t] = b /\ frame'[t] = launch
  BY <1>1 DEF IInv, Types, TypeOK, Moves, SameBatch
<1>4. o \in Makes => state[b] = "none" /\ \A u \in Threads : bat[u] # b
  BY DEF Used
<1>5. \A u \in Threads : ThreadOK(u)'
  <2>1. ThreadOK(t)'
    BY <1>1, <1>3, <1>4 DEF ThreadOK, Makes
  <2>2. ASSUME NEW u \in Threads \ {t} PROVE ThreadOK(u)'
    <3>1. ThreadOK(u)
      BY DEF IInv
    <3>2. QED
      BY <1>1, <1>3, <3>1 DEF ThreadOK, Moves
  <2>3. QED
    BY <2>1, <2>2
<1>6. Exclusive'
  <2>1. ASSUME NEW u \in Threads \ {t}, bat'[u] = b
        PROVE  op'[u] # "run" /\ o # "run" /\ state'[b] # "none"
    BY <1>1, <1>3, <1>4, <2>1 DEF Moves, Makes
  <2>2. ASSUME NEW u \in Threads \ {t}, NEW w \in Threads \ {t}, u # w,
               bat'[u] \in Batches, bat'[w] = bat'[u]
        PROVE  op'[u] # "run" /\ state'[bat'[u]] # "none"
    BY <1>1, <1>3, <2>2 DEF Moves, IInv, Exclusive
  <2>3. QED
    BY <1>3, <2>1, <2>2 DEF Exclusive
<1>7. \A c \in Batches \ {b} : BatchOK(c)'
  BY <1>1, <1>3, PyAssumption, OtherBatch DEF IInv
<1>8. BatchOK(b)'
  <2>1. BatchOK(b)
    BY DEF IInv
  <2>2. \A u \in Threads \ {t} : /\ bat'[u] = bat[u] /\ op'[u] = op[u] /\ pc'[u] = pc[u]
                                 /\ frame'[u] = frame[u]
    BY <1>3 DEF Moves
  <2>3. bat[t] # b
    BY <1>1, PyAssumption
  <2>4. Submitted(b)'
    <3>1. At(b, {"blocked"}) <=> At(b, {"blocked"})'
      BY <1>3, <2>2, <2>3 DEF At
    <3>2. QED
      BY <1>1, <2>1, <3>1 DEF BatchOK, Submitted
  <2>5. Doing(b, "run")' => body'[b] = NoThread /\ pins'[b] = {}
    <3>1. CASE o = "run"
      <4>1. state[b] = "none"
        BY <1>4, <3>1 DEF Makes
      <4>2. body[b] = NoThread /\ pins[b] = {}
        BY <2>1, <4>1 DEF BatchOK
      <4>3. QED
        BY <1>1, <3>1, <4>2
    <3>2. CASE o # "run"
      <4>1. \A u \in Threads : bat[u] = b => op[u] # "run"
        BY <1>4
      <4>2. ~Doing(b, "run")'
        BY <1>3, <2>2, <3>2, <4>1 DEF Doing
      <4>3. QED
        BY <4>2
    <3>3. QED
      BY <3>1, <3>2
  <2>6. /\ At(b, {"reacquire", "swap"}) => At(b, {"reacquire", "swap"})'
        /\ At(b, {"pin"})' => At(b, {"pin"})
    BY <1>3, <2>2, <2>3 DEF At
  <2>7. Held(b) \subseteq Held(b)'
    <3>1. ASSUME NEW u \in Threads, bat[u] = b, pc[u] = "pin" \/ op[u] = "run"
          PROVE  bat'[u] = b /\ (pc'[u] = "pin" \/ op'[u] = "run") /\ frame'[u] = frame[u]
      BY <2>2, <2>3, <3>1
    <3>2. QED
      BY <1>1, <3>1 DEF Held
  <2>8. "ok" \in told'[b] =>
          /\ state'[b] = "completed"
          /\ At(b, {"reacquire", "swap"})' \/ (pins'[b] = {} /\ ~At(b, {"pin"})')
    BY <1>1, <2>1, <2>6 DEF BatchOK
  <2>9. ~gone'[b] /\ state'[b] \in Open =>
          \A i \in 1..Len(work'[b]) : work'[b][i] \subseteq Held(b)'
    BY <1>1, <2>1, <2>7 DEF BatchOK
  <2>10. QED
    BY <1>1, <2>1, <2>4, <2>5, <2>8, <2>9 DEF BatchOK
<1>9. QED
  BY <1>2, <1>5, <1>6, <1>7, <1>8 DEF IInv

LEMMA CallInv ==
  ASSUME IInv, NEW t \in Threads, NEW o \in Ops, NEW b \in Batches,
         NEW launch \in Launches \cup {{}}, Call(t, o, b, launch)
  PROVE  IInv'
<1>1. calls' \in 0..MaxCalls /\ left' \subseteq Batches
  BY PyAssumption DEF Call, withVars, IInv, Types, TypeOK
<1>2. launch \in SUBSET Objects /\ (o \in {"add", "run"} => launch \in Launches)
  BY PyAssumption DEF Call
<1>3. body' = body /\ sent' = sent
  BY DEF Call, withVars
<1>4. /\ Enter(t, o, b, launch)
      /\ IF o \in Makes THEN ~Used(b)
         ELSE state[b] # "none" /\ \A u \in Threads : bat[u] = b => op[u] # "run"
  BY DEF Call
<1>5. QED
  BY <1>1, <1>2, <1>3, <1>4, EnterInv

LEMMA ExitInv ==
  ASSUME IInv, NEW t \in Threads, NEW b \in Batches, Exit(t, b)
  PROVE  IInv'
<1>1. PICK o \in {"discard", "wait"} : Enter(t, o, b, {})
  BY DEF Exit
<1>2. state[b] # "none" /\ \A u \in Threads : bat[u] = b => op[u] # "run"
  <2>1. body[b] = t /\ state[b] # "none"
    BY DEF Exit, Inside
  <2>2. ~Doing(b, "run")
    BY <2>1, PyAssumption DEF IInv, BatchOK
  <2>3. QED
    BY <2>1, <2>2 DEF Doing
<1>3. /\ calls' \in 0..MaxCalls /\ left' \subseteq Batches /\ body' = body /\ sent' = sent
      /\ o \in Ops /\ o \notin Makes /\ o \notin {"add", "run"} /\ {} \in SUBSET Objects
  BY DEF Exit, IInv, Types, TypeOK, Ops, Makes
<1>4. QED
  BY <1>1, <1>2, <1>3, EnterInv

\* Outside of any call: the threads keep their places.
LEMMA OutsideInv ==
  ASSUME IInv, NEW b \in Batches, UNCHANGED <<pc, op, bat, frame, kmutex, body, sent, work, told>>,
         \A c \in Batches \ {b} : SameBatch(c), Progress(b), Types',
         state[b] # "none", BatchOK(b)'
  PROVE  IInv'
<1>1. ASSUME NEW c \in Batches \ {b} PROVE BatchOK(c)'
  <2>1. /\ \A o : Doing(c, o)' <=> Doing(c, o)
        /\ \A points : At(c, points)' <=> At(c, points)
        /\ Held(c)' = Held(c)
    BY DEF Doing, At, Held, SameBatch
  <2>2. BatchOK(c) /\ Progress(c) /\ Submitted(c)'
    BY <2>1 DEF IInv, SameBatch, Progress, BatchOK, Submitted
  <2>3. QED
    BY <2>1, <2>2, BatchKept DEF SameBatch
<1>2. ASSUME NEW u \in Threads PROVE ThreadOK(u)'
  <2>1. ThreadOK(u)
    BY DEF IInv
  <2>2. CASE bat[u] = b
    BY <2>1, <2>2 DEF ThreadOK, Progress
  <2>3. CASE bat[u] # b /\ bat[u] \in Batches
    BY <2>1, <2>3 DEF ThreadOK, SameBatch
  <2>4. CASE bat[u] \notin Batches
    BY <2>1, <2>4 DEF ThreadOK
  <2>5. QED
    BY <2>2, <2>3, <2>4
<1>3. Exclusive'
  BY DEF IInv, Exclusive, SameBatch, Progress
<1>4. QED
  BY <1>1, <1>2, <1>3 DEF IInv

LEMMA DeleteInv ==
  ASSUME IInv, NEW b \in Batches, Delete(b)
  PROVE  IInv'
<1>1. /\ state[b] # "none" /\ \A u \in Threads : bat[u] # b
      /\ gone' = [gone EXCEPT ![b] = TRUE] /\ pins' = [pins EXCEPT ![b] = {}]
      /\ state' = (IF state[b] = "encoding" THEN [state EXCEPT ![b] = "dropped"] ELSE state)
      /\ UNCHANGED <<work, told, kmutex, body, left, sent, gil, user, pc, op, bat, frame, calls>>
  BY DEF Delete, Batch!Drop, Batch!Become, batchVars, withVars, threadVars
<1>2. Types'
  BY <1>1 DEF IInv, Types, TypeOK
<1>3. /\ \A c \in Batches \ {b} : SameBatch(c)
      /\ Progress(b) /\ state'[b] # "none" /\ gone'[b] /\ pins'[b] = {}
      /\ state[b] = "completed" => state'[b] = "completed"
  BY <1>1 DEF IInv, Types, TypeOK, SameBatch, Progress, Open
<1>4. BatchOK(b)'
  <2>1. ~Doing(b, "run")' /\ ~At(b, {"pin"})'
    BY <1>1 DEF Doing, At
  <2>2. BatchOK(b)
    BY DEF IInv
  <2>3. Submitted(b)'
    <3>1. ~At(b, {"blocked"}) /\ (state[b] = "committed" => b \in sent)
      BY <1>1, <2>2 DEF At, BatchOK, Submitted
    <3>2. QED
      BY <1>1, <3>1 DEF Submitted, IInv, Types, TypeOK
  <2>4. QED
    BY <1>1, <1>3, <2>1, <2>2, <2>3 DEF BatchOK
<1>5. QED
  BY <1>1, <1>2, <1>3, <1>4, OutsideInv

LEMMA GpuFinishInv ==
  ASSUME IInv, NEW b \in Batches, GpuFinish(b)
  PROVE  IInv'
<1>1. PICK verdict \in {"completed", "error"} :
        /\ state[b] = "committed" /\ state' = [state EXCEPT ![b] = verdict]
        /\ UNCHANGED <<work, told, pins, kmutex, gone, body, left, sent, gil, user, pc, op, bat,
                       frame, calls>>
  BY DEF GpuFinish, Batch!Complete, Batch!Become, withVars, threadVars
<1>2. Types'
  BY <1>1 DEF IInv, Types, TypeOK, Finished
<1>3. /\ \A c \in Batches \ {b} : SameBatch(c)
      /\ Progress(b) /\ state'[b] \notin Open \cup {"none"}
  BY <1>1 DEF IInv, Types, TypeOK, SameBatch, Progress, Open
<1>4. BatchOK(b)'
  <2>1. BatchOK(b)
    BY DEF IInv
  <2>2. /\ Doing(b, "run")' <=> Doing(b, "run")
        /\ At(b, {"reacquire", "swap"})' <=> At(b, {"reacquire", "swap"})
        /\ At(b, {"pin"})' <=> At(b, {"pin"})
    BY <1>1 DEF Doing, At
  <2>3. Submitted(b)'
    BY <1>1, <1>3, <2>1 DEF BatchOK, Submitted, Open
  <2>4. QED
    BY <1>1, <1>3, <2>1, <2>2, <2>3, BatchKept
<1>5. QED
  BY <1>1, <1>2, <1>3, <1>4, OutsideInv

LEMMA UnusedSteps ==
  ASSUME IInv, UNCHANGED <<batchVars, pins, kmutex, gone, withVars, gil, threadVars>>,
         user' \subseteq Objects
  PROVE  IInv'
<1>1. UNCHANGED <<state, work, told, pins, kmutex, gone, body, left, sent, gil, pc, op, bat, frame, calls>>
  BY DEF batchVars, withVars, threadVars
<1>2. Types'
  BY <1>1 DEF IInv, Types, TypeOK
<1>3. Exclusive' /\ \A u \in Threads : ThreadOK(u)'
  BY <1>1 DEF IInv, Exclusive, ThreadOK
<1>4. ASSUME NEW c \in Batches PROVE BatchOK(c)'
  <2>1. /\ \A o : Doing(c, o)' <=> Doing(c, o)
        /\ \A points : At(c, points)' <=> At(c, points)
        /\ Held(c)' = Held(c)
    BY <1>1 DEF Doing, At, Held
  <2>2. BatchOK(c)
    BY DEF IInv
  <2>3. QED
    BY <1>1, <2>1, <2>2 DEF BatchOK, Submitted
<1>5. QED
  BY <1>2, <1>3, <1>4 DEF IInv

\* The invariant holds for every number of threads, batches, objects and calls.
THEOREM Invariance == Spec => []IInv
<1>1. Init => IInv
  BY InitInv
<1>2. IInv /\ [Next]_vars => IInv'
  <2> SUFFICES ASSUME IInv, [Next]_vars PROVE IInv'
    OBVIOUS
  <2>1. ASSUME NEW t \in Threads, NEW o \in Ops, NEW b \in Batches,
               NEW launch \in Launches \cup {{}}, Call(t, o, b, launch)
        PROVE  IInv'
    BY <2>1, CallInv
  <2>2. ASSUME NEW t \in Threads, Step(t) PROVE IInv'
    BY <2>2, ReacquireInv, ReturnInv, NewInv, CreateInv, CreateFailsInv, RunAddInv, RunWaitInv,
       RunReturnInv, AddThrowsInv, AddInv, PinInv, BarrierCallInv, CommitInv, WaitInv, UnblockInv, SwapInv,
       DecrefInv, DiscardInv DEF Step
  <2>3. ASSUME NEW t \in Threads, NEW b \in Batches, Exit(t, b) PROVE IInv'
    BY <2>3, ExitInv
  <2>4. ASSUME NEW b \in Batches, Delete(b) \/ GpuFinish(b) PROVE IInv'
    BY <2>4, DeleteInv, GpuFinishInv
  <2>5. ASSUME NEW o \in Objects, Forget(o) PROVE IInv'
    <3>1. user' \subseteq Objects
      BY <2>5 DEF Forget, IInv, Types, TypeOK
    <3>2. QED
      BY <2>5, <3>1, UnusedSteps DEF Forget
  <2>6. CASE UNCHANGED vars
    <3>1. user' \subseteq Objects
      BY <2>6 DEF vars, IInv, Types, TypeOK
    <3>2. QED
      BY <2>6, <3>1, UnusedSteps DEF vars
  <2>7. QED
    BY <2>1, <2>2, <2>3, <2>4, <2>5, <2>6 DEF Next
<1>3. QED
  BY <1>1, <1>2, PTL DEF Spec

-----------------------------------------------------------------------------
(* What follows for the properties *)

\* Whoever has the interpreter lock is at a point of a call that runs Python code; the
\* rest is the types.
THEOREM TypesCorrect == Spec => []TypeOK
<1>1. IInv => TypeOK
  BY DEF IInv, Types
<1>2. QED
  BY <1>1, Invariance, PTL

\* While a batch is open or the GPU works on it, the objects of its launches are alive,
\* unless the program has committed it and then dropped the Batch itself without wait():
\* that destroys keepalive_ (bindings.cpp:397-401), and nothing else does before the end.
THEOREM LaunchesStayAlive == Spec => []UsedObjectsAlive
<1>1. IInv => UsedObjectsAlive
  <2> SUFFICES ASSUME IInv, NEW b \in Batches, state[b] \in Open, ~(gone[b] /\ b \in sent),
                      NEW i \in 1..Len(work[b])
               PROVE  work[b][i] \subseteq Alive
    BY DEF UsedObjectsAlive, Open
  <2>1. ~gone[b]
    BY DEF IInv, BatchOK, Submitted, Open
  <2>2. work[b][i] \subseteq Held(b)
    BY <2>1 DEF IInv, BatchOK
  <2>3. Held(b) \subseteq Alive
    BY DEF Held, Alive
  <2>4. QED
    BY <2>2, <2>3
<1>2. QED
  BY <1>1, Invariance, PTL

\* After a wait() that did not throw nothing is pinned any more, however add() raced it.
THEOREM WaitUnpins == Spec => []NothingPinnedAfterWait
<1>1. IInv => NothingPinnedAfterWait
  <2> SUFFICES ASSUME IInv, NEW b \in Batches, "ok" \in told[b], \A t \in Threads : bat[t] # b
               PROVE  pins[b] = {}
    BY DEF NothingPinnedAfterWait
  <2>1. ~At(b, {"reacquire", "swap"})
    BY DEF At
  <2>2. QED
    BY <2>1 DEF IInv, BatchOK
<1>2. QED
  BY <1>1, Invariance, PTL
=============================================================================
