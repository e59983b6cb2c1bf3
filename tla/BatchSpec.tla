------------------------------ MODULE BatchSpec ------------------------------
(***************************************************************************)
(* What metalrt::CommandBatch promises, with its mutex, its pointers and   *)
(* the calls in progress left out: a batch takes one of QueueLimit places, *)
(* collects work while it is open, is submitted as a whole or dropped, and *)
(* every wait() reports what the GPU made of it, and never before.         *)
(***************************************************************************)
EXTENDS Integers, FiniteSets, Sequences

CONSTANTS
  Batches,      \* batches, each created at most once
  Items,        \* what can be added to a batch
  QueueLimit    \* batches that are open or submitted at a time

VARIABLES
  state,        \* state of each batch
  work,         \* what it was given, in order
  told          \* verdicts that waiting callers were given

specVars == <<state, work, told>>

Holding == {b \in Batches : state[b] \in {"encoding", "committed"}}

SpecInit ==
  /\ state = [b \in Batches |-> "none"]
  /\ work  = [b \in Batches |-> << >>]
  /\ told  = [b \in Batches |-> {}]

Become(b, from, to) ==
  /\ state[b] = from
  /\ state' = [state EXCEPT ![b] = to]
  /\ UNCHANGED <<work, told>>

Create(b) == Cardinality(Holding) < QueueLimit /\ Become(b, "none", "encoding")

Drop(b) == Become(b, "encoding", "dropped")

Submit(b) == Become(b, "encoding", "committed")

Complete(b) == \E verdict \in {"completed", "error"} : Become(b, "committed", verdict)

Add(b, item) ==
  /\ state[b] = "encoding"
  /\ work' = [work EXCEPT ![b] = Append(@, item)]
  /\ UNCHANGED <<state, told>>

Report(b) ==
  /\ state[b] \in {"completed", "error"}
  /\ told' = [told EXCEPT ![b] = @ \cup {IF state[b] = "error" THEN "fault" ELSE "ok"}]
  /\ UNCHANGED <<state, work>>

SpecNext == \E b \in Batches :
  \/ Create(b) \/ Drop(b) \/ Submit(b) \/ Complete(b) \/ Report(b)
  \/ \E item \in Items : Add(b, item)

AbstractSpec == SpecInit /\ [][SpecNext]_specVars
=============================================================================
