\* Two callers share two batches over a queue of one slot: safety, refinement
\* of BatchSpec, and calls that return.
SPECIFICATION FairSpec
CONSTANTS
  Threads = {t1, t2}
  Batches = {b1, b2}
  Launches = {good, bad}
  Valid = {good}
  QueueLimit = 1
  MaxCalls = 2
  NoThread = NoThread
  NoBatch = NoBatch
  Barrier = Barrier
INVARIANTS
  TypeOK
  HandlesValid
  EncoderDiscipline
  RunsWhatWasAccepted
  NoLeakedSlot
  DispatchSynchronous
PROPERTIES
  CommitSubmits
  WaitVerdict
  ImplementsBatchSpec
  CallsReturn
  ClosedBatchesFreeTheQueue
CHECK_DEADLOCK FALSE
