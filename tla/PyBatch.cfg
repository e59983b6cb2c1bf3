\* Pins, finalizers, the interpreter lock and the queue, with and without a lock.
SPECIFICATION FairSpec
CONSTANTS
  Threads = {t1, t2}
  Batches = {b1, b2}
  Objects = {k, y}
  Launches = {{k}, {k, y}}
  Reentrant = {y}
  QueueLimit = 1
  MaxCalls = 3
  NoThread = NoThread
  NoBatch = NoBatch
  Disabled = Disabled
INVARIANTS
  TypeOK
  UsedObjectsAlive
  NothingPinnedAfterWait
PROPERTIES
  CallsReturn
  WithBlocksFreeTheQueue
CHECK_DEADLOCK FALSE
