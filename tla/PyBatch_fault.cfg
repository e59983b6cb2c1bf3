\* What keepalive_ still holds after a wait() that threw.
SPECIFICATION Spec
CONSTANTS
  Threads = {t1, t2}
  Batches = {b1}
  Objects = {k, x, y}
  Launches = {{k, x}, {k, y}}
  Reentrant = {y}
  QueueLimit = 1
  MaxCalls = 3
  NoThread = NoThread
  NoBatch = NoBatch
  Disabled = Disabled
INVARIANTS
  PinnedUntilWait
CHECK_DEADLOCK FALSE
