\* Two threads of a C program share libraries, pipelines and batches.
SPECIFICATION Spec
CONSTANTS
  Threads = {t1, t2}
  Libs = {l1}
  Pipes = {p1, p2}
  Batches = {b1, b2}
  Names = {f, g, h, missing}
  Exported = {f, g, h}
  Buildable = {f, g}
  kMaxCachedPipelines = 1
  QueueLimit = 1
  MaxCalls = 7
  Null = Null
SYMMETRY Symmetry
INVARIANTS
  PipelinesOutliveLibraries
PROPERTIES
  StatusTellsTruth
  FailureLeavesNothing
CHECK_DEADLOCK FALSE
