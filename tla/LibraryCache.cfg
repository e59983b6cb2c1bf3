\* Two threads make kernels from three sources while the limit changes and the cache is cleared.
SPECIFICATION Spec
CONSTANTS
  Threads = {t1, t2}
  Sources = {s1, s2, s3}
  Functions = {f}
  Limits = {0, 2}
  kMaxCachedPipelines = 1
  MaxCalls = 2
  Runtime = Runtime
INVARIANTS
  TypeOK
  RightValue
  OneBuildIsShared
PROPERTIES
  EvictsOldest
  ImplementsSharedCache
CHECK_DEADLOCK FALSE
