\* Launches that Metal takes and that it does not, on kernels at least a SIMD group wide.
SPECIFICATION Spec
CONSTANTS
  WordMax = 31
  Pipelines <- MCPipelines
  Launches <- MCLaunches
  Budgets = {8, 16}
  kThreadgroupMemoryAlignment = 4
  kMaxInlineScalarBytes = 8
  MaxBindings = 3
  None = None
INVARIANTS
  MetalAccepts
  ScalarsCoverReads
  EveryThreadRuns
  NoFalseAlarm
  DefaultWithinCeiling
CHECK_DEADLOCK FALSE
