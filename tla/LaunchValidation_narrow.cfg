\* The threadgroup chosen for a kernel narrower than a SIMD group.
SPECIFICATION Spec
CONSTANTS
  WordMax = 31
  Pipelines <- MCNarrowPipelines
  Launches <- MCLaunches
  Budgets = {8, 16}
  kThreadgroupMemoryAlignment = 4
  kMaxInlineScalarBytes = 8
  MaxBindings = 3
  None = None
INVARIANTS
  DefaultWithinCeiling
CHECK_DEADLOCK FALSE
