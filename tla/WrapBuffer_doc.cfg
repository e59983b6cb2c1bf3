\* When mr_wrap_buffer falls back to a copy.
SPECIFICATION Spec
CONSTANTS
  WordMax = 15
  PageSize = 4
  Maps <- MCMaps
  MaxLaunches = 0
  MaxWraps = 1
  None = None
INVARIANTS
  CopiesOnlyAcrossMappings
CHECK_DEADLOCK FALSE
