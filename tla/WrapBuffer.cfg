\* Every range of a 16-byte address space with 4-byte pages, wrapped, launched on and flushed.
SPECIFICATION Spec
CONSTANTS
  WordMax = 15
  PageSize = 4
  Maps <- MCMaps
  MaxLaunches = 2
  MaxWraps = 2
  None = None
INVARIANTS
  RefusesOverflow
  BoundWhereAsked
  Transparent
CHECK_DEADLOCK FALSE
