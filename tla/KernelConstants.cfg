\* Two requests, one after the other, over one library or two.
SPECIFICATION Spec
CONSTANTS
  Byte = 2
  FloatStep = 32
  NameOrder <- MCNameOrder
  Malformed <- MCMalformed
  Compiles <- MCCompiles
  Declares <- MCDeclares
  Requests <- MCRequests
  MaxCalls = 2
INVARIANTS
  GivesWhatWasAsked
  NothingLeftToMetal
  RefusedForCause
CHECK_DEADLOCK FALSE
