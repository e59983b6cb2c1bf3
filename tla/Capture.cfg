\* Two threads capture while other code of the process captures too.
SPECIFICATION CaptureFairSpec
CONSTANTS
  Threads = {t1, t2}
  Foreign = Foreign
  MaxCaptureCalls = 3
  MaxForeign = 2
  Nobody = Nobody
INVARIANTS
  OwnCaptureStoppable
  StopsOnlyOurs
PROPERTIES
  CaptureEnds
CHECK_DEADLOCK FALSE
