\* Buffers of every element size are made, refilled, viewed and forgotten.
SPECIFICATION BufferSpec
CONSTANTS
  WordMax = 31
  Shapes <- MCShapes
  Arrays <- MCArrays
  Names <- MCNames
  MaxBufferCalls = 5
  None = None
INVARIANTS
  SizesExact
  WithinMemory
CHECK_DEADLOCK FALSE
