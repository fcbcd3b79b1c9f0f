SPECIFICATION MCSpec
CONSTANTS
  Buffers = 2
  MaxUnits = 2
  OutBuffers = 1
  Sources <- MCSources
CHECK_DEADLOCK FALSE
INVARIANTS ReadsSafe ResultRight
PROPERTIES CallsEnd
