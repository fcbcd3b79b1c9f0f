SPECIFICATION FairSpec
CONSTANTS
  Buffers = 3
  Sources <- MCSources
  Faults <- MCFaults
CHECK_DEADLOCK FALSE
INVARIANTS IInv NoUseAfterClose
PROPERTIES Refines HangsOnlyWhenStalled
