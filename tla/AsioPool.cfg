SPECIFICATION FairSpec
CONSTANTS
  Threads <- MCThreads
  Main = main
  Free = free
  Coroutines <- MCCoroutines
  NumCoroutines = 2
  MaxSpurious = 1
CHECK_DEADLOCK FALSE
INVARIANTS WorkCounted NoLostWakeup NoEarlyStop
PROPERTIES DeliveredOnceInTime HelloEnds
