SPECIFICATION MCSpec
CONSTANTS
  MaxJobs = 3
  MaxChunks = 2
  Visits = {1, 2}
  Recordings = {1, 2}
CHECK_DEADLOCK FALSE
INVARIANTS MicrophoneExplained WavFaithfulUnlessHasty CaptureSafe
PROPERTIES  SessionsSettle
