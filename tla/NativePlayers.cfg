SPECIFICATION MCSpec
CONSTANTS
  Media <- MCMedia
  Targets = {0, 1, 2, 3, 4}
  Micros = 3
  Word = 11
  Calls = 4
  Blocks = 5
  Presses = 2
  Frames = 2
  Chunks = 4
  NumBuffers = 2
CHECK_DEADLOCK FALSE
INVARIANTS PlayerSafe PcmSafe HoldingsSafe QueueSafe FileFaithfulUnlessOvertaken
PROPERTIES PlaybackEnds DestroyEnds NoFillAfterFree
