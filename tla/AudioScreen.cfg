SPECIFICATION MCSpec
CONSTANTS
  Managers = {1, 2}
  Recordings = {1, 2}
  Plays = {1, 2}
  MaxChunks = 3
  PcmLength = 2
  Room = 1
  Presses = 2
  Window = 2
  Bars = 4
  Songs = 3
  Commands = 5
  Kills = 2
CHECK_DEADLOCK FALSE
INVARIANTS RecordingSafe BarsRight HeardInOrder MusicSafe
PROPERTIES CallsEnd StartIsHeard
