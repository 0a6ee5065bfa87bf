SPECIFICATION OutputSpec
INVARIANTS OutputIsExact
PROPERTIES ExitIsTold
CHECK_DEADLOCK FALSE
CONSTANTS
  Scenes <- MCScenes
  LineEnds = {3}
  MaxLines = 2
  MaxBytes = 3
  MaxEntry = 2
  MaxLog = 2
  Capacity = 1
  ReadChunk = 2
