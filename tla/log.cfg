\* Two goroutines, writes shorter than the buffer.
SPECIFICATION FairSpec
CONSTANTS
  Levels = {"debug", "info", "other"}
  Writers = {loop, probe}
  Limit = 3
  MaxChunk = 2
  MaxUnits = 6
INVARIANTS InOrder StuckByLongLine
PROPERTY WriteReturns
\* The number of units is bounded, and a stuck scanner stops everything.
CHECK_DEADLOCK FALSE
