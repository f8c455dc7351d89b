\* Two beams, two lines to a read.  The demo ends: no deadlock check.
CONSTANTS
  MaxBeams = 2
  MaxLines = 2
SPECIFICATION CliSpec
CHECK_DEADLOCK FALSE
INVARIANTS
  HeapIsOwned
  ExitLeavesNothing
  OkResultIsComplete
PROPERTIES
  InterruptEnds
