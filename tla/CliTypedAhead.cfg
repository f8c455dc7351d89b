\* As CliDemo: a choice typed ahead of a generation that is cancelled.
CONSTANTS
  MaxBeams = 2
  MaxLines = 2
SPECIFICATION CliSpec
CHECK_DEADLOCK FALSE
INVARIANTS
  ChosenCandidateHasText
