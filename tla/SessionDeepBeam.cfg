\* Three syllables, so that two reorders follow each other and the second one moves
\* more than one generated position.  Models that do not fail.
CONSTANTS
  PreMax = 7
  Beam = 2
  Slots = {s1}
  Tokens = {a, b}
  BOS = BOS
  BadId = BadId
  Unmapped = Unmapped
  NoTok = NoTok
  NoSlot = NoSlot
  SlotCapacity = 6
  MaxHistory = 2
  SlackInterval = 1
  MaxPinyin = 3
  Pre1Batch = 2
  Pre2Batch = 2
  ModelFaults = {}
  FillBound = 1
  ContextBound = 1
  Candidates <- MCMapped
  FillArgs <- MCFillArgs
  ContextArgs <- MCContextArgs
  Snapshots <- MCContextArgs
SPECIFICATION Spec
SYMMETRY Symmetry
INVARIANTS
  BeamReadsItsOwnPast
  ActiveBeamsAreDistinct
