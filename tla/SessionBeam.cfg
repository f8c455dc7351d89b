\* One slot, two lanes, both passes exported for the beam: every execution writes
\* the slot itself.  A pinyin window is two syllables, the
\* model's cache one position longer than the configuration asks for.
CONSTANTS
  PreMax = 7
  Beam = 2
  Slots = {s1}
  Tokens = {a, b}
  BOS = BOS
  BadId = BadId
  Unmapped = Unmapped
  NoTok = NoTok
  NoSlot = NoSlot
  SlotCapacity = 5
  MaxHistory = 2
  SlackInterval = 1
  MaxPinyin = 2
  Pre1Batch = 2
  Pre2Batch = 2
  ModelFaults = {"prefill", "decode"}
  FillBound = 3
  ContextBound = 3
  Candidates <- MCCandidates
  FillArgs <- MCFillArgs
  ContextArgs <- MCContextArgs
  Snapshots <- MCContextArgs
SPECIFICATION Spec
SYMMETRY Symmetry
INVARIANTS
  TypeOK
  CursorsAgree
  CommittedHistoryIsCausal
  CancelRestoresCursor
  WindowAlwaysFits
  ValidSnapshotIsAccepted
