\* Two histories over two slots, texts of up to two ids (a full window), one syllable.
\* The demo ends: no deadlock check.
CONSTANTS
  a = a
  b = b
  Tokens = {a, b}
  Candidates = {a, b}
  PreMax = 5
  Beam = 1
  BOS = BOS
  BadId = BadId
  Unmapped = Unmapped
  NoTok = NoTok
  NoSlot = NoSlot
  Letter = Letter
  SlotCapacity = 4
  MaxHistory = 2
  SlackInterval = 1
  MaxPinyin = 1
  Pre1Batch = 0
  Pre2Batch = 0
  MinAccept = 1
  TrialNum = 1
  TrialDen = 3
  MaxLetters = 1
  MaxBytes = 2
  ModelFaults = {}
  Slots <- TwoSlots
  Width <- MCWidth
  FillArgs <- NoArgs
  ContextArgs <- NoArgs
  Snapshots <- NoArgs
  Texts <- NoArgs
  Ahead <- NoArgs
  Requests <- NoArgs
SPECIFICATION DemoSpec
CHECK_DEADLOCK FALSE
SYMMETRY Symmetry
INVARIANTS
  GeneratesFromTextBeforeCursor
  CandidatesContinueText
  CommittedHistoryIsCausal
