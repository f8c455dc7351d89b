\* One character with an id and one of two bytes without.  Fairness of the loop's body;
\* two syllables, so that a call stops in any of its steps.
\* The demo ends: no deadlock check.
CONSTANTS
  a = a
  b = b
  Tokens = {b}
  Candidates = {b, Unmapped}
  PreMax = 6
  Beam = 1
  BOS = BOS
  BadId = BadId
  Unmapped = Unmapped
  NoTok = NoTok
  NoSlot = NoSlot
  Letter = Letter
  SlotCapacity = 5
  MaxHistory = 2
  SlackInterval = 1
  MaxPinyin = 2
  Pre1Batch = 0
  Pre2Batch = 0
  MinAccept = 1
  TrialNum = 1
  TrialDen = 3
  MaxLetters = 1
  MaxBytes = 2
  ModelFaults = {}
  Slots <- TwoSlots
  Width <- MCWidth
  FillArgs <- NoArgs
  ContextArgs <- NoArgs
  Snapshots <- NoArgs
  Texts <- NoArgs
  Ahead <- NoArgs
  Requests <- NoArgs
SPECIFICATION FairDemoSpec
CHECK_DEADLOCK FALSE
INVARIANTS
  EditorsHoldWholeCharacters
PROPERTIES
  KeyIsAnswered
