\* Both passes exported dynamic: prefill and the first decoding step go through the
\* session's one-lane scratch cache and are copied to every lane.  Whole calls, with ids
\* that are told apart.  A fill may evict a part of the history and keep another.
CONSTANTS
  PreMax = 6
  Beam = 2
  Slots = {s1}
  Tokens = {1, 2}
  BOS = BOS
  BadId = BadId
  Unmapped = Unmapped
  NoTok = NoTok
  NoSlot = NoSlot
  SlotCapacity = 4
  MaxHistory = 3
  SlackInterval = 1
  MaxPinyin = 1
  Pre1Batch = 0
  Pre2Batch = 0
  ModelFaults = {"prefill"}
  FillBound = 0
  ContextBound = 0
  Candidates = {Unmapped}
  FillArgs <- MCLedgerFills
  ContextArgs <- MCLedgerContexts
  Snapshots <- MCLedgerSnapshots
SPECIFICATION Spec
INVARIANTS
  CommittedHistoryIsCausal
PROPERTIES
  ImplementsCommittedText
