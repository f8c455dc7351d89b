\* SessionBeam's instance, for what cache-semantics.md says of the first query.
CONSTANTS
  PreMax = 7
  Beam = 2
  Slots = {s1}
  Tokens = {a, b}
  BOS = BOS
  BadId = BadId
  Unmapped = Unmapped
  NoTok = NoTok
  NoSlot = NoSlot
  SlotCapacity = 5
  MaxHistory = 2
  SlackInterval = 1
  MaxPinyin = 2
  Pre1Batch = 2
  Pre2Batch = 2
  ModelFaults = {"prefill", "decode"}
  FillBound = 2
  ContextBound = 2
  Candidates <- MCCandidates
  FillArgs <- MCFillArgs
  ContextArgs <- MCContextArgs
  Snapshots <- MCContextArgs
SPECIFICATION Spec
SYMMETRY Symmetry
INVARIANTS
  FirstQueryIsTheLastCommittedToken
