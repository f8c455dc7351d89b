\* Three slots, one of them on trial (a third of three): the third reuse demotes.  A
\* slot of five ids can hold two matches of the same piece, before and after the
\* slack.  One request is longer than a slot.
CONSTANTS
  a = a
  b = b
  PreMax = 7
  Beam = 2
  BOS = BOS
  NoTok = NoTok
  NoSlot = NoSlot
  SlotCapacity = 5
  MinAccept = 2
  SlackInterval = 2
  TrialNum = 1
  TrialDen = 3
  Slots <- ThreeSlots
  Tokens <- MCTokens
  Texts <- MCTexts
  Ahead <- MCAhead
  Requests <- MCRequests
SPECIFICATION ManagerSpec
INVARIANTS
  ManagerTypeOK
  ReplyIsReadyToFill
  SlotsHoldTheirHistory
  TrialSlotsRemain
PROPERTIES
  LongestPieceIsReused
  ProtectedTextSurvives
