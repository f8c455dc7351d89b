-------------------------- MODULE ContextManagerProofs --------------------------
(***************************************************************************)
(* Theorems about ContextManager, for every number of slots, every share   *)
(* on trial, every text and every request.                                 *)
(***************************************************************************)
EXTENDS ContextManager, ContextProofs, NaturalsFacts

-----------------------------------------------------------------------------
(* Requests *)

\* A request keeps its newest ids, as many as a slot holds.
LEMMA TrimmedIds ==
  ASSUME NEW asked \in Seq(Vocab)
  PROVE  Trimmed(asked) \in Seq(Vocab) /\ Len(Trimmed(asked)) <= SlotCapacity
<1>1. Len(asked) \in Nat /\ SlotCapacity \in Nat
  BY SlotConfig
<1>2. CASE Len(asked) > SlotCapacity
  <2>1. SlotCapacity \in 0 .. Len(asked)
    BY <1>1, <1>2
  <2>2. LastIds(asked, SlotCapacity) \in Seq(Vocab)
        /\ Len(LastIds(asked, SlotCapacity)) = SlotCapacity
    BY <2>1, LastIdsAt
  <2> QED BY <1>1, <1>2, <2>2 DEF Trimmed
<1>3. CASE ~(Len(asked) > SlotCapacity)
  BY <1>1, <1>3 DEF Trimmed
<1> QED BY <1>2, <1>3

-----------------------------------------------------------------------------
(* Matches *)

SlotIds == context_ids \in [Slots -> Seq(Vocab)]

\* The common piece is held, and no longer one is.
LEMMA CommonIsLongest ==
  ASSUME SlotIds, NEW s \in Slots, NEW target \in Seq(Vocab),
         NEW offset \in 0 .. Len(context_ids[s])
  PROVE  /\ Common(s, offset, target) \in 0 .. Len(target)
         /\ Holds(s, offset, target, Common(s, offset, target))
         /\ \A k \in 0 .. Len(target) :
              Holds(s, offset, target, k) => k <= Common(s, offset, target)
<1> DEFINE held == {k \in 0 .. Len(target) : Holds(s, offset, target, k)}
<1>1. context_ids[s] \in Seq(Vocab) /\ Len(context_ids[s]) \in Nat /\ Len(target) \in Nat
  BY DEF SlotIds
<1>2. 0 \in held
  <2>1. /\ SubSeq(context_ids[s], offset + 1, offset) = <<>>
        /\ SubSeq(target, 1, 0) = <<>>
    BY <1>1, SubSeqEmpty
  <2> QED BY <1>1, <2>1 DEF Holds
<1>3. Max(held) \in held /\ \A k \in held : k <= Max(held)
  <2>1. held \in SUBSET (0 .. Len(target)) /\ held # {}
    BY <1>2
  <2> HIDE DEF held
  <2> QED BY <1>1, <2>1, MaxIsGreatest
<1> QED BY <1>3 DEF Common

\* The first pieces a slot holds, up to the common one.
LEMMA HeldPiece ==
  ASSUME SlotIds, NEW s \in Slots, NEW target \in Seq(Vocab), NEW offset \in Nat,
         NEW k \in Nat, Holds(s, offset, target, k)
  PROVE  /\ SubSeq(target, 1, k) \in Seq(Vocab) /\ Len(SubSeq(target, 1, k)) = k
         /\ SubSeq(target, 1, k) = SubSeq(context_ids[s], offset + 1, offset + k)
         /\ \A i \in 1 .. k : SubSeq(target, 1, k)[i] = context_ids[s][offset + i]
<1>1. /\ context_ids[s] \in Seq(Vocab) /\ Len(context_ids[s]) \in Nat /\ Len(target) \in Nat
      /\ offset + k <= Len(context_ids[s]) /\ k <= Len(target)
      /\ SubSeq(context_ids[s], offset + 1, offset + k) = SubSeq(target, 1, k)
  BY DEF SlotIds, Holds
<1>2. \A i \in offset + 1 .. offset + k : context_ids[s][i] \in Vocab
  BY <1>1
<1> DEFINE piece == SubSeq(context_ids[s], offset + 1, offset + k)
<1>3. /\ piece \in Seq(Vocab)
      /\ Len(piece) = IF offset + 1 <= offset + k THEN offset + k - (offset + 1) + 1 ELSE 0
      /\ \A i \in 1 .. offset + k - (offset + 1) + 1 :
           piece[i] = context_ids[s][offset + 1 + i - 1]
  BY <1>2, SubSeqProperties
<1>4. Len(piece) = k /\ \A i \in 1 .. k : piece[i] = context_ids[s][offset + i]
  <2> HIDE DEF piece
  <2> QED BY <1>3
<1> QED BY <1>1, <1>3, <1>4

\* What a set of matches to choose from is.
MatchesOf(matches, target) ==
  \A m \in matches :
    /\ m.slot \in Slots /\ m.offset \in 0 .. Len(context_ids[m.slot])
    /\ m.length \in 1 .. Len(target) /\ Holds(m.slot, m.offset, target, m.length)

\* A common prefix is one, at the length Common gives.
LEMMA PrefixMatchesHold ==
  ASSUME SlotIds, NEW target \in Seq(Vocab)
  PROVE  /\ MatchesOf(PrefixMatches(target), target)
         /\ \A m \in PrefixMatches(target) : m.offset = 0
<1>1. \A s \in Slots : 0 \in 0 .. Len(context_ids[s])
  BY DEF SlotIds
<1>2. ASSUME NEW m \in PrefixMatches(target)
      PROVE  /\ m.slot \in Slots /\ m.offset = 0 /\ m.offset \in 0 .. Len(context_ids[m.slot])
             /\ m.length \in 1 .. Len(target) /\ Holds(m.slot, m.offset, target, m.length)
  <2>1. PICK s \in Slots : m = Match(s, 0, target) /\ m.length > 0
    BY DEF PrefixMatches
  <2>2. m.slot = s /\ m.offset = 0 /\ m.length = Common(s, 0, target)
    BY <2>1 DEF Match
  <2> QED BY <1>1, <2>1, <2>2, CommonIsLongest
<1> QED BY <1>2 DEF MatchesOf

\* A common piece inside the text is one, where Common says.
LEMMA MiddleMatchesHold ==
  ASSUME SlotIds, NEW target \in Seq(Vocab)
  PROVE  /\ MatchesOf(MiddleMatches(target), target)
         /\ \A m \in MiddleMatches(target) : m.offset > 0 /\ m.length >= MinAccept
<1>1. ASSUME NEW m \in MiddleMatches(target)
      PROVE  /\ m.slot \in Slots /\ m.offset \in 0 .. Len(context_ids[m.slot])
             /\ m.length \in 1 .. Len(target) /\ Holds(m.slot, m.offset, target, m.length)
             /\ m.offset > 0 /\ m.length >= MinAccept
  <2>0. PICK s \in Slots : \E o \in 1 .. Len(context_ids[s]) - 1 :
          m = Match(s, o, target) /\ m.length >= MinAccept
    BY DEF MiddleMatches
  <2>1. PICK o \in 1 .. Len(context_ids[s]) - 1 :
          m = Match(s, o, target) /\ m.length >= MinAccept
    BY <2>0
  <2>2. m.slot = s /\ m.offset = o /\ m.length = Common(s, o, target)
    BY <2>1 DEF Match
  <2>3. Len(context_ids[s]) \in Nat
    BY DEF SlotIds
  <2>4. o \in 0 .. Len(context_ids[s]) /\ o > 0
    BY <2>3
  <2>5. MinAccept \in Nat \ {0}
    BY ManagerConfig
  <2> QED BY <2>1, <2>2, <2>4, <2>5, CommonIsLongest
<1> QED BY <1>1 DEF MatchesOf

\* The best match is one of them, and none is longer.
LEMMA BestIsLongest ==
  ASSUME SlotIds, NEW target \in Seq(Vocab), NEW matches, matches # {},
         MatchesOf(matches, target)
  PROVE  Best(matches) \in matches /\ \A n \in matches : n.length <= Best(matches).length
<1>0. \A m \in matches : m.length \in Nat /\ m.offset \in Nat /\ m.slot \in Nat
                         /\ m.length \in 0 .. Len(target)
  <2>1. \A s \in Slots : s \in Nat
    BY ManagerConfig
  <2> QED BY <2>1 DEF MatchesOf, SlotIds
<1> DEFINE lengths == {m.length : m \in matches}
<1>1. PICK longest \in lengths : \A n \in lengths : n <= longest
  <2>1. lengths \in SUBSET (0 .. Len(target)) /\ lengths # {}
    BY <1>0
  <2>2. Len(target) \in Nat
    OBVIOUS
  <2> HIDE DEF lengths
  <2> QED BY <2>1, <2>2, GreatestNat
<1> DEFINE long    == {m \in matches : m.length = longest}
           offsets == {m.offset : m \in long}
<1>2. PICK nearest \in offsets : \A n \in offsets : nearest <= n
  <2>1. offsets \in SUBSET Nat /\ offsets # {}
    BY <1>0, <1>1
  <2> HIDE DEF offsets
  <2> QED BY <2>1, LeastNat
<1> DEFINE near  == {m \in long : m.offset = nearest}
           slots == {m.slot : m \in near}
<1>3. PICK first \in slots : \A n \in slots : first <= n
  <2>1. slots \in SUBSET Nat /\ slots # {}
    BY <1>0, <1>2
  <2> HIDE DEF slots
  <2> QED BY <2>1, LeastNat
<1>4. PICK m \in near : m.slot = first
  BY <1>3
<1>5. \A n \in matches :
        \/ m.length > n.length
        \/ m.length = n.length /\ m.offset < n.offset
        \/ m.length = n.length /\ m.offset = n.offset /\ m.slot <= n.slot
  <2> SUFFICES ASSUME NEW n \in matches
               PROVE  \/ m.length > n.length
                      \/ m.length = n.length /\ m.offset < n.offset
                      \/ m.length = n.length /\ m.offset = n.offset /\ m.slot <= n.slot
    OBVIOUS
  <2>1. m \in matches /\ m.length = longest /\ m.offset = nearest /\ m.slot = first
    BY <1>4
  <2>2. n.length <= longest
    BY <1>1
  <2>3. n.length = longest => nearest <= n.offset
    BY <1>2
  <2>4. n.length = longest /\ n.offset = nearest => first <= n.slot
    BY <1>3
  <2> QED BY <1>0, <2>1, <2>2, <2>3, <2>4
<1>6. /\ Best(matches) \in matches
      /\ \A n \in matches :
           \/ Best(matches).length > n.length
           \/ Best(matches).length = n.length /\ Best(matches).offset < n.offset
           \/ /\ Best(matches).length = n.length /\ Best(matches).offset = n.offset
              /\ Best(matches).slot <= n.slot
  <2>1. m \in matches
    BY <1>4
  <2> HIDE DEF lengths, long, offsets, near, slots
  <2> QED BY <1>5, <2>1 DEF Best
<1> QED BY <1>0, <1>6

\* The farthest match is one of them.
LEMMA FarthestIsOne ==
  ASSUME SlotIds, NEW target \in Seq(Vocab), NEW matches, matches # {},
         MatchesOf(matches, target)
  PROVE  Farthest(matches) \in matches
<1>0. \A m \in matches : /\ m.slot \in 0 .. NumContexts - 1 /\ m.slot \in Slots
                         /\ m.offset \in 0 .. Len(context_ids[m.slot])
                         /\ Len(context_ids[m.slot]) \in Nat
  BY ManagerConfig DEF MatchesOf, SlotIds
<1> DEFINE slots == {m.slot : m \in matches}
<1>1. PICK last \in slots : \A n \in slots : n <= last
  <2>1. slots \in SUBSET (0 .. NumContexts - 1) /\ slots # {}
    BY <1>0
  <2>2. NumContexts - 1 \in Nat
    BY ManagerConfig
  <2> HIDE DEF slots
  <2> QED BY <2>1, <2>2, GreatestNat
<1> DEFINE there   == {m \in matches : m.slot = last}
           offsets == {m.offset : m \in there}
<1>2. PICK far \in offsets : \A n \in offsets : n <= far
  <2>1. offsets \in SUBSET (0 .. Len(context_ids[last])) /\ offsets # {}
    BY <1>0, <1>1
  <2>2. Len(context_ids[last]) \in Nat
    BY <1>0, <1>1
  <2> HIDE DEF offsets
  <2> QED BY <2>1, <2>2, GreatestNat
<1>3. PICK m \in there : m.offset = far
  BY <1>2
<1>4. \A n \in matches : m.slot > n.slot \/ (m.slot = n.slot /\ m.offset >= n.offset)
  <2> SUFFICES ASSUME NEW n \in matches
               PROVE  m.slot > n.slot \/ (m.slot = n.slot /\ m.offset >= n.offset)
    OBVIOUS
  <2>1. m \in matches /\ m.slot = last /\ m.offset = far
    BY <1>3
  <2>2. n.slot <= last
    BY <1>1
  <2>3. n.slot = last => n.offset <= far
    BY <1>2
  <2> QED BY <1>0, <2>1, <2>2, <2>3
<1>5. m \in matches
  BY <1>3
<1> HIDE DEF slots, there, offsets
<1> QED BY <1>4, <1>5 DEF Farthest

\* So is the piece from the middle that is reused, whatever the slack chose.
LEMMA BestMiddleIsLongest ==
  ASSUME SlotIds, NEW target \in Seq(Vocab), MiddleMatches(target) # {}
  PROVE  /\ BestMiddle(target) \in MiddleMatches(target)
         /\ \A n \in MiddleMatches(target) : n.length <= BestMiddle(target).length
<1> DEFINE best  == Best(MiddleMatches(target))
           slack == {m \in MiddleMatches(target) :
                       m.offset >= SlackInterval /\ m.length >= best.length}
<1>1. best \in MiddleMatches(target) /\ \A n \in MiddleMatches(target) : n.length <= best.length
  BY MiddleMatchesHold, BestIsLongest
<1>2. CASE SlackInterval > 1 /\ best.offset < SlackInterval /\ slack # {}
  <2>1. BestMiddle(target) = Farthest(slack)
    BY <1>2 DEF BestMiddle
  <2>2. Farthest(slack) \in slack
    <3>1. MatchesOf(slack, target)
      BY MiddleMatchesHold DEF MatchesOf
    <3> HIDE DEF slack
    <3> QED BY <1>2, <3>1, FarthestIsOne
  <2>3. /\ Farthest(slack) \in MiddleMatches(target)
        /\ Farthest(slack).length >= best.length
    BY <2>2
  <2>4. \A n \in MiddleMatches(target) : n.length \in Nat
    BY MiddleMatchesHold DEF MatchesOf
  <2> HIDE DEF slack, best
  <2> QED BY <1>1, <2>1, <2>3, <2>4
<1>3. CASE ~(SlackInterval > 1 /\ best.offset < SlackInterval /\ slack # {})
  <2>1. BestMiddle(target) = best
    BY <1>3 DEF BestMiddle
  <2> QED BY <1>1, <2>1
<1> QED BY <1>2, <1>3

-----------------------------------------------------------------------------
(* Slots *)

\* What a slot always is: ids that fit, a history of nothing or of BOS and the
\* ids, and in every lane the pass-1 state of that history.
GoodSlot(kv, ids, cur, hist) ==
  /\ kv \in [Lanes -> [Pos -> Cell]] /\ ids \in Seq(Vocab) /\ Fits(ids)
  /\ hist = 1 + Len(ids) \/ (hist = 0 /\ ids = <<>>)
  /\ cur \in 0 .. PreMax
  /\ \A l \in Lanes : \A p \in 0 .. hist - 1 : IsHistoryCell(kv[l][p], ids, p)

GoodSlots ==
  /\ SlotsTypeOK
  /\ \A s \in Slots :
       GoodSlot(self_kv[s], context_ids[s], current_seqlen[s], history_seqlen[s])

\* A history never needs more positions than the cache has.
LEMMA HistoryFits ==
  ASSUME NEW kv, NEW ids, NEW cur, NEW hist, GoodSlot(kv, ids, cur, hist)
  PROVE  Len(ids) \in Nat /\ Len(ids) < PreMax /\ hist \in 0 .. PreMax
<1>1. Len(ids) \in Nat /\ Len(ids) <= SlotCapacity
  BY DEF GoodSlot, Fits
<1> QED BY <1>1, SlotConfig, CacheShape DEF GoodSlot

\* Writing one slot with a good one leaves all of them good.
LEMMA WriteSlot ==
  ASSUME GoodSlots, NEW s \in Slots, NEW kv, NEW meta,
         GoodSlot(kv, meta.ids, meta.cur, meta.hist),
         self_kv' = [self_kv EXCEPT ![s] = kv], WriteMeta(s, meta)
  PROVE  GoodSlots'
<1>1. meta.hist \in 0 .. PreMax
  BY HistoryFits
<1>2. /\ context_ids' = [context_ids EXCEPT ![s] = meta.ids]
      /\ current_seqlen' = [current_seqlen EXCEPT ![s] = meta.cur]
      /\ history_seqlen' = [history_seqlen EXCEPT ![s] = meta.hist]
  BY DEF WriteMeta
<1>3. SlotsTypeOK'
  BY <1>1, <1>2 DEF GoodSlots, SlotsTypeOK, GoodSlot
<1>4. ASSUME NEW r \in Slots
      PROVE  GoodSlot(self_kv'[r], context_ids'[r], current_seqlen'[r], history_seqlen'[r])
  <2>1. CASE r = s
    <3>1. /\ self_kv'[r] = kv /\ context_ids'[r] = meta.ids
          /\ current_seqlen'[r] = meta.cur /\ history_seqlen'[r] = meta.hist
      BY <1>2, <2>1 DEF GoodSlots, SlotsTypeOK
    <3> QED BY <3>1
  <2>2. CASE r # s
    <3>1. /\ self_kv'[r] = self_kv[r] /\ context_ids'[r] = context_ids[r]
          /\ current_seqlen'[r] = current_seqlen[r] /\ history_seqlen'[r] = history_seqlen[r]
      BY <1>2, <2>2 DEF GoodSlots, SlotsTypeOK
    <3> QED BY <3>1 DEF GoodSlots
  <2> QED BY <2>1, <2>2
<1> QED BY <1>3, <1>4 DEF GoodSlots, GoodSlot, Fits, IsHistoryCell

\* A slot reduced to a match holds the matched piece of the request, and its cache
\* the history of that piece.
LEMMA ReusedIsGood ==
  ASSUME GoodSlots, NEW target \in Seq(Vocab), NEW m,
         m.slot \in Slots, m.offset \in 0 .. Len(context_ids[m.slot]),
         m.length \in 1 .. Len(target), Holds(m.slot, m.offset, target, m.length)
  PROVE  LET meta == Reused(m, target).meta
         IN  /\ GoodSlot(Reused(m, target).self, meta.ids, meta.cur, meta.hist)
             /\ meta.ids = SubSeq(target, 1, m.length) /\ Len(meta.ids) = m.length
             /\ meta.hist = 1 + m.length /\ meta.cur = 1 + m.length
<1> DEFINE s    == m.slot
           ids  == SubSeq(target, 1, m.length)
           kv   == Reused(m, target).self
           meta == Reused(m, target).meta
<1>0. /\ SlotIds /\ m.offset \in Nat /\ m.length \in Nat
      /\ context_ids[s] \in Seq(Vocab) /\ Len(context_ids[s]) \in Nat
      /\ GoodSlot(self_kv[s], context_ids[s], current_seqlen[s], history_seqlen[s])
      /\ Len(context_ids[s]) < PreMax /\ Len(context_ids[s]) <= SlotCapacity
      /\ m.offset + m.length <= Len(context_ids[s])
  <2>1. SlotIds /\ context_ids[s] \in Seq(Vocab)
    BY DEF GoodSlots, SlotsTypeOK, SlotIds
  <2>2. GoodSlot(self_kv[s], context_ids[s], current_seqlen[s], history_seqlen[s])
    BY DEF GoodSlots
  <2>3. Len(context_ids[s]) \in Nat /\ Len(context_ids[s]) < PreMax
    BY <2>2, HistoryFits
  <2>4. Len(context_ids[s]) <= SlotCapacity
    BY <2>2 DEF GoodSlot, Fits
  <2>5. m.offset \in Nat /\ m.length \in Nat /\ m.offset + m.length <= Len(context_ids[s])
    BY DEF Holds
  <2> QED BY <2>1, <2>2, <2>3, <2>4, <2>5
<1>1. /\ ids \in Seq(Vocab) /\ Len(ids) = m.length
      /\ ids = SubSeq(context_ids[s], m.offset + 1, m.offset + m.length)
      /\ \A i \in 1 .. m.length : ids[i] = context_ids[s][m.offset + i]
  BY <1>0, HeldPiece, ZenonT(30)
<1>2. /\ meta.ids = ids /\ meta.cur = 1 + m.length /\ meta.hist = 1 + m.length
      /\ kv = IF m.offset = 0 THEN self_kv[s]
              ELSE shift_cached_tokens(self_kv[s], m.offset, m.length)
  BY DEF Reused
<1>3. /\ self_kv[s] \in [Lanes -> [Pos -> Cell]]
      /\ \A l \in Lanes : \A p \in 0 .. Len(context_ids[s]) :
           IsHistoryCell(self_kv[s][l][p], context_ids[s], p)
  <2>1. history_seqlen[s] = 1 + Len(context_ids[s])
    BY <1>0 DEF GoodSlot
  <2> QED BY <1>0, <2>1 DEF GoodSlot
<1>4. /\ kv \in [Lanes -> [Pos -> Cell]]
      /\ \A l \in Lanes : \A p \in 0 .. m.length : IsHistoryCell(kv[l][p], ids, p)
  <2>1. CASE m.offset = 0
    <3>1. kv = self_kv[s] /\ \A i \in 1 .. m.length : context_ids[s][i] = ids[i]
      <4> HIDE DEF kv, ids
      <4> QED BY <1>0, <1>1, <1>2, <2>1
    <3>2. ASSUME NEW l \in Lanes, NEW p \in 0 .. m.length
          PROVE  IsHistoryCell(kv[l][p], ids, p)
      <4>1. IsHistoryCell(self_kv[s][l][p], context_ids[s], p)
        <5>1. p \in 0 .. Len(context_ids[s])
          BY <1>0, <2>1
        <5> QED BY <1>3, <5>1
      <4>2. m.length <= Len(context_ids[s]) /\ m.length <= Len(ids)
        BY <1>0, <1>1, <2>1
      <4>3. IsHistoryCell(self_kv[s][l][p], ids, p)
        <5> HIDE DEF kv, ids, s
        <5> QED BY <1>0, <1>1, <3>1, <4>1, <4>2, SharedHistory
      <4> QED BY <3>1, <4>3
    <3> QED BY <1>3, <3>1, <3>2
  <2>2. CASE m.offset # 0
    <3>1. kv = [l \in Lanes |->
                  Forget(shift_batch_tokens(self_kv[s][l], m.offset, m.length), m.length)]
      <4>1. kv = shift_cached_tokens(self_kv[s], m.offset, m.length)
        BY <1>2, <2>2
      <4> QED BY <4>1 DEF shift_cached_tokens, shift_all
    <3>2. ASSUME NEW l \in Lanes
          PROVE  /\ kv[l] \in [Pos -> Cell]
                 /\ \A p \in 0 .. m.length : IsHistoryCell(kv[l][p], ids, p)
      <4>1. /\ kv[l] = Forget(shift_batch_tokens(self_kv[s][l], m.offset, m.length), m.length)
            /\ self_kv[s][l] \in [Pos -> Cell]
            /\ \A q \in 0 .. m.offset + m.length :
                 IsHistoryCell(self_kv[s][l][q], context_ids[s], q)
        <5>1. \A q \in 0 .. m.offset + m.length : q \in 0 .. Len(context_ids[s])
          BY <1>0
        <5> HIDE DEF kv
        <5> QED BY <1>3, <3>1, <5>1
      <4>2. m.offset + m.length < PreMax
        BY <1>0, CacheShape
      <4>3. kv[l] \in [Pos -> Cell]
        <5> HIDE DEF kv, s
        <5> QED BY <1>0, <4>1, <4>2, ShiftedType
      <4>4. ASSUME NEW p \in 0 .. m.length
            PROVE  IsHistoryCell(kv[l][p], ids, p)
        <5> HIDE DEF kv, s, ids
        <5> QED BY <1>0, <1>1, <4>1, ShiftedHistory
      <4> QED BY <4>3, <4>4
    <3>3. kv \in [Lanes -> [Pos -> Cell]]
      <4> HIDE DEF kv
      <4> QED BY <3>1, <3>2
    <3> QED BY <3>2, <3>3
  <2> QED BY <2>1, <2>2
<1>5. GoodSlot(kv, ids, 1 + m.length, 1 + m.length)
  <2>1. Fits(ids) /\ 1 + m.length \in 0 .. PreMax
    <3>1. m.length <= SlotCapacity /\ 1 + m.length <= PreMax /\ m.length \in Nat
      <4> DEFINE n == Len(context_ids[s])
      <4>1. n \in Nat /\ n < PreMax /\ n <= SlotCapacity /\ m.offset + m.length <= n
            /\ m.offset \in Nat /\ m.length \in Nat
        BY <1>0
      <4> HIDE DEF n
      <4> QED BY <4>1, CacheShape, SlotConfig
    <3>2. Len(ids) = m.length
      BY <1>1
    <3> HIDE DEF ids
    <3> QED BY <3>1, <3>2, CacheShape DEF Fits
  <2>2. \A p \in 0 .. (1 + m.length) - 1 : p \in 0 .. m.length
    BY <1>0
  <2> HIDE DEF ids, kv
  <2> QED BY <1>1, <1>4, <2>1, <2>2 DEF GoodSlot
<1> QED BY <1>1, <1>2, <1>5

\* So is a slot a session leaves: its text in pass-1 state, or BOS alone, or nothing.
LEMMA CommittedIsGood ==
  ASSUME GoodSlots, NEW s \in Slots, NEW text \in Texts,
         NEW hist \in IF text = <<>> THEN {0, 1} ELSE {1 + Len(text)}, NEW ahead \in Ahead
  PROVE  LET history == <<BOS>> \o text
             cell(i) == [tok |-> history[i], kind |-> "causal", ctx |-> SubSeq(history, 1, i - 1)]
         IN  GoodSlot([l \in Lanes |-> update_mhsa_kv(self_kv[s][l], 0,
                                        [i \in 1 .. hist |-> cell(i)])],
                      text, AtMost(hist + ahead, PreMax), hist)
<1> DEFINE history == <<BOS>> \o text
           cell(i) == [tok |-> history[i], kind |-> "causal", ctx |-> SubSeq(history, 1, i - 1)]
           cells   == [i \in 1 .. hist |-> cell(i)]
           kv      == [l \in Lanes |-> update_mhsa_kv(self_kv[s][l], 0, cells)]
<1>1. /\ text \in Seq(Vocab) /\ Fits(text) /\ Len(text) \in Nat
      /\ hist \in 0 .. 1 + Len(text) /\ hist \in Nat /\ hist <= PreMax
      /\ hist = 1 + Len(text) \/ (hist = 0 /\ text = <<>>)
  BY ManagerConfig, SlotConfig, CacheShape DEF Fits
<1>2. /\ history \in Seq(Vocab) /\ Len(history) = 1 + Len(text)
  BY <1>1, HistoryAt
<1>3. \A i \in 1 .. hist : cell(i) \in Cell
  <2> SUFFICES ASSUME NEW i \in 1 .. hist PROVE cell(i) \in Cell
    OBVIOUS
  <2>1. history[i] \in Vocab
    <3> HIDE DEF history
    <3> QED BY <1>1, <1>2
  <2>2. SubSeq(history, 1, i - 1) \in Seq(Vocab \cup {NoTok})
    <3> HIDE DEF history
    <3>1. \A j \in 1 .. i - 1 : history[j] \in Vocab \cup {NoTok}
      BY <1>1, <1>2
    <3>2. i - 1 \in Int
      BY <1>1
    <3> QED BY <3>1, <3>2, SubSeqProperties
  <2> HIDE DEF history
  <2> QED BY <2>1, <2>2 DEF Cell, Kinds
<1>4. cells \in Seq(Cell) /\ Len(cells) = hist /\ \A i \in 1 .. hist : cells[i] = cell(i)
  <2>1. cells \in [1 .. hist -> Cell]
    <3> HIDE DEF cell
    <3> QED BY <1>3
  <2>2. cells \in Seq(Cell)
    <3> HIDE DEF cells
    <3> QED BY <1>1, <2>1, SeqDef
  <2>3. Len(cells) = hist
    <3>1. DOMAIN cells = 1 .. hist /\ DOMAIN cells = 1 .. Len(cells) /\ Len(cells) \in Nat
      <4>1. DOMAIN cells = 1 .. hist
        OBVIOUS
      <4> HIDE DEF cells
      <4> QED BY <2>2, <4>1, LenProperties
    <3> HIDE DEF cells
    <3> QED BY <1>1, <3>1
  <2> QED BY <2>2, <2>3
<1>5. ASSUME NEW l \in Lanes
      PROVE  /\ kv[l] \in [Pos -> Cell]
             /\ \A p \in 0 .. hist - 1 : kv[l][p] = cell(p + 1)
  <2>1. self_kv[s][l] \in [Pos -> Cell]
    BY DEF GoodSlots, SlotsTypeOK
  <2>2. kv[l] = [p \in Pos |-> IF p \in 0 .. 0 + hist - 1 THEN cells[p - 0 + 1]
                                                           ELSE self_kv[s][l][p]]
    <3> HIDE DEF cells
    <3> QED BY <1>4 DEF update_mhsa_kv, Slice
  <2>3. \A p \in 0 .. 0 + hist - 1 : p - 0 + 1 \in 1 .. hist /\ p - 0 + 1 = p + 1 /\ p \in Pos
    BY <1>1, CacheShape DEF Pos
  <2>4. \A p \in 0 .. 0 + hist - 1 : cells[p - 0 + 1] = cell(p + 1) /\ cell(p + 1) \in Cell
    <3> HIDE DEF cells, cell
    <3> QED BY <1>3, <1>4, <2>3
  <2> HIDE DEF cells, cell, kv
  <2>5. kv[l] \in [Pos -> Cell]
    BY <2>1, <2>2, <2>4
  <2>6. \A p \in 0 .. hist - 1 : kv[l][p] = cell(p + 1)
    BY <1>1, <2>2, <2>3, <2>4
  <2> QED BY <2>5, <2>6
<1>6. \A p \in 0 .. hist - 1 : IsHistoryCell(cell(p + 1), text, p)
  <2> SUFFICES ASSUME NEW p \in 0 .. hist - 1 PROVE IsHistoryCell(cell(p + 1), text, p)
    OBVIOUS
  <2>1. p + 1 - 1 = p
    BY <1>1
  <2> HIDE DEF history
  <2>2. /\ cell(p + 1).kind = "causal" /\ cell(p + 1).tok = history[p + 1]
        /\ cell(p + 1).ctx = SubSeq(history, 1, p)
    BY <2>1
  <2> HIDE DEF cell
  <2> QED BY <2>2 DEF IsHistoryCell, history
<1>7. AtMost(hist + ahead, PreMax) \in 0 .. PreMax
  BY <1>1, ManagerConfig, CacheShape DEF AtMost
<1>8. kv \in [Lanes -> [Pos -> Cell]]
  <2>1. kv = [l \in Lanes |-> kv[l]]
    OBVIOUS
  <2> HIDE DEF kv
  <2> QED BY <1>5, <2>1
<1>9. GoodSlot(kv, text, AtMost(hist + ahead, PreMax), hist)
  <2>1. \A l \in Lanes : \A p \in 0 .. hist - 1 : IsHistoryCell(kv[l][p], text, p)
    <3> HIDE DEF kv, cell
    <3> QED BY <1>5, <1>6
  <2> HIDE DEF kv
  <2> QED BY <1>1, <1>7, <1>8, <2>1 DEF GoodSlot
<1> QED BY <1>9

-----------------------------------------------------------------------------
(* Protection *)

ProtectionInv ==
  protected_slots \subseteq Slots /\ Cardinality(protected_slots) <= protected_capacity

\* At least one slot is on trial, and never more than there are.
LEMMA Capacity ==
  /\ IsFiniteSet(Slots) /\ Cardinality(Slots) = NumContexts /\ NumContexts \in Nat \ {0}
  /\ trial_capacity \in 1 .. NumContexts /\ protected_capacity \in 0 .. NumContexts - 1
<1> DEFINE share == (NumContexts * TrialNum + TrialDen - 1) \div TrialDen
           least == Min({share, NumContexts})
<1>1. NumContexts \in Nat \ {0} /\ Slots = 0 .. NumContexts - 1
  BY ManagerConfig
<1>2. IsFiniteSet(Slots) /\ Cardinality(Slots) = NumContexts
  <2>1. IsFiniteSet(0 .. NumContexts - 1)
    BY <1>1, FS_Interval
  <2> QED BY <1>1, <2>1 DEF NumContexts
<1>3. share \in Nat
  <2>1. NumContexts * TrialNum \in Nat /\ TrialDen \in Nat \ {0}
    BY <1>1, ManagerConfig
  <2>2. NumContexts * TrialNum + TrialDen - 1 \in Nat
    BY <2>1
  <2> QED BY <2>1, <2>2
<1>4. least \in Nat /\ least <= NumContexts
  <2> HIDE DEF share
  <2>1. {share, NumContexts} \in SUBSET Nat /\ {share, NumContexts} # {}
    BY <1>1, <1>3
  <2>2. least \in {share, NumContexts} /\ \A y \in {share, NumContexts} : least <= y
    BY <2>1, MinIsLeast
  <2> HIDE DEF least
  <2> QED BY <1>1, <1>3, <2>2
<1>5. trial_capacity \in 1 .. NumContexts
  <2>1. trial_capacity = Max({1, least})
    BY DEF trial_capacity
  <2> HIDE DEF least
  <2>2. {1, least} \in SUBSET (0 .. NumContexts) /\ {1, least} # {} /\ NumContexts \in Nat
    BY <1>1, <1>4
  <2>3. trial_capacity \in {1, least} /\ \A y \in {1, least} : y <= trial_capacity
    BY <2>1, <2>2, MaxIsGreatest
  <2> QED BY <1>1, <1>4, <2>3
<1>6. protected_capacity \in 0 .. NumContexts - 1
  BY <1>1, <1>5 DEF protected_capacity
<1> QED BY <1>1, <1>2, <1>5, <1>6

\* The slots left unprotected are at least those that have to be on trial.
LEMMA TrialSlots ==
  ASSUME ProtectionInv
  PROVE  TrialSlotsRemain /\ Slots \ protected_slots # {}
<1>1. /\ IsFiniteSet(Slots) /\ Cardinality(Slots) = NumContexts /\ NumContexts \in Nat
      /\ trial_capacity \in 1 .. NumContexts
      /\ protected_capacity = NumContexts - trial_capacity
  BY Capacity DEF protected_capacity
<1>2. IsFiniteSet(protected_slots) /\ Cardinality(protected_slots) \in Nat
  <2>1. IsFiniteSet(protected_slots)
    BY <1>1, FS_Subset DEF ProtectionInv
  <2> QED BY <2>1, FS_CardinalityType
<1>3. /\ IsFiniteSet(Slots \ protected_slots)
      /\ Cardinality(Slots \ protected_slots) = NumContexts - Cardinality(protected_slots)
  <2>1. Slots \cap protected_slots = protected_slots
    BY DEF ProtectionInv
  <2> QED BY <1>1, <2>1, FS_Difference
<1>4. Cardinality(Slots \ protected_slots) >= trial_capacity
  BY <1>1, <1>2, <1>3 DEF ProtectionInv
<1>5. Slots \ protected_slots # {}
  <2>1. Cardinality(Slots \ protected_slots) # 0
    BY <1>1, <1>4
  <2> QED BY <2>1, FS_EmptySet
<1> QED BY <1>4, <1>5 DEF TrialSlotsRemain

\* Protecting one more slot demotes another when they are too many.
LEMMA TouchKeepsProtection ==
  ASSUME ProtectionInv, NEW s \in Slots, NEW next \in touch_slot(s)
  PROVE  next \subseteq Slots /\ Cardinality(next) <= protected_capacity
<1>1. /\ IsFiniteSet(protected_slots) /\ Cardinality(protected_slots) \in Nat
      /\ protected_slots \subseteq Slots /\ Cardinality(protected_slots) <= protected_capacity
      /\ protected_capacity \in Nat
  <2>1. IsFiniteSet(protected_slots)
    BY Capacity, FS_Subset DEF ProtectionInv
  <2>2. Cardinality(protected_slots) \in Nat
    BY <2>1, FS_CardinalityType
  <2>3. protected_capacity \in Nat
    BY Capacity
  <2> QED BY <2>1, <2>2, <2>3 DEF ProtectionInv
<1>2. CASE s \in protected_slots \/ protected_capacity = 0
  BY <1>1, <1>2 DEF touch_slot
<1>3. CASE /\ ~(s \in protected_slots \/ protected_capacity = 0)
           /\ Cardinality(protected_slots) >= protected_capacity
  <2>1. PICK demoted \in protected_slots : next = (protected_slots \ {demoted}) \cup {s}
    BY <1>3 DEF touch_slot
  <2>2. /\ IsFiniteSet(protected_slots \ {demoted})
        /\ Cardinality(protected_slots \ {demoted}) = Cardinality(protected_slots) - 1
    BY <1>1, FS_RemoveElement
  <2>3. Cardinality(next) = Cardinality(protected_slots \ {demoted}) + 1
    BY <1>3, <2>1, <2>2, FS_AddElement
  <2> QED BY <1>1, <2>1, <2>2, <2>3
<1>4. CASE /\ ~(s \in protected_slots \/ protected_capacity = 0)
           /\ ~(Cardinality(protected_slots) >= protected_capacity)
  <2>1. next = protected_slots \cup {s}
    BY <1>4 DEF touch_slot
  <2>2. Cardinality(next) = Cardinality(protected_slots) + 1
    BY <1>1, <1>4, <2>1, FS_AddElement
  <2> QED BY <1>1, <1>4, <2>1, <2>2
<1> QED BY <1>2, <1>3, <1>4

\* A slot that is given up was empty or on trial.
LEMMA ReplacementIsExpendable ==
  ASSUME ProtectionInv, NEW s \in choose_replacement_slot
  PROVE  s \in Slots /\ (context_ids[s] = <<>> \/ s \notin protected_slots)
<1> DEFINE empty == {r \in Slots : context_ids[r] = <<>>}
<1>1. CASE empty # {}
  <2>1. s = Min(empty)
    BY <1>1 DEF choose_replacement_slot
  <2>2. Min(empty) \in empty
    <3>1. empty \in SUBSET Nat
      BY ManagerConfig
    <3> HIDE DEF empty
    <3> QED BY <1>1, <3>1, MinIsLeast
  <2> QED BY <2>1, <2>2
<1>2. CASE empty = {}
  <2>1. s \in Slots \ protected_slots
    BY <1>2, TrialSlots DEF choose_replacement_slot
  <2> QED BY <2>1
<1> QED BY <1>1, <1>2

-----------------------------------------------------------------------------
(* Initially, and step by step *)

ReplyTypeOK == reply \in [slot : Slots \cup {NoSlot}, asked : Requests \cup {<<>>}]

\* What is returned for a request of any length holds an initial piece of the newest ids
\* that a slot has room for.
ReplyHoldsItsPiece ==
  reply.slot # NoSlot =>
    LET ids  == context_ids[reply.slot]
        hist == history_seqlen[reply.slot]
    IN  /\ IsPrefix(ids, Trimmed(reply.asked))
        /\ hist = IF ids = <<>> THEN 0 ELSE 1 + Len(ids)
        /\ current_seqlen[reply.slot] = hist

\* The invariants checked, strengthened by what a slot is in every lane and by how
\* many slots are protected: what the next match and the next replacement start from.
ManagerInv == GoodSlots /\ ProtectionInv /\ ReplyTypeOK /\ ReplyHoldsItsPiece

\* The manager starts with empty slots.
LEMMA InitManager == ManagerInit => ManagerInv
<1> SUFFICES ASSUME ManagerInit PROVE ManagerInv
  OBVIOUS
<1>1. /\ self_kv = [s \in Slots |-> ZeroLanes] /\ context_ids = [s \in Slots |-> <<>>]
      /\ current_seqlen = [s \in Slots |-> 0] /\ history_seqlen = [s \in Slots |-> 0]
      /\ protected_slots = {} /\ reply = NoReply
  BY DEF ManagerInit, InitSlots
<1>2. ZeroLanes \in [Lanes -> [Pos -> Cell]]
  BY DEF ZeroLanes, Zero, Cell, Kinds
<1>3. SlotsTypeOK
  BY <1>1, <1>2, CacheShape DEF SlotsTypeOK
<1>4. \A s \in Slots : GoodSlot(self_kv[s], context_ids[s], current_seqlen[s], history_seqlen[s])
  BY <1>1, <1>2, CacheShape, SlotConfig DEF GoodSlot, Fits
<1>5. ProtectionInv
  BY <1>1, Capacity, FS_EmptySet DEF ProtectionInv
<1>6. ReplyTypeOK /\ ReplyHoldsItsPiece
  BY <1>1 DEF ReplyTypeOK, ReplyHoldsItsPiece, NoReply
<1> QED BY <1>3, <1>4, <1>5, <1>6 DEF ManagerInv, GoodSlots

\* A request is answered with a slot: the slot has lost ids or none, holds an initial
\* piece of the request, and the others are what they were.
Answered(s, asked) ==
  /\ s \in Slots /\ reply' = [slot |-> s, asked |-> asked]
  /\ ReplyHoldsItsPiece'
  /\ Len(context_ids'[s]) <= Len(context_ids[s])
  /\ \A r \in Slots : r # s => /\ context_ids'[r] = context_ids[r]
                              /\ current_seqlen'[r] = current_seqlen[r]
                              /\ history_seqlen'[r] = history_seqlen[r]

\* A request answered with a match.
LEMMA MatchAnswers ==
  ASSUME GoodSlots, ProtectionInv, NEW asked \in Seq(Vocab), NEW m,
         m.slot \in Slots, m.offset \in 0 .. Len(context_ids[m.slot]),
         m.length \in 1 .. Len(Trimmed(asked)),
         Holds(m.slot, m.offset, Trimmed(asked), m.length),
         Return(m.slot, asked, Reused(m, Trimmed(asked)).self, Reused(m, Trimmed(asked)).meta),
         protected_slots' \in touch_slot(m.slot)
  PROVE  /\ GoodSlots' /\ ProtectionInv' /\ Answered(m.slot, asked)
         /\ Len(context_ids'[m.slot]) = m.length /\ context_ids'[m.slot] # <<>>
<1> DEFINE s      == m.slot
           target == Trimmed(asked)
           meta   == Reused(m, target).meta
           kv     == Reused(m, target).self
<1>0. /\ target \in Seq(Vocab) /\ Len(target) \in Nat
      /\ m.length \in Nat /\ m.length > 0 /\ m.length <= Len(target)
      /\ m.length <= Len(context_ids[s])
  <2>1. target \in Seq(Vocab)
    BY TrimmedIds
  <2>2. m.offset \in Nat /\ m.length \in Nat /\ Len(context_ids[s]) \in Nat
    BY <2>1 DEF GoodSlots, GoodSlot
  <2>3. m.offset + m.length <= Len(context_ids[s])
    BY DEF Holds
  <2> QED BY <2>1, <2>2, <2>3
<1>1. /\ GoodSlot(kv, meta.ids, meta.cur, meta.hist)
      /\ meta.ids = SubSeq(target, 1, m.length) /\ Len(meta.ids) = m.length
      /\ meta.hist = 1 + m.length /\ meta.cur = 1 + m.length
  BY <1>0, ReusedIsGood
<1>2. /\ self_kv' = [self_kv EXCEPT ![s] = kv] /\ WriteMeta(s, meta)
      /\ reply' = [slot |-> s, asked |-> asked]
  BY DEF Return
<1>3. GoodSlots'
  <2> HIDE DEF meta, kv, target
  <2> QED BY <1>0, <1>1, <1>2, WriteSlot
<1>4. /\ context_ids'[s] = meta.ids /\ current_seqlen'[s] = meta.cur
      /\ history_seqlen'[s] = meta.hist
      /\ \A r \in Slots : r # s => /\ context_ids'[r] = context_ids[r]
                                  /\ current_seqlen'[r] = current_seqlen[r]
                                  /\ history_seqlen'[r] = history_seqlen[r]
  <2> HIDE DEF meta, kv, target
  <2> QED BY <1>0, <1>2 DEF WriteMeta, GoodSlots, SlotsTypeOK
<1>5. ProtectionInv'
  <2>1. protected_slots' \subseteq Slots /\ Cardinality(protected_slots') <= protected_capacity
    BY <1>0, TouchKeepsProtection
  <2> QED BY <2>1 DEF ProtectionInv, protected_capacity, trial_capacity, NumContexts
<1>7. ReplyHoldsItsPiece'
  <2>1. meta.ids # <<>> /\ IsPrefix(meta.ids, target)
    <3>1. meta.ids \in Seq(Vocab)
      <4> HIDE DEF meta, kv
      <4> QED BY <1>1 DEF GoodSlot
    <3>2. SubSeq(meta.ids, 1, Len(meta.ids)) = meta.ids
      <4> HIDE DEF meta
      <4> QED BY <3>1, SubSeqFull
    <3> HIDE DEF meta, target
    <3> QED BY <1>0, <1>1, <3>1, <3>2 DEF IsPrefix
  <2>2. /\ context_ids'[reply'.slot] = meta.ids /\ current_seqlen'[reply'.slot] = meta.cur
        /\ history_seqlen'[reply'.slot] = meta.hist /\ reply'.asked = asked
    <3> HIDE DEF meta, target
    <3> QED BY <1>2, <1>4
  <2>3. IsPrefix(context_ids'[reply'.slot], Trimmed(reply'.asked))
    <3> HIDE DEF meta
    <3> QED BY <2>1, <2>2
  <2>4. /\ history_seqlen'[reply'.slot] = 1 + Len(context_ids'[reply'.slot])
        /\ context_ids'[reply'.slot] # <<>>
        /\ current_seqlen'[reply'.slot] = history_seqlen'[reply'.slot]
    <3> HIDE DEF meta, target
    <3> QED BY <1>1, <2>1, <2>2
  <2> QED BY <2>3, <2>4 DEF ReplyHoldsItsPiece, Trimmed, IsPrefix, LastIds
<1>8. Len(context_ids'[s]) = m.length /\ context_ids'[s] # <<>>
  <2> HIDE DEF meta, target
  <2> QED BY <1>0, <1>1, <1>4
<1>9. Answered(s, asked)
  <2> HIDE DEF meta, target
  <2> QED BY <1>0, <1>2, <1>4, <1>7, <1>8 DEF Answered
<1> QED BY <1>3, <1>5, <1>8, <1>9

\* The three answers of get_context_auto, by what they reuse.
LEMMA PrefixReuse ==
  ASSUME GoodSlots, ProtectionInv, NEW asked \in Seq(Vocab), get_context_auto_prefix(asked)
  PROVE  LET m == Best(PrefixMatches(Trimmed(asked)))
         IN  /\ PrefixWins(Trimmed(asked))
             /\ m \in PrefixMatches(Trimmed(asked))
             /\ \A n \in PrefixMatches(Trimmed(asked)) : n.length <= m.length
             /\ GoodSlots' /\ ProtectionInv' /\ Answered(m.slot, asked)
             /\ Len(context_ids'[m.slot]) = m.length /\ context_ids'[m.slot] # <<>>
<1>1. LET m == Best(PrefixMatches(Trimmed(asked)))
      IN  /\ PrefixWins(Trimmed(asked))
          /\ Return(m.slot, asked, Reused(m, Trimmed(asked)).self,
                                   Reused(m, Trimmed(asked)).meta)
          /\ protected_slots' \in touch_slot(m.slot)
  BY DEF get_context_auto_prefix
<1> DEFINE target == Trimmed(asked)
           m == Best(PrefixMatches(target))
<1>2. SlotIds /\ target \in Seq(Vocab)
  BY TrimmedIds DEF GoodSlots, SlotsTypeOK, SlotIds
<1>3. MatchesOf(PrefixMatches(target), target) /\ PrefixMatches(target) # {}
  BY <1>1, <1>2, PrefixMatchesHold DEF PrefixWins
<1>4. m \in PrefixMatches(target) /\ \A n \in PrefixMatches(target) : n.length <= m.length
  <2> HIDE DEF target
  <2> QED BY <1>2, <1>3, BestIsLongest
<1>5. /\ m.slot \in Slots /\ m.offset \in 0 .. Len(context_ids[m.slot])
      /\ m.length \in 1 .. Len(target) /\ Holds(m.slot, m.offset, target, m.length)
  BY <1>3, <1>4 DEF MatchesOf
<1>6. /\ GoodSlots' /\ ProtectionInv' /\ Answered(m.slot, asked)
      /\ Len(context_ids'[m.slot]) = m.length /\ context_ids'[m.slot] # <<>>
  <2> HIDE DEF m
  <2> QED BY <1>1, <1>5, MatchAnswers DEF m
<1> QED BY <1>1, <1>4, <1>6

\* A reused middle piece gives the slot the history of that piece.
LEMMA MiddleReuse ==
  ASSUME GoodSlots, ProtectionInv, NEW asked \in Seq(Vocab), get_context_auto_middle(asked)
  PROVE  LET m == BestMiddle(Trimmed(asked))
         IN  /\ ~PrefixWins(Trimmed(asked)) /\ MiddleMatches(Trimmed(asked)) # {}
             /\ m \in MiddleMatches(Trimmed(asked))
             /\ \A n \in MiddleMatches(Trimmed(asked)) : n.length <= m.length
             /\ GoodSlots' /\ ProtectionInv' /\ Answered(m.slot, asked)
             /\ Len(context_ids'[m.slot]) = m.length /\ context_ids'[m.slot] # <<>>
<1>1. LET m == BestMiddle(Trimmed(asked))
      IN  /\ ~PrefixWins(Trimmed(asked)) /\ MiddleMatches(Trimmed(asked)) # {}
          /\ Return(m.slot, asked, Reused(m, Trimmed(asked)).self,
                                   Reused(m, Trimmed(asked)).meta)
          /\ protected_slots' \in touch_slot(m.slot)
  BY DEF get_context_auto_middle
<1> DEFINE target == Trimmed(asked)
           m == BestMiddle(target)
<1>2. SlotIds /\ target \in Seq(Vocab)
  BY TrimmedIds DEF GoodSlots, SlotsTypeOK, SlotIds
<1>3. MatchesOf(MiddleMatches(target), target) /\ MiddleMatches(target) # {}
  BY <1>1, <1>2, MiddleMatchesHold
<1>4. m \in MiddleMatches(target) /\ \A n \in MiddleMatches(target) : n.length <= m.length
  <2> HIDE DEF target
  <2> QED BY <1>2, <1>3, BestMiddleIsLongest
<1>5. /\ m.slot \in Slots /\ m.offset \in 0 .. Len(context_ids[m.slot])
      /\ m.length \in 1 .. Len(target) /\ Holds(m.slot, m.offset, target, m.length)
  BY <1>3, <1>4 DEF MatchesOf
<1>6. /\ GoodSlots' /\ ProtectionInv' /\ Answered(m.slot, asked)
      /\ Len(context_ids'[m.slot]) = m.length /\ context_ids'[m.slot] # <<>>
  <2> HIDE DEF m
  <2> QED BY <1>1, <1>5, MatchAnswers DEF m
<1> QED BY <1>1, <1>4, <1>6

\* A replaced slot starts over without history.
LEMMA Replacement ==
  ASSUME GoodSlots, ProtectionInv, NEW asked \in Seq(Vocab), get_context_auto_replace(asked)
  PROVE  /\ PrefixMatches(Trimmed(asked)) = {} /\ MiddleMatches(Trimmed(asked)) = {}
         /\ GoodSlots' /\ ProtectionInv'
         /\ \E s \in choose_replacement_slot :
              Answered(s, asked) /\ context_ids'[s] = <<>>
<1>1. PICK s \in choose_replacement_slot :
        /\ Return(s, asked, ZeroLanes, [ids |-> <<>>, cur |-> 0, hist |-> 0])
        /\ protected_slots' = protected_slots \ {s}
  BY DEF get_context_auto_replace
<1> DEFINE meta == [ids |-> <<>>, cur |-> 0, hist |-> 0]
<1>2. s \in Slots
  BY ReplacementIsExpendable
<1>3. GoodSlot(ZeroLanes, meta.ids, meta.cur, meta.hist)
  <2>1. ZeroLanes \in [Lanes -> [Pos -> Cell]]
    BY DEF ZeroLanes, Zero, Cell, Kinds
  <2> QED BY <2>1, CacheShape, SlotConfig DEF GoodSlot, Fits
<1>4. /\ self_kv' = [self_kv EXCEPT ![s] = ZeroLanes] /\ WriteMeta(s, meta)
      /\ reply' = [slot |-> s, asked |-> asked]
  BY <1>1 DEF Return
<1>5. GoodSlots'
  <2> HIDE DEF meta
  <2> QED BY <1>2, <1>3, <1>4, WriteSlot
<1>6. /\ context_ids'[s] = <<>> /\ current_seqlen'[s] = 0 /\ history_seqlen'[s] = 0
      /\ \A r \in Slots : r # s => /\ context_ids'[r] = context_ids[r]
                                  /\ current_seqlen'[r] = current_seqlen[r]
                                  /\ history_seqlen'[r] = history_seqlen[r]
  BY <1>2, <1>4 DEF WriteMeta, GoodSlots, SlotsTypeOK
<1>7. ProtectionInv'
  <2>1. protected_slots' \subseteq Slots /\ Cardinality(protected_slots') <= protected_capacity
    <3>1. IsFiniteSet(protected_slots) /\ protected_slots \subseteq Slots
      BY <1>2, Capacity, FS_Subset DEF ProtectionInv
    <3>2. /\ IsFiniteSet(protected_slots') /\ Cardinality(protected_slots') \in Nat
          /\ Cardinality(protected_slots) \in Nat
          /\ Cardinality(protected_slots') <= Cardinality(protected_slots)
      BY <1>1, <3>1, FS_Subset, FS_CardinalityType
    <3>3. protected_capacity \in Nat
      BY Capacity
    <3> QED BY <1>1, <1>2, <3>1, <3>2, <3>3 DEF ProtectionInv
  <2> QED BY <2>1 DEF ProtectionInv, protected_capacity, trial_capacity, NumContexts
<1>9. ReplyHoldsItsPiece'
  <2>1. /\ context_ids'[reply'.slot] = <<>> /\ current_seqlen'[reply'.slot] = 0
        /\ history_seqlen'[reply'.slot] = 0 /\ reply'.asked = asked
    BY <1>4, <1>6
  <2>2. IsPrefix(<<>>, Trimmed(asked))
    <3>1. Trimmed(asked) \in Seq(Vocab)
      BY TrimmedIds
    <3>2. SubSeq(<<>>, 1, 0) = <<>> /\ SubSeq(Trimmed(asked), 1, 0) = <<>>
      BY SubSeqEmpty
    <3> QED BY <3>1, <3>2 DEF IsPrefix
  <2> QED BY <2>1, <2>2 DEF ReplyHoldsItsPiece, Trimmed, IsPrefix, LastIds
<1>10. Answered(s, asked)
  <2>1. Len(context_ids'[s]) = 0 /\ Len(context_ids[s]) \in Nat
    BY <1>2, <1>6 DEF GoodSlots, GoodSlot
  <2> QED BY <1>2, <1>4, <1>6, <1>9, <2>1 DEF Answered
<1>11. PrefixMatches(Trimmed(asked)) = {} /\ MiddleMatches(Trimmed(asked)) = {}
  BY DEF get_context_auto_replace
<1> QED BY <1>1, <1>5, <1>6, <1>7, <1>10, <1>11

\* Whatever get_context_auto answers.
LEMMA RequestIsAnswered ==
  ASSUME GoodSlots, ProtectionInv, NEW asked \in Seq(Vocab), get_context_auto(asked)
  PROVE  GoodSlots' /\ ProtectionInv' /\ \E s \in Slots : Answered(s, asked)
<1>1. CASE get_context_auto_prefix(asked)
  BY <1>1, PrefixReuse DEF Answered
<1>2. CASE get_context_auto_middle(asked)
  BY <1>2, MiddleReuse DEF Answered
<1>3. CASE get_context_auto_replace(asked)
  BY <1>3, Replacement DEF Answered
<1> QED BY <1>1, <1>2, <1>3 DEF get_context_auto

\* What sessions do in between.
LEMMA CommitKeepsManager ==
  ASSUME ManagerInv, session_commits
  PROVE  ManagerInv' /\ reply' = NoReply
<1>1. PICK s \in Slots, text \in Texts :
        \E hist \in IF text = <<>> THEN {0, 1} ELSE {1 + Len(text)}, ahead \in Ahead :
        LET history == <<BOS>> \o text
            cell(i) == [tok |-> history[i], kind |-> "causal", ctx |-> SubSeq(history, 1, i - 1)]
        IN  /\ self_kv' = [self_kv EXCEPT ![s] =
                 [l \in Lanes |-> update_mhsa_kv(self_kv[s][l], 0, [i \in 1 .. hist |-> cell(i)])]]
            /\ WriteMeta(s, [ids |-> text, cur |-> AtMost(hist + ahead, PreMax), hist |-> hist])
            /\ reply' = NoReply
            /\ UNCHANGED protected_slots
  BY DEF session_commits
<1>2. PICK hist \in IF text = <<>> THEN {0, 1} ELSE {1 + Len(text)}, ahead \in Ahead :
        LET history == <<BOS>> \o text
            cell(i) == [tok |-> history[i], kind |-> "causal", ctx |-> SubSeq(history, 1, i - 1)]
        IN  /\ self_kv' = [self_kv EXCEPT ![s] =
                 [l \in Lanes |-> update_mhsa_kv(self_kv[s][l], 0, [i \in 1 .. hist |-> cell(i)])]]
            /\ WriteMeta(s, [ids |-> text, cur |-> AtMost(hist + ahead, PreMax), hist |-> hist])
            /\ reply' = NoReply
            /\ UNCHANGED protected_slots
  BY <1>1
<1> DEFINE history == <<BOS>> \o text
           cell(i) == [tok |-> history[i], kind |-> "causal", ctx |-> SubSeq(history, 1, i - 1)]
           kv == [l \in Lanes |-> update_mhsa_kv(self_kv[s][l], 0, [i \in 1 .. hist |-> cell(i)])]
           meta == [ids |-> text, cur |-> AtMost(hist + ahead, PreMax), hist |-> hist]
<1>3. GoodSlots /\ ProtectionInv
  BY DEF ManagerInv
<1>4. GoodSlot(kv, meta.ids, meta.cur, meta.hist)
  BY <1>3, CommittedIsGood
<1>5. GoodSlots'
  <2>1. self_kv' = [self_kv EXCEPT ![s] = kv] /\ WriteMeta(s, meta)
    BY <1>2
  <2> HIDE DEF kv, meta
  <2> QED BY <1>3, <1>4, <2>1, WriteSlot
<1>6. reply' = NoReply /\ protected_slots' = protected_slots
  BY <1>2
<1>7. ProtectionInv' /\ ReplyTypeOK' /\ ReplyHoldsItsPiece'
  BY <1>3, <1>6 DEF ProtectionInv, protected_capacity, trial_capacity, NumContexts,
     ReplyTypeOK, ReplyHoldsItsPiece, NoReply
<1> QED BY <1>5, <1>6, <1>7 DEF ManagerInv

\* ManagerInv is inductive.
LEMMA NextKeepsManager == ManagerInv /\ [ManagerNext]_manager_vars => ManagerInv'
<1> SUFFICES ASSUME ManagerInv, [ManagerNext]_manager_vars PROVE ManagerInv'
  OBVIOUS
<1>1. ASSUME NEW asked \in Requests, get_context_auto(asked) PROVE ManagerInv'
  <2>1. asked \in Seq(Vocab)
    BY ManagerConfig
  <2>2. GoodSlots' /\ ProtectionInv' /\ \E s \in Slots : Answered(s, asked)
    BY <1>1, <2>1, RequestIsAnswered DEF ManagerInv
  <2> QED BY <2>2 DEF Answered, ManagerInv, ReplyTypeOK
<1>2. CASE session_commits
  BY <1>2, CommitKeepsManager
<1>3. CASE UNCHANGED manager_vars
  <2>1. /\ self_kv' = self_kv /\ context_ids' = context_ids
        /\ current_seqlen' = current_seqlen /\ history_seqlen' = history_seqlen
        /\ protected_slots' = protected_slots /\ reply' = reply
    BY <1>3 DEF manager_vars, slot_vars
  <2>2. GoodSlots'
    BY <2>1 DEF ManagerInv, GoodSlots, SlotsTypeOK, GoodSlot, Fits, IsHistoryCell
  <2>3. ProtectionInv'
    BY <2>1 DEF ManagerInv, ProtectionInv, protected_capacity, trial_capacity, NumContexts
  <2>4. ReplyTypeOK' /\ ReplyHoldsItsPiece'
    BY <2>1 DEF ManagerInv, ReplyTypeOK, ReplyHoldsItsPiece, Trimmed, LastIds, IsPrefix
  <2> QED BY <2>2, <2>3, <2>4 DEF ManagerInv
<1> QED BY <1>1, <1>2, <1>3 DEF ManagerNext

-----------------------------------------------------------------------------
(* Theorems *)

\* ManagerInv is inductive.
LEMMA ManagerAlwaysInv == ManagerSpec => []ManagerInv
BY InitManager, NextKeepsManager, PTL DEF ManagerSpec, ManagerNext

\* The types the program gives its slots, cursors and replies, whatever sessions
\* commit and whatever is asked for.
THEOREM ManagerTypesHold == ManagerSpec => []ManagerTypeOK
<1>1. ManagerInv => ManagerTypeOK
  BY DEF ManagerInv, GoodSlots, ProtectionInv, ReplyTypeOK, ManagerTypeOK
<1> QED BY <1>1, ManagerAlwaysInv, PTL

\* For a text that a slot has room for get_context_auto always returns one that holds an
\* initial piece of it, with both cursors right behind that piece.
THEOREM ReplyIsAlwaysReady == ManagerSpec => []ReplyIsReadyToFill
<1>1. ManagerInv => ReplyIsReadyToFill
  <2>1. Fits(reply.asked) /\ reply.asked \in Seq(Vocab) => Trimmed(reply.asked) = reply.asked
    <3> SUFFICES ASSUME Fits(reply.asked), reply.asked \in Seq(Vocab)
                 PROVE  ~(Len(reply.asked) > SlotCapacity)
      BY DEF Trimmed
    <3> QED BY SlotConfig DEF Fits
  <2>2. ManagerInv => reply.asked \in Seq(Vocab)
    <3>1. <<>> \in Seq(Vocab)
      OBVIOUS
    <3>2. ManagerInv => reply.asked \in Requests \cup {<<>>}
      BY DEF ManagerInv, ReplyTypeOK
    <3> QED BY <3>1, <3>2, ManagerConfig
  <2> QED BY <2>1, <2>2 DEF ManagerInv, ReplyHoldsItsPiece, ReplyIsReadyToFill
<1> QED BY <1>1, ManagerAlwaysInv, PTL

\* Truncated, slid down behind BOS or zeroed, every slot's cache is in every lane the
\* pass-1 state of the ids the slot says it holds.
THEOREM SlotsAlwaysHoldTheirHistory == ManagerSpec => []SlotsHoldTheirHistory
<1>1. ManagerInv => SlotsHoldTheirHistory
  BY DEF ManagerInv, GoodSlots, GoodSlot, SlotsHoldTheirHistory
<1> QED BY <1>1, ManagerAlwaysInv, PTL

\* However many requests are answered by reuse, the configured share of the slots,
\* and at least one, stays on trial.
THEOREM TrialSlotsAlwaysRemain == ManagerSpec => []TrialSlotsRemain
<1>1. ManagerInv => TrialSlotsRemain
  BY TrialSlots DEF ManagerInv
<1> QED BY <1>1, ManagerAlwaysInv, PTL

\* A protected slot never loses all its text to a request: what is given up was empty
\* or on trial, and what is reused keeps at least one id.
THEOREM ProtectedTextAlwaysSurvives == ManagerSpec => ProtectedTextSurvives
<1> DEFINE Survives ==
      reply'.slot # NoSlot =>
        \A s \in protected_slots : context_ids[s] # <<>> => context_ids'[s] # <<>>
<1>1. ManagerInv /\ [ManagerNext]_manager_vars => [Survives]_manager_vars
  <2> SUFFICES ASSUME ManagerInv, ManagerNext, reply'.slot # NoSlot,
                      NEW s \in protected_slots, context_ids[s] # <<>>
               PROVE  context_ids'[s] # <<>>
    OBVIOUS
  <2>0. s \in Slots /\ GoodSlots /\ ProtectionInv
    BY DEF ManagerInv, ProtectionInv
  <2>1. PICK asked \in Requests : get_context_auto(asked)
    BY CommitKeepsManager DEF ManagerNext, NoReply
  <2>2. asked \in Seq(Vocab)
    BY ManagerConfig
  <2>3. CASE get_context_auto_prefix(asked)
    BY <2>0, <2>2, <2>3, PrefixReuse DEF Answered
  <2>4. CASE get_context_auto_middle(asked)
    BY <2>0, <2>2, <2>4, MiddleReuse DEF Answered
  <2>5. CASE get_context_auto_replace(asked)
    <3>1. PICK r \in choose_replacement_slot : Answered(r, asked)
      BY <2>0, <2>2, <2>5, Replacement
    <3>2. s # r
      BY <2>0, <3>1, ReplacementIsExpendable
    <3> QED BY <2>0, <3>1, <3>2 DEF Answered
  <2> QED BY <2>1, <2>3, <2>4, <2>5 DEF get_context_auto
<1> QED BY <1>1, ManagerAlwaysInv, PTL DEF ManagerSpec, ManagerNext, ProtectedTextSurvives

\* A piece a slot holds is no longer than the match found for it.
LEMMA NoLongerMatch ==
  ASSUME SlotIds, NEW target \in Seq(Vocab), NEW length \in Nat,
         \A m \in PrefixMatches(target) : m.length <= length,
         \A m \in MiddleMatches(target) : m.length <= length,
         NEW s \in Slots, NEW k \in length + 1 .. Len(target),
         NEW o \in 0 .. Len(context_ids[s]) - k, o > 0 => k >= MinAccept
  PROVE  SubSeq(context_ids[s], o + 1, o + k) # SubSeq(target, 1, k)
<1> SUFFICES ASSUME SubSeq(context_ids[s], o + 1, o + k) = SubSeq(target, 1, k)
             PROVE  FALSE
  OBVIOUS
<1>1. /\ Len(context_ids[s]) \in Nat /\ Len(target) \in Nat /\ k \in Nat /\ o \in Nat
      /\ k > length /\ k <= Len(target) /\ o + k <= Len(context_ids[s])
      /\ k \in 0 .. Len(target) /\ o \in 0 .. Len(context_ids[s])
  BY DEF SlotIds
<1>2. Holds(s, o, target, k)
  BY <1>1 DEF Holds
<1>3. k <= Common(s, o, target) /\ Common(s, o, target) \in Nat
  BY <1>1, <1>2, CommonIsLongest
<1> DEFINE m == Match(s, o, target)
<1>4. m.length = Common(s, o, target)
  BY DEF Match
<1>5. CASE o = 0
  <2>1. m \in PrefixMatches(target)
    BY <1>1, <1>3, <1>4, <1>5 DEF PrefixMatches
  <2>2. m.length <= length
    BY <2>1
  <2> QED BY <1>1, <1>3, <1>4, <2>2
<1>6. CASE o > 0
  <2>1. o \in 1 .. Len(context_ids[s]) - 1 /\ m.length >= MinAccept
    BY <1>1, <1>3, <1>4, <1>6, ManagerConfig
  <2>2. m \in MiddleMatches(target)
    BY <2>1 DEF MiddleMatches
  <2>3. m.length <= length
    BY <2>2
  <2> QED BY <1>1, <1>3, <1>4, <2>3
<1> QED BY <1>1, <1>5, <1>6

\* No slot held more of the text than the slot returned keeps of it, whatever the
\* preferences for prefixes and for slack chose.
THEOREM LongestPieceIsAlwaysReused == ManagerSpec => LongestPieceIsReused
<1> DEFINE Longest ==
      reply'.slot # NoSlot =>
        LET target == Trimmed(reply'.asked)
        IN  \A s \in Slots, k \in Len(context_ids'[reply'.slot]) + 1 .. Len(target) :
              \A o \in 0 .. Len(context_ids[s]) - k : (o > 0 => k >= MinAccept) =>
                SubSeq(context_ids[s], o + 1, o + k) # SubSeq(target, 1, k)
<1>1. ManagerInv /\ [ManagerNext]_manager_vars => [Longest]_manager_vars
  <2> SUFFICES ASSUME ManagerInv, ManagerNext, reply'.slot # NoSlot
               PROVE  Longest
    OBVIOUS
  <2>1. PICK asked \in Requests : get_context_auto(asked)
    BY CommitKeepsManager DEF ManagerNext, NoReply
  <2> DEFINE target == Trimmed(asked)
  <2>2. SlotIds /\ GoodSlots /\ ProtectionInv /\ asked \in Seq(Vocab) /\ target \in Seq(Vocab)
    BY ManagerConfig, TrimmedIds DEF ManagerInv, GoodSlots, SlotsTypeOK, SlotIds
  <2>3. ASSUME NEW s \in Slots, Answered(s, asked),
               NEW length \in Nat, Len(context_ids'[s]) = length,
               \A m \in PrefixMatches(target) : m.length <= length,
               \A m \in MiddleMatches(target) : m.length <= length
        PROVE  Longest
    <3>1. reply'.slot = s /\ reply'.asked = asked
      BY <2>3 DEF Answered
    <3> QED BY <2>2, <2>3, <3>1, NoLongerMatch
  <2>4. CASE get_context_auto_prefix(asked)
    <3> DEFINE m == Best(PrefixMatches(target))
    <3>1. /\ PrefixWins(target) /\ m \in PrefixMatches(target)
          /\ \A n \in PrefixMatches(target) : n.length <= m.length
          /\ Answered(m.slot, asked) /\ Len(context_ids'[m.slot]) = m.length
      BY <2>2, <2>4, PrefixReuse
    <3>2. m.slot \in Slots /\ m.length \in Nat
      <4>1. MatchesOf(PrefixMatches(target), target)
        BY <2>2, PrefixMatchesHold
      <4> QED BY <2>2, <3>1, <4>1 DEF MatchesOf
    <3>3. \A n \in MiddleMatches(target) : n.length <= m.length
      <4> SUFFICES ASSUME NEW n \in MiddleMatches(target) PROVE n.length <= m.length
        OBVIOUS
      <4>1. /\ BestMiddle(target) \in MiddleMatches(target)
            /\ n.length <= BestMiddle(target).length
        BY <2>2, BestMiddleIsLongest
      <4>2. m.length >= BestMiddle(target).length
        BY <3>1 DEF PrefixWins
      <4>3. n.length \in Nat /\ BestMiddle(target).length \in Nat
        BY <2>2, <4>1, MiddleMatchesHold DEF MatchesOf
      <4> HIDE DEF m, target
      <4> QED BY <3>2, <4>1, <4>2, <4>3
    <3> HIDE DEF m, target
    <3> QED BY <2>3, <3>1, <3>2, <3>3
  <2>5. CASE get_context_auto_middle(asked)
    <3> DEFINE m == BestMiddle(target)
    <3>1. /\ ~PrefixWins(target) /\ m \in MiddleMatches(target)
          /\ \A n \in MiddleMatches(target) : n.length <= m.length
          /\ Answered(m.slot, asked) /\ Len(context_ids'[m.slot]) = m.length
      BY <2>2, <2>5, MiddleReuse
    <3>2. m.slot \in Slots /\ m.length \in Nat
      <4>1. MatchesOf(MiddleMatches(target), target)
        BY <2>2, MiddleMatchesHold
      <4> QED BY <2>2, <3>1, <4>1 DEF MatchesOf
    <3>3. \A n \in PrefixMatches(target) : n.length <= m.length
      <4> SUFFICES ASSUME NEW n \in PrefixMatches(target) PROVE n.length <= m.length
        OBVIOUS
      <4>1. MatchesOf(PrefixMatches(target), target)
        BY <2>2, PrefixMatchesHold
      <4>2. /\ Best(PrefixMatches(target)) \in PrefixMatches(target)
            /\ n.length <= Best(PrefixMatches(target)).length
        BY <2>2, <4>1, BestIsLongest
      <4>3. ~(Best(PrefixMatches(target)).length >= m.length)
        BY <3>1, <4>2 DEF PrefixWins
      <4>4. n.length \in Nat /\ Best(PrefixMatches(target)).length \in Nat
        BY <2>2, <4>1, <4>2 DEF MatchesOf
      <4> HIDE DEF m, target
      <4> QED BY <3>2, <4>2, <4>3, <4>4
    <3> HIDE DEF m, target
    <3> QED BY <2>3, <3>1, <3>2, <3>3
  <2>6. CASE get_context_auto_replace(asked)
    <3>1. PICK s \in choose_replacement_slot :
            Answered(s, asked) /\ context_ids'[s] = <<>>
      BY <2>2, <2>6, Replacement
    <3>2. s \in Slots /\ Len(context_ids'[s]) = 0
      BY <3>1 DEF Answered
    <3>3. PrefixMatches(target) = {} /\ MiddleMatches(target) = {}
      BY <2>6 DEF get_context_auto_replace
    <3> HIDE DEF target
    <3> QED BY <2>3, <3>1, <3>2, <3>3
  <2> QED BY <2>1, <2>4, <2>5, <2>6 DEF get_context_auto
<1> QED BY <1>1, ManagerAlwaysInv, PTL DEF ManagerSpec, ManagerNext, LongestPieceIsReused
=============================================================================
