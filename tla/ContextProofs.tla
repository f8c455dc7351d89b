----------------------------- MODULE ContextProofs -----------------------------
(***************************************************************************)
(* Lemmas about the operators of Context: what a cell of a committed       *)
(* history holds, and that cutting a history, sliding it down behind BOS   *)
(* and writing pass-1 state keep it one.  The proofs about the manager and *)
(* about the session rest on them.                                         *)
(***************************************************************************)
EXTENDS Context, SequenceTheorems, TLAPS

\* The token at position p of a history.
HistoryTok(ids, p) == IF p = 0 THEN BOS ELSE ids[p]

\* BOS and the ids, by position.
LEMMA HistoryAt ==
  ASSUME NEW ids \in Seq(Vocab)
  PROVE  /\ <<BOS>> \o ids \in Seq(Vocab)
         /\ Len(<<BOS>> \o ids) = 1 + Len(ids)
         /\ \A p \in 0 .. Len(ids) : (<<BOS>> \o ids)[p + 1] = HistoryTok(ids, p)
<1>1. <<BOS>> \in Seq(Vocab) /\ Len(<<BOS>>) = 1 /\ <<BOS>>[1] = BOS
  BY DEF Vocab
<1>2. Len(ids) \in Nat
  OBVIOUS
<1>3. /\ <<BOS>> \o ids \in Seq(Vocab)
      /\ Len(<<BOS>> \o ids) = 1 + Len(ids)
      /\ \A i \in 1 .. 1 + Len(ids) :
           (<<BOS>> \o ids)[i] = IF i <= 1 THEN <<BOS>>[i] ELSE ids[i - 1]
  BY <1>1, ConcatProperties
<1>4. ASSUME NEW p \in 0 .. Len(ids)
      PROVE  (<<BOS>> \o ids)[p + 1] = HistoryTok(ids, p)
  BY <1>1, <1>2, <1>3 DEF HistoryTok
<1> QED BY <1>3, <1>4

\* A history cell, by position: the ids it is told from are those up to its own.
LEMMA HistoryCell ==
  ASSUME NEW ids \in Seq(Vocab), NEW p \in 0 .. Len(ids), NEW c
  PROVE  IsHistoryCell(c, ids, p) <=>
           /\ c.kind = "causal" /\ c.tok = HistoryTok(ids, p)
           /\ c.ctx \in Seq(Vocab) /\ Len(c.ctx) = p
           /\ \A i \in 1 .. p : c.ctx[i] = HistoryTok(ids, i - 1)
<1> DEFINE history == <<BOS>> \o ids
           upto == SubSeq(history, 1, p)
<1>1. /\ history \in Seq(Vocab) /\ Len(history) = 1 + Len(ids)
      /\ \A q \in 0 .. Len(ids) : history[q + 1] = HistoryTok(ids, q)
  BY HistoryAt
<1>2. Len(ids) \in Nat /\ p \in Nat /\ p <= Len(ids)
  OBVIOUS
<1>3. /\ upto \in Seq(Vocab) /\ Len(upto) = p
      /\ \A i \in 1 .. p : upto[i] = history[i]
  <2> HIDE DEF history
  <2>1. \A i \in 1 .. p : history[i] \in Vocab
    BY <1>1, <1>2
  <2> QED BY <2>1, <1>2, SubSeqProperties
<1>4. \A i \in 1 .. p : upto[i] = HistoryTok(ids, i - 1)
  <2> HIDE DEF history, upto
  <2> SUFFICES ASSUME NEW i \in 1 .. p PROVE upto[i] = HistoryTok(ids, i - 1)
    OBVIOUS
  <2>1. i - 1 \in 0 .. Len(ids) /\ (i - 1) + 1 = i
    BY <1>2
  <2>2. history[i] = HistoryTok(ids, i - 1)
    BY <1>1, <2>1
  <2> QED BY <1>3, <2>2
<1>5. IsHistoryCell(c, ids, p) <=>
        c.kind = "causal" /\ c.tok = HistoryTok(ids, p) /\ c.ctx = upto
  BY <1>1, <1>2 DEF IsHistoryCell
<1>6. ASSUME c.ctx \in Seq(Vocab), Len(c.ctx) = p,
             \A i \in 1 .. p : c.ctx[i] = HistoryTok(ids, i - 1)
      PROVE  c.ctx = upto
  <2> HIDE DEF history, upto
  <2>1. \A i \in 1 .. Len(c.ctx) : c.ctx[i] = upto[i]
    BY <1>4, <1>6
  <2> QED BY <1>3, <1>6, <2>1, SeqEqual
<1> HIDE DEF history, upto
<1> QED BY <1>3, <1>4, <1>5, <1>6

\* Two texts with the same first k ids have the same history up to there: what a
\* truncation keeps, and what an extension starts from, stays what it was.
LEMMA SharedHistory ==
  ASSUME NEW ids \in Seq(Vocab), NEW other \in Seq(Vocab), NEW k \in Nat,
         k <= Len(ids), k <= Len(other), \A i \in 1 .. k : ids[i] = other[i],
         NEW p \in 0 .. k, NEW c, IsHistoryCell(c, ids, p)
  PROVE  IsHistoryCell(c, other, p)
<1>1. p \in 0 .. Len(ids) /\ p \in 0 .. Len(other) /\ p \in Nat /\ p <= k
  OBVIOUS
<1>2. \A q \in 0 .. p : HistoryTok(ids, q) = HistoryTok(other, q)
  BY <1>1 DEF HistoryTok
<1>3. /\ c.kind = "causal" /\ c.tok = HistoryTok(ids, p)
      /\ c.ctx \in Seq(Vocab) /\ Len(c.ctx) = p
      /\ \A i \in 1 .. p : c.ctx[i] = HistoryTok(ids, i - 1)
  BY <1>1, HistoryCell
<1>4. \A i \in 1 .. p : c.ctx[i] = HistoryTok(other, i - 1)
  BY <1>1, <1>2, <1>3
<1> QED BY <1>1, <1>2, <1>3, <1>4, HistoryCell

-----------------------------------------------------------------------------
(* Sliding a history down behind BOS *)

\* The newest k of n ids of a sequence.
LEMMA LastIdsAt ==
  ASSUME NEW S, NEW ids \in Seq(S), NEW k \in 0 .. Len(ids)
  PROVE  /\ LastIds(ids, k) \in Seq(S) /\ Len(LastIds(ids, k)) = k
         /\ \A i \in 1 .. k : LastIds(ids, k)[i] = ids[Len(ids) - k + i]
<1>1. Len(ids) \in Nat /\ Len(ids) - k + 1 \in Int
  OBVIOUS
<1>2. \A i \in Len(ids) - k + 1 .. Len(ids) : ids[i] \in S
  BY <1>1
<1>3. \A i \in 1 .. k : (Len(ids) - k + 1) + i - 1 = Len(ids) - k + i
  BY <1>1
<1> QED BY <1>1, <1>2, <1>3, SubSeqProperties DEF LastIds

\* Every cell of a slid lane is a cell.
LEMMA ShiftedType ==
  ASSUME NEW lane \in [Pos -> Cell], NEW discarded \in Nat, NEW retained \in Nat,
         discarded + retained < PreMax
  PROVE  Forget(shift_batch_tokens(lane, discarded, retained), retained) \in [Pos -> Cell]
<1> DEFINE slid == shift_batch_tokens(lane, discarded, retained)
<1>1. slid \in [Pos -> Cell]
  <2>1. \A p \in Pos : p \in Slice(1, retained) => p + discarded \in Pos
    BY CacheShape DEF Pos, Slice
  <2> QED BY <2>1 DEF shift_batch_tokens
<1> HIDE DEF slid
<1>2. ASSUME NEW p \in Pos, p \in Slice(1, retained), Len(slid[p].ctx) >= p
      PROVE  [slid[p] EXCEPT !.ctx = <<BOS>> \o LastIds(slid[p].ctx, p - 1)] \in Cell
  <2>1. slid[p] \in Cell /\ slid[p].ctx \in Seq(Vocab \cup {NoTok})
    BY <1>1 DEF Cell
  <2>2. p - 1 \in 0 .. Len(slid[p].ctx)
    BY <1>2, <2>1, CacheShape DEF Pos, Slice
  <2>3. LastIds(slid[p].ctx, p - 1) \in Seq(Vocab \cup {NoTok})
    BY <2>1, <2>2, LastIdsAt
  <2>4. <<BOS>> \o LastIds(slid[p].ctx, p - 1) \in Seq(Vocab \cup {NoTok})
    BY <2>3 DEF Vocab
  <2> DEFINE ctx == <<BOS>> \o LastIds(slid[p].ctx, p - 1)
  <2> HIDE DEF ctx
  <2> QED BY <2>1, <2>4 DEF Cell, ctx
<1> QED BY <1>1, <1>2 DEF Forget, slid

\* What is retained of a history, behind BOS, is the history of the ids retained.
LEMMA ShiftedHistory ==
  ASSUME NEW lane \in [Pos -> Cell], NEW ids \in Seq(Vocab), Len(ids) < PreMax,
         NEW discarded \in Nat, NEW retained \in Nat, discarded + retained <= Len(ids),
         \A q \in 0 .. discarded + retained : IsHistoryCell(lane[q], ids, q),
         NEW p \in 0 .. retained
  PROVE  IsHistoryCell(Forget(shift_batch_tokens(lane, discarded, retained), retained)[p],
                       SubSeq(ids, discarded + 1, discarded + retained), p)
<1> DEFINE slid == shift_batch_tokens(lane, discarded, retained)
           kept == SubSeq(ids, discarded + 1, discarded + retained)
           c    == Forget(slid, retained)[p]
<1>0. Len(ids) \in Nat /\ p \in Pos /\ p \in Nat /\ p <= retained
  BY CacheShape DEF Pos
<1>1. /\ kept \in Seq(Vocab) /\ Len(kept) = retained
      /\ \A i \in 1 .. retained : kept[i] = ids[discarded + i]
  <2>1. \A i \in discarded + 1 .. discarded + retained : ids[i] \in Vocab
    BY <1>0
  <2>2. /\ kept \in Seq(Vocab)
        /\ Len(kept) = IF discarded + 1 <= discarded + retained
                       THEN discarded + retained - (discarded + 1) + 1 ELSE 0
        /\ \A i \in 1 .. discarded + retained - (discarded + 1) + 1 :
             kept[i] = ids[discarded + 1 + i - 1]
    BY <2>1, SubSeqProperties
  <2> HIDE DEF kept
  <2> QED BY <2>2
<1>2. CASE p = 0
  <2>1. c = lane[0]
    BY <1>0, <1>2 DEF Forget, shift_batch_tokens, Slice, Pos
  <2>2. IsHistoryCell(lane[0], ids, 0)
    OBVIOUS
  <2>3. IsHistoryCell(lane[0], kept, 0)
    <3> HIDE DEF kept
    <3> QED BY <1>0, <1>1, <2>2, SharedHistory
  <2> QED BY <1>2, <2>1, <2>3
<1>3. CASE p > 0
  <2> DEFINE q == p + discarded
             old == lane[q]
  <2>1. /\ q \in 0 .. Len(ids) /\ q \in 0 .. discarded + retained
        /\ q \in Pos /\ p \in Slice(1, retained) /\ q >= p
    BY <1>0, <1>3, CacheShape DEF Pos, Slice
  <2>2. /\ old.kind = "causal" /\ old.tok = HistoryTok(ids, q)
        /\ old.ctx \in Seq(Vocab) /\ Len(old.ctx) = q
        /\ \A i \in 1 .. q : old.ctx[i] = HistoryTok(ids, i - 1)
    <3> HIDE DEF q
    <3>1. IsHistoryCell(lane[q], ids, q)
      BY <2>1
    <3> QED BY <2>1, <3>1, HistoryCell
  <2> DEFINE tail == LastIds(old.ctx, p - 1)
  <2>3. /\ tail \in Seq(Vocab) /\ Len(tail) = p - 1
        /\ \A i \in 1 .. p - 1 : tail[i] = old.ctx[q - (p - 1) + i]
    <3> HIDE DEF q, old
    <3>1. p - 1 \in 0 .. Len(old.ctx)
      BY <1>0, <1>3, <2>1, <2>2
    <3>2. /\ tail \in Seq(Vocab) /\ Len(tail) = p - 1
          /\ \A i \in 1 .. p - 1 : tail[i] = old.ctx[Len(old.ctx) - (p - 1) + i]
      BY <2>2, <3>1, LastIdsAt
    <3>3. Len(old.ctx) = q
      BY <2>2
    <3> HIDE DEF tail
    <3> QED BY <3>2, <3>3
  <2>4. old \in Cell /\ slid[p] = old
    BY <1>0, <2>1 DEF shift_batch_tokens
  <2>5. c = [old EXCEPT !.ctx = <<BOS>> \o tail]
    <3> HIDE DEF slid, q
    <3> QED BY <1>0, <2>1, <2>2, <2>4 DEF Forget
  <2>6. /\ c.kind = "causal" /\ c.tok = HistoryTok(ids, q) /\ c.ctx = <<BOS>> \o tail
    <3> DEFINE ctx == <<BOS>> \o tail
    <3> HIDE DEF ctx, tail, old, q, slid, c
    <3> QED BY <2>2, <2>4, <2>5 DEF Cell, ctx
  <2>7. HistoryTok(kept, p) = HistoryTok(ids, q)
    <3> HIDE DEF kept
    <3> QED BY <1>0, <1>1, <1>3 DEF HistoryTok
  <2>8. /\ <<BOS>> \o tail \in Seq(Vocab) /\ Len(<<BOS>> \o tail) = p
        /\ \A i \in 1 .. p : (<<BOS>> \o tail)[i] = HistoryTok(tail, i - 1)
    <3> HIDE DEF tail
    <3>1. /\ <<BOS>> \o tail \in Seq(Vocab) /\ Len(<<BOS>> \o tail) = 1 + (p - 1)
          /\ \A j \in 0 .. p - 1 : (<<BOS>> \o tail)[j + 1] = HistoryTok(tail, j)
      BY <2>3, HistoryAt
    <3>2. ASSUME NEW i \in 1 .. p
          PROVE  (<<BOS>> \o tail)[i] = HistoryTok(tail, i - 1)
      <4>1. i - 1 \in 0 .. p - 1 /\ (i - 1) + 1 = i
        BY <1>0
      <4> QED BY <3>1, <4>1
    <3> QED BY <1>0, <3>1, <3>2
  <2>9. \A i \in 1 .. p : HistoryTok(tail, i - 1) = HistoryTok(kept, i - 1)
    <3> SUFFICES ASSUME NEW i \in 1 .. p
                 PROVE  HistoryTok(tail, i - 1) = HistoryTok(kept, i - 1)
      OBVIOUS
    <3>1. CASE i = 1
      BY <3>1 DEF HistoryTok
    <3>2. CASE i > 1
      <4> DEFINE j == i - 1
      <4>1. j \in 1 .. p - 1 /\ j \in 1 .. retained /\ j # 0
        BY <1>0, <3>2
      <4>2. tail[j] = old.ctx[discarded + 1 + j]
        <5>1. q - (p - 1) + j = discarded + 1 + j
          BY <1>0, <4>1
        <5> HIDE DEF tail, old, q, j
        <5> QED BY <2>3, <4>1, <5>1
      <4>3. old.ctx[discarded + 1 + j] = ids[discarded + j]
        <5>1. discarded + 1 + j \in 1 .. q /\ (discarded + 1 + j) - 1 = discarded + j
              /\ discarded + j # 0
          BY <1>0, <4>1
        <5> HIDE DEF old, q, j
        <5>2. old.ctx[discarded + 1 + j] = HistoryTok(ids, (discarded + 1 + j) - 1)
          BY <2>2, <5>1
        <5> QED BY <5>1, <5>2 DEF HistoryTok
      <4>4. kept[j] = ids[discarded + j]
        <5> HIDE DEF kept, j
        <5> QED BY <1>1, <4>1
      <4> HIDE DEF tail, kept, j, old, q
      <4> QED BY <4>1, <4>2, <4>3, <4>4 DEF HistoryTok, j
    <3> QED BY <3>1, <3>2
  <2>10. p \in 0 .. Len(kept)
    <3> HIDE DEF kept
    <3> QED BY <1>0, <1>1
  <2>11. /\ c.kind = "causal" /\ c.tok = HistoryTok(kept, p)
         /\ c.ctx \in Seq(Vocab) /\ Len(c.ctx) = p
         /\ \A i \in 1 .. p : c.ctx[i] = HistoryTok(kept, i - 1)
    <3> HIDE DEF kept, c, tail, q, old
    <3> QED BY <2>6, <2>7, <2>8, <2>9
  <2>12. IsHistoryCell(c, kept, p)
    <3> HIDE DEF kept, c
    <3> QED BY <1>1, <2>10, <2>11, HistoryCell
  <2> QED BY <2>12
<1> QED BY <1>0, <1>2, <1>3
=============================================================================
