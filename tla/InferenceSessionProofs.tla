------------------------ MODULE InferenceSessionProofs ------------------------
(***************************************************************************)
(* Theorems about InferenceSession, for every value of its constants: its  *)
(* cursors and window, the text it commits, and what the cells of every    *)
(* slot hold, between calls and while a generation is decoding.            *)
(*                                                                         *)
(* CursorsAgree is not inductive: it speaks of the ids of the generation   *)
(* in progress in place of the slot's, and a generation that ends with an  *)
(* exception leaves the slot's own behind.  SessionInv says of both that   *)
(* they are a history, and bounds the cursor by the steps decoded so far.  *)
(*                                                                         *)
(* Every operation on a view is then followed once for the ids it commits  *)
(* or leaves behind when it fails (...Text) and once for the error it      *)
(* answers (...Succeeds).                                                  *)
(*                                                                         *)
(* CommittedHistoryIsCausal and BeamReadsItsOwnPast are not inductive      *)
(* either (CacheInv).  Every  operation is shown to take a view whose      *)
(* lanes hold the history of its ids to one that does (CacheView), the     *)
(* decoder to leave all of it but the boundary alone (DecodeView), and     *)
(* the boundary to come back from its snapshot on every way out.           *)
(*                                                                         *)
(* Last, every call is a call of the ledger CommittedText: of its kind, on *)
(* its slot, with its ids; and what follows until the decoder answers      *)
(* leaves the ledger's texts alone.                                        *)
(***************************************************************************)
EXTENDS InferenceSession, ContextProofs

-----------------------------------------------------------------------------
(* Sequences of ids *)

\* The newest k ids are k ids.
LEMMA LastIdsLen ==
  ASSUME NEW S, NEW ids \in Seq(S), NEW k \in 0 .. Len(ids)
  PROVE  LastIds(ids, k) \in Seq(S) /\ Len(LastIds(ids, k)) = k
BY DEF LastIds

\* A leading BOS is stripped and nothing else.
LEMMA WithoutBosLen ==
  ASSUME NEW S, NEW ids \in Seq(S)
  PROVE  without_bos(ids) \in Seq(S) /\ Len(without_bos(ids)) <= Len(ids)
BY DEF without_bos

\* Ids that pass the vocabulary check are context ids.
LEMMA CheckedIds ==
  ASSUME NEW ids \in Seq(Vocab \cup {BadId}), ~HasBadId(ids)
  PROVE  ids \in Seq(Vocab)
BY DEF HasBadId

-----------------------------------------------------------------------------
(* What a session's view of a slot always is *)

\* Ids within the window, and cursors that describe them.
History(ids, cur, hist) ==
  /\ ids \in Seq(Vocab) /\ cur \in Nat /\ hist \in Nat
  /\ hist = 1 + Len(ids) \/ (hist = 0 /\ ids = <<>>)
  /\ Len(ids) <= MaxHistory
  /\ hist <= cur /\ cur <= hist + MaxPinyin

ViewFields == {"self", "fill", "ids", "cur", "hist"}
IsView(st) == st = [f \in ViewFields |-> st[f]]

GoodView(st) == IsView(st) /\ History(st.ids, st.cur, st.hist)

GoodOutcome(out) ==
  GoodView(out.st) /\ out.err \in {"Ok", "InvalidArgument", "ModelError"}

\* An eviction target leaves something and frees something or nothing.
LEMMA EvictionTarget == eviction_target \in 1 .. MaxHistory
BY SessionConfig, SlotConfig DEF eviction_target

\* Keeping k of a view's ids gives a view of k ids behind BOS.
LEMMA EvictToView ==
  ASSUME NEW st, GoodView(st), NEW keep \in 0 .. Len(st.ids)
  PROVE  /\ GoodView(EvictTo(st, keep))
         /\ Len(EvictTo(st, keep).ids) = keep
         /\ EvictTo(st, keep).hist = 1 + keep
BY LastIdsLen, SessionConfig DEF EvictTo, GoodView, IsView, ViewFields, History

\* Prefill writes caches only.
LEMMA PrefillView ==
  ASSUME NEW st, IsView(st), NEW toks, NEW fails
  PROVE  /\ IsView(Prefill(st, toks, fails))
         /\ Prefill(st, toks, fails).ids = st.ids
         /\ Prefill(st, toks, fails).cur = st.cur
         /\ Prefill(st, toks, fails).hist = st.hist
BY DEF Prefill, IsView, ViewFields

\* A commit moves the cursors behind the ids it commits, or commits nothing.
LEMMA CommitOutcome ==
  ASSUME NEW st, GoodView(st), NEW toks \in Seq(Vocab), NEW ids \in Seq(Vocab), NEW fails,
         st.hist + Len(toks) = 1 + Len(ids), Len(ids) <= MaxHistory
  PROVE  GoodOutcome(Commit(st, toks, ids, fails))
<1>1. GoodView(Prefill(st, toks, fails))
  BY PrefillView DEF GoodView
<1>2. CASE PrefillError(st, toks, fails) # "Ok"
  BY <1>1, <1>2 DEF Commit, PrefillError, GoodOutcome, Outcome
<1>3. CASE PrefillError(st, toks, fails) = "Ok"
  <2> DEFINE after == Prefill(st, toks, fails)
             end == st.hist + Len(toks)
             committed == [after EXCEPT !.ids = ids, !.hist = end, !.cur = end]
  <2>1. Commit(st, toks, ids, fails) = Outcome(committed, "Ok")
    BY <1>3 DEF Commit
  <2>2. /\ IsView(committed) /\ committed.ids = ids
        /\ committed.hist = end /\ committed.cur = end
    <3>1. IsView(after)
      BY <1>1 DEF GoodView
    <3> HIDE DEF after, end
    <3> QED BY <3>1 DEF IsView, ViewFields
  <2>3. end \in Nat /\ end = 1 + Len(ids)
    BY DEF GoodView, History
  <2>4. History(ids, end, end)
    <3> HIDE DEF end
    <3> QED BY <2>3, SessionConfig DEF History
  <2>5. GoodView(committed)
    <3> HIDE DEF committed, end
    <3> QED BY <2>2, <2>4 DEF GoodView
  <2> QED BY <2>1, <2>5 DEF GoodOutcome, Outcome
<1> QED BY <1>2, <1>3

\* Rebuilding commits BOS and the window of the context.
LEMMA FillFromScratchOutcome ==
  ASSUME NEW st, GoodView(st), NEW context \in Seq(Vocab), NEW fails
  PROVE  GoodOutcome(fill_from_scratch(st, context, fails))
<1> DEFINE effective == IF Len(context) > MaxHistory THEN LastIds(context, eviction_target)
                                                     ELSE context
           cleared == [st EXCEPT !.ids = <<>>, !.cur = 0, !.hist = 0]
<1>1. effective \in Seq(Vocab) /\ Len(effective) <= MaxHistory
  BY EvictionTarget, LastIdsLen, SessionConfig
<1>2. GoodView(cleared) /\ cleared.hist = 0
  <2>1. /\ IsView(cleared) /\ cleared.ids = <<>>
        /\ cleared.hist = 0 /\ cleared.cur = 0
    BY DEF GoodView, IsView, ViewFields
  <2> HIDE DEF cleared
  <2> QED BY <2>1, SessionConfig DEF GoodView, History
<1>3. CASE effective = <<>>
  BY <1>2, <1>3 DEF fill_from_scratch, GoodOutcome, Outcome
<1>4. CASE effective # <<>>
  <2>1. /\ <<BOS>> \o effective \in Seq(Vocab)
        /\ 0 + Len(<<BOS>> \o effective) = 1 + Len(effective)
    <3> HIDE DEF effective
    <3> QED BY <1>1 DEF Vocab
  <2>2. GoodOutcome(Commit(cleared, <<BOS>> \o effective, effective, fails))
    <3> HIDE DEF effective, cleared
    <3> QED BY <1>1, <1>2, <2>1, CommitOutcome
  <2> QED BY <1>4, <2>2 DEF fill_from_scratch
<1> QED BY <1>3, <1>4

\* Filling behind a history evicts first when the window would overflow.
LEMMA FillIncrementalOutcome ==
  ASSUME NEW st, GoodView(st), st.hist > 0, NEW new \in Seq(Vocab), NEW fails
  PROVE  GoodOutcome(fill_incremental(st, new, fails))
<1> DEFINE total == Len(st.ids) + Len(new)
           keep  == eviction_target - Len(new)
           base  == IF total > MaxHistory THEN EvictTo(st, keep) ELSE st
<1>0. /\ st.ids \in Seq(Vocab) /\ Len(st.ids) \in Nat /\ Len(new) \in Nat
      /\ st.hist = 1 + Len(st.ids)
  BY DEF GoodView, History
<1>1. CASE new = <<>>
  BY <1>1 DEF fill_incremental, GoodOutcome, Outcome
<1>2. CASE new # <<>> /\ total > MaxHistory /\ keep <= 0
  <2>1. eviction_target \in 0 .. Len(new)
    BY <1>0, <1>2, EvictionTarget
  <2>2. GoodOutcome(fill_from_scratch(st, LastIds(new, eviction_target), fails))
    BY <2>1, LastIdsLen, FillFromScratchOutcome
  <2> QED BY <1>2, <2>2 DEF fill_incremental
<1>3. CASE new # <<>> /\ ~(total > MaxHistory /\ keep <= 0)
  <2>1. /\ GoodView(base) /\ base.hist = 1 + Len(base.ids)
        /\ Len(base.ids) + Len(new) <= MaxHistory
    <3>1. CASE total > MaxHistory
      <4>1. keep \in 0 .. Len(st.ids) /\ keep + Len(new) <= MaxHistory
        BY <1>0, <1>3, <3>1, EvictionTarget, SessionConfig
      <4> QED BY <3>1, <4>1, EvictToView
    <3>2. CASE ~(total > MaxHistory)
      BY <1>0, <3>2, SessionConfig
    <3> QED BY <3>1, <3>2
  <2>2. /\ base.ids \in Seq(Vocab) /\ base.ids \o new \in Seq(Vocab)
        /\ Len(base.ids \o new) = Len(base.ids) + Len(new)
        /\ base.hist + Len(new) = 1 + Len(base.ids \o new)
        /\ Len(base.ids \o new) <= MaxHistory
    <3> HIDE DEF base
    <3> QED BY <1>0, <2>1 DEF GoodView, History
  <2>3. GoodOutcome(Commit(base, new, base.ids \o new, fails))
    <3> HIDE DEF base
    <3> QED BY <1>0, <2>1, <2>2, CommitOutcome
  <2> QED BY <1>3, <2>3 DEF fill_incremental
<1> QED BY <1>1, <1>2, <1>3

\* fill keeps the view of a slot a history, whatever it is given.
LEMMA FillOutcome ==
  ASSUME NEW st, GoodView(st), NEW new \in Seq(Vocab \cup {BadId}), NEW fails
  PROVE  GoodOutcome(fill_impl(st, new, fails))
<1> DEFINE ids == without_bos(new)
<1>1. ids \in Seq(Vocab \cup {BadId})
  BY WithoutBosLen
<1>2. CASE HasBadId(ids) \/ ids = <<>>
  BY <1>2 DEF fill_impl, GoodOutcome, Outcome
<1>3. CASE ~HasBadId(ids) /\ ids # <<>>
  <2>1. ids \in Seq(Vocab)
    BY <1>1, <1>3, CheckedIds
  <2>2. st.hist \in Nat
    BY DEF GoodView, History
  <2> QED BY <1>3, <2>1, <2>2, FillFromScratchOutcome, FillIncrementalOutcome DEF fill_impl
<1> QED BY <1>2, <1>3

\* So does replace_context: equal, truncated, extended or rebuilt.
LEMMA ReplaceOutcome ==
  ASSUME NEW st, GoodView(st), NEW context \in Seq(Vocab \cup {BadId}), NEW fails
  PROVE  GoodOutcome(replace_context_impl(st, context, fails))
<1> DEFINE stripped == without_bos(context)
           target == IF Len(stripped) > MaxHistory THEN LastIds(stripped, eviction_target)
                                                   ELSE stripped
           kept == 1 + Len(target)
<1>1. stripped \in Seq(Vocab \cup {BadId})
  BY WithoutBosLen
<1>2. CASE HasBadId(stripped)
  BY <1>2 DEF replace_context_impl, GoodOutcome, Outcome
<1>3. CASE ~HasBadId(stripped)
  <2>1. target \in Seq(Vocab) /\ Len(target) <= MaxHistory /\ Len(target) \in Nat
    BY <1>1, <1>3, CheckedIds, EvictionTarget, LastIdsLen, SessionConfig
  <2>2. CASE target = st.ids
    <3> DEFINE rewound == [st EXCEPT !.cur = st.hist]
    <3>1. GoodView(rewound)
      <4>1. /\ IsView(rewound) /\ rewound.ids = st.ids
            /\ rewound.hist = st.hist /\ rewound.cur = st.hist
        BY DEF GoodView, IsView, ViewFields
      <4> HIDE DEF rewound
      <4> QED BY <4>1, SessionConfig DEF GoodView, History
    <3> QED BY <1>3, <2>2, <3>1 DEF replace_context_impl, GoodOutcome, Outcome
  <2>3. CASE target # st.ids /\ Len(target) < Len(st.ids) /\ IsPrefix(target, st.ids)
    <3> DEFINE cut == [st EXCEPT !.ids = target, !.hist = kept, !.cur = kept]
    <3>1. IsView(cut) /\ cut.ids = target /\ cut.cur = kept /\ cut.hist = kept
      <4> HIDE DEF target, kept
      <4> QED BY DEF GoodView, IsView, ViewFields
    <3>2. kept \in Nat /\ kept = 1 + Len(target)
      BY <2>1
    <3>3. GoodView(cut)
      <4> HIDE DEF target, kept, cut
      <4> QED BY <2>1, <3>1, <3>2, SessionConfig DEF GoodView, History
    <3>4. replace_context_impl(st, context, fails) = Outcome(cut, "Ok")
      BY <1>3, <2>3 DEF replace_context_impl
    <3> QED BY <3>3, <3>4 DEF GoodOutcome, Outcome
  <2>4. CASE /\ target # st.ids /\ ~(Len(target) < Len(st.ids) /\ IsPrefix(target, st.ids))
             /\ IsPrefix(st.ids, target) /\ st.hist > 0
    <3> DEFINE rest == SubSeq(target, Len(st.ids) + 1, Len(target))
    <3>1. rest \in Seq(Vocab)
      <4> HIDE DEF target
      <4> QED BY <2>1 DEF GoodView, History
    <3>2. replace_context_impl(st, context, fails) = fill_incremental(st, rest, fails)
      BY <1>3, <2>4 DEF replace_context_impl
    <3> QED BY <2>4, <3>1, <3>2, FillIncrementalOutcome
  <2>5. CASE /\ target # st.ids /\ ~(Len(target) < Len(st.ids) /\ IsPrefix(target, st.ids))
             /\ ~(IsPrefix(st.ids, target) /\ st.hist > 0)
    <3>1. replace_context_impl(st, context, fails) = fill_from_scratch(st, target, fails)
      BY <1>3, <2>5 DEF replace_context_impl
    <3> QED BY <2>1, <3>1, FillFromScratchOutcome
  <2> QED BY <2>2, <2>3, <2>4, <2>5
<1> QED BY <1>2, <1>3

\* A generation starts from a history, below the window's maximum.
LEMMA PreparedOutcome ==
  ASSUME NEW s, GoodView(sync_from_context(s)), NEW context \in Seq(Vocab \cup {BadId}),
         NEW fails
  PROVE  /\ GoodOutcome(Prepared(s, context, fails))
         /\ Prepared(s, context, fails).err = "Ok" =>
              Len(Prepared(s, context, fails).st.ids) < MaxHistory
<1> DEFINE given == IF context = <<>> THEN Outcome(sync_from_context(s), "Ok")
                    ELSE replace_context_impl(sync_from_context(s), context, fails)
<1>1. GoodOutcome(given)
  <2>1. CASE context = <<>>
    BY <2>1 DEF GoodOutcome, Outcome
  <2>2. CASE context # <<>>
    BY <2>2, ReplaceOutcome
  <2> QED BY <2>1, <2>2
<1>2. Len(given.st.ids) \in Nat /\ Len(given.st.ids) <= MaxHistory
  BY <1>1 DEF GoodOutcome, GoodView, History
<1>3. CASE given.err = "Ok" /\ Len(given.st.ids) >= MaxHistory
  <2>1. Prepared(s, context, fails) = truncate_history(given.st, eviction_target)
    BY <1>3 DEF Prepared
  <2>2. CASE eviction_target >= Len(given.st.ids)
    <3> HIDE DEF given
    <3> QED BY <1>1, <2>1, <2>2 DEF truncate_history, GoodOutcome, Outcome
  <2>3. CASE ~(eviction_target >= Len(given.st.ids))
    <3> HIDE DEF given
    <3>1. eviction_target \in 0 .. Len(given.st.ids) /\ ~(eviction_target < 0)
      BY <1>2, <2>3, EvictionTarget, SessionConfig
    <3>2. truncate_history(given.st, eviction_target)
            = Outcome(EvictTo(given.st, eviction_target), "Ok")
      BY <2>3, <3>1 DEF truncate_history
    <3>3. /\ GoodView(EvictTo(given.st, eviction_target))
          /\ Len(EvictTo(given.st, eviction_target).ids) = eviction_target
      BY <1>1, <3>1, EvictToView DEF GoodOutcome
    <3>4. eviction_target < MaxHistory
      BY <1>2, <2>3, EvictionTarget, SessionConfig
    <3> QED BY <2>1, <3>2, <3>3, <3>4 DEF GoodOutcome, Outcome
  <2> QED BY <2>2, <2>3
<1>4. CASE ~(given.err = "Ok" /\ Len(given.st.ids) >= MaxHistory)
  <2>1. Prepared(s, context, fails) = given
    BY <1>4 DEF Prepared
  <2> HIDE DEF given
  <2> QED BY <1>1, <1>2, <1>4, <2>1, SessionConfig
<1> QED BY <1>3, <1>4

\* Forgetting the generation cursor, before or after, leaves a history.
LEMMA CursorReset ==
  ASSUME NEW st, GoodView(st)
  PROVE  /\ GoodView(RolledBack(st)) /\ RolledBack(st).ids = st.ids
         /\ RolledBack(st).hist = st.hist
         /\ GoodView(Rewound(st)) /\ Rewound(st).ids = st.ids /\ Rewound(st).hist = st.hist
<1>1. /\ IsView(RolledBack(st)) /\ RolledBack(st).ids = st.ids
      /\ RolledBack(st).hist = st.hist /\ RolledBack(st).cur = st.hist
  BY DEF RolledBack, GoodView, IsView, ViewFields
<1>2. /\ IsView(Rewound(st)) /\ Rewound(st).ids = st.ids /\ Rewound(st).hist = st.hist
      /\ Rewound(st).cur = IF st.hist > 0 THEN st.cur ELSE 0
  BY DEF Rewound, GoodView, IsView, ViewFields
<1>3. GoodView(RolledBack(st))
  BY <1>1, SessionConfig DEF GoodView, History
<1>4. GoodView(Rewound(st))
  BY <1>2, SessionConfig DEF GoodView, History
<1> QED BY <1>1, <1>2, <1>3, <1>4

\* Decoding writes caches only.
LEMMA DecodingView ==
  ASSUME NEW st, GoodView(st), NEW tok, NEW error
  PROVE  GoodView(FirstPass2(st, tok, error)) /\ GoodView(Restored(st))
<1>1. /\ IsView(FirstPass2(st, tok, error))
      /\ FirstPass2(st, tok, error).ids = st.ids
      /\ FirstPass2(st, tok, error).cur = st.cur
      /\ FirstPass2(st, tok, error).hist = st.hist
  BY DEF FirstPass2, GoodView, IsView, ViewFields
<1>2. /\ IsView(Restored(st)) /\ Restored(st).ids = st.ids
      /\ Restored(st).cur = st.cur /\ Restored(st).hist = st.hist
  BY DEF Restored, GoodView, IsView, ViewFields
<1> QED BY <1>1, <1>2 DEF GoodView

\* Behind a history below the maximum there are positions for a full pinyin window.
LEMMA PositionsSuffice ==
  ASSUME NEW st, GoodView(st), Len(st.ids) < MaxHistory, NEW n \in 1 .. MaxPinyin
  PROVE  last_position(st.hist, n) \in Pos
<1>1. /\ Len(st.ids) \in Nat /\ Len(st.ids) <= MaxHistory - 1
      /\ st.hist = 1 + Len(st.ids) \/ st.hist = 0
  BY SessionConfig DEF GoodView, History
<1>2. /\ PreMax \in Int /\ MaxHistory \in Nat /\ MaxPinyin \in Nat
      /\ MaxHistory + MaxPinyin + 1 < PreMax /\ n \in Nat /\ 1 <= n /\ n <= MaxPinyin
  BY SessionConfig, CacheShape
<1>3. CASE st.hist = 0
  BY <1>2, <1>3 DEF last_position, Pos
<1>4. CASE st.hist = 1 + Len(st.ids)
  BY <1>1, <1>2, <1>4 DEF last_position, Pos
<1> QED BY <1>1, <1>3, <1>4

-----------------------------------------------------------------------------
(* The inductive invariant *)

\* Every slot holds a history, and when a slot has room for the window no call has
\* run out of room.
SlotsInv ==
  /\ context_ids \in [Slots -> Seq(Vocab)]
  /\ current_seqlen \in [Slots -> Nat]
  /\ history_seqlen \in [Slots -> Nat]
  /\ \A s \in Slots : History(context_ids[s], current_seqlen[s], history_seqlen[s])
  /\ MaxHistory <= SlotCapacity => WindowAlwaysFits

GenFields == {"slot", "n", "step", "ids", "cur", "hist", "clean", "beams"}

\* So do the locals of a generation, and from the first decoded token on the
\* generation cursor is the position of the next.
GenInv ==
  /\ gen = [f \in GenFields |-> gen[f]]
  /\ gen.slot \in Slots
  /\ History(gen.ids, gen.cur, gen.hist)
  /\ gen.n \in 1 .. MaxPinyin
  /\ pc = "step" => gen.step \in 1 .. gen.n /\ gen.cur = StepPosition

SessionInv ==
  /\ SlotsInv
  /\ pc \in {"idle", "first", "step"}
  /\ pc # "idle" => GenInv

\* The view a call starts from is a history.
LEMMA SlotView ==
  ASSUME SlotsInv, NEW s \in Slots
  PROVE  GoodView(sync_from_context(s))
BY DEF SlotsInv, sync_from_context, GoodView, IsView, ViewFields

\* So is the view of a generation in progress.
LEMMA CallView ==
  ASSUME GenInv
  PROVE  GoodView(InCall)
BY DEF GenInv, InCall, GoodView, IsView, ViewFields

\* A call that ends with a history, or throws, leaves histories in the slots.
LEMMA SyncKeepsSlots ==
  ASSUME SlotsInv, NEW s \in Slots, NEW out, GoodView(out.st),
         out.err \notin {"ContextLimitExceeded", "Exception"}, sync_to_context(s, out)
  PROVE  SlotsInv'
<1>0. /\ out.st.ids \in Seq(Vocab) /\ out.st.cur \in Nat /\ out.st.hist \in Nat
      /\ History(out.st.ids, out.st.cur, out.st.hist)
      /\ Len(out.st.ids) \in Nat /\ Len(out.st.ids) <= MaxHistory
  BY DEF GoodView, History
<1>1. CASE ~Fits(out.st.ids)
  <2>1. ~(MaxHistory <= SlotCapacity)
    BY <1>0, <1>1, SessionConfig, SlotConfig DEF Fits
  <2> QED BY <1>1, <2>1 DEF SlotsInv, sync_to_context
<1>2. CASE Fits(out.st.ids)
  <2>1. WriteMeta(s, out.st) /\ ret'.err = out.err
    BY <1>2 DEF sync_to_context
  <2>2. WindowAlwaysFits'
    BY <2>1 DEF WindowAlwaysFits
  <2> QED BY <1>0, <2>1, <2>2 DEF SlotsInv, WriteMeta
<1> QED BY <1>1, <1>2

\* A generation that returns leaves histories too.
LEMMA FinishKeepsSlots ==
  ASSUME SlotsInv, gen.slot \in Slots, NEW st, GoodView(st),
         NEW error, error \notin {"ContextLimitExceeded", "Exception"}, Finish(st, error)
  PROVE  SessionInv'
<1>1. GoodView(Restored(st))
  BY DecodingView
<1>2. SlotsInv'
  BY <1>1, SyncKeepsSlots DEF Finish, Outcome
<1> QED BY <1>2 DEF Finish, SessionInv

-----------------------------------------------------------------------------
(* Initially, and step by step *)

\* Every slot starts with the empty history.
LEMMA InitHistory == Init => SessionInv
<1> SUFFICES ASSUME Init PROVE SessionInv
  OBVIOUS
<1>1. SlotsInv
  BY SessionConfig DEF Init, InitSlots, SlotsInv, History, WindowAlwaysFits
<1> QED BY <1>1 DEF Init, SessionInv

\* The calls that run without giving control away, and the generations that end
\* before the decoder is reached.
LEMMA CallKeepsHistories ==
  ASSUME SessionInv, NEW s \in Slots, NEW context \in Seq(Vocab \cup {BadId}),
         \/ reset(s)
         \/ \E ids \in FillArgs : fill(s, ids)
         \/ \E ids \in ContextArgs : replace_context(s, ids)
         \/ generate_returns_early(s, context) \/ generate_cancelled(s, context)
         \/ generate_rejected(s, context)
  PROVE  SessionInv'
<1>0. SlotsInv /\ GoodView(sync_from_context(s)) /\ pc = "idle" /\ pc' = "idle"
  BY SlotView DEF SessionInv, reset, fill, replace_context, generate_returns_early,
     generate_cancelled, generate_rejected
<1>1. CASE reset(s)
  <2> DEFINE cleared == [truncate_context_ids(Meta(s), 0) EXCEPT !.cur = 0, !.hist = 0]
  <2>1. cleared.ids = <<>> /\ cleared.cur = 0 /\ cleared.hist = 0
    BY <1>0 DEF truncate_context_ids, Meta, SlotsInv
  <2>2. SlotsInv'
    <3>1. WriteMeta(s, cleared) /\ ret'.err = "Ok"
      BY <1>1 DEF reset
    <3> HIDE DEF cleared
    <3> QED BY <1>0, <2>1, <3>1, SessionConfig
            DEF SlotsInv, WriteMeta, History, WindowAlwaysFits
  <2> QED BY <1>0, <2>2 DEF SessionInv
<1>2. CASE \E ids \in FillArgs : fill(s, ids)
  <2>1. PICK ids \in FillArgs, fails \in Faults :
          sync_to_context(s, fill_impl(sync_from_context(s), ids, fails))
    BY <1>2 DEF fill
  <2>2. GoodOutcome(fill_impl(sync_from_context(s), ids, fails))
    BY <1>0, FillOutcome, Environment
  <2>3. SlotsInv'
    BY <1>0, <2>1, <2>2, SyncKeepsSlots DEF GoodOutcome
  <2> QED BY <1>0, <2>3 DEF SessionInv
<1>3. CASE \E ids \in ContextArgs : replace_context(s, ids)
  <2>1. PICK ids \in ContextArgs, fails \in Faults :
          sync_to_context(s, replace_context_impl(sync_from_context(s), ids, fails))
    BY <1>3 DEF replace_context
  <2>2. GoodOutcome(replace_context_impl(sync_from_context(s), ids, fails))
    BY <1>0, ReplaceOutcome, Environment
  <2>3. SlotsInv'
    BY <1>0, <2>1, <2>2, SyncKeepsSlots DEF GoodOutcome
  <2> QED BY <1>0, <2>3 DEF SessionInv
<1>4. CASE generate_returns_early(s, context)
  <2>1. PICK fails \in Faults :
          \E error \in {"Ok", "InvalidArgument"} \cup {Prepared(s, context, fails).err} :
            sync_to_context(s, Outcome(Prepared(s, context, fails).st, error))
    BY <1>4 DEF generate_returns_early
  <2>2. GoodOutcome(Prepared(s, context, fails))
    BY <1>0, PreparedOutcome
  <2>3. SlotsInv'
    BY <1>0, <2>1, <2>2, SyncKeepsSlots DEF Outcome, GoodOutcome
  <2> QED BY <1>0, <2>3 DEF SessionInv
<1>5. CASE generate_cancelled(s, context)
  <2>1. PICK fails \in Faults :
          sync_to_context(s, Outcome(RolledBack(Prepared(s, context, fails).st), "Cancelled"))
    BY <1>5 DEF generate_cancelled
  <2>2. GoodView(RolledBack(Prepared(s, context, fails).st))
    BY <1>0, PreparedOutcome, CursorReset DEF GoodOutcome
  <2>3. SlotsInv'
    BY <1>0, <2>1, <2>2, SyncKeepsSlots DEF Outcome
  <2> QED BY <1>0, <2>3 DEF SessionInv
<1>6. CASE generate_rejected(s, context)
  <2>1. PICK fails \in Faults, n \in 1 .. MaxPinyin + 1 :
          LET out == Prepared(s, context, fails)
              st  == IF n > MaxPinyin THEN out.st ELSE Rewound(out.st)
          IN  /\ out.err = "Ok"
              /\ \E error \in Rejections(st.hist, n) : sync_to_context(s, Outcome(st, error))
    BY <1>6 DEF generate_rejected
  <2> DEFINE out == Prepared(s, context, fails)
             st  == IF n > MaxPinyin THEN out.st ELSE Rewound(out.st)
  <2>2. GoodView(st) /\ Len(st.ids) < MaxHistory
    BY <1>0, <2>1, PreparedOutcome, CursorReset DEF GoodOutcome
  <2>3. \A error \in Rejections(st.hist, n) : error \notin {"ContextLimitExceeded", "Exception"}
    <3> HIDE DEF st
    <3>1. CASE n > MaxPinyin
      BY <3>1 DEF Rejections
    <3>2. CASE ~(n > MaxPinyin)
      <4>1. n \in 1 .. MaxPinyin
        BY <3>2, SessionConfig
      <4>2. last_position(st.hist, n) \in Pos
        BY <2>2, <4>1, PositionsSuffice
      <4> QED BY <3>2, <4>2 DEF Rejections
    <3> QED BY <3>1, <3>2
  <2>4. PICK error \in Rejections(st.hist, n) : sync_to_context(s, Outcome(st, error))
    BY <2>1
  <2>5. SlotsInv'
    <3> HIDE DEF st
    <3> QED BY <1>0, <2>2, <2>3, <2>4, SyncKeepsSlots DEF Outcome
  <2> QED BY <1>0, <2>5 DEF SessionInv
<1> QED BY <1>1, <1>2, <1>3, <1>4, <1>5, <1>6

\* A generation that reaches the decoder takes a history with it.
LEMMA StartKeepsHistories ==
  ASSUME SessionInv, NEW s \in Slots, NEW context \in Seq(Vocab \cup {BadId}),
         generate_starts(s, context)
  PROVE  SessionInv'
<1>0. SlotsInv /\ GoodView(sync_from_context(s))
  BY SlotView DEF SessionInv
<1>1. PICK fails \in Faults, n \in 1 .. MaxPinyin :
        LET st == Rewound(Prepared(s, context, fails).st)
        IN  /\ pc' = "first"
            /\ gen' = [IdleGen EXCEPT !.slot = s, !.n = n, !.ids = st.ids, !.cur = st.cur,
                         !.hist  = st.hist,
                         !.clean = IF st.hist > 0 THEN st.self[0][first_position(st.hist)]
                                                  ELSE Zero]
  BY DEF generate_starts
<1> DEFINE st == Rewound(Prepared(s, context, fails).st)
<1>2. History(st.ids, st.cur, st.hist)
  BY <1>0, PreparedOutcome, CursorReset DEF GoodOutcome, GoodView
<1>3. /\ gen' = [f \in GenFields |-> gen'[f]]
      /\ gen'.slot = s /\ gen'.n = n
      /\ gen'.ids = st.ids /\ gen'.cur = st.cur /\ gen'.hist = st.hist
  <2> HIDE DEF st
  <2> QED BY <1>1 DEF IdleGen, GenFields, st
<1>4. GenInv'
  <2> HIDE DEF st
  <2> QED BY <1>1, <1>2, <1>3 DEF GenInv, History
<1>5. SlotsInv'
  BY <1>0 DEF SlotsInv, generate_starts, History, WindowAlwaysFits
<1> QED BY <1>1, <1>4, <1>5 DEF SessionInv

\* Decoding steps move the cursor with the step and leave the ids alone; every way
\* a generation ends restores a history.
LEMMA DecodingKeepsHistories ==
  ASSUME SessionInv, Decoding
  PROVE  SessionInv'
<1>0. SlotsInv /\ GenInv /\ GoodView(InCall) /\ gen.slot \in Slots
  <2>1. pc # "idle"
    BY DEF Decoding, first_decode_stops, first_decode, step_stops_before_decoding,
       step_stops_after_decoding, step_decodes, generate_returns
  <2> QED BY <2>1, CallView DEF SessionInv, GenInv
<1>1. CASE first_decode_stops
  <2>1. PICK tok \in FirstQueries, error \in Pass2Errors :
          LET st == FirstPass2(InCall, tok, error)
          IN  Finish(RolledBack(st), "Cancelled")
              \/ Finish(st, IF error = "Ok" THEN "NoCandidates" ELSE error)
    BY <1>1 DEF first_decode_stops
  <2>2. /\ GoodView(FirstPass2(InCall, tok, error))
        /\ GoodView(RolledBack(FirstPass2(InCall, tok, error)))
    BY <1>0, DecodingView, CursorReset
  <2> QED BY <1>0, <2>1, <2>2, FinishKeepsSlots DEF Pass2Errors
<1>2. CASE first_decode
  <2>1. PICK beams \in FirstBeams :
          gen' = [gen EXCEPT !.beams = beams, !.step = 1,
                             !.cur = IF gen.hist > 0 THEN gen.hist ELSE 1]
    BY <1>2 DEF first_decode
  <2>2. /\ gen' = [f \in GenFields |-> gen'[f]]
        /\ gen'.slot = gen.slot /\ gen'.n = gen.n /\ gen'.step = 1
        /\ gen'.ids = gen.ids /\ gen'.hist = gen.hist
        /\ gen'.cur = IF gen.hist > 0 THEN gen.hist ELSE 1
    BY <1>0, <2>1 DEF GenInv, GenFields
  <2>3. GenInv'
    BY <1>0, <2>2, SessionConfig DEF GenInv, History, StepPosition
  <2>4. SlotsInv' /\ pc' = "step"
    BY <1>0, <1>2 DEF SlotsInv, first_decode, History, WindowAlwaysFits
  <2> QED BY <2>3, <2>4 DEF SessionInv
<1>3. CASE step_stops_before_decoding
  <2>1. Finish(RolledBack(InCall), "Cancelled") \/ Finish(RolledBack(InCall), "InvalidArgument")
    BY <1>3 DEF step_stops_before_decoding
  <2> QED BY <1>0, <2>1, CursorReset, FinishKeepsSlots
<1>4. CASE step_stops_after_decoding
  <2>1. PICK error \in Pass2Errors :
          LET st == RolledBack(StepPass2(error))
          IN  Finish(st, "Cancelled")
              \/ Finish(st, IF error = "Ok" THEN "NoCandidates" ELSE error)
    BY <1>4 DEF step_stops_after_decoding
  <2>2. GoodView(StepPass2(error))
    BY <1>0 DEF StepPass2, GoodView, IsView, ViewFields
  <2> QED BY <1>0, <2>1, <2>2, CursorReset, FinishKeepsSlots DEF Pass2Errors
<1>5. CASE step_decodes
  <2>1. PICK e \in Selections :
          gen' = [gen EXCEPT !.cur = StepPosition + 1, !.step = gen.step + 1,
                    !.beams = [l \in Lanes |->
                       [pred   |-> Append(gen.beams[e[l][1]].pred, e[l][2]),
                        active |-> gen.beams[e[l][1]].active]]]
    BY <1>5 DEF step_decodes
  <2>2. /\ gen' = [f \in GenFields |-> gen'[f]]
        /\ gen'.slot = gen.slot /\ gen'.n = gen.n /\ gen'.step = gen.step + 1
        /\ gen'.ids = gen.ids /\ gen'.hist = gen.hist /\ gen'.cur = StepPosition + 1
    BY <1>0, <2>1 DEF GenInv, GenFields
  <2>3. pc = "step" /\ gen.step < gen.n
    BY <1>5 DEF step_decodes
  <2>4. GenInv'
    <3>1. /\ gen.ids \in Seq(Vocab) /\ gen.hist \in Nat /\ gen.n \in 1 .. MaxPinyin
          /\ gen.step \in 1 .. gen.n
          /\ gen.hist = 1 + Len(gen.ids) \/ (gen.hist = 0 /\ gen.ids = <<>>)
          /\ Len(gen.ids) <= MaxHistory
      BY <1>0, <2>3 DEF GenInv, History
    <3>2. StepPosition \in Nat /\ StepPosition + 1 = StepPosition'
      <4>1. gen'.hist = gen.hist /\ gen'.step = gen.step + 1
        BY <2>2
      <4>2. gen.hist \in Nat /\ gen.step \in Nat /\ gen.step >= 1
        BY <3>1, SessionConfig
      <4>3. StepPosition' = IF gen.hist > 0 THEN gen.hist + (gen.step + 1) - 1
                                            ELSE gen.step + 1
        BY <4>1 DEF StepPosition
      <4> QED BY <4>2, <4>3 DEF StepPosition
    <3>3. gen.hist <= StepPosition + 1 /\ StepPosition + 1 <= gen.hist + MaxPinyin
      <4>1. /\ gen.hist \in Nat /\ gen.step \in Nat /\ 1 <= gen.step
            /\ gen.step + 1 <= gen.n /\ gen.n \in Nat /\ gen.n <= MaxPinyin
            /\ MaxPinyin \in Nat
        BY <2>3, <3>1, SessionConfig
      <4>2. CASE gen.hist > 0
        BY <4>1, <4>2 DEF StepPosition
      <4>3. CASE gen.hist = 0
        BY <4>1, <4>3 DEF StepPosition
      <4> QED BY <4>1, <4>2, <4>3
    <3>4. History(gen.ids, StepPosition + 1, gen.hist)
      BY <3>1, <3>2, <3>3 DEF History
    <3>5. gen.step + 1 \in 1 .. gen.n
      BY <2>3, <3>1, SessionConfig
    <3> QED BY <1>0, <2>2, <3>1, <3>2, <3>4, <3>5 DEF GenInv
  <2>5. SlotsInv' /\ pc' = "step"
    BY <1>0, <1>5 DEF SlotsInv, step_decodes, History, WindowAlwaysFits
  <2> QED BY <2>4, <2>5 DEF SessionInv
<1>6. CASE generate_returns
  <2>1. Finish(InCall, "Ok")
    BY <1>6 DEF generate_returns
  <2> QED BY <1>0, <2>1, FinishKeepsSlots
<1> QED BY <1>1, <1>2, <1>3, <1>4, <1>5, <1>6 DEF Decoding

\* SessionInv is inductive.
LEMMA NextKeepsHistories == SessionInv /\ [Next]_vars => SessionInv'
<1> SUFFICES ASSUME SessionInv, [Next]_vars PROVE SessionInv'
  OBVIOUS
<1>1. CASE \E s \in Slots : Calls(s)
  <2>1. PICK s \in Slots : Calls(s)
    BY <1>1
  <2>2. <<>> \in Seq(Vocab \cup {BadId}) /\ Snapshots \subseteq Seq(Vocab \cup {BadId})
    BY Environment
  <2> QED BY <2>1, <2>2, CallKeepsHistories, StartKeepsHistories DEF Calls, generate
<1>2. CASE Decoding
  BY <1>2, DecodingKeepsHistories
<1>3. CASE UNCHANGED vars
  BY <1>3 DEF vars, SessionInv, SlotsInv, GenInv, History, StepPosition, WindowAlwaysFits
<1> QED BY <1>1, <1>2, <1>3 DEF Next

\* Whatever is called, cancelled or fails, in whatever order: the committed ids of
\* every slot and the two cursors the session keeps beside them describe one
\* history within the window.
THEOREM CursorsAlwaysAgree == Spec => []CursorsAgree
<1>1. SessionInv => CursorsAgree
  <2> SUFFICES ASSUME SessionInv, NEW s \in Slots
               PROVE  LET ids  == CommittedIds(s)
                          hist == CommittedLen(s)
                          cur  == IF Generating(s) THEN gen.cur ELSE current_seqlen[s]
                      IN  /\ hist = 1 + Len(ids) \/ (hist = 0 /\ ids = <<>>)
                          /\ Len(ids) <= MaxHistory
                          /\ hist <= cur /\ cur <= hist + MaxPinyin
    BY DEF CursorsAgree
  <2>1. CASE Generating(s)
    BY <2>1 DEF Generating, CommittedIds, CommittedLen, SessionInv, GenInv, History
  <2>2. CASE ~Generating(s)
    BY <2>2 DEF Generating, CommittedIds, CommittedLen, SessionInv, SlotsInv, History
  <2> QED BY <2>1, <2>2
<1> QED BY <1>1, InitHistory, NextKeepsHistories, PTL DEF Spec

\* With slots at least as large as the session's window (the two are created from
\* core configs, not from one another) no sequence of calls runs out of positions
\* in the cache or throws because the ids outgrew the slot.
THEOREM WindowAlwaysSuffices ==
  ASSUME MaxHistory <= SlotCapacity
  PROVE  Spec => []WindowAlwaysFits
<1>1. SessionInv => WindowAlwaysFits
  BY DEF SessionInv, SlotsInv
<1> QED BY <1>1, InitHistory, NextKeepsHistories, PTL DEF Spec


-----------------------------------------------------------------------------
(* A cancelled generation *)

\* While the call that returned last was a cancelled generation its slot is as
\* that generation left it, also while another one runs.
CancelInv ==
  ret.err = "Cancelled" =>
    ret.slot \in Slots /\ current_seqlen[ret.slot] = history_seqlen[ret.slot]

\* A call that answers Cancelled and brings its cursor back leaves the slot ready.
LEMMA SyncKeepsCancel ==
  ASSUME SlotsInv, NEW s \in Slots, NEW out, sync_to_context(s, out),
         out.err = "Cancelled" => out.st.cur = out.st.hist
  PROVE  CancelInv'
<1>1. ret'.slot = s /\ ret'.err = IF Fits(out.st.ids) THEN out.err ELSE "Exception"
  BY DEF sync_to_context
<1>2. CASE Fits(out.st.ids)
  <2>1. /\ current_seqlen' = [current_seqlen EXCEPT ![s] = out.st.cur]
        /\ history_seqlen' = [history_seqlen EXCEPT ![s] = out.st.hist]
    BY <1>2 DEF sync_to_context, WriteMeta
  <2>2. current_seqlen'[s] = out.st.cur /\ history_seqlen'[s] = out.st.hist
    BY <2>1 DEF SlotsInv
  <2> QED BY <1>1, <1>2, <2>2 DEF CancelInv
<1>3. CASE ~Fits(out.st.ids)
  BY <1>1, <1>3 DEF CancelInv
<1> QED BY <1>2, <1>3

\* RolledBack brings the cursor back, and restoring the boundary leaves it there.
LEMMA RolledBackCursor ==
  ASSUME NEW st, GoodView(st)
  PROVE  /\ RolledBack(st).cur = RolledBack(st).hist
         /\ Restored(RolledBack(st)).cur = Restored(RolledBack(st)).hist
<1>1. IsView(RolledBack(st)) /\ RolledBack(st).cur = RolledBack(st).hist
  BY DEF RolledBack, GoodView, IsView, ViewFields
<1> DEFINE back == RolledBack(st)
<1>2. Restored(back).cur = back.cur /\ Restored(back).hist = back.hist
  <2> HIDE DEF back
  <2> QED BY <1>1 DEF Restored, IsView, ViewFields, back
<1> HIDE DEF back
<1> QED BY <1>1, <1>2 DEF back

\* A generation that ends Cancelled has its cursor back.
LEMMA FinishKeepsCancel ==
  ASSUME SlotsInv, gen.slot \in Slots, NEW st, NEW error, Finish(st, error),
         error = "Cancelled" => \E from : GoodView(from) /\ st = RolledBack(from)
  PROVE  CancelInv'
<1>1. sync_to_context(gen.slot, Outcome(Restored(st), error))
  BY DEF Finish
<1>2. error = "Cancelled" => Restored(st).cur = Restored(st).hist
  BY RolledBackCursor
<1> QED BY <1>1, <1>2, SyncKeepsCancel DEF Outcome

\* CancelInv is inductive with SessionInv.
LEMMA NextKeepsCancel == SessionInv /\ CancelInv /\ [Next]_vars => CancelInv'
<1> SUFFICES ASSUME SessionInv, CancelInv, [Next]_vars PROVE CancelInv'
  OBVIOUS
<1>0. SlotsInv
  BY DEF SessionInv
<1>1. ASSUME NEW s \in Slots, reset(s) PROVE CancelInv'
  <2>1. ret'.err = "Ok"
    BY <1>1 DEF reset
  <2> QED BY <2>1 DEF CancelInv
<1>2. ASSUME NEW s \in Slots, NEW ids \in FillArgs, fill(s, ids) PROVE CancelInv'
  <2>1. PICK fails \in Faults :
          sync_to_context(s, fill_impl(sync_from_context(s), ids, fails))
    BY <1>2 DEF fill
  <2>2. GoodOutcome(fill_impl(sync_from_context(s), ids, fails))
    BY <1>0, SlotView, FillOutcome, Environment
  <2> QED BY <1>0, <2>1, <2>2, SyncKeepsCancel DEF GoodOutcome
<1>3. ASSUME NEW s \in Slots, NEW ids \in ContextArgs, replace_context(s, ids)
      PROVE  CancelInv'
  <2>1. PICK fails \in Faults :
          sync_to_context(s, replace_context_impl(sync_from_context(s), ids, fails))
    BY <1>3 DEF replace_context
  <2>2. GoodOutcome(replace_context_impl(sync_from_context(s), ids, fails))
    BY <1>0, SlotView, ReplaceOutcome, Environment
  <2> QED BY <1>0, <2>1, <2>2, SyncKeepsCancel DEF GoodOutcome
<1>4. ASSUME NEW s \in Slots, NEW context \in Snapshots, generate_returns_early(s, context)
      PROVE  CancelInv'
  <2>1. PICK fails \in Faults :
          \E error \in {"Ok", "InvalidArgument"} \cup {Prepared(s, context, fails).err} :
            sync_to_context(s, Outcome(Prepared(s, context, fails).st, error))
    BY <1>4 DEF generate_returns_early
  <2>2. GoodOutcome(Prepared(s, context, fails))
    BY <1>0, SlotView, PreparedOutcome, Environment
  <2> QED BY <1>0, <2>1, <2>2, SyncKeepsCancel DEF GoodOutcome, Outcome
<1>5. ASSUME NEW s \in Slots, NEW context \in Snapshots, generate_cancelled(s, context)
      PROVE  CancelInv'
  <2>1. PICK fails \in Faults :
          sync_to_context(s, Outcome(RolledBack(Prepared(s, context, fails).st), "Cancelled"))
    BY <1>5 DEF generate_cancelled
  <2>2. GoodView(Prepared(s, context, fails).st)
    BY <1>0, SlotView, PreparedOutcome, Environment DEF GoodOutcome
  <2> QED BY <1>0, <2>1, <2>2, RolledBackCursor, SyncKeepsCancel DEF Outcome
<1>6. ASSUME NEW s \in Slots, NEW context \in Snapshots, generate_rejected(s, context)
      PROVE  CancelInv'
  <2>1. PICK st, error : error # "Cancelled" /\ sync_to_context(s, Outcome(st, error))
    BY <1>6 DEF generate_rejected, Rejections
  <2>2. error # "Cancelled"
    BY <2>1
  <2> QED BY <1>0, <2>1, <2>2, SyncKeepsCancel DEF Outcome
<1>7. ASSUME NEW s \in Slots, NEW context \in Snapshots, generate_starts(s, context)
      PROVE  CancelInv'
  BY <1>7 DEF generate_starts, CancelInv
<1>8. CASE Decoding
  <2>0. gen.slot \in Slots /\ GoodView(InCall)
    BY <1>8, CallView DEF SessionInv, GenInv, Decoding, first_decode_stops, first_decode,
       step_stops_before_decoding, step_stops_after_decoding, step_decodes, generate_returns
  <2>1. CASE first_decode_stops
    <3>1. PICK tok \in FirstQueries, error \in Pass2Errors :
            LET st == FirstPass2(InCall, tok, error)
            IN  Finish(RolledBack(st), "Cancelled")
                \/ Finish(st, IF error = "Ok" THEN "NoCandidates" ELSE error)
      BY <2>1 DEF first_decode_stops
    <3>2. GoodView(FirstPass2(InCall, tok, error))
      BY <2>0, DecodingView
    <3> QED BY <1>0, <2>0, <3>1, <3>2, FinishKeepsCancel DEF Pass2Errors
  <2>2. CASE step_stops_before_decoding
    <3>1. Finish(RolledBack(InCall), "Cancelled") \/ Finish(RolledBack(InCall), "InvalidArgument")
      BY <2>2 DEF step_stops_before_decoding
    <3> QED BY <1>0, <2>0, <3>1, FinishKeepsCancel
  <2>3. CASE step_stops_after_decoding
    <3>1. PICK error \in Pass2Errors :
            LET st == RolledBack(StepPass2(error))
            IN  Finish(st, "Cancelled")
                \/ Finish(st, IF error = "Ok" THEN "NoCandidates" ELSE error)
      BY <2>3 DEF step_stops_after_decoding
    <3>2. GoodView(StepPass2(error))
      BY <2>0 DEF StepPass2, GoodView, IsView, ViewFields
    <3> QED BY <1>0, <2>0, <3>1, <3>2, FinishKeepsCancel DEF Pass2Errors
  <2>4. CASE generate_returns
    <3>1. Finish(InCall, "Ok")
      BY <2>4 DEF generate_returns
    <3> QED BY <1>0, <2>0, <3>1, FinishKeepsCancel
  <2>5. CASE first_decode \/ step_decodes
    BY <2>5 DEF first_decode, step_decodes, CancelInv
  <2> QED BY <1>8, <2>1, <2>2, <2>3, <2>4, <2>5 DEF Decoding
<1>9. CASE UNCHANGED vars
  BY <1>9 DEF vars, CancelInv
<1> QED BY <1>1, <1>2, <1>3, <1>4, <1>5, <1>6, <1>7, <1>8, <1>9 DEF Next, Calls, generate

\* Wherever a poll cancels a generation, before the decoder, after its first query
\* or between two steps, and whatever the snapshot did before it, the slot's
\* generation cursor is back at its committed history.
THEOREM CancelAlwaysRestoresCursor == Spec => []CancelRestoresCursor
<1>1. Init => CancelInv
  BY DEF Init, CancelInv
<1>2. CancelInv => CancelRestoresCursor
  BY DEF CancelInv, CancelRestoresCursor
<1> QED BY <1>1, <1>2, InitHistory, NextKeepsHistories, NextKeepsCancel, PTL DEF Spec

-----------------------------------------------------------------------------
(* Snapshots of valid ids *)

\* Stripping a leading BOS, which is in the vocabulary, changes no verdict of the
\* vocabulary check.
LEMMA BosIsAnId ==
  ASSUME NEW ids \in Seq(Vocab \cup {BadId})
  PROVE  HasBadId(without_bos(ids)) <=> HasBadId(ids)
<1>1. CASE ids # <<>> /\ Head(ids) = BOS
  <2>1. /\ Len(ids) \in Nat /\ Len(ids) >= 1 /\ ids[1] = BOS /\ BOS \in Vocab
        /\ without_bos(ids) = Tail(ids) /\ Len(Tail(ids)) = Len(ids) - 1
    BY <1>1 DEF without_bos, Vocab
  <2>2. \A i \in 1 .. Len(ids) - 1 : Tail(ids)[i] = ids[i + 1]
    BY <2>1
  <2>3. ASSUME NEW i \in 1 .. Len(ids), ids[i] \notin Vocab
        PROVE  i - 1 \in 1 .. Len(Tail(ids)) /\ Tail(ids)[i - 1] \notin Vocab
    <3>1. i # 1
      BY <2>1, <2>3
    <3>2. i - 1 \in 1 .. Len(ids) - 1 /\ (i - 1) + 1 = i
      BY <2>1, <3>1
    <3> QED BY <2>1, <2>2, <2>3, <3>2
  <2>4. ASSUME NEW i \in 1 .. Len(Tail(ids)), Tail(ids)[i] \notin Vocab
        PROVE  i + 1 \in 1 .. Len(ids) /\ ids[i + 1] \notin Vocab
    BY <2>1, <2>2, <2>4
  <2> QED BY <2>1, <2>3, <2>4 DEF HasBadId
<1>2. CASE ~(ids # <<>> /\ Head(ids) = BOS)
  BY <1>2 DEF without_bos
<1> QED BY <1>1, <1>2

\* The batch sizes pass 1 can run with.
PrefillRuns == Pre1Batch \in {0, 1, Beam}

\* Ids within the window go through a pass 1 that does not fail.
LEMMA CommitSucceeds ==
  ASSUME PrefillRuns, NEW st, GoodView(st), NEW toks \in Seq(Vocab), NEW ids \in Seq(Vocab),
         st.hist + Len(toks) = 1 + Len(ids), Len(ids) <= MaxHistory
  PROVE  Commit(st, toks, ids, FALSE).err = "Ok"
<1>1. /\ Len(ids) \in Nat /\ Len(toks) \in Nat /\ st.hist \in Nat
      /\ PreMax \in Nat /\ MaxPinyin \in Nat /\ MaxHistory \in Nat
      /\ MaxHistory + MaxPinyin + 1 < PreMax
  BY SessionConfig, CacheShape DEF GoodView, History
<1>2. ~(Len(toks) > PreMax - st.hist)
  BY <1>1
<1>3. PrefillError(st, toks, FALSE) = "Ok"
  BY <1>2 DEF PrefillError, PrefillRuns, PrefillOnScratch
<1> QED BY <1>3 DEF Commit, Outcome

\* Rebuilding a window is accepted.
LEMMA FillFromScratchSucceeds ==
  ASSUME PrefillRuns, NEW st, GoodView(st), NEW context \in Seq(Vocab)
  PROVE  fill_from_scratch(st, context, FALSE).err = "Ok"
<1> DEFINE effective == IF Len(context) > MaxHistory THEN LastIds(context, eviction_target)
                                                     ELSE context
           cleared == [st EXCEPT !.ids = <<>>, !.cur = 0, !.hist = 0]
<1>1. effective \in Seq(Vocab) /\ Len(effective) <= MaxHistory
  BY EvictionTarget, LastIdsLen, SessionConfig
<1>2. GoodView(cleared) /\ cleared.hist = 0
  <2>1. /\ IsView(cleared) /\ cleared.ids = <<>>
        /\ cleared.hist = 0 /\ cleared.cur = 0
    BY DEF GoodView, IsView, ViewFields
  <2> HIDE DEF cleared
  <2> QED BY <2>1, SessionConfig DEF GoodView, History
<1>3. /\ <<BOS>> \o effective \in Seq(Vocab)
      /\ 0 + Len(<<BOS>> \o effective) = 1 + Len(effective)
  <2> HIDE DEF effective
  <2> QED BY <1>1 DEF Vocab
<1>4. Commit(cleared, <<BOS>> \o effective, effective, FALSE).err = "Ok"
  <2> HIDE DEF effective, cleared
  <2> QED BY <1>1, <1>2, <1>3, CommitSucceeds
<1> QED BY <1>4 DEF fill_from_scratch, Outcome

\* Text behind a history that stays within the window needs no eviction.
LEMMA ExtensionSucceeds ==
  ASSUME PrefillRuns, NEW st, GoodView(st), st.hist > 0, NEW new \in Seq(Vocab),
         Len(st.ids) + Len(new) <= MaxHistory
  PROVE  fill_incremental(st, new, FALSE).err = "Ok"
<1>1. /\ st.ids \in Seq(Vocab) /\ Len(st.ids) \in Nat /\ Len(new) \in Nat
      /\ st.hist = 1 + Len(st.ids) /\ MaxHistory \in Nat
  BY SessionConfig DEF GoodView, History
<1>2. /\ st.ids \o new \in Seq(Vocab) /\ Len(st.ids \o new) = Len(st.ids) + Len(new)
      /\ st.hist + Len(new) = 1 + Len(st.ids \o new)
  BY <1>1
<1>3. Commit(st, new, st.ids \o new, FALSE).err = "Ok"
  BY <1>1, <1>2, CommitSucceeds
<1>4. ~(Len(st.ids) + Len(new) > MaxHistory)
  BY <1>1
<1> QED BY <1>3, <1>4 DEF fill_incremental, Outcome
\* A prefix, and what a text that extends it adds.
LEMMA PrefixAndRest ==
  ASSUME NEW S, NEW had \in Seq(S), NEW all \in Seq(S), IsPrefix(had, all)
  PROVE  /\ Len(had) <= Len(all)
         /\ \A i \in 1 .. Len(had) : all[i] = had[i]
         /\ SubSeq(all, Len(had) + 1, Len(all)) \in Seq(S)
         /\ Len(SubSeq(all, Len(had) + 1, Len(all))) = Len(all) - Len(had)
         /\ had \o SubSeq(all, Len(had) + 1, Len(all)) = all
<1> DEFINE m == Len(had)
           n == Len(all)
           rest == SubSeq(all, m + 1, n)
           join == had \o rest
<1>1. m \in Nat /\ n \in Nat /\ m <= n /\ SubSeq(had, 1, m) = SubSeq(all, 1, m)
  BY DEF IsPrefix
<1>2. \A i \in 1 .. m : all[i] = had[i]
  <2>1. SubSeq(had, 1, m) = had
    BY SubSeqFull
  <2>2. \A i \in 1 .. m : SubSeq(all, 1, m)[i] = all[i]
    BY <1>1
  <2> QED BY <1>1, <2>1, <2>2
<1>3. rest \in Seq(S) /\ Len(rest) = n - m /\ \A i \in 1 .. n - m : rest[i] = all[m + i]
  <2>1. \A i \in m + 1 .. n : all[i] \in S
    BY <1>1
  <2>2. m + 1 \in Int /\ n \in Int
    BY <1>1
  <2>3. /\ rest \in Seq(S)
        /\ Len(rest) = IF m + 1 <= n THEN n - (m + 1) + 1 ELSE 0
        /\ \A i \in 1 .. n - (m + 1) + 1 : rest[i] = all[(m + 1) + i - 1]
    <3> HIDE DEF m, n
    <3> QED BY <2>1, <2>2, SubSeqProperties
  <2> HIDE DEF m, n, rest
  <2>4. n - (m + 1) + 1 = n - m /\ \A i \in Nat : (m + 1) + i - 1 = m + i
    BY <1>1
  <2> QED BY <1>1, <2>3, <2>4
<1>4. /\ join \in Seq(S) /\ Len(join) = m + (n - m)
      /\ \A i \in 1 .. m + (n - m) : join[i] = IF i <= m THEN had[i] ELSE rest[i - m]
  <2>1. /\ join \in Seq(S) /\ Len(join) = Len(had) + Len(rest)
        /\ \A i \in 1 .. Len(had) + Len(rest) :
             join[i] = IF i <= Len(had) THEN had[i] ELSE rest[i - Len(had)]
    <3> HIDE DEF rest
    <3> QED BY <1>3, ConcatProperties
  <2> HIDE DEF rest, join
  <2> QED BY <1>3, <2>1
<1>5. m + (n - m) = n
  <2> HIDE DEF m, n
  <2> QED BY <1>1
<1>6. ASSUME NEW i \in 1 .. n PROVE join[i] = all[i]
  <2> HIDE DEF m, n, rest, join
  <2>1. CASE i <= m
    BY <1>1, <1>2, <1>4, <1>5, <2>1
  <2>2. CASE ~(i <= m)
    <3>1. i - m \in 1 .. n - m /\ m + (i - m) = i
      BY <1>1, <2>2
    <3> QED BY <1>3, <1>4, <1>5, <2>2, <3>1
  <2> QED BY <2>1, <2>2
<1>7. join = all
  <2> HIDE DEF join
  <2> QED BY <1>4, <1>5, <1>6, SeqEqual
<1> QED BY <1>1, <1>2, <1>3, <1>7

\* A snapshot of valid ids is taken over.
LEMMA ReplaceSucceeds ==
  ASSUME PrefillRuns, NEW st, GoodView(st), NEW context \in Seq(Vocab \cup {BadId}),
         ~HasBadId(context)
  PROVE  replace_context_impl(st, context, FALSE).err = "Ok"
<1> DEFINE stripped == without_bos(context)
           target == IF Len(stripped) > MaxHistory THEN LastIds(stripped, eviction_target)
                                                   ELSE stripped
           rest == SubSeq(target, Len(st.ids) + 1, Len(target))
<1>1. stripped \in Seq(Vocab) /\ ~HasBadId(stripped)
  BY WithoutBosLen, BosIsAnId, CheckedIds
<1>2. target \in Seq(Vocab) /\ Len(target) <= MaxHistory /\ Len(target) \in Nat
  BY <1>1, EvictionTarget, LastIdsLen, SessionConfig
<1>3. ASSUME IsPrefix(st.ids, target), st.hist > 0
      PROVE  fill_incremental(st, rest, FALSE).err = "Ok"
  <2> HIDE DEF target
  <2>1. st.ids \in Seq(Vocab) /\ Len(st.ids) \in Nat
    BY DEF GoodView, History
  <2>2. /\ rest \in Seq(Vocab) /\ Len(rest) = Len(target) - Len(st.ids)
        /\ Len(st.ids) <= Len(target)
    BY <1>2, <1>3, <2>1, PrefixAndRest
  <2>3. Len(st.ids) + Len(rest) <= MaxHistory
    <3> HIDE DEF rest
    <3> QED BY <1>2, <2>1, <2>2, SessionConfig
  <2> HIDE DEF rest
  <2> QED BY <1>3, <2>2, <2>3, ExtensionSucceeds
<1>4. fill_from_scratch(st, target, FALSE).err = "Ok"
  <2> HIDE DEF target
  <2> QED BY <1>2, FillFromScratchSucceeds
<1>5. replace_context_impl(st, context, FALSE) =
        IF target = st.ids THEN Outcome([st EXCEPT !.cur = st.hist], "Ok")
        ELSE IF Len(target) < Len(st.ids) /\ IsPrefix(target, st.ids)
        THEN Outcome([st EXCEPT !.ids = target, !.hist = 1 + Len(target),
                                !.cur = 1 + Len(target)], "Ok")
        ELSE IF IsPrefix(st.ids, target) /\ st.hist > 0
        THEN fill_incremental(st, rest, FALSE)
        ELSE fill_from_scratch(st, target, FALSE)
  BY <1>1 DEF replace_context_impl
<1>6. \A other : Outcome(other, "Ok").err = "Ok"
  BY DEF Outcome
<1> HIDE DEF target, rest
<1> QED BY <1>3, <1>4, <1>5, <1>6

\* A window with slack can always be evicted to its target.
LEMMA PreparedSucceeds ==
  ASSUME PrefillRuns, SlackInterval > 0, NEW s, GoodView(sync_from_context(s)),
         NEW context \in Seq(Vocab \cup {BadId}), ~HasBadId(context)
  PROVE  Prepared(s, context, FALSE).err = "Ok"
<1> DEFINE given == IF context = <<>> THEN Outcome(sync_from_context(s), "Ok")
                    ELSE replace_context_impl(sync_from_context(s), context, FALSE)
<1>1. given.err = "Ok"
  BY ReplaceSucceeds DEF Outcome
<1>2. eviction_target \in Nat /\ eviction_target < MaxHistory
  BY EvictionTarget, SessionConfig, SlotConfig DEF eviction_target
<1>3. Prepared(s, context, FALSE) =
        IF Len(given.st.ids) >= MaxHistory THEN truncate_history(given.st, eviction_target)
                                           ELSE given
  BY <1>1 DEF Prepared
<1>4. ASSUME Len(given.st.ids) >= MaxHistory
      PROVE  truncate_history(given.st, eviction_target).err = "Ok"
  <2>1. GoodView(given.st)
    <3>1. GoodOutcome(given)
      BY ReplaceOutcome DEF GoodOutcome, Outcome
    <3> QED BY <3>1 DEF GoodOutcome
  <2> HIDE DEF given
  <2>2. Len(given.st.ids) \in Nat
    BY <2>1 DEF GoodView, History
  <2>3. ~(eviction_target < 0 \/ eviction_target >= Len(given.st.ids))
    BY <1>2, <1>4, <2>2, SessionConfig
  <2> QED BY <2>3 DEF truncate_history, Outcome
<1> HIDE DEF given
<1> QED BY <1>1, <1>3, <1>4

\* With a slack of at least one id, and pass 1 exported for one lane, for the beam or
\* dynamic, a generation accepts every snapshot of valid ids, whatever the slot
\* holds and whatever its length, when the model does not fail.  (Without slack
\* the window it evicts to is refused; the runs show it.)
THEOREM ValidSnapshotIsAlwaysAccepted ==
  ASSUME SlackInterval > 0, Pre1Batch \in {0, 1, Beam}
  PROVE  Spec => []ValidSnapshotIsAccepted
<1>1. ASSUME SessionInv PROVE ValidSnapshotIsAccepted
  <2> SUFFICES ASSUME NEW s \in Slots, NEW context \in Snapshots, ~HasBadId(context)
               PROVE  Prepared(s, context, FALSE).err = "Ok"
    BY DEF ValidSnapshotIsAccepted
  <2>1. GoodView(sync_from_context(s))
    BY <1>1, SlotView DEF SessionInv
  <2> QED BY <2>1, PreparedSucceeds, Environment DEF PrefillRuns
<1> QED BY <1>1, InitHistory, NextKeepsHistories, PTL DEF Spec

-----------------------------------------------------------------------------
(* The newest ids of a text *)

\* None of them, and all of them.
LEMMA NewestNoneOrAll ==
  ASSUME NEW S, NEW ids \in Seq(S)
  PROVE  LastIds(ids, 0) = <<>> /\ LastIds(ids, Len(ids)) = ids
<1>1. Len(ids) \in Nat /\ Len(ids) - 0 + 1 \in Int /\ Len(ids) < Len(ids) - 0 + 1
      /\ Len(ids) - Len(ids) + 1 = 1
  OBVIOUS
<1>2. LastIds(ids, 0) = <<>>
  BY <1>1, SubSeqEmpty DEF LastIds
<1>3. LastIds(ids, Len(ids)) = ids
  BY <1>1, SubSeqFull DEF LastIds
<1> QED BY <1>2, <1>3

\* Behind an old text: the newest ids are those of the new one,
LEMMA NewestOfNew ==
  ASSUME NEW S, NEW old \in Seq(S), NEW new \in Seq(S), NEW k \in 0 .. Len(new)
  PROVE  LastIds(old \o new, k) = LastIds(new, k)
<1> DEFINE both == old \o new
<1>0. Len(old) \in Nat /\ Len(new) \in Nat /\ k \in Nat /\ k <= Len(new)
  OBVIOUS
<1>1. /\ both \in Seq(S) /\ Len(both) = Len(old) + Len(new)
      /\ \A i \in 1 .. Len(old) + Len(new) :
           both[i] = IF i <= Len(old) THEN old[i] ELSE new[i - Len(old)]
  BY ConcatProperties
<1>2. /\ LastIds(both, k) \in Seq(S) /\ Len(LastIds(both, k)) = k
      /\ \A i \in 1 .. k : LastIds(both, k)[i] = both[Len(both) - k + i]
  <2> HIDE DEF both
  <2>1. k \in 0 .. Len(both)
    BY <1>0, <1>1
  <2> QED BY <1>1, <2>1, LastIdsAt, ZenonT(30)
<1>3. /\ LastIds(new, k) \in Seq(S) /\ Len(LastIds(new, k)) = k
      /\ \A i \in 1 .. k : LastIds(new, k)[i] = new[Len(new) - k + i]
  BY LastIdsAt
<1>4. ASSUME NEW i \in 1 .. k PROVE LastIds(both, k)[i] = LastIds(new, k)[i]
  <2> DEFINE j == Len(old) + Len(new) - k + i
  <2>1. /\ j \in 1 .. Len(old) + Len(new) /\ ~(j <= Len(old))
        /\ j - Len(old) = Len(new) - k + i
    BY <1>0
  <2>2. both[j] = new[Len(new) - k + i]
    <3> HIDE DEF both, j
    <3> QED BY <1>1, <2>1
  <2> HIDE DEF both
  <2> QED BY <1>1, <1>2, <1>3, <2>2
<1> HIDE DEF both
<1>5. LastIds(both, k) = LastIds(new, k)
  BY <1>2, <1>3, <1>4, SeqEqual
<1> QED BY <1>5 DEF both

\* and, past those, the newest of the old one.
LEMMA NewestOfBoth ==
  ASSUME NEW S, NEW old \in Seq(S), NEW new \in Seq(S), NEW k \in 0 .. Len(old)
  PROVE  LastIds(old \o new, k + Len(new)) = LastIds(old, k) \o new
<1> DEFINE both == old \o new
           kept == LastIds(old, k)
           cut  == LastIds(both, k + Len(new))
           join == kept \o new
<1>0. Len(old) \in Nat /\ Len(new) \in Nat /\ k \in Nat /\ k <= Len(old)
  OBVIOUS
<1>1. /\ both \in Seq(S) /\ Len(both) = Len(old) + Len(new)
      /\ \A i \in 1 .. Len(old) + Len(new) :
           both[i] = IF i <= Len(old) THEN old[i] ELSE new[i - Len(old)]
  BY ConcatProperties
<1>2. /\ cut \in Seq(S) /\ Len(cut) = k + Len(new)
      /\ \A i \in 1 .. k + Len(new) : cut[i] = both[Len(both) - (k + Len(new)) + i]
  <2> HIDE DEF both
  <2>1. k + Len(new) \in 0 .. Len(both)
    BY <1>0, <1>1
  <2> QED BY <1>1, <2>1, LastIdsAt, ZenonT(30)
<1>3. /\ kept \in Seq(S) /\ Len(kept) = k
      /\ \A i \in 1 .. k : kept[i] = old[Len(old) - k + i]
  BY LastIdsAt
<1>4. /\ join \in Seq(S) /\ Len(join) = k + Len(new)
      /\ \A i \in 1 .. k + Len(new) : join[i] = IF i <= k THEN kept[i] ELSE new[i - k]
  <2> HIDE DEF kept
  <2>1. /\ join \in Seq(S) /\ Len(join) = Len(kept) + Len(new)
        /\ \A i \in 1 .. Len(kept) + Len(new) :
             join[i] = IF i <= Len(kept) THEN kept[i] ELSE new[i - Len(kept)]
    BY <1>3, ConcatProperties
  <2> HIDE DEF join
  <2> QED BY <1>3, <2>1
<1>5. ASSUME NEW i \in 1 .. k + Len(new) PROVE cut[i] = join[i]
  <2> DEFINE j == Len(old) + Len(new) - (k + Len(new)) + i
  <2>0. i \in Nat /\ j = Len(old) - k + i
    BY <1>0
  <2>1. cut[i] = both[j]
    <3> HIDE DEF both, cut
    <3> QED BY <1>1, <1>2
  <2>2. j \in 1 .. Len(old) + Len(new)
    BY <1>0
  <2>3. both[j] = IF j <= Len(old) THEN old[j] ELSE new[j - Len(old)]
    <3> HIDE DEF both, j
    <3> QED BY <1>1, <2>2
  <2>4. CASE i <= k
    <3>1. i \in 1 .. k /\ j <= Len(old)
      BY <1>0, <2>0, <2>4
    <3> HIDE DEF both, cut, kept, join, j
    <3> QED BY <1>3, <1>4, <2>0, <2>1, <2>3, <3>1
  <2>5. CASE ~(i <= k)
    <3>1. ~(j <= Len(old)) /\ j - Len(old) = i - k
      BY <1>0, <2>0, <2>5
    <3> HIDE DEF both, cut, kept, join, j
    <3> QED BY <1>4, <2>1, <2>3, <2>5, <3>1
  <2> QED BY <2>4, <2>5
<1> HIDE DEF cut, join
<1>6. cut = join
  BY <1>2, <1>4, <1>5, SeqEqual
<1> QED BY <1>6 DEF cut, join

-----------------------------------------------------------------------------
(* What the calls commit *)

\* A text longer than the window is committed as its newest ids.
Window(ids) == IF Len(ids) > MaxHistory THEN LastIds(ids, eviction_target) ELSE ids

\* What is left of a text when its extension by new ids fails: room was made first.
Spare(old, new) ==
  IF Len(old) + Len(new) <= MaxHistory THEN old
  ELSE LastIds(old, IF Len(new) < eviction_target THEN eviction_target - Len(new) ELSE 0)

\* What is left of a text when its replacement by new ids fails.
Undo(old, new) == IF IsPrefix(old, Window(new)) THEN old ELSE <<>>

\* An Ok commits one text; an error leaves another.
Commits(out, left, into) == out.st.ids = IF out.err = "Ok" THEN into ELSE left

\* A commit leaves its ids or the ones before.
LEMMA CommitText ==
  ASSUME NEW st, IsView(st), NEW toks, NEW ids, NEW fails
  PROVE  Commit(st, toks, ids, fails).st.ids
           = IF Commit(st, toks, ids, fails).err = "Ok" THEN ids ELSE st.ids
<1> DEFINE after == Prefill(st, toks, fails)
           end   == st.hist + Len(toks)
           error == PrefillError(st, toks, fails)
           committed == [after EXCEPT !.ids = ids, !.hist = end, !.cur = end]
<1>1. IsView(after) /\ after.ids = st.ids
  BY PrefillView
<1>2. committed.ids = ids
  <2> HIDE DEF after, end
  <2> QED BY <1>1 DEF IsView, ViewFields
<1>3. Commit(st, toks, ids, fails) =
        IF error = "InvalidArgument" THEN Outcome(st, error)
        ELSE IF error = "ModelError" THEN Outcome(after, error)
        ELSE Outcome(committed, "Ok")
  BY DEF Commit
<1>4. \A other, e : Outcome(other, e).st = other /\ Outcome(other, e).err = e
  BY DEF Outcome
<1> HIDE DEF after, end, error, committed
<1> QED BY <1>1, <1>2, <1>3, <1>4

\* Rebuilding commits the window of the context, or nothing.
LEMMA FillFromScratchText ==
  ASSUME NEW st, GoodView(st), NEW context \in Seq(Vocab), NEW fails
  PROVE  fill_from_scratch(st, context, fails).st.ids
           = IF fill_from_scratch(st, context, fails).err = "Ok" THEN Window(context) ELSE <<>>
<1> DEFINE effective == Window(context)
           cleared   == [st EXCEPT !.ids = <<>>, !.cur = 0, !.hist = 0]
           filled    == Commit(cleared, <<BOS>> \o effective, effective, fails)
<1>1. IsView(cleared) /\ cleared.ids = <<>>
  BY DEF GoodView, IsView, ViewFields
<1>2. fill_from_scratch(st, context, fails)
        = IF effective = <<>> THEN Outcome(cleared, "Ok") ELSE filled
  BY DEF fill_from_scratch, Window
<1>3. filled.st.ids = IF filled.err = "Ok" THEN effective ELSE <<>>
  <2> HIDE DEF effective, cleared
  <2> QED BY <1>1, CommitText
<1>4. Outcome(cleared, "Ok").st = cleared /\ Outcome(cleared, "Ok").err = "Ok"
  BY DEF Outcome
<1> HIDE DEF effective, cleared, filled
<1> QED BY <1>1, <1>2, <1>3, <1>4 DEF effective

\* Filling behind a text commits the window of both, or leaves what room was made from.
LEMMA FillIncrementalText ==
  ASSUME NEW st, GoodView(st), st.hist > 0, NEW new \in Seq(Vocab), NEW fails
  PROVE  Commits(fill_incremental(st, new, fails), Spare(st.ids, new), Window(st.ids \o new))
<1> DEFINE total == Len(st.ids) + Len(new)
           keep  == eviction_target - Len(new)
           base  == IF total > MaxHistory THEN EvictTo(st, keep) ELSE st
           both  == st.ids \o new
<1>0. /\ st.ids \in Seq(Vocab) /\ Len(st.ids) \in Nat /\ Len(new) \in Nat
      /\ Len(st.ids) <= MaxHistory /\ MaxHistory \in Nat
      /\ eviction_target \in Nat /\ 1 <= eviction_target /\ eviction_target <= MaxHistory
  BY EvictionTarget, SessionConfig DEF GoodView, History
<1>1. both \in Seq(Vocab) /\ Len(both) = total
  BY <1>0
<1>2. CASE new = <<>>
  <2>1. both = st.ids
    BY <1>0, <1>2, ConcatEmptySeq
  <2>2. Window(both) = st.ids
    BY <1>0, <2>1 DEF Window
  <2>3. fill_incremental(st, new, fails) = Outcome(st, "Ok")
    BY <1>2 DEF fill_incremental
  <2> QED BY <2>2, <2>3 DEF Commits, Outcome
<1>3. CASE new # <<>> /\ total > MaxHistory /\ keep <= 0
  <2> DEFINE newest == LastIds(new, eviction_target)
             out    == fill_from_scratch(st, newest, fails)
  <2>1. fill_incremental(st, new, fails) = out
    BY <1>3 DEF fill_incremental
  <2>2. eviction_target \in 0 .. Len(new)
    BY <1>0, <1>3
  <2>3. newest \in Seq(Vocab) /\ Len(newest) = eviction_target
    BY <2>2, LastIdsLen
  <2>4. out.st.ids = IF out.err = "Ok" THEN Window(newest) ELSE <<>>
    <3> HIDE DEF newest
    <3> QED BY <2>3, FillFromScratchText
  <2>5. Window(newest) = newest
    <3> HIDE DEF newest
    <3> QED BY <1>0, <2>3 DEF Window
  <2>6. Window(both) = newest
    <3>1. Window(both) = LastIds(both, eviction_target)
      BY <1>1, <1>3 DEF Window
    <3>2. LastIds(both, eviction_target) = newest
      BY <1>0, <2>2, NewestOfNew
    <3> QED BY <3>1, <3>2
  <2>7. Spare(st.ids, new) = <<>>
    <3>1. LastIds(st.ids, 0) = <<>>
      BY <1>0, NewestNoneOrAll
    <3>2. ~(Len(new) < eviction_target) /\ ~(Len(st.ids) + Len(new) <= MaxHistory)
      BY <1>0, <1>3
    <3> QED BY <3>1, <3>2 DEF Spare
  <2> HIDE DEF newest, out, both
  <2> QED BY <2>1, <2>4, <2>5, <2>6, <2>7 DEF Commits, both
<1>4. CASE new # <<>> /\ ~(total > MaxHistory /\ keep <= 0)
  <2> DEFINE out == Commit(base, new, base.ids \o new, fails)
  <2>1. fill_incremental(st, new, fails) = out
    BY <1>4 DEF fill_incremental
  <2>2. /\ IsView(base)
        /\ base.ids = Spare(st.ids, new)
        /\ base.ids \o new = Window(both)
    <3>1. CASE total > MaxHistory
      <4>1. keep \in 0 .. Len(st.ids) /\ keep + Len(new) = eviction_target
        BY <1>0, <1>4, <3>1
      <4>2. base = EvictTo(st, keep) /\ base.ids = LastIds(st.ids, keep)
        BY <3>1 DEF EvictTo
      <4>3. IsView(base)
        <5> HIDE DEF base, keep
        <5> QED BY <4>1, <4>2, EvictToView DEF GoodView
      <4>4. LastIds(both, keep + Len(new)) = LastIds(st.ids, keep) \o new
        <5> HIDE DEF keep
        <5> QED BY <1>0, <4>1, NewestOfBoth
      <4>5. Window(both) = LastIds(both, eviction_target)
        BY <1>1, <3>1 DEF Window
      <4>6. Spare(st.ids, new) = LastIds(st.ids, keep)
        <5>1. ~(Len(st.ids) + Len(new) <= MaxHistory) /\ Len(new) < eviction_target
          BY <1>0, <1>4, <3>1
        <5> QED BY <5>1 DEF Spare
      <4> HIDE DEF base, keep, both
      <4> QED BY <4>1, <4>2, <4>3, <4>4, <4>5, <4>6
    <3>2. CASE ~(total > MaxHistory)
      <4>1. base = st
        BY <3>2
      <4>2. Window(both) = both
        BY <1>1, <3>2 DEF Window
      <4>3. Spare(st.ids, new) = st.ids
        BY <1>0, <3>2 DEF Spare
      <4> HIDE DEF base
      <4> QED BY <4>1, <4>2, <4>3 DEF GoodView
    <3> QED BY <3>1, <3>2
  <2>3. out.st.ids = IF out.err = "Ok" THEN base.ids \o new ELSE base.ids
    <3> HIDE DEF base
    <3> QED BY <2>2, CommitText
  <2> HIDE DEF out, base, both
  <2> QED BY <2>1, <2>2, <2>3 DEF Commits, both
<1> QED BY <1>2, <1>3, <1>4

\* fill extends the text by the ids it is given, BOS aside, or refuses them.
LEMMA FillText ==
  ASSUME NEW st, GoodView(st), NEW new \in Seq(Vocab \cup {BadId}), NEW fails
  PROVE  /\ HasBadId(new) => fill_impl(st, new, fails) = Outcome(st, "InvalidArgument")
         /\ ~HasBadId(new) => Commits(fill_impl(st, new, fails),
                                      Spare(st.ids, without_bos(new)),
                                      Window(st.ids \o without_bos(new)))
<1> DEFINE ids == without_bos(new)
           out == fill_impl(st, new, fails)
<1>0. /\ ids \in Seq(Vocab \cup {BadId}) /\ (HasBadId(ids) <=> HasBadId(new))
      /\ st.ids \in Seq(Vocab) /\ Len(st.ids) \in Nat /\ Len(st.ids) <= MaxHistory
      /\ st.hist \in Nat /\ (st.hist = 0 => st.ids = <<>>) /\ MaxHistory \in Nat
  BY WithoutBosLen, BosIsAnId, SessionConfig DEF GoodView, History
<1>1. CASE HasBadId(ids)
  <2>1. out = Outcome(st, "InvalidArgument")
    BY <1>1 DEF fill_impl
  <2> HIDE DEF ids
  <2> QED BY <1>0, <1>1, <2>1
<1>2. CASE ~HasBadId(ids) /\ ids = <<>>
  <2>1. out = Outcome(st, "Ok")
    BY <1>2 DEF fill_impl
  <2>2. st.ids \o ids = st.ids
    BY <1>0, <1>2, ConcatEmptySeq
  <2>3. Window(st.ids) = st.ids
    BY <1>0 DEF Window
  <2> QED BY <1>0, <1>2, <2>1, <2>2, <2>3 DEF Commits, Outcome
<1>3. CASE ~HasBadId(ids) /\ ids # <<>> /\ st.hist = 0
  <2>1. out = fill_from_scratch(st, ids, fails) /\ ids \in Seq(Vocab)
    BY <1>0, <1>3, CheckedIds DEF fill_impl
  <2>2. st.ids \o ids = ids
    BY <1>0, <1>3, <2>1, ConcatEmptySeq, SMTT(30)
  <2>3. out.st.ids = IF out.err = "Ok" THEN Window(ids) ELSE <<>>
    <3> HIDE DEF ids, out
    <3> QED BY <2>1, FillFromScratchText
  <2>4. Spare(st.ids, ids) = <<>>
    <3>1. st.ids = <<>> /\ Len(st.ids) = 0 /\ Len(ids) \in Nat
      BY <1>0, <1>3, <2>1
    <3>2. ~(Len(st.ids) + Len(ids) <= MaxHistory) => ~(Len(ids) < eviction_target)
      <4> HIDE DEF ids
      <4> QED BY <1>0, <3>1, EvictionTarget
    <3>3. LastIds(st.ids, 0) = <<>>
      BY <1>0, NewestNoneOrAll
    <3> HIDE DEF ids
    <3> QED BY <3>1, <3>2, <3>3 DEF Spare
  <2> HIDE DEF out
  <2> QED BY <1>0, <1>3, <2>2, <2>3, <2>4 DEF Commits, out
<1>4. CASE ~HasBadId(ids) /\ ids # <<>> /\ st.hist # 0
  <2>1. out = fill_incremental(st, ids, fails) /\ ids \in Seq(Vocab) /\ st.hist > 0
    BY <1>0, <1>4, CheckedIds DEF fill_impl
  <2> QED BY <1>0, <1>4, <2>1, FillIncrementalText
<1> QED BY <1>1, <1>2, <1>3, <1>4

\* A text within the window is not windowed.
LEMMA WithinWindow ==
  ASSUME NEW ids \in Seq(Vocab)
  PROVE  /\ Window(ids) \in Seq(Vocab) /\ Len(Window(ids)) <= MaxHistory
         /\ Len(ids) <= MaxHistory => Window(ids) = ids
BY EvictionTarget, LastIdsLen, SessionConfig DEF Window

\* replace_context commits the window of the snapshot, whichever way it takes.
LEMMA ReplaceText ==
  ASSUME NEW st, GoodView(st), NEW context \in Seq(Vocab \cup {BadId}), NEW fails
  PROVE  /\ HasBadId(context) =>
              replace_context_impl(st, context, fails) = Outcome(st, "InvalidArgument")
         /\ ~HasBadId(context) => Commits(replace_context_impl(st, context, fails),
                                          Undo(st.ids, without_bos(context)),
                                          Window(without_bos(context)))
<1> DEFINE stripped == without_bos(context)
           target == Window(stripped)
           rest   == SubSeq(target, Len(st.ids) + 1, Len(target))
           kept   == 1 + Len(target)
           cut    == [st EXCEPT !.ids = target, !.hist = kept, !.cur = kept]
           same   == [st EXCEPT !.cur = st.hist]
           left   == Undo(st.ids, stripped)
           out    == replace_context_impl(st, context, fails)
<1>0. /\ stripped \in Seq(Vocab \cup {BadId}) /\ (HasBadId(stripped) <=> HasBadId(context))
      /\ st.ids \in Seq(Vocab) /\ Len(st.ids) \in Nat /\ Len(st.ids) <= MaxHistory
      /\ st.hist \in Nat /\ MaxHistory \in Nat
  BY WithoutBosLen, BosIsAnId, SessionConfig DEF GoodView, History
<1>1. CASE HasBadId(stripped)
  <2>1. out = Outcome(st, "InvalidArgument")
    BY <1>1 DEF replace_context_impl
  <2> HIDE DEF stripped
  <2> QED BY <1>0, <1>1, <2>1
<1>2. CASE ~HasBadId(stripped)
  <2>1. stripped \in Seq(Vocab)
    BY <1>0, <1>2, CheckedIds
  <2>2. target \in Seq(Vocab) /\ Len(target) \in Nat /\ Len(target) <= MaxHistory
        /\ Window(target) = target
    <3>1. target \in Seq(Vocab) /\ Len(target) <= MaxHistory
      BY <2>1, WithinWindow
    <3> HIDE DEF target
    <3> QED BY <3>1, WithinWindow
  <2>3. out = IF target = st.ids THEN Outcome(same, "Ok")
              ELSE IF Len(target) < Len(st.ids) /\ IsPrefix(target, st.ids)
              THEN Outcome(cut, "Ok")
              ELSE IF IsPrefix(st.ids, target) /\ st.hist > 0
              THEN fill_incremental(st, rest, fails)
              ELSE fill_from_scratch(st, target, fails)
    BY <1>2 DEF replace_context_impl, Window
  <2>4. same.ids = st.ids /\ cut.ids = target
    <3> HIDE DEF target, kept
    <3> QED BY DEF GoodView, IsView, ViewFields
  <2>5. \A other, e : Outcome(other, e).st = other /\ Outcome(other, e).err = e
    BY DEF Outcome
  <2>6. ASSUME IsPrefix(st.ids, target), st.hist > 0
        PROVE  Commits(fill_incremental(st, rest, fails), left, target)
    <3>1. /\ rest \in Seq(Vocab) /\ st.ids \o rest = target
          /\ Len(rest) = Len(target) - Len(st.ids)
      <4> HIDE DEF target
      <4> QED BY <1>0, <2>2, <2>6, PrefixAndRest
    <3>2. left = st.ids
      BY <2>6 DEF Undo
    <3> HIDE DEF rest, target, left
    <3>3. Commits(fill_incremental(st, rest, fails), Spare(st.ids, rest), Window(st.ids \o rest))
      BY <2>6, <3>1, FillIncrementalText
    <3>4. Spare(st.ids, rest) = st.ids
      <4>1. Len(st.ids) + Len(rest) <= MaxHistory
        BY <1>0, <2>2, <3>1
      <4> QED BY <4>1 DEF Spare
    <3> QED BY <2>2, <3>1, <3>2, <3>3, <3>4
  <2>7. ASSUME ~(IsPrefix(st.ids, target) /\ st.hist > 0)
        PROVE  Commits(fill_from_scratch(st, target, fails), left, target)
    <3>1. fill_from_scratch(st, target, fails).st.ids
            = IF fill_from_scratch(st, target, fails).err = "Ok" THEN target ELSE <<>>
      <4> HIDE DEF target
      <4> QED BY <2>2, FillFromScratchText
    <3>2. left = <<>>
      <4>1. ~(st.hist > 0) => st.ids = <<>>
        BY <1>0 DEF GoodView, History
      <4> HIDE DEF target
      <4> QED BY <2>7, <4>1 DEF Undo, target
    <3> HIDE DEF target, left
    <3> QED BY <3>1, <3>2 DEF Commits
  <2>8. Commits(out, left, target)
    <3> HIDE DEF target, rest, cut, same, out, left
    <3> QED BY <2>3, <2>4, <2>5, <2>6, <2>7 DEF Commits
  <2> QED BY <1>0, <1>2, <2>8
<1> QED BY <1>1, <1>2

-----------------------------------------------------------------------------
(* One lane *)

Lane == [Pos -> Cell]

\* A slot has room for the window: no call throws and leaves ids behind that the
\* cache, written in place, no longer holds.
Roomy == MaxHistory <= SlotCapacity

\* The first n positions of a lane are the history of ids.
LaneHolds(lane, ids, n) == Roomy => \A p \in 0 .. n - 1 : IsHistoryCell(lane[p], ids, p)

\* Writing cells at start leaves the positions before it alone.
LEMMA WrittenBefore ==
  ASSUME NEW lane, NEW start \in Nat, NEW cells, NEW p \in Pos, p < start
  PROVE  update_mhsa_kv(lane, start, cells)[p] = lane[p]
BY CacheShape DEF update_mhsa_kv, Slice, Pos

\* Written cells are cells.
LEMMA WrittenType ==
  ASSUME NEW lane \in Lane, NEW start \in Nat, NEW cells \in Seq(Cell)
  PROVE  update_mhsa_kv(lane, start, cells) \in Lane
<1>1. ASSUME NEW p \in Pos, p \in Slice(start, Len(cells))
      PROVE  cells[p - start + 1] \in Cell
  <2>1. Len(cells) \in Nat /\ p \in Int
    BY CacheShape DEF Pos
  <2>2. p - start + 1 \in 1 .. Len(cells)
    BY <1>1, <2>1 DEF Slice
  <2> QED BY <2>2
<1> QED BY <1>1 DEF update_mhsa_kv, Lane

\* What no execution wrote, failed to write or wrote under a condition are cells.
LEMMA SpecialCells ==
  /\ Zero \in Cell /\ Torn \in Cell
  /\ \A t \in Vocab \cup {NoTok} : Conditional(t) \in Cell
<1>1. <<>> \in Seq(Vocab \cup {NoTok})
  OBVIOUS
<1> QED BY <1>1 DEF Zero, Torn, Conditional, Cell, Kinds

\* A failed execution leaves cells.
LEMMA TornType ==
  ASSUME NEW lane \in Lane, NEW start \in Nat, NEW length \in Nat
  PROVE  TornLane(lane, start, length) \in Lane
<1>1. [i \in 1 .. length |-> Torn] \in Seq(Cell)
  BY SpecialCells
<1> QED BY <1>1, WrittenType DEF TornLane

\* Cells of two lanes, at the positions of a slice and elsewhere.
LEMMA MovedType ==
  ASSUME NEW dst \in Lane, NEW src \in Lane, NEW start, NEW length
  PROVE  MoveSlice(dst, src, start, length) \in Lane
BY DEF MoveSlice, Lane

\* Pass 1 writes cells.
LEMMA Pass1Type ==
  ASSUME NEW lane \in Lane, NEW toks \in Seq(Vocab), NEW start \in 0 .. PreMax
  PROVE  Pass1Lane(lane, toks, start) \in Lane
<1> DEFINE AnyId == Vocab \cup {NoTok}
           past  == [i \in 1 .. start |-> lane[i - 1].tok]
           seen  == past \o toks
           clean == \A p \in 0 .. start - 1 : lane[p].kind = "causal"
           cell(i) == IF clean THEN [tok |-> toks[i], kind |-> "causal",
                                     ctx |-> SubSeq(seen, 1, start + i - 1)]
                               ELSE [tok |-> toks[i], kind |-> "mixed", ctx |-> <<>>]
           cells == [i \in 1 .. Len(toks) |-> cell(i)]
<1>0. start \in Nat /\ start <= PreMax /\ Len(toks) \in Nat /\ PreMax \in Nat
  BY CacheShape
<1>1. past \in Seq(AnyId) /\ Len(past) = start
  <2>1. \A i \in 1 .. start : i - 1 \in Pos
    BY <1>0 DEF Pos
  <2>2. past \in [1 .. start -> AnyId]
    BY <2>1 DEF Lane, Cell
  <2> HIDE DEF past
  <2> QED BY <1>0, <2>2
<1>2. seen \in Seq(AnyId) /\ Len(seen) = start + Len(toks)
  <2>1. toks \in Seq(AnyId)
    OBVIOUS
  <2> HIDE DEF past
  <2> QED BY <1>1, <2>1, ConcatProperties
<1>3. ASSUME NEW i \in 1 .. Len(toks) PROVE cell(i) \in Cell
  <2>1. \A j \in 1 .. start + i - 1 : seen[j] \in AnyId
    <3> HIDE DEF seen
    <3> QED BY <1>0, <1>2
  <2>2. SubSeq(seen, 1, start + i - 1) \in Seq(AnyId)
    <3> HIDE DEF seen
    <3>1. start + i - 1 \in Int
      BY <1>0
    <3> QED BY <2>1, <3>1, SubSeqProperties
  <2>3. toks[i] \in AnyId /\ <<>> \in Seq(AnyId)
    OBVIOUS
  <2> HIDE DEF seen, clean
  <2> QED BY <2>2, <2>3 DEF Cell, Kinds
<1>4. cells \in Seq(Cell)
  <2> HIDE DEF cell
  <2> QED BY <1>0, <1>3
<1>5. Pass1Lane(lane, toks, start) = update_mhsa_kv(lane, start, cells)
  BY DEF Pass1Lane
<1> HIDE DEF cells
<1> QED BY <1>0, <1>4, <1>5, WrittenType

\* A continuation of a history: everything from BOS on, or the ids behind it.
Continues(ids, start, toks, all) ==
  \/ start = 0 /\ toks = <<BOS>> \o all
  \/ start = 1 + Len(ids) /\ all = ids \o toks

\* Pass 1 over a lane that holds a history continues it.
LEMMA Pass1Continues ==
  ASSUME NEW lane \in Lane, NEW ids \in Seq(Vocab), NEW toks \in Seq(Vocab),
         NEW all \in Seq(Vocab), NEW start \in Nat, Continues(ids, start, toks, all),
         Len(all) < PreMax, LaneHolds(lane, ids, start)
  PROVE  /\ start + Len(toks) = 1 + Len(all)
         /\ LaneHolds(Pass1Lane(lane, toks, start), all, start + Len(toks))
<1> DEFINE past  == [i \in 1 .. start |-> lane[i - 1].tok]
           seen  == past \o toks
           clean == \A p \in 0 .. start - 1 : lane[p].kind = "causal"
           cell(i) == IF clean THEN [tok |-> toks[i], kind |-> "causal",
                                     ctx |-> SubSeq(seen, 1, start + i - 1)]
                               ELSE [tok |-> toks[i], kind |-> "mixed", ctx |-> <<>>]
           cells == [i \in 1 .. Len(toks) |-> cell(i)]
           after == Pass1Lane(lane, toks, start)
<1>0. /\ Len(ids) \in Nat /\ Len(toks) \in Nat /\ Len(all) \in Nat /\ PreMax \in Nat
      /\ <<BOS>> \in Seq(Vocab) /\ Len(<<BOS>>) = 1
  BY CacheShape DEF Vocab
<1>1. start + Len(toks) = 1 + Len(all) /\ (start = 0 \/ start = 1 + Len(ids))
  <2>1. CASE start = 0 /\ toks = <<BOS>> \o all
    <3>1. Len(<<BOS>> \o all) = 1 + Len(all)
      BY HistoryAt
    <3> QED BY <1>0, <2>1, <3>1
  <2>2. CASE start = 1 + Len(ids) /\ all = ids \o toks
    <3>1. Len(ids \o toks) = Len(ids) + Len(toks)
      BY ConcatProperties
    <3> QED BY <1>0, <2>2, <3>1
  <2> QED BY <2>1, <2>2 DEF Continues
<1> SUFFICES ASSUME Roomy PROVE LaneHolds(after, all, start + Len(toks))
  BY <1>1 DEF LaneHolds
<1>2. ASSUME NEW p \in 0 .. start - 1
      PROVE  /\ p \in 0 .. Len(ids) /\ p \in Nat /\ IsHistoryCell(lane[p], ids, p)
             /\ lane[p].kind = "causal" /\ lane[p].tok = (<<BOS>> \o ids)[p + 1]
  <2>1. p \in 0 .. Len(ids) /\ p \in Nat
    BY <1>0, <1>1
  <2>2. IsHistoryCell(lane[p], ids, p)
    BY DEF LaneHolds
  <2> QED BY <2>1, <2>2 DEF IsHistoryCell
<1>3. seen = <<BOS>> \o all
  <2>1. CASE start = 0 /\ toks = <<BOS>> \o all
    <3>1. past = <<>>
      BY <2>1
    <3>2. <<>> \o toks = toks
      BY ConcatEmptySeq
    <3> HIDE DEF past
    <3> QED BY <2>1, <3>1, <3>2
  <2>2. CASE start = 1 + Len(ids) /\ all = ids \o toks
    <3> DEFINE history == <<BOS>> \o ids
    <3>1. history \in Seq(Vocab) /\ Len(history) = start
      BY <2>2, HistoryAt
    <3>2. \A i \in 1 .. start : past[i] = history[i]
      <4> SUFFICES ASSUME NEW i \in 1 .. start PROVE lane[i - 1].tok = history[i]
        OBVIOUS
      <4>1. i - 1 \in 0 .. start - 1 /\ (i - 1) + 1 = i
        OBVIOUS
      <4> HIDE DEF history
      <4> QED BY <1>2, <4>1 DEF history
    <3>3. past = history
      <4>1. history = [i \in 1 .. Len(history) |-> history[i]]
        <5> HIDE DEF history
        <5> QED BY <3>1
      <4> HIDE DEF history
      <4> QED BY <3>1, <3>2, <4>1
    <3>4. history \o toks = <<BOS>> \o (ids \o toks)
      BY <1>0, ConcatAssociative
    <3> HIDE DEF past, history
    <3> QED BY <2>2, <3>3, <3>4
  <2> QED BY <2>1, <2>2 DEF Continues
<1>4. clean
  BY <1>2
<1>5. ASSUME NEW p \in 0 .. start + Len(toks) - 1
      PROVE  IsHistoryCell(after[p], all, p)
  <2>0. p \in Nat /\ p \in 0 .. Len(all) /\ p \in Pos
    BY <1>0, <1>1 DEF Pos
  <2>1. CASE p < start
    <3>1. p \in 0 .. start - 1
      BY <2>0, <2>1
    <3>2. after[p] = lane[p]
      BY <2>0, <2>1, WrittenBefore DEF Pass1Lane
    <3>3. IsHistoryCell(lane[p], all, p)
      <4>1. start = 1 + Len(ids) /\ all = ids \o toks
        BY <1>0, <2>1, <2>0 DEF Continues
      <4>2. /\ Len(ids) <= Len(all)
            /\ \A i \in 1 .. Len(ids) : all[i] = ids[i]
        <5>1. /\ Len(ids \o toks) = Len(ids) + Len(toks)
              /\ \A i \in 1 .. Len(ids) + Len(toks) :
                   (ids \o toks)[i] = IF i <= Len(ids) THEN ids[i] ELSE toks[i - Len(ids)]
          BY ConcatProperties
        <5> QED BY <1>0, <4>1, <5>1
      <4>3. p \in 0 .. Len(ids) /\ IsHistoryCell(lane[p], ids, p) /\ Len(ids) <= Len(ids)
        BY <1>0, <1>2, <3>1
      <4> DEFINE k == Len(ids)
                 c == lane[p]
      <4>4. /\ k \in Nat /\ k <= Len(ids) /\ k <= Len(all) /\ p \in 0 .. k
            /\ \A i \in 1 .. k : ids[i] = all[i]
            /\ IsHistoryCell(c, ids, p)
        BY <1>0, <4>2, <4>3
      <4>5. IsHistoryCell(c, all, p)
        <5> HIDE DEF k, c
        <5> QED BY <4>4, SharedHistory
      <4> QED BY <4>5
    <3> HIDE DEF after
    <3> QED BY <3>2, <3>3
  <2>2. CASE ~(p < start)
    <3> DEFINE i == p - start + 1
    <3>1. i \in 1 .. Len(toks) /\ start + i - 1 = p /\ p \in Slice(start, Len(toks))
      BY <1>0, <2>0, <2>2 DEF Slice
    <3>2. Len(cells) = Len(toks)
      BY <1>0
    <3>3. after[p] = cell(i)
      <4>1. after[p] = update_mhsa_kv(lane, start, cells)[p]
        BY DEF Pass1Lane
      <4>2. update_mhsa_kv(lane, start, cells)[p] = cells[i]
        <5> HIDE DEF cells
        <5> QED BY <2>0, <3>1, <3>2 DEF update_mhsa_kv
      <4>3. cells[i] = cell(i)
        <5> HIDE DEF cell, i
        <5> QED BY <3>1
      <4> HIDE DEF after, cells, cell, i
      <4> QED BY <4>1, <4>2, <4>3
    <3>4. cell(i) = [tok |-> toks[i], kind |-> "causal", ctx |-> SubSeq(seen, 1, p)]
      <4> HIDE DEF seen, clean
      <4> QED BY <1>4, <3>1
    <3>5. toks[i] = (<<BOS>> \o all)[p + 1]
      <4>2. seen[p + 1] = toks[i]
        <5> DEFINE S == {lane[j - 1].tok : j \in 1 .. start} \cup Vocab
        <5>0. past \in [1 .. start -> S]
          OBVIOUS
        <5>1. past \in Seq(S) /\ toks \in Seq(S) /\ Len(past) = start
          <6>1. toks \in Seq(S)
            OBVIOUS
          <6> HIDE DEF past, S
          <6> QED BY <5>0, <6>1
        <5> HIDE DEF past, S, i
        <5>2. \A j \in 1 .. start + Len(toks) :
                seen[j] = IF j <= start THEN past[j] ELSE toks[j - start]
          BY <5>1, ConcatProperties
        <5>3. p + 1 \in 1 .. start + Len(toks) /\ ~(p + 1 <= start) /\ p + 1 - start = i
          BY <1>0, <2>0, <2>2 DEF i
        <5> HIDE DEF seen
        <5> QED BY <5>2, <5>3
      <4> HIDE DEF seen
      <4> QED BY <1>3, <4>2
    <3>6. /\ after[p].kind = "causal" /\ after[p].tok = toks[i]
          /\ after[p].ctx = SubSeq(seen, 1, p)
      <4> HIDE DEF after, cell, seen, i
      <4> QED BY <3>3, <3>4
    <3> HIDE DEF after, seen, i
    <3> QED BY <1>3, <3>5, <3>6 DEF IsHistoryCell
  <2> QED BY <2>1, <2>2
<1> HIDE DEF after
<1> QED BY <1>1, <1>5 DEF LaneHolds, after

-----------------------------------------------------------------------------
(* Views whose lanes hold the history of their ids *)

Caches(st) == st.self \in [Lanes -> Lane] /\ st.fill \in Lane
ViewHolds(st) == \A l \in Lanes : LaneHolds(st.self[l], st.ids, st.hist)

CacheView(st) == GoodView(st) /\ Caches(st) /\ ViewHolds(st)

\* What a good view's numbers are.
LEMMA ViewNumbers ==
  ASSUME NEW st, GoodView(st)
  PROVE  /\ st.ids \in Seq(Vocab) /\ Len(st.ids) \in Nat /\ st.hist \in Nat
         /\ Len(st.ids) <= MaxHistory /\ MaxHistory \in Nat /\ MaxHistory + 2 < PreMax
         /\ st.hist = 1 + Len(st.ids) \/ (st.hist = 0 /\ st.ids = <<>>)
         /\ st.hist \in 0 .. PreMax /\ PreMax \in Nat /\ 0 \in Pos /\ 0 \in Lanes
<1>1. /\ st.ids \in Seq(Vocab) /\ st.hist \in Nat /\ Len(st.ids) <= MaxHistory
      /\ st.hist = 1 + Len(st.ids) \/ (st.hist = 0 /\ st.ids = <<>>)
  BY DEF GoodView, History
<1>2. /\ MaxHistory \in Nat /\ MaxHistory + 2 < PreMax /\ PreMax \in Nat
      /\ 0 \in Pos /\ 0 \in Lanes
  BY SessionConfig, CacheShape DEF Pos, Lanes
<1>3. Len(st.ids) \in Nat
  BY <1>1
<1> QED BY <1>1, <1>2, <1>3

\* The scratch cache takes the committed prefix of the slot it works for.
LEMMA SyncedScratchHolds ==
  ASSUME NEW st, CacheView(st)
  PROVE  SyncedScratch(st) \in Lane /\ LaneHolds(SyncedScratch(st), st.ids, st.hist)
<1>1. st.hist \in Nat /\ st.hist \in 0 .. PreMax /\ 0 \in Lanes /\ PreMax \in Nat
  BY ViewNumbers DEF CacheView
<1>2. SyncedScratch(st) \in Lane
  BY <1>1, MovedType DEF SyncedScratch, CacheView, Caches
<1>3. ASSUME NEW p \in 0 .. st.hist - 1 PROVE SyncedScratch(st)[p] = st.self[0][p]
  BY <1>1 DEF SyncedScratch, MoveSlice, Slice, Pos
<1> QED BY <1>1, <1>2, <1>3 DEF CacheView, ViewHolds, LaneHolds

\* Torn cells come behind the history.
LEMMA TornKeepsHistory ==
  ASSUME NEW lane, NEW ids, NEW start \in 0 .. PreMax, NEW length, LaneHolds(lane, ids, start)
  PROVE  LaneHolds(TornLane(lane, start, length), ids, start)
<1>1. ASSUME NEW p \in 0 .. start - 1
      PROVE  TornLane(lane, start, length)[p] = lane[p]
  <2>1. p \in Pos /\ start \in Nat /\ p < start
    BY CacheShape DEF Pos
  <2> QED BY <2>1, WrittenBefore DEF TornLane
<1> QED BY <1>1 DEF LaneHolds

\* A slice behind the history moves between lanes.
LEMMA MovedKeepsHistory ==
  ASSUME NEW dst, NEW src, NEW ids, NEW n \in 0 .. PreMax, NEW start \in Nat, NEW length,
         n <= start, LaneHolds(dst, ids, n)
  PROVE  LaneHolds(MoveSlice(dst, src, start, length), ids, n)
<1>1. ASSUME NEW p \in 0 .. n - 1
      PROVE  MoveSlice(dst, src, start, length)[p] = dst[p]
  <2>1. p \in Pos /\ p < start
    BY CacheShape DEF Pos
  <2>2. p \notin Slice(start, length)
    BY <2>1 DEF Slice
  <2> QED BY <2>1, <2>2 DEF MoveSlice
<1> QED BY <1>1 DEF LaneHolds

\* Copying a slice of the scratch cache into lane 0 and from there into all lanes.
Spread(kv, scratch, start, length) ==
  copy_batch_slice_to_all(copy_batch_slice_from(kv, 0, scratch, start, length), 0, start, length)

\* Every lane gets the slice of the scratch cache.
LEMMA SpreadCells ==
  ASSUME NEW kv \in [Lanes -> Lane], NEW scratch \in Lane, NEW start, NEW length,
         NEW l \in Lanes
  PROVE  Spread(kv, scratch, start, length)[l] = MoveSlice(kv[l], scratch, start, length)
<1> DEFINE first == copy_batch_slice_from(kv, 0, scratch, start, length)
<1>1. 0 \in Lanes
  BY CacheShape DEF Lanes
<1>2. /\ first[0] = MoveSlice(kv[0], scratch, start, length)
      /\ l # 0 => first[l] = kv[l]
  BY <1>1 DEF copy_batch_slice_from
<1>3. Spread(kv, scratch, start, length)[l] = MoveSlice(first[l], first[0], start, length)
  BY DEF Spread, copy_batch_slice_to_all
<1> HIDE DEF first
<1> QED BY <1>2, <1>3 DEF MoveSlice

\* Spreading a slice gives lanes.
LEMMA SpreadType ==
  ASSUME NEW kv \in [Lanes -> Lane], NEW scratch \in Lane, NEW start, NEW length
  PROVE  Spread(kv, scratch, start, length) \in [Lanes -> Lane]
<1>1. \A l \in Lanes : Spread(kv, scratch, start, length)[l] \in Lane
  BY SpreadCells, MovedType
<1>2. Spread(kv, scratch, start, length)
        = [l \in Lanes |-> Spread(kv, scratch, start, length)[l]]
  BY DEF Spread, copy_batch_slice_to_all
<1> QED BY <1>1, <1>2

\* run_pre_pass1 keeps the history, and continues it in every lane when it succeeds.
LEMMA PrefillContinues ==
  ASSUME NEW st, CacheView(st), NEW toks \in Seq(Vocab), NEW all \in Seq(Vocab),
         Continues(st.ids, st.hist, toks, all), Len(all) <= MaxHistory, NEW fails \in BOOLEAN
  PROVE  /\ Caches(Prefill(st, toks, fails))
         /\ \A l \in Lanes : LaneHolds(Prefill(st, toks, fails).self[l], st.ids, st.hist)
         /\ ~fails => \A l \in Lanes : LaneHolds(Prefill(st, toks, fails).self[l], all,
                                                 st.hist + Len(toks))
<1> DEFINE start == st.hist
           run(lane) == IF fails THEN TornLane(lane, start, Len(toks))
                                 ELSE Pass1Lane(lane, toks, start)
           scratch == run(SyncedScratch(st))
           after == Prefill(st, toks, fails)
<1>0. /\ start \in Nat /\ start \in 0 .. PreMax /\ Len(toks) \in Nat /\ st.ids \in Seq(Vocab)
      /\ Len(all) < PreMax /\ 0 \in Lanes /\ PreMax \in Nat
  BY ViewNumbers DEF CacheView
<1>1. IsView(st) /\ st.self \in [Lanes -> Lane] /\ st.fill \in Lane
  BY DEF CacheView, GoodView, Caches
<1>2. ASSUME NEW lane \in Lane, LaneHolds(lane, st.ids, start)
      PROVE  /\ run(lane) \in Lane /\ LaneHolds(run(lane), st.ids, start)
             /\ ~fails => LaneHolds(run(lane), all, start + Len(toks))
  <2>1. CASE fails
    BY <1>0, <1>2, <2>1, TornType, TornKeepsHistory
  <2>2. CASE ~fails
    <3>1. Pass1Lane(lane, toks, start) \in Lane
      BY <1>0, Pass1Type
    <3>2. LaneHolds(Pass1Lane(lane, toks, start), all, start + Len(toks))
      BY <1>0, <1>2, Pass1Continues
    <3>3. LaneHolds(Pass1Lane(lane, toks, start), st.ids, start)
      <4>1. ASSUME NEW p \in 0 .. start - 1
            PROVE  Pass1Lane(lane, toks, start)[p] = lane[p]
        <5>1. p \in Pos /\ p < start
          BY <1>0 DEF Pos
        <5> QED BY <1>0, <5>1, WrittenBefore DEF Pass1Lane
      <4> QED BY <1>2, <4>1 DEF LaneHolds
    <3> QED BY <2>2, <3>1, <3>2, <3>3
  <2> QED BY <2>1, <2>2
<1>3. /\ scratch \in Lane
      /\ ~fails => LaneHolds(scratch, all, start + Len(toks))
  <2> HIDE DEF run, start
  <2> QED BY <1>2, SyncedScratchHolds DEF start
<1>4. CASE ~PrefillOnScratch
  <2>1. after = [st EXCEPT !.self = [l \in Lanes |-> run(st.self[l])]]
    BY <1>4 DEF Prefill
  <2>2. after.self = [l \in Lanes |-> run(st.self[l])] /\ after.fill = st.fill
    <3> HIDE DEF run, after
    <3> QED BY <1>1, <2>1 DEF IsView, ViewFields
  <2>3. \A l \in Lanes : st.self[l] \in Lane /\ LaneHolds(st.self[l], st.ids, start)
    BY <1>1 DEF CacheView, ViewHolds
  <2> HIDE DEF run, after
  <2>4. \A l \in Lanes : after.self[l] = run(st.self[l])
    BY <2>2
  <2> QED BY <1>1, <1>2, <2>2, <2>3, <2>4 DEF Caches, after
<1>5. CASE PrefillOnScratch /\ fails
  <2>1. after = [st EXCEPT !.fill = scratch]
    BY <1>5 DEF Prefill
  <2>2. after.self = st.self /\ after.fill = scratch
    <3> HIDE DEF scratch, after
    <3> QED BY <1>1, <2>1 DEF IsView, ViewFields
  <2> HIDE DEF scratch, after
  <2> QED BY <1>1, <1>3, <1>5, <2>2 DEF Caches, CacheView, ViewHolds, after
<1>6. CASE PrefillOnScratch /\ ~fails
  <2>1. after = [st EXCEPT !.fill = scratch,
                           !.self = Spread(st.self, scratch, start, Len(toks))]
    BY <1>6 DEF Prefill, Spread
  <2>2. after.self = Spread(st.self, scratch, start, Len(toks)) /\ after.fill = scratch
    <3> HIDE DEF scratch, after, start
    <3> QED BY <1>1, <2>1 DEF IsView, ViewFields
  <2> HIDE DEF scratch, after
  <2>3. after.self \in [Lanes -> Lane]
    BY <1>1, <1>3, <2>2, SpreadType
  <2>4. ASSUME NEW l \in Lanes
        PROVE  /\ LaneHolds(after.self[l], st.ids, start)
               /\ LaneHolds(after.self[l], all, start + Len(toks))
    <3>1. after.self[l] = MoveSlice(st.self[l], scratch, start, Len(toks))
      BY <1>1, <1>3, <2>2, SpreadCells
    <3>2. LaneHolds(st.self[l], st.ids, start)
      BY DEF CacheView, ViewHolds
    <3>3. LaneHolds(after.self[l], st.ids, start)
      BY <1>0, <3>1, <3>2, MovedKeepsHistory
    <3>4. ASSUME Roomy, NEW p \in 0 .. (start + Len(toks)) - 1
          PROVE  IsHistoryCell(after.self[l][p], all, p)
      <4>0. start + Len(toks) = 1 + Len(all) /\ LaneHolds(Pass1Lane(st.self[l], toks, start), all,
                                                         start + Len(toks))
        BY <1>0, <1>1, <3>2, Pass1Continues
      <4>1. p \in Pos /\ p \in Nat
        BY <1>0, <4>0 DEF Pos
      <4>2. CASE p < start
        <5>1. p \notin Slice(start, Len(toks))
          BY <1>0, <4>1, <4>2 DEF Slice
        <5>2. after.self[l][p] = st.self[l][p]
          BY <3>1, <4>1, <5>1 DEF MoveSlice
        <5>3. Pass1Lane(st.self[l], toks, start)[p] = st.self[l][p]
          BY <1>0, <4>1, <4>2, WrittenBefore DEF Pass1Lane
        <5> QED BY <3>4, <4>0, <5>2, <5>3 DEF LaneHolds
      <4>3. CASE ~(p < start)
        <5>1. p \in Slice(start, Len(toks))
          BY <1>0, <4>1, <4>3 DEF Slice
        <5>2. after.self[l][p] = scratch[p]
          BY <3>1, <4>1, <5>1 DEF MoveSlice
        <5> QED BY <1>3, <1>6, <3>4, <5>2 DEF LaneHolds
      <4> QED BY <4>2, <4>3
    <3> QED BY <3>3, <3>4 DEF LaneHolds
  <2> QED BY <1>3, <1>6, <2>2, <2>3, <2>4 DEF Caches, after
<1> QED BY <1>4, <1>5, <1>6

\* An eviction slides the history of the newest ids down, in every lane.
LEMMA EvictToHolds ==
  ASSUME NEW st, CacheView(st), st.hist > 0, NEW keep \in 0 .. Len(st.ids)
  PROVE  CacheView(EvictTo(st, keep))
<1> DEFINE discarded == Len(st.ids) - keep
           after == EvictTo(st, keep)
           slid(lane) == Forget(shift_batch_tokens(lane, discarded, keep), keep)
<1>0. /\ st.ids \in Seq(Vocab) /\ Len(st.ids) \in Nat /\ st.hist = 1 + Len(st.ids)
      /\ Len(st.ids) < PreMax /\ keep \in Nat /\ keep <= Len(st.ids)
      /\ st.self \in [Lanes -> Lane] /\ st.fill \in Lane
  BY ViewNumbers DEF CacheView, Caches
<1>1. discarded \in Nat /\ discarded + keep = Len(st.ids)
  BY <1>0
<1>2. /\ after.self = [l \in Lanes |-> slid(st.self[l])]
      /\ after.fill = slid(st.fill) /\ after.ids = LastIds(st.ids, keep)
      /\ after.hist = 1 + keep
  BY DEF EvictTo, shift_cached_tokens, shift_all
<1>3. GoodView(after)
  BY EvictToView DEF CacheView
<1>4. \A lane \in Lane : slid(lane) \in Lane
  <2> HIDE DEF discarded
  <2>1. discarded + keep < PreMax
    BY <1>0, <1>1
  <2> QED BY <1>0, <1>1, <2>1, ShiftedType DEF Lane
<1>5. LastIds(st.ids, keep) = SubSeq(st.ids, discarded + 1, discarded + keep)
  <2>1. Len(st.ids) - keep + 1 = discarded + 1 /\ discarded + keep = Len(st.ids)
    BY <1>0
  <2> QED BY <2>1 DEF LastIds
<1>6. ASSUME Roomy, NEW l \in Lanes, NEW p \in 0 .. keep
      PROVE  IsHistoryCell(slid(st.self[l])[p], LastIds(st.ids, keep), p)
  <2> HIDE DEF discarded
  <2>1. \A q \in 0 .. discarded + keep : IsHistoryCell(st.self[l][q], st.ids, q)
    BY <1>0, <1>1, <1>6 DEF CacheView, ViewHolds, LaneHolds
  <2>2. st.self[l] \in [Pos -> Cell] /\ discarded + keep <= Len(st.ids)
    BY <1>0, <1>1 DEF Lane
  <2>3. IsHistoryCell(slid(st.self[l])[p],
                      SubSeq(st.ids, discarded + 1, discarded + keep), p)
    BY <1>0, <1>1, <2>1, <2>2, ShiftedHistory
  <2> QED BY <1>5, <2>3
<1> HIDE DEF slid, after
<1>7. Caches(after)
  BY <1>0, <1>2, <1>4 DEF Caches
<1>8. ViewHolds(after)
  <2> SUFFICES ASSUME Roomy, NEW l \in Lanes, NEW p \in 0 .. after.hist - 1
               PROVE  IsHistoryCell(after.self[l][p], after.ids, p)
    BY DEF ViewHolds, LaneHolds
  <2>1. p \in 0 .. keep
    BY <1>0, <1>2
  <2>2. after.self[l] = slid(st.self[l])
    BY <1>2
  <2> QED BY <1>2, <1>6, <2>1, <2>2
<1> QED BY <1>3, <1>7, <1>8 DEF CacheView, after

\* A continuation ends where its ids do.
LEMMA ContinuesLength ==
  ASSUME NEW ids \in Seq(Vocab), NEW start, NEW toks \in Seq(Vocab), NEW all \in Seq(Vocab),
         Continues(ids, start, toks, all)
  PROVE  start + Len(toks) = 1 + Len(all)
<1>1. Len(ids) \in Nat /\ Len(toks) \in Nat /\ Len(all) \in Nat
  OBVIOUS
<1>2. CASE start = 0 /\ toks = <<BOS>> \o all
  <2>1. Len(<<BOS>> \o all) = 1 + Len(all)
    BY HistoryAt
  <2> QED BY <1>1, <1>2, <2>1
<1>3. CASE start = 1 + Len(ids) /\ all = ids \o toks
  <2>1. Len(ids \o toks) = Len(ids) + Len(toks)
    BY ConcatProperties
  <2> QED BY <1>1, <1>3, <2>1
<1> QED BY <1>2, <1>3 DEF Continues

\* A commit leaves a history, the new one or the old.
LEMMA CommitHolds ==
  ASSUME NEW st, CacheView(st), NEW toks \in Seq(Vocab), NEW all \in Seq(Vocab),
         Continues(st.ids, st.hist, toks, all), Len(all) <= MaxHistory, NEW fails \in BOOLEAN
  PROVE  CacheView(Commit(st, toks, all, fails).st)
<1> DEFINE after == Prefill(st, toks, fails)
           end   == st.hist + Len(toks)
           committed == [after EXCEPT !.ids = all, !.hist = end, !.cur = end]
           error == PrefillError(st, toks, fails)
<1>1. end = 1 + Len(all)
  BY ContinuesLength, ViewNumbers DEF CacheView
<1>2. GoodOutcome(Commit(st, toks, all, fails))
  <2> HIDE DEF end
  <2> QED BY <1>1, CommitOutcome DEF CacheView, end
<1>3. /\ IsView(after) /\ after.ids = st.ids /\ after.hist = st.hist /\ after.cur = st.cur
      /\ Caches(after)
      /\ \A l \in Lanes : LaneHolds(after.self[l], st.ids, st.hist)
      /\ ~fails => \A l \in Lanes : LaneHolds(after.self[l], all, end)
  BY PrefillView, PrefillContinues DEF CacheView, GoodView
<1>4. CASE error = "InvalidArgument"
  BY <1>4 DEF Commit, Outcome
<1>5. CASE error = "ModelError"
  <2>1. Commit(st, toks, all, fails).st = after
    BY <1>5 DEF Commit, Outcome
  <2> HIDE DEF after, end
  <2>2. GoodView(after)
    BY <1>2, <2>1 DEF GoodOutcome
  <2> QED BY <1>3, <2>1, <2>2 DEF CacheView, ViewHolds
<1>6. CASE error # "InvalidArgument" /\ error # "ModelError"
  <2>1. Commit(st, toks, all, fails).st = committed /\ ~fails
    BY <1>6 DEF Commit, Outcome, PrefillError
  <2>2. /\ committed.self = after.self /\ committed.fill = after.fill
        /\ committed.ids = all /\ committed.hist = end
    <3> HIDE DEF after, end
    <3> QED BY <1>3 DEF IsView, ViewFields
  <2> HIDE DEF committed, after, end
  <2>3. GoodView(committed)
    BY <1>2, <2>1 DEF GoodOutcome
  <2> QED BY <1>3, <2>1, <2>2, <2>3 DEF CacheView, ViewHolds, Caches
<1> QED BY <1>4, <1>5, <1>6

\* Rebuilding starts over from BOS.
LEMMA FillFromScratchHolds ==
  ASSUME NEW st, CacheView(st), NEW context \in Seq(Vocab), NEW fails \in BOOLEAN
  PROVE  CacheView(fill_from_scratch(st, context, fails).st)
<1> DEFINE effective == Window(context)
           cleared == [st EXCEPT !.ids = <<>>, !.cur = 0, !.hist = 0]
           toks == <<BOS>> \o effective
<1>1. effective \in Seq(Vocab) /\ Len(effective) <= MaxHistory
  BY WithinWindow
<1>2. /\ IsView(cleared) /\ cleared.ids = <<>> /\ cleared.hist = 0 /\ cleared.cur = 0
      /\ cleared.self = st.self /\ cleared.fill = st.fill
  BY DEF CacheView, GoodView, IsView, ViewFields
<1>3. CacheView(cleared)
  <2> HIDE DEF cleared
  <2>1. GoodView(cleared)
    BY <1>2, SessionConfig DEF GoodView, History
  <2>2. ViewHolds(cleared)
    BY <1>2 DEF ViewHolds, LaneHolds
  <2> QED BY <1>2, <2>1, <2>2 DEF CacheView, Caches
<1>4. toks \in Seq(Vocab)
  <2> HIDE DEF effective
  <2> QED BY <1>1, HistoryAt
<1>5. Continues(cleared.ids, cleared.hist, toks, effective)
  <2> HIDE DEF cleared, effective
  <2> QED BY <1>2 DEF Continues
<1>6. CacheView(Commit(cleared, toks, effective, fails).st)
  <2> HIDE DEF cleared, effective, toks
  <2> QED BY <1>1, <1>3, <1>4, <1>5, CommitHolds
<1>7. fill_from_scratch(st, context, fails)
        = IF effective = <<>> THEN Outcome(cleared, "Ok")
          ELSE Commit(cleared, toks, effective, fails)
  BY DEF fill_from_scratch, Window
<1>8. Outcome(cleared, "Ok").st = cleared
  BY DEF Outcome
<1> HIDE DEF cleared, effective, toks
<1> QED BY <1>3, <1>6, <1>7, <1>8

\* Filling continues the history, or the part of it that stays.
LEMMA FillIncrementalHolds ==
  ASSUME NEW st, CacheView(st), st.hist > 0, NEW new \in Seq(Vocab), NEW fails \in BOOLEAN
  PROVE  CacheView(fill_incremental(st, new, fails).st)
<1> DEFINE total == Len(st.ids) + Len(new)
           keep  == eviction_target - Len(new)
           base  == IF total > MaxHistory THEN EvictTo(st, keep) ELSE st
<1>0. /\ st.ids \in Seq(Vocab) /\ Len(st.ids) \in Nat /\ Len(new) \in Nat
      /\ st.hist = 1 + Len(st.ids) /\ Len(st.ids) <= MaxHistory /\ MaxHistory \in Nat
      /\ eviction_target \in Nat /\ 1 <= eviction_target /\ eviction_target <= MaxHistory
  BY ViewNumbers, EvictionTarget DEF CacheView
<1>1. CASE new = <<>>
  BY <1>1 DEF fill_incremental, Outcome
<1>2. CASE new # <<>> /\ total > MaxHistory /\ keep <= 0
  <2>1. eviction_target \in 0 .. Len(new)
    BY <1>0, <1>2
  <2>2. CacheView(fill_from_scratch(st, LastIds(new, eviction_target), fails).st)
    BY <2>1, LastIdsLen, FillFromScratchHolds
  <2> QED BY <1>2, <2>2 DEF fill_incremental
<1>3. CASE new # <<>> /\ ~(total > MaxHistory /\ keep <= 0)
  <2>1. /\ CacheView(base) /\ base.hist = 1 + Len(base.ids) /\ base.ids \in Seq(Vocab)
        /\ Len(base.ids) \in Nat /\ Len(base.ids) + Len(new) <= MaxHistory
    <3>1. CASE total > MaxHistory
      <4>1. keep \in 0 .. Len(st.ids) /\ keep + Len(new) <= MaxHistory
        BY <1>0, <1>3, <3>1
      <4>2. /\ CacheView(EvictTo(st, keep)) /\ Len(EvictTo(st, keep).ids) = keep
            /\ EvictTo(st, keep).hist = 1 + keep
        <5> HIDE DEF keep
        <5> QED BY <4>1, EvictToHolds, EvictToView DEF CacheView
      <4>3. base = EvictTo(st, keep)
        BY <3>1
      <4> HIDE DEF base, keep
      <4> QED BY <4>1, <4>2, <4>3, ViewNumbers DEF CacheView
    <3>2. CASE ~(total > MaxHistory)
      BY <1>0, <3>2
    <3> QED BY <3>1, <3>2
  <2> HIDE DEF base
  <2>2. /\ base.ids \o new \in Seq(Vocab)
        /\ Len(base.ids \o new) = Len(base.ids) + Len(new)
    BY <2>1, ConcatProperties
  <2>3. Continues(base.ids, base.hist, new, base.ids \o new)
    BY <2>1 DEF Continues
  <2>4. Len(base.ids \o new) <= MaxHistory
    BY <2>1, <2>2
  <2>5. CacheView(Commit(base, new, base.ids \o new, fails).st)
    BY <2>1, <2>2, <2>3, <2>4, CommitHolds
  <2>6. fill_incremental(st, new, fails) = Commit(base, new, base.ids \o new, fails)
    BY <1>3 DEF fill_incremental, base
  <2> QED BY <2>5, <2>6
<1> QED BY <1>1, <1>2, <1>3

\* fill leaves the history it commits, or the one before.
LEMMA FillHolds ==
  ASSUME NEW st, CacheView(st), NEW new \in Seq(Vocab \cup {BadId}), NEW fails \in BOOLEAN
  PROVE  CacheView(fill_impl(st, new, fails).st)
<1> DEFINE ids == without_bos(new)
<1>1. CASE HasBadId(ids) \/ ids = <<>>
  BY <1>1 DEF fill_impl, Outcome
<1>2. CASE ~HasBadId(ids) /\ ids # <<>>
  <2>1. ids \in Seq(Vocab) /\ st.hist \in Nat
    BY <1>2, WithoutBosLen, CheckedIds, ViewNumbers DEF CacheView
  <2> QED BY <1>2, <2>1, FillFromScratchHolds, FillIncrementalHolds DEF fill_impl
<1> QED BY <1>1, <1>2

\* Whichever way a snapshot is taken over, what the lanes hold is its history.
LEMMA ReplaceHolds ==
  ASSUME NEW st, CacheView(st), NEW context \in Seq(Vocab \cup {BadId}), NEW fails \in BOOLEAN
  PROVE  CacheView(replace_context_impl(st, context, fails).st)
<1> DEFINE stripped == without_bos(context)
           target == Window(stripped)
           rest   == SubSeq(target, Len(st.ids) + 1, Len(target))
           kept   == 1 + Len(target)
           cut    == [st EXCEPT !.ids = target, !.hist = kept, !.cur = kept]
           same   == [st EXCEPT !.cur = st.hist]
           out    == replace_context_impl(st, context, fails)
<1>0. /\ st.ids \in Seq(Vocab) /\ Len(st.ids) \in Nat /\ st.hist \in Nat
      /\ st.hist = 1 + Len(st.ids) \/ (st.hist = 0 /\ st.ids = <<>>)
      /\ GoodView(st) /\ IsView(st)
  BY ViewNumbers DEF CacheView, GoodView
<1>1. CASE HasBadId(stripped)
  BY <1>1 DEF replace_context_impl, Outcome
<1>2. CASE ~HasBadId(stripped)
  <2>1. target \in Seq(Vocab) /\ Len(target) \in Nat /\ Len(target) <= MaxHistory
    <3>1. stripped \in Seq(Vocab)
      BY <1>2, WithoutBosLen, CheckedIds
    <3>2. target \in Seq(Vocab) /\ Len(target) <= MaxHistory
      BY <3>1, WithinWindow
    <3> HIDE DEF target
    <3> QED BY <3>2
  <2>2. out = IF target = st.ids THEN Outcome(same, "Ok")
              ELSE IF Len(target) < Len(st.ids) /\ IsPrefix(target, st.ids)
              THEN Outcome(cut, "Ok")
              ELSE IF IsPrefix(st.ids, target) /\ st.hist > 0
              THEN fill_incremental(st, rest, fails)
              ELSE fill_from_scratch(st, target, fails)
    BY <1>2 DEF replace_context_impl, Window
  <2>3. GoodOutcome(out)
    BY <1>0, ReplaceOutcome
  <2>4. \A other : Outcome(other, "Ok").st = other
    BY DEF Outcome
  <2>5. CASE target = st.ids
    <3>1. /\ same.self = st.self /\ same.fill = st.fill /\ same.ids = st.ids
          /\ same.hist = st.hist
      BY <1>0 DEF IsView, ViewFields
    <3> HIDE DEF same, out, target
    <3>2. out.st = same
      BY <2>2, <2>4, <2>5
    <3> QED BY <2>3, <3>1, <3>2 DEF CacheView, Caches, ViewHolds, GoodOutcome, out
  <2>6. CASE target # st.ids /\ Len(target) < Len(st.ids) /\ IsPrefix(target, st.ids)
    <3>1. /\ cut.self = st.self /\ cut.fill = st.fill /\ cut.ids = target
          /\ cut.hist = kept
      <4> HIDE DEF target, kept
      <4> QED BY <1>0 DEF IsView, ViewFields
    <3> HIDE DEF cut, out, target
    <3>2. out.st = cut
      BY <2>2, <2>4, <2>6
    <3>3. \A i \in 1 .. Len(target) : st.ids[i] = target[i]
      BY <1>0, <2>1, <2>6, PrefixAndRest
    <3>4. st.hist = 1 + Len(st.ids)
      <4>1. Len(st.ids) > 0
        BY <1>0, <2>1, <2>6
      <4> QED BY <1>0, <4>1
    <3>5. ASSUME Roomy, NEW l \in Lanes, NEW p \in 0 .. kept - 1
          PROVE  IsHistoryCell(st.self[l][p], target, p)
      <4>1. p \in 0 .. Len(target) /\ p \in 0 .. st.hist - 1
        BY <1>0, <2>1, <2>6, <3>4
      <4>2. IsHistoryCell(st.self[l][p], st.ids, p)
        BY <3>5, <4>1 DEF CacheView, ViewHolds, LaneHolds
      <4> DEFINE c == st.self[l][p]
                 k == Len(target)
      <4>3. /\ k \in Nat /\ k <= Len(st.ids) /\ k <= Len(target) /\ p \in 0 .. k
            /\ \A i \in 1 .. k : st.ids[i] = target[i] /\ IsHistoryCell(c, st.ids, p)
        BY <1>0, <2>1, <2>6, <3>3, <4>1, <4>2
      <4>4. IsHistoryCell(c, st.ids, p)
        BY <4>2
      <4>5. IsHistoryCell(c, target, p)
        <5> HIDE DEF c, k
        <5> QED BY <1>0, <2>1, <4>3, <4>4, SharedHistory
      <4> QED BY <4>5
    <3> HIDE DEF kept
    <3>6. ViewHolds(cut)
      BY <3>1, <3>5 DEF ViewHolds, LaneHolds
    <3>7. Caches(cut)
      BY <3>1 DEF CacheView, Caches
    <3> QED BY <2>3, <3>2, <3>6, <3>7 DEF CacheView, GoodOutcome, out
  <2>7. CASE /\ target # st.ids /\ ~(Len(target) < Len(st.ids) /\ IsPrefix(target, st.ids))
             /\ IsPrefix(st.ids, target) /\ st.hist > 0
    <3> HIDE DEF target
    <3>1. rest \in Seq(Vocab)
      BY <1>0, <2>1, <2>7, PrefixAndRest
    <3> HIDE DEF rest
    <3>2. CacheView(fill_incremental(st, rest, fails).st)
      BY <2>7, <3>1, FillIncrementalHolds
    <3> QED BY <2>2, <2>7, <3>2
  <2>8. CASE /\ target # st.ids /\ ~(Len(target) < Len(st.ids) /\ IsPrefix(target, st.ids))
             /\ ~(IsPrefix(st.ids, target) /\ st.hist > 0)
    <3> HIDE DEF target, rest
    <3>1. CacheView(fill_from_scratch(st, target, fails).st)
      BY <2>1, FillFromScratchHolds
    <3> QED BY <2>2, <2>8, <3>1
  <2> QED BY <2>5, <2>6, <2>7, <2>8
<1> QED BY <1>1, <1>2

\* A generation starts from the history of the prepared text.
LEMMA PreparedHolds ==
  ASSUME NEW s, CacheView(sync_from_context(s)), NEW context \in Seq(Vocab \cup {BadId}),
         NEW fails \in BOOLEAN
  PROVE  CacheView(Prepared(s, context, fails).st)
<1> DEFINE given == IF context = <<>> THEN Outcome(sync_from_context(s), "Ok")
                    ELSE replace_context_impl(sync_from_context(s), context, fails)
           out == Prepared(s, context, fails)
<1>1. CacheView(given.st)
  BY ReplaceHolds DEF Outcome
<1>2. out = given \/ out = Outcome(given.st, "InvalidArgument")
      \/ /\ out = Outcome(EvictTo(given.st, eviction_target), "Ok")
         /\ ~(eviction_target >= Len(given.st.ids))
  BY DEF Prepared, truncate_history
<1>3. CASE out = Outcome(EvictTo(given.st, eviction_target), "Ok")
           /\ ~(eviction_target >= Len(given.st.ids))
  <2> HIDE DEF given, out
  <2>1. eviction_target \in 0 .. Len(given.st.ids) /\ given.st.hist > 0
    BY <1>1, <1>3, ViewNumbers, EvictionTarget DEF CacheView
  <2>2. CacheView(EvictTo(given.st, eviction_target))
    BY <1>1, <2>1, EvictToHolds
  <2>3. out.st = EvictTo(given.st, eviction_target)
    BY <1>3 DEF Outcome
  <2> QED BY <2>2, <2>3 DEF out
<1>4. CASE out = given \/ out = Outcome(given.st, "InvalidArgument")
  <2> HIDE DEF given, out
  <2>1. out.st = given.st
    BY <1>4 DEF Outcome
  <2> QED BY <1>1, <2>1 DEF out
<1> QED BY <1>2, <1>3, <1>4

\* The cursors are not what the lanes hold.
LEMMA CursorResetHolds ==
  ASSUME NEW st, CacheView(st)
  PROVE  CacheView(RolledBack(st)) /\ CacheView(Rewound(st))
<1>1. /\ RolledBack(st).self = st.self /\ RolledBack(st).fill = st.fill
      /\ Rewound(st).self = st.self /\ Rewound(st).fill = st.fill
  BY DEF RolledBack, Rewound, CacheView, GoodView, IsView, ViewFields
<1> QED BY <1>1, CursorReset DEF CacheView, Caches, ViewHolds

-----------------------------------------------------------------------------
(* Views the decoder works on: the history up to its boundary *)

DecodeView(st) ==
  /\ GoodView(st) /\ Caches(st)
  /\ \A l \in Lanes : LaneHolds(st.self[l], st.ids, st.hist - 1)

\* A cell the decoder writes, or fails to write, is the only one it changes.
LEMMA Pass2Cells ==
  ASSUME NEW lane \in Lane, NEW p \in Pos, NEW tok \in Vocab \cup {NoTok},
         NEW error \in {"Ok", "ModelError", "NoCandidates"}
  PROVE  /\ Pass2Lane(lane, p, tok, error) \in Lane
         /\ \A q \in Pos : q # p => Pass2Lane(lane, p, tok, error)[q] = lane[q]
         /\ error = "Ok" => Pass2Lane(lane, p, tok, error)[p] = Conditional(tok)
<1>0. p \in Nat
  BY CacheShape DEF Pos
<1>1. ASSUME NEW c \in Cell
      PROVE  /\ update_mhsa_kv(lane, p, <<c>>) \in Lane
             /\ \A q \in Pos : q # p => update_mhsa_kv(lane, p, <<c>>)[q] = lane[q]
             /\ update_mhsa_kv(lane, p, <<c>>)[p] = c
  <2>1. <<c>> \in Seq(Cell) /\ Len(<<c>>) = 1 /\ <<c>>[1] = c
    OBVIOUS
  <2>2. \A q \in Pos : q \in Slice(p, 1) <=> q = p
    BY <1>0, CacheShape DEF Slice, Pos
  <2>3. update_mhsa_kv(lane, p, <<c>>) \in Lane
    BY <1>0, <2>1, WrittenType
  <2>4. update_mhsa_kv(lane, p, <<c>>)
          = [q \in Pos |-> IF q = p THEN <<c>>[q - p + 1] ELSE lane[q]]
    BY <2>1, <2>2 DEF update_mhsa_kv
  <2>5. p - p + 1 = 1
    BY <1>0
  <2> QED BY <2>1, <2>3, <2>4, <2>5
<1>2. CASE error = "Ok"
  <2>1. Conditional(tok) \in Cell
    BY SpecialCells
  <2>2. Pass2Lane(lane, p, tok, error) = update_mhsa_kv(lane, p, <<Conditional(tok)>>)
    BY <1>2 DEF Pass2Lane
  <2> QED BY <1>1, <2>1, <2>2
<1>3. CASE error = "ModelError"
  <2>1. [i \in 1 .. 1 |-> Torn] = <<Torn>>
    OBVIOUS
  <2>2. Pass2Lane(lane, p, tok, error) = update_mhsa_kv(lane, p, <<Torn>>)
    BY <1>3, <2>1 DEF Pass2Lane, TornLane
  <2> QED BY <1>1, <1>3, <2>2, SpecialCells
<1>4. CASE error = "NoCandidates"
  BY <1>4 DEF Pass2Lane
<1> QED BY <1>2, <1>3, <1>4

\* The first decoding step writes its position, in every lane.
LEMMA FirstPass2Cells ==
  ASSUME NEW st, IsView(st), Caches(st), first_position(st.hist) \in Pos,
         NEW tok \in Vocab \cup {NoTok}, NEW error \in {"Ok", "ModelError", "NoCandidates"}
  PROVE  /\ Caches(FirstPass2(st, tok, error))
         /\ \A l \in Lanes, q \in Pos : q # first_position(st.hist) =>
              FirstPass2(st, tok, error).self[l][q] = st.self[l][q]
         /\ error = "Ok" => \A l \in Lanes :
              FirstPass2(st, tok, error).self[l][first_position(st.hist)] = Conditional(tok)
         /\ FirstPass2(st, tok, error).ids = st.ids
         /\ FirstPass2(st, tok, error).hist = st.hist
<1> DEFINE p == first_position(st.hist)
           scratch == Pass2Lane(SyncedScratch(st), p, tok, error)
           spread == Spread(st.self, scratch, p, 1)
           each == [l \in Lanes |-> Pass2Lane(st.self[l], p, tok, error)]
           after == FirstPass2(st, tok, error)
<1>0. st.self \in [Lanes -> Lane] /\ st.fill \in Lane /\ 0 \in Lanes /\ p \in Pos /\ p \in Nat
  BY CacheShape DEF Caches, Lanes, Pos
<1>1. after.ids = st.ids /\ after.hist = st.hist
  BY DEF FirstPass2, IsView, ViewFields
<1>2. /\ scratch \in Lane
      /\ error = "Ok" => scratch[p] = Conditional(tok)
  <2>1. SyncedScratch(st) \in Lane
    BY <1>0, MovedType DEF SyncedScratch
  <2> HIDE DEF p
  <2> QED BY <1>0, <2>1, Pass2Cells
<1>3. CASE DecodeOnScratch
  <2>1. after = [st EXCEPT !.fill = scratch, !.self = spread]
    BY <1>3 DEF FirstPass2, Spread
  <2>2. after.self = spread /\ after.fill = scratch
    <3> HIDE DEF after, scratch, spread
    <3> QED BY <2>1 DEF IsView, ViewFields
  <2>3. spread \in [Lanes -> Lane]
    <3> HIDE DEF scratch, p
    <3> QED BY <1>0, <1>2, SpreadType
  <2>4. \A l \in Lanes : spread[l] = MoveSlice(st.self[l], scratch, p, 1)
    <3> HIDE DEF scratch, p
    <3> QED BY <1>0, <1>2, SpreadCells
  <2>5. \A q \in Pos : q \in Slice(p, 1) <=> q = p
    <3> HIDE DEF p
    <3> QED BY <1>0, CacheShape DEF Slice, Pos
  <2> HIDE DEF after, scratch, spread, p
  <2>6. \A l \in Lanes, q \in Pos : spread[l][q] = IF q = p THEN scratch[q] ELSE st.self[l][q]
    <3>1. ASSUME NEW l \in Lanes, NEW q \in Pos
          PROVE  spread[l][q] = IF q \in Slice(p, 1) THEN scratch[q] ELSE st.self[l][q]
      <4>1. spread[l] = MoveSlice(st.self[l], scratch, p, 1)
        BY <2>4
      <4>2. MoveSlice(st.self[l], scratch, p, 1)[q]
              = IF q \in Slice(p, 1) THEN scratch[q] ELSE st.self[l][q]
        BY DEF MoveSlice
      <4> QED BY <4>1, <4>2
    <3> QED BY <2>5, <3>1
  <2> QED BY <1>0, <1>1, <1>2, <2>2, <2>3, <2>6 DEF Caches, after, p
<1>4. CASE ~DecodeOnScratch
  <2>1. after = [st EXCEPT !.self = each]
    BY <1>4 DEF FirstPass2
  <2>2. after.self = each /\ after.fill = st.fill
    <3> HIDE DEF after, each
    <3> QED BY <2>1 DEF IsView, ViewFields
  <2>3. ASSUME NEW l \in Lanes
        PROVE  /\ each[l] \in Lane
               /\ \A q \in Pos : q # p => each[l][q] = st.self[l][q]
               /\ error = "Ok" => each[l][p] = Conditional(tok)
    <3> DEFINE before == st.self[l]
    <3>1. each[l] = Pass2Lane(before, p, tok, error) /\ before \in Lane /\ p \in Pos
      BY <1>0
    <3> HIDE DEF each, p, before
    <3>2. /\ Pass2Lane(before, p, tok, error) \in Lane
          /\ \A q \in Pos : q # p => Pass2Lane(before, p, tok, error)[q] = before[q]
          /\ error = "Ok" => Pass2Lane(before, p, tok, error)[p] = Conditional(tok)
      BY <3>1, Pass2Cells, Z3
    <3> QED BY <3>1, <3>2 DEF before
  <2>4. each \in [Lanes -> Lane]
    <3>1. each = [l \in Lanes |-> each[l]]
      OBVIOUS
    <3> HIDE DEF each
    <3> QED BY <2>3, <3>1
  <2> HIDE DEF after, each, p
  <2> QED BY <1>0, <1>1, <2>2, <2>3, <2>4 DEF Caches, after, p
<1> QED BY <1>3, <1>4

\* A whole history is more than one up to its boundary.
LEMMA CacheViewDecodes ==
  ASSUME NEW st, CacheView(st)
  PROVE  DecodeView(st)
<1>1. st.hist \in Nat
  BY ViewNumbers DEF CacheView
<1> QED BY <1>1 DEF CacheView, DecodeView, ViewHolds, LaneHolds

\* The first decoding step overwrites the boundary and nothing before it.
LEMMA FirstPass2Decodes ==
  ASSUME NEW st, DecodeView(st), NEW tok \in Vocab \cup {NoTok},
         NEW error \in {"Ok", "ModelError", "NoCandidates"}
  PROVE  DecodeView(FirstPass2(st, tok, error))
<1>1. st.hist \in Nat /\ st.hist \in 0 .. PreMax /\ PreMax \in Nat /\ 0 \in Pos
  BY ViewNumbers DEF DecodeView
<1>2. first_position(st.hist) \in Pos
  BY <1>1 DEF first_position, Pos
<1>3. GoodView(FirstPass2(st, tok, error))
  BY DecodingView DEF DecodeView
<1> DEFINE after == FirstPass2(st, tok, error)
<1>4. /\ Caches(after) /\ after.ids = st.ids /\ after.hist = st.hist
      /\ \A l \in Lanes, q \in Pos : q # first_position(st.hist) =>
              after.self[l][q] = st.self[l][q]
  BY <1>2, FirstPass2Cells DEF DecodeView, GoodView
<1>5. \A q \in 0 .. st.hist - 1 - 1 : q \in Pos /\ q # first_position(st.hist)
  BY <1>1 DEF first_position, Pos
<1> HIDE DEF after
<1>6. \A l \in Lanes : LaneHolds(after.self[l], st.ids, st.hist - 1)
  BY <1>4, <1>5 DEF DecodeView, LaneHolds
<1> QED BY <1>3, <1>4, <1>6 DEF DecodeView, after

\* With its boundary restored from the snapshot a view holds the whole history.
LEMMA RestoredHolds ==
  ASSUME NEW st, DecodeView(st), gen.clean \in Cell,
         Roomy /\ st.hist > 0 => IsHistoryCell(gen.clean, st.ids, st.hist - 1)
  PROVE  CacheView(Restored(st))
<1> DEFINE p == first_position(st.hist)
           after == Restored(st)
<1>0. /\ st.hist \in Nat /\ st.hist \in 0 .. PreMax /\ PreMax \in Nat /\ 0 \in Pos
      /\ IsView(st) /\ GoodView(st) /\ st.self \in [Lanes -> Lane] /\ st.fill \in Lane
  BY ViewNumbers DEF DecodeView, GoodView, Caches
<1>1. GoodView(after)
  BY <1>0, DecodingView
<1>2. CASE st.hist = 0
  <2>1. after = st
    BY <1>2 DEF Restored
  <2>2. ViewHolds(st)
    BY <1>2 DEF ViewHolds, LaneHolds
  <2> QED BY <1>0, <2>1, <2>2 DEF CacheView, DecodeView
<1>3. CASE st.hist # 0
  <2>1. p \in Pos /\ p = st.hist - 1 /\ st.hist > 0
    BY <1>0, <1>3 DEF first_position, Pos
  <2>2. after.self = [l \in Lanes |-> [st.self[l] EXCEPT ![p] = gen.clean]]
        /\ after.fill \in {st.fill, [st.fill EXCEPT ![p] = gen.clean]}
        /\ after.ids = st.ids /\ after.hist = st.hist
    <3> HIDE DEF p
    <3> QED BY <1>0, <1>3 DEF Restored, restore_position, IsView, ViewFields, p
  <2> HIDE DEF after, p
  <2>3. Caches(after)
    BY <1>0, <2>1, <2>2 DEF Caches, Lane
  <2>4. ASSUME Roomy, NEW l \in Lanes, NEW q \in 0 .. st.hist - 1
        PROVE  IsHistoryCell(after.self[l][q], st.ids, q)
    <3>1. q \in Pos
      BY <1>0 DEF Pos
    <3>2. CASE q = p
      <4>1. after.self[l][q] = gen.clean
        BY <1>0, <2>1, <2>2, <3>2 DEF Lane
      <4> QED BY <2>1, <2>4, <3>2, <4>1
    <3>3. CASE q # p
      <4>1. after.self[l][q] = st.self[l][q]
        BY <1>0, <2>1, <2>2, <3>1, <3>3 DEF Lane
      <4>2. q \in 0 .. (st.hist - 1) - 1
        BY <1>0, <2>1, <3>3
      <4> QED BY <2>4, <4>1, <4>2 DEF DecodeView, LaneHolds
    <3> QED BY <3>2, <3>3
  <2> QED BY <1>1, <2>2, <2>3, <2>4 DEF CacheView, ViewHolds, LaneHolds, after
<1> QED BY <1>2, <1>3

-----------------------------------------------------------------------------
(* The beams *)

BeamsOf == [Lanes -> [pred : Seq(Candidates), active : BOOLEAN]]

\* Beams of k tokens, one of them active and no two active ones the same.
DistinctBeams(beams, k) ==
  /\ \E l \in Lanes : beams[l].active
  /\ \A l \in Lanes : Len(beams[l].pred) = k
  /\ \A l, m \in Lanes : beams[l].active /\ beams[m].active /\ l # m =>
       beams[l].pred # beams[m].pred

\* The first beams are different candidates.
LEMMA FirstBeamsDistinct ==
  ASSUME NEW beams \in FirstBeams
  PROVE  beams \in BeamsOf /\ DistinctBeams(beams, 1)
<1>1. PICK top \in TopTokens :
        beams = [l \in Lanes |-> [pred |-> <<top[(l % Len(top)) + 1]>>, active |-> l < Len(top)]]
  BY DEF FirstBeams
<1>2. PICK k \in 1 .. Beam : top \in [1 .. k -> Candidates]
  BY DEF TopTokens
<1>3. IsInjective(top)
  BY DEF TopTokens
<1>4. k \in Nat /\ k >= 1 /\ k <= Beam /\ Len(top) = k /\ Beam \in Nat
  BY <1>2, CacheShape
<1>5. ASSUME NEW l \in Lanes
      PROVE  l \in Nat /\ l % k \in 0 .. k - 1 /\ (l < k => l % k = l)
  BY <1>4 DEF Lanes
<1>6. ASSUME NEW l \in Lanes
      PROVE  /\ beams[l].pred = <<top[(l % k) + 1]>> /\ beams[l].active = (l < k)
             /\ top[(l % k) + 1] \in Candidates
  <2>1. (l % k) + 1 \in 1 .. k
    BY <1>4, <1>5
  <2> QED BY <1>1, <1>2, <1>4, <2>1
<1>7. beams \in BeamsOf
  <2>1. \A l \in Lanes : beams[l] \in [pred : Seq(Candidates), active : BOOLEAN]
    BY <1>1, <1>4, <1>6
  <2> QED BY <1>1, <2>1 DEF BeamsOf
<1>8. \E l \in Lanes : beams[l].active
  <2>1. 0 \in Lanes /\ 0 < k
    BY <1>4 DEF Lanes
  <2> QED BY <1>6, <2>1
<1>9. \A l \in Lanes : Len(beams[l].pred) = 1
  <2>1. \A x : Len(<<x>>) = 1
    OBVIOUS
  <2> QED BY <1>6, <2>1
<1>10. ASSUME NEW l \in Lanes, NEW m \in Lanes, beams[l].active, beams[m].active, l # m
       PROVE  beams[l].pred # beams[m].pred
  <2>1. l < k /\ m < k
    BY <1>6, <1>10
  <2>2. beams[l].pred = <<top[l + 1]>> /\ beams[m].pred = <<top[m + 1]>>
    BY <1>5, <1>6, <2>1
  <2>3. l \in Nat /\ m \in Nat /\ l # m
    BY <1>5, <1>10
  <2>4. l + 1 \in 1 .. k /\ m + 1 \in 1 .. k /\ l + 1 # m + 1
    BY <1>4, <2>1, <2>3
  <2>5. top[l + 1] # top[m + 1]
    BY <1>2, <1>3, <2>4 DEF IsInjective
  <2> QED BY <2>2, <2>5
<1> QED BY <1>7, <1>8, <1>9, <1>10 DEF DistinctBeams

\* The beam_size best expansions of distinct beams are distinct.
LEMMA ExpansionsDistinct ==
  ASSUME gen.beams \in BeamsOf, NEW k \in Nat, DistinctBeams(gen.beams, k),
         NEW e \in Selections, NEW beams,
         beams = [l \in Lanes |->
                   [pred   |-> Append(gen.beams[e[l][1]].pred, e[l][2]),
                    active |-> gen.beams[e[l][1]].active]]
  PROVE  beams \in BeamsOf /\ DistinctBeams(beams, k + 1)
<1>0. 0 \in Lanes
  BY CacheShape DEF Lanes
<1>1. e \in [Lanes -> Lanes \X Candidates]
  BY DEF Selections
<1>2. ASSUME NEW l \in Lanes
      PROVE  /\ e[l][1] \in Lanes /\ e[l][2] \in Candidates /\ e[l] = <<e[l][1], e[l][2]>>
             /\ gen.beams[e[l][1]].pred \in Seq(Candidates)
             /\ Len(gen.beams[e[l][1]].pred) = k
             /\ gen.beams[e[l][1]].active \in BOOLEAN
             /\ beams[l].pred = Append(gen.beams[e[l][1]].pred, e[l][2])
             /\ beams[l].active = gen.beams[e[l][1]].active
             /\ beams[l].pred \in Seq(Candidates) /\ Len(beams[l].pred) = k + 1
  <2>1. e[l] \in Lanes \X Candidates
    BY <1>1
  <2>2. e[l][1] \in Lanes /\ e[l][2] \in Candidates /\ e[l] = <<e[l][1], e[l][2]>>
    BY <2>1
  <2>3. /\ gen.beams[e[l][1]].pred \in Seq(Candidates)
        /\ Len(gen.beams[e[l][1]].pred) = k
        /\ gen.beams[e[l][1]].active \in BOOLEAN
    BY <2>2 DEF BeamsOf, DistinctBeams
  <2>4. /\ beams[l].pred = Append(gen.beams[e[l][1]].pred, e[l][2])
        /\ beams[l].active = gen.beams[e[l][1]].active
    OBVIOUS
  <2>5. beams[l].pred \in Seq(Candidates) /\ Len(beams[l].pred) = k + 1
    <3> DEFINE pred == gen.beams[e[l][1]].pred
               tok  == e[l][2]
    <3>1. pred \in Seq(Candidates) /\ tok \in Candidates /\ Len(pred) = k
      BY <2>2, <2>3
    <3>2. Append(pred, tok) \in Seq(Candidates) /\ Len(Append(pred, tok)) = k + 1
      <4> HIDE DEF pred, tok
      <4> QED BY <3>1, AppendProperties
    <3> QED BY <2>4, <3>2
  <2> QED BY <2>2, <2>3, <2>4, <2>5
<1>3. beams \in BeamsOf
  <2>1. \A l \in Lanes : beams[l] \in [pred : Seq(Candidates), active : BOOLEAN]
    BY <1>2
  <2> QED BY <2>1 DEF BeamsOf
<1>4. \E l \in Lanes : beams[l].active
  <2>1. CASE \A l \in Lanes : gen.beams[e[l][1]].active
    BY <1>0, <1>2, <2>1
  <2>2. CASE \E l \in Lanes : ~gen.beams[e[l][1]].active
    <3>1. PICK b \in Lanes : gen.beams[b].active
      BY DEF DistinctBeams
    <3>2. PICK l \in Lanes : e[l][1] = b
      BY <2>2, <3>1 DEF Selections
    <3> QED BY <1>2, <3>1, <3>2
  <2> QED BY <2>1, <2>2
<1>5. ASSUME NEW l \in Lanes, NEW m \in Lanes, beams[l].active, beams[m].active, l # m,
             beams[l].pred = beams[m].pred
      PROVE  FALSE
  <2> DEFINE a == gen.beams[e[l][1]].pred
             b == gen.beams[e[m][1]].pred
  <2>1. e[l] # e[m]
    BY <1>5 DEF Selections
  <2>2. /\ a \in Seq(Candidates) /\ b \in Seq(Candidates) /\ Len(a) = Len(b)
        /\ e[l][2] \in Candidates /\ e[m][2] \in Candidates
        /\ Append(a, e[l][2]) = Append(b, e[m][2])
    BY <1>2, <1>5
  <2>3. a = b /\ e[l][2] = e[m][2]
    <3> HIDE DEF a, b
    <3> QED BY <2>2, AppendInjective
  <2>4. e[l][1] = e[m][1]
    <3>1. gen.beams[e[l][1]].active /\ gen.beams[e[m][1]].active
      BY <1>2, <1>5
    <3>2. e[l][1] \in Lanes /\ e[m][1] \in Lanes
      BY <1>2
    <3> QED BY <2>3, <3>1, <3>2 DEF DistinctBeams
  <2>5. e[l] = <<e[l][1], e[l][2]>> /\ e[m] = <<e[m][1], e[m][2]>>
    BY <1>2
  <2>6. <<e[l][1], e[l][2]>> = <<e[m][1], e[m][2]>>
    BY <2>3, <2>4
  <2>7. e[l] = e[m]
    <3> HIDE DEF a, b
    <3> QED BY ONLY <2>5, <2>6
  <2> QED BY <2>1, <2>7
<1> QED BY <1>2, <1>3, <1>4, <1>5 DEF DistinctBeams

-----------------------------------------------------------------------------
(* What the caches hold in every state *)

CacheTypes ==
  /\ self_kv \in [Slots -> [Lanes -> Lane]] /\ fill_kv \in Lane
  /\ ret \in [slot : Slots \cup {NoSlot}, err : Errors]

\* Every lane of a slot holds the history of its ids.
SlotHolds(s) ==
  \A l \in Lanes : LaneHolds(self_kv[s][l], context_ids[s], history_seqlen[s])

\* A generation leaves the history before its boundary alone, and has the
\* boundary in its snapshot.
GenHolds ==
  /\ last_position(gen.hist, gen.n) \in Pos
  /\ gen.clean \in Cell
  /\ Roomy /\ gen.hist > 0 => IsHistoryCell(gen.clean, gen.ids, gen.hist - 1)
  /\ \A l \in Lanes : LaneHolds(self_kv[gen.slot][l], gen.ids, gen.hist - 1)
  /\ pc = "first" => /\ gen.step = 0
                     /\ \A l \in Lanes : LaneHolds(self_kv[gen.slot][l], gen.ids, gen.hist)
  /\ gen.beams \in BeamsOf

CacheInv ==
  /\ CacheTypes
  /\ \A s \in Slots : ~Generating(s) => SlotHolds(s)
  /\ pc = "idle" => gen = IdleGen
  /\ pc # "idle" => GenHolds
  /\ BeamReadsItsOwnPast
  /\ ActiveBeamsAreDistinct

\* The view a call starts from holds its history.
LEMMA SlotCacheView ==
  ASSUME SessionInv, CacheInv, pc = "idle", NEW s \in Slots
  PROVE  CacheView(sync_from_context(s))
<1>1. GoodView(sync_from_context(s))
  BY SlotView DEF SessionInv
<1>2. SlotHolds(s) /\ self_kv[s] \in [Lanes -> Lane] /\ fill_kv \in Lane
  BY DEF CacheInv, CacheTypes, Generating
<1>3. /\ sync_from_context(s).self = self_kv[s] /\ sync_from_context(s).fill = fill_kv
      /\ sync_from_context(s).ids = context_ids[s]
      /\ sync_from_context(s).hist = history_seqlen[s]
  BY DEF sync_from_context
<1> QED BY <1>1, <1>2, <1>3 DEF CacheView, Caches, ViewHolds, SlotHolds

\* The view of a generation holds it up to the boundary.
LEMMA CallCacheView ==
  ASSUME SessionInv, CacheInv, pc # "idle"
  PROVE  /\ gen.slot \in Slots /\ DecodeView(InCall)
         /\ InCall.self = self_kv[gen.slot] /\ InCall.fill = fill_kv
         /\ InCall.ids = gen.ids /\ InCall.hist = gen.hist
<1>1. GenInv /\ GoodView(InCall) /\ gen.slot \in Slots
  BY CallView DEF SessionInv, GenInv
<1>2. GenHolds /\ self_kv[gen.slot] \in [Lanes -> Lane] /\ fill_kv \in Lane
  BY <1>1 DEF CacheInv, CacheTypes
<1>3. /\ InCall.self = self_kv[gen.slot] /\ InCall.fill = fill_kv
      /\ InCall.ids = gen.ids /\ InCall.hist = gen.hist
  BY DEF InCall
<1> QED BY <1>1, <1>2, <1>3 DEF DecodeView, Caches, GenHolds

\* A call that writes its view back leaves every slot with its history.
LEMMA EndKeepsCaches ==
  ASSUME SessionInv, CacheInv, NEW s \in Slots, pc = "idle" \/ gen.slot = s,
         NEW out, CacheView(out.st), out.err \in Errors, sync_to_context(s, out),
         pc' = "idle", gen' = IdleGen
  PROVE  CacheInv'
<1>0. /\ out.st.self \in [Lanes -> Lane] /\ out.st.fill \in Lane
      /\ out.st.ids \in Seq(Vocab) /\ Len(out.st.ids) <= MaxHistory
      /\ Len(out.st.ids) \in Nat /\ MaxHistory \in Nat
  BY ViewNumbers DEF CacheView, Caches
<1>1. /\ self_kv' = [self_kv EXCEPT ![s] = out.st.self] /\ fill_kv' = out.st.fill
      /\ ret' = [slot |-> s, err |-> IF Fits(out.st.ids) THEN out.err ELSE "Exception"]
  BY DEF sync_to_context
<1>2. CacheTypes'
  <2>1. ret' \in [slot : Slots \cup {NoSlot}, err : Errors]
    BY <1>1 DEF Errors
  <2> QED BY <1>0, <1>1, <2>1 DEF CacheInv, CacheTypes
<1>3. ASSUME NEW t \in Slots PROVE SlotHolds(t)'
  <2> SUFFICES ASSUME Roomy, NEW l \in Lanes
               PROVE  \A p \in 0 .. history_seqlen'[t] - 1 :
                        IsHistoryCell(self_kv'[t][l][p], context_ids'[t], p)
    BY DEF SlotHolds, LaneHolds
  <2>1. WriteMeta(s, out.st)
    <3>1. Fits(out.st.ids)
      BY <1>0, SlotConfig DEF Roomy, Fits
    <3> QED BY <3>1 DEF sync_to_context
  <2>2. CASE t = s
    <3>1. /\ self_kv'[t] = out.st.self /\ context_ids'[t] = out.st.ids
          /\ history_seqlen'[t] = out.st.hist
      BY <1>1, <2>1, <2>2 DEF WriteMeta, CacheInv, CacheTypes, SessionInv, SlotsInv
    <3> QED BY <3>1 DEF CacheView, ViewHolds, LaneHolds
  <2>3. CASE t # s
    <3>1. /\ self_kv'[t] = self_kv[t] /\ context_ids'[t] = context_ids[t]
          /\ history_seqlen'[t] = history_seqlen[t]
      BY <1>1, <2>1, <2>3 DEF WriteMeta, CacheInv, CacheTypes, SessionInv, SlotsInv
    <3>2. SlotHolds(t)
      BY <2>3 DEF CacheInv, Generating
    <3> QED BY <3>1, <3>2 DEF SlotHolds, LaneHolds
  <2> QED BY <2>2, <2>3
<1>4. BeamReadsItsOwnPast' /\ ActiveBeamsAreDistinct'
  BY DEF BeamReadsItsOwnPast, ActiveBeamsAreDistinct
<1> QED BY <1>2, <1>3, <1>4 DEF CacheInv

\* Every way a generation ends restores the boundary first.
LEMMA FinishKeepsCaches ==
  ASSUME SessionInv, CacheInv, pc # "idle", NEW st, DecodeView(st),
         st.ids = gen.ids, st.hist = gen.hist, NEW error \in Errors, Finish(st, error)
  PROVE  CacheInv'
<1>1. GenHolds /\ gen.slot \in Slots
  BY CallCacheView DEF CacheInv
<1>2. CacheView(Restored(st))
  BY <1>1, RestoredHolds DEF GenHolds
<1>3. /\ sync_to_context(gen.slot, Outcome(Restored(st), error))
      /\ pc' = "idle" /\ gen' = IdleGen
  BY DEF Finish
<1>4. Outcome(Restored(st), error).st = Restored(st) /\ Outcome(Restored(st), error).err = error
  BY DEF Outcome
<1> QED BY <1>1, <1>2, <1>3, <1>4, EndKeepsCaches

-----------------------------------------------------------------------------
(* Initially, and step by step *)

\* Nothing is committed at the start.
LEMMA InitCaches == Init => CacheInv
<1> SUFFICES ASSUME Init PROVE CacheInv
  OBVIOUS
<1>1. CacheTypes
  BY SpecialCells DEF Init, InitSlots, CacheTypes, ZeroLanes, Lane, Errors
<1>2. \A s \in Slots : SlotHolds(s)
  BY DEF Init, InitSlots, SlotHolds, LaneHolds
<1>3. BeamReadsItsOwnPast /\ ActiveBeamsAreDistinct
  BY DEF Init, BeamReadsItsOwnPast, ActiveBeamsAreDistinct
<1> QED BY <1>1, <1>2, <1>3 DEF Init, CacheInv

\* An execution fails or does not.
LEMMA FaultsAreBoolean == \A fails \in Faults : fails \in BOOLEAN
BY DEF Faults

\* The calls that run without giving control away, and the generations that end
\* before the decoder is reached.
LEMMA CallKeepsCaches ==
  ASSUME SessionInv, CacheInv, NEW s \in Slots, NEW context \in Seq(Vocab \cup {BadId}),
         \/ reset(s)
         \/ \E ids \in FillArgs : fill(s, ids)
         \/ \E ids \in ContextArgs : replace_context(s, ids)
         \/ generate_returns_early(s, context) \/ generate_cancelled(s, context)
         \/ generate_rejected(s, context)
  PROVE  CacheInv'
<1>0. pc = "idle" /\ pc' = "idle" /\ gen = IdleGen /\ gen' = IdleGen
  BY DEF CacheInv, reset, fill, replace_context, generate_returns_early,
     generate_cancelled, generate_rejected
<1>1. GoodView(sync_from_context(s)) /\ CacheView(sync_from_context(s))
  BY <1>0, SlotView, SlotCacheView DEF SessionInv
<1>2. CASE reset(s)
  <2> DEFINE cleared == [truncate_context_ids(Meta(s), 0) EXCEPT !.cur = 0, !.hist = 0]
  <2>1. WriteMeta(s, cleared) /\ self_kv' = self_kv /\ fill_kv' = fill_kv
        /\ ret' = [slot |-> s, err |-> "Ok"]
    BY <1>2 DEF reset
  <2>2. cleared.hist = 0
    BY DEF truncate_context_ids, Meta
  <2> HIDE DEF cleared
  <2>3. CacheTypes'
    BY <2>1 DEF CacheInv, CacheTypes, Errors
  <2>4. ASSUME NEW t \in Slots PROVE SlotHolds(t)'
    <3>1. CASE t = s
      <4>1. history_seqlen'[t] = 0
        BY <2>1, <2>2, <3>1 DEF WriteMeta, SessionInv, SlotsInv
      <4> QED BY <4>1 DEF SlotHolds, LaneHolds
    <3>2. CASE t # s
      <4>1. /\ context_ids'[t] = context_ids[t] /\ history_seqlen'[t] = history_seqlen[t]
        BY <2>1, <3>2 DEF WriteMeta, SessionInv, SlotsInv
      <4>2. SlotHolds(t)
        BY <1>0 DEF CacheInv, Generating
      <4> QED BY <2>1, <4>1, <4>2 DEF SlotHolds, LaneHolds
    <3> QED BY <3>1, <3>2
  <2>5. BeamReadsItsOwnPast' /\ ActiveBeamsAreDistinct'
    BY <1>0 DEF BeamReadsItsOwnPast, ActiveBeamsAreDistinct
  <2> QED BY <1>0, <2>3, <2>4, <2>5 DEF CacheInv
<1>3. CASE \E ids \in FillArgs : fill(s, ids)
  <2>1. PICK ids \in FillArgs, fails \in Faults :
          sync_to_context(s, fill_impl(sync_from_context(s), ids, fails))
    BY <1>3 DEF fill
  <2>2. ids \in Seq(Vocab \cup {BadId}) /\ fails \in BOOLEAN
    BY Environment, FaultsAreBoolean
  <2>3. CacheView(fill_impl(sync_from_context(s), ids, fails).st)
    BY <1>1, <2>2, FillHolds
  <2>4. fill_impl(sync_from_context(s), ids, fails).err \in Errors
    BY <1>1, <2>2, FillOutcome DEF GoodOutcome, Errors
  <2> QED BY <1>0, <2>1, <2>3, <2>4, EndKeepsCaches
<1>4. CASE \E ids \in ContextArgs : replace_context(s, ids)
  <2>1. PICK ids \in ContextArgs, fails \in Faults :
          sync_to_context(s, replace_context_impl(sync_from_context(s), ids, fails))
    BY <1>4 DEF replace_context
  <2>2. ids \in Seq(Vocab \cup {BadId}) /\ fails \in BOOLEAN
    BY Environment, FaultsAreBoolean
  <2>3. CacheView(replace_context_impl(sync_from_context(s), ids, fails).st)
    BY <1>1, <2>2, ReplaceHolds
  <2>4. replace_context_impl(sync_from_context(s), ids, fails).err \in Errors
    BY <1>1, <2>2, ReplaceOutcome DEF GoodOutcome, Errors
  <2> QED BY <1>0, <2>1, <2>3, <2>4, EndKeepsCaches
<1>5. ASSUME NEW fails \in Faults
      PROVE  /\ CacheView(Prepared(s, context, fails).st)
             /\ Prepared(s, context, fails).err \in Errors
  BY <1>1, FaultsAreBoolean, PreparedHolds, PreparedOutcome DEF GoodOutcome, Errors
<1>6. \A st, error : Outcome(st, error).st = st /\ Outcome(st, error).err = error
  BY DEF Outcome
<1>7. CASE generate_returns_early(s, context)
  <2>1. PICK fails \in Faults :
          \E error \in {"Ok", "InvalidArgument"} \cup {Prepared(s, context, fails).err} :
            sync_to_context(s, Outcome(Prepared(s, context, fails).st, error))
    BY <1>7 DEF generate_returns_early
  <2>2. PICK error \in {"Ok", "InvalidArgument"} \cup {Prepared(s, context, fails).err} :
          sync_to_context(s, Outcome(Prepared(s, context, fails).st, error))
    BY <2>1
  <2>3. error \in Errors
    BY <1>5 DEF Errors
  <2> QED BY <1>0, <1>5, <1>6, <2>2, <2>3, EndKeepsCaches
<1>8. CASE generate_cancelled(s, context)
  <2>1. PICK fails \in Faults :
          sync_to_context(s, Outcome(RolledBack(Prepared(s, context, fails).st), "Cancelled"))
    BY <1>8 DEF generate_cancelled
  <2>2. CacheView(RolledBack(Prepared(s, context, fails).st))
    BY <1>5, CursorResetHolds
  <2>3. "Cancelled" \in Errors
    BY DEF Errors
  <2> QED BY <1>0, <1>6, <2>1, <2>2, <2>3, EndKeepsCaches
<1>9. CASE generate_rejected(s, context)
  <2>1. PICK fails \in Faults, n \in 1 .. MaxPinyin + 1 :
          LET out == Prepared(s, context, fails)
              st  == IF n > MaxPinyin THEN out.st ELSE Rewound(out.st)
          IN  \E error \in Rejections(st.hist, n) : sync_to_context(s, Outcome(st, error))
    BY <1>9 DEF generate_rejected
  <2> DEFINE st == IF n > MaxPinyin THEN Prepared(s, context, fails).st
                                    ELSE Rewound(Prepared(s, context, fails).st)
  <2>2. PICK error \in Rejections(st.hist, n) : sync_to_context(s, Outcome(st, error))
    BY <2>1
  <2>3. CacheView(st)
    BY <1>5, CursorResetHolds
  <2>4. error \in Errors
    <3> HIDE DEF st
    <3> QED BY DEF Rejections, Errors
  <2> HIDE DEF st
  <2> QED BY <1>0, <1>6, <2>2, <2>3, <2>4, EndKeepsCaches
<1> QED BY <1>2, <1>3, <1>4, <1>7, <1>8, <1>9

\* A generation that reaches the decoder holds the boundary it snapshots.
LEMMA StartKeepsCaches ==
  ASSUME SessionInv, CacheInv, NEW s \in Slots, NEW context \in Seq(Vocab \cup {BadId}),
         generate_starts(s, context)
  PROVE  CacheInv'
<1>0. pc = "idle" /\ pc' = "first"
  BY DEF generate_starts
<1>1. PICK fails \in Faults, n \in 1 .. MaxPinyin :
        LET st == Rewound(Prepared(s, context, fails).st)
        IN  /\ last_position(st.hist, n) \in Pos
            /\ self_kv' = [self_kv EXCEPT ![s] = st.self]
            /\ fill_kv' = st.fill
            /\ gen' = [IdleGen EXCEPT !.slot = s, !.n = n, !.ids = st.ids, !.cur = st.cur,
                         !.hist  = st.hist,
                         !.clean = IF st.hist > 0 THEN st.self[0][first_position(st.hist)]
                                                  ELSE Zero]
  BY ZenonT(30) DEF generate_starts
<1> DEFINE st == Rewound(Prepared(s, context, fails).st)
<1>2. CacheView(st)
  <2>1. CacheView(sync_from_context(s)) /\ fails \in BOOLEAN
    BY <1>0, FaultsAreBoolean, SlotCacheView
  <2>2. CacheView(Prepared(s, context, fails).st)
    BY <2>1, PreparedHolds
  <2> QED BY <2>2, CursorResetHolds
<1>3. /\ gen'.slot = s /\ gen'.n = n /\ gen'.step = 0 /\ gen'.ids = st.ids
      /\ gen'.hist = st.hist /\ gen'.beams = [l \in Lanes |-> NoBeam]
      /\ gen'.clean = IF st.hist > 0 THEN st.self[0][first_position(st.hist)] ELSE Zero
      /\ self_kv' = [self_kv EXCEPT ![s] = st.self] /\ fill_kv' = st.fill
      /\ last_position(st.hist, n) \in Pos
  <2> HIDE DEF st
  <2> QED BY <1>1 DEF IdleGen, st
<1> HIDE DEF st
<1>4. /\ st.self \in [Lanes -> Lane] /\ st.fill \in Lane /\ st.hist \in Nat
      /\ st.hist <= PreMax /\ PreMax \in Nat /\ 0 \in Lanes
  BY <1>2, ViewNumbers DEF CacheView, Caches
<1>5. CacheTypes'
  BY <1>3, <1>4 DEF CacheInv, CacheTypes, generate_starts
<1>6. /\ context_ids' = context_ids /\ history_seqlen' = history_seqlen
  BY DEF generate_starts
<1>7. ASSUME NEW t \in Slots, ~Generating(t)' PROVE SlotHolds(t)'
  <2>1. t # s
    BY <1>0, <1>3, <1>7 DEF Generating
  <2>2. self_kv'[t] = self_kv[t]
    BY <1>3, <2>1 DEF CacheInv, CacheTypes
  <2>3. SlotHolds(t)
    BY <1>0 DEF CacheInv, Generating
  <2> QED BY <1>6, <2>2, <2>3 DEF SlotHolds, LaneHolds
<1>8. self_kv'[s] = st.self
  BY <1>3 DEF CacheInv, CacheTypes
<1>9. GenHolds'
  <2>1. gen'.clean \in Cell
    <3>1. CASE st.hist > 0
      <4>1. first_position(st.hist) \in Pos
        BY <1>4, <3>1 DEF first_position, Pos
      <4> QED BY <1>3, <1>4, <3>1, <4>1 DEF Lane
    <3>2. CASE ~(st.hist > 0)
      BY <1>3, <3>2, SpecialCells
    <3> QED BY <3>1, <3>2
  <2>2. Roomy /\ st.hist > 0 => IsHistoryCell(gen'.clean, st.ids, st.hist - 1)
    <3> SUFFICES ASSUME Roomy, st.hist > 0
                 PROVE  IsHistoryCell(gen'.clean, st.ids, st.hist - 1)
      OBVIOUS
    <3>1. gen'.clean = st.self[0][st.hist - 1] /\ st.hist - 1 \in 0 .. st.hist - 1
      BY <1>3, <1>4 DEF first_position
    <3> QED BY <1>2, <1>4, <3>1 DEF CacheView, ViewHolds, LaneHolds
  <2>3. \A l \in Lanes : LaneHolds(st.self[l], st.ids, st.hist)
    BY <1>2 DEF CacheView, ViewHolds
  <2>4. \A l \in Lanes : LaneHolds(st.self[l], st.ids, st.hist - 1)
    BY <1>2, CacheViewDecodes DEF DecodeView
  <2>5. gen'.beams \in BeamsOf
    <3>1. NoBeam \in [pred : Seq(Candidates), active : BOOLEAN]
      BY DEF NoBeam
    <3> QED BY <1>3, <3>1 DEF BeamsOf
  <2> QED BY <1>3, <1>8, <2>1, <2>2, <2>3, <2>4, <2>5 DEF GenHolds, LaneHolds
<1>10. BeamReadsItsOwnPast' /\ ActiveBeamsAreDistinct'
  BY <1>0 DEF BeamReadsItsOwnPast, ActiveBeamsAreDistinct
<1> QED BY <1>0, <1>5, <1>7, <1>9, <1>10 DEF CacheInv

\* A decoding step writes at and behind the boundary of its own slot.
LEMMA DecodedKeepsCaches ==
  ASSUME SessionInv, CacheInv, pc # "idle", NEW self \in [Lanes -> Lane],
         \A l \in Lanes : LaneHolds(self[l], gen.ids, gen.hist - 1),
         self_kv' = [self_kv EXCEPT ![gen.slot] = self], fill_kv' \in Lane, pc' = "step",
         UNCHANGED <<context_ids, history_seqlen, ret>>,
         gen'.slot = gen.slot, gen'.n = gen.n, gen'.ids = gen.ids, gen'.hist = gen.hist,
         gen'.clean = gen.clean, gen'.beams \in BeamsOf,
         BeamReadsItsOwnPast', ActiveBeamsAreDistinct'
  PROVE  CacheInv'
<1>1. gen.slot \in Slots /\ GenHolds
  BY CallCacheView DEF CacheInv
<1>2. CacheTypes'
  BY DEF CacheInv, CacheTypes
<1>3. ASSUME NEW t \in Slots, ~Generating(t)' PROVE SlotHolds(t)'
  <2>1. t # gen.slot
    BY <1>3 DEF Generating
  <2>2. self_kv'[t] = self_kv[t]
    BY <2>1 DEF CacheInv, CacheTypes
  <2>3. SlotHolds(t)
    BY <2>1 DEF CacheInv, Generating
  <2> QED BY <2>2, <2>3 DEF SlotHolds, LaneHolds
<1>4. self_kv'[gen.slot] = self
  BY <1>1 DEF CacheInv, CacheTypes
<1>5. GenHolds'
  BY <1>1, <1>4 DEF GenHolds, LaneHolds
<1> QED BY <1>2, <1>3, <1>5 DEF CacheInv

\* The first step leaves its query in conditional state at the boundary.
LEMMA FirstKeepsCaches ==
  ASSUME SessionInv, CacheInv, first_decode
  PROVE  CacheInv'
<1>0. pc = "first" /\ pc' = "step" /\ GenInv
  BY DEF first_decode, SessionInv
<1>1. PICK tok \in FirstQueries, beams \in FirstBeams :
        LET st == FirstPass2(InCall, tok, "Ok")
        IN  /\ self_kv' = [self_kv EXCEPT ![gen.slot] = st.self]
            /\ fill_kv' = st.fill
            /\ gen' = [gen EXCEPT !.beams = beams, !.step = 1,
                                  !.cur = IF gen.hist > 0 THEN gen.hist ELSE 1]
  BY DEF first_decode
<1> DEFINE st == FirstPass2(InCall, tok, "Ok")
           q  == first_position(gen.hist)
<1>2. /\ gen.slot \in Slots /\ DecodeView(InCall)
      /\ InCall.ids = gen.ids /\ InCall.hist = gen.hist
  BY <1>0, CallCacheView
<1>3. /\ gen.hist \in Nat /\ (gen.hist = 1 + Len(gen.ids) \/ (gen.hist = 0 /\ gen.ids = <<>>))
      /\ gen.ids \in Seq(Vocab) /\ Len(gen.ids) \in Nat
  BY <1>0 DEF GenInv, History
<1>4. tok \in Vocab \cup {NoTok}
  <2>1. gen.ids # <<>> => gen.ids[Len(gen.ids)] \in Vocab
    BY <1>3
  <2> QED BY <2>1 DEF FirstQueries, Vocab
<1>5. q \in Pos
  <2>1. gen.hist <= PreMax /\ PreMax \in Nat /\ 0 \in Pos
    BY <1>2, ViewNumbers DEF DecodeView
  <2> QED BY <1>3, <2>1 DEF first_position, Pos
<1>6. DecodeView(st)
  BY <1>2, <1>4, FirstPass2Decodes
<1>7. /\ st.ids = gen.ids /\ st.hist = gen.hist
      /\ \A l \in Lanes : st.self[l][q] = Conditional(tok)
  BY <1>2, <1>4, <1>5, FirstPass2Cells DEF DecodeView, GoodView
<1>8. gen' = [f \in GenFields |-> gen'[f]]
      /\ gen'.slot = gen.slot /\ gen'.n = gen.n /\ gen'.ids = gen.ids
      /\ gen'.hist = gen.hist /\ gen'.clean = gen.clean /\ gen'.beams = beams /\ gen'.step = 1
  BY <1>0, <1>1 DEF GenInv, GenFields
<1>9. beams \in BeamsOf /\ DistinctBeams(beams, 1)
  BY FirstBeamsDistinct
<1>10. self_kv' = [self_kv EXCEPT ![gen.slot] = st.self] /\ fill_kv' = st.fill
  BY <1>1
<1> HIDE DEF st
<1>11. self_kv'[gen.slot] = st.self
  BY <1>2, <1>10 DEF CacheInv, CacheTypes
<1>12. BeamReadsItsOwnPast'
  <2>1. gen.ids # <<>> => tok = gen.ids[Len(gen.ids)]
    BY <1>3 DEF FirstQueries
  <2>2. gen.hist = 0 => tok = BOS
    BY DEF FirstQueries
  <2> HIDE DEF q
  <2>3. \A i \in 1 .. gen'.step - 1 : FALSE
    BY <1>8
  <2>4. \A l \in Lanes : self_kv'[gen'.slot][l][first_position(gen'.hist)] = Conditional(tok)
    BY <1>7, <1>8, <1>11 DEF q
  <2> QED BY <1>8, <2>1, <2>2, <2>3, <2>4 DEF BeamReadsItsOwnPast, Conditional
<1>13. ActiveBeamsAreDistinct'
  BY <1>8, <1>9 DEF ActiveBeamsAreDistinct, DistinctBeams
<1>14. /\ st.self \in [Lanes -> Lane] /\ st.fill \in Lane
       /\ \A l \in Lanes : LaneHolds(st.self[l], gen.ids, gen.hist - 1)
  BY <1>6, <1>7 DEF DecodeView, Caches
<1>15. UNCHANGED <<context_ids, history_seqlen, ret>>
  BY DEF first_decode
<1> QED BY <1>0, <1>8, <1>9, <1>10, <1>12, <1>13, <1>14, <1>15, DecodedKeepsCaches

\* The position of a step, between the history and the last one of the pinyin.
LEMMA StepPositions ==
  ASSUME SessionInv, CacheInv, pc = "step"
  PROVE  /\ gen.hist \in Nat /\ gen.step \in Nat /\ gen.step >= 1
         /\ StepPosition = first_position(gen.hist) + gen.step
         /\ first_position(gen.hist) \in Nat /\ gen.hist <= StepPosition
         /\ gen.hist <= PreMax /\ PreMax \in Nat
         /\ gen.step < gen.n => StepPosition \in Pos
<1>1. GenInv /\ last_position(gen.hist, gen.n) \in Pos
  BY DEF SessionInv, CacheInv, GenHolds
<1>2. /\ gen.hist \in Nat /\ gen.n \in Nat /\ gen.step \in Nat /\ gen.step >= 1
      /\ gen.hist <= PreMax /\ PreMax \in Nat
  <2>1. gen.n \in 1 .. MaxPinyin /\ gen.step \in 1 .. gen.n
    BY <1>1 DEF GenInv
  <2>2. DecodeView(InCall) /\ InCall.hist = gen.hist
    BY CallCacheView
  <2> QED BY <2>1, <2>2, ViewNumbers, SessionConfig DEF DecodeView
<1>3. /\ StepPosition = first_position(gen.hist) + gen.step
      /\ first_position(gen.hist) \in Nat /\ gen.hist <= StepPosition
  BY <1>2 DEF StepPosition, first_position
<1>4. ASSUME gen.step < gen.n PROVE StepPosition \in Pos
  <2>1. last_position(gen.hist, gen.n) \in 0 .. PreMax - 1
    BY <1>1 DEF Pos
  <2>2. 0 <= StepPosition /\ StepPosition <= last_position(gen.hist, gen.n)
        /\ StepPosition \in Nat
    BY <1>2, <1>4 DEF StepPosition, last_position
  <2>3. last_position(gen.hist, gen.n) \in Int
    BY <2>1
  <2> QED BY <1>2, <2>1, <2>2, <2>3 DEF Pos
<1> QED BY <1>2, <1>3, <1>4

\* The last candidate of a beam is one with a context id, in every lane.
LEMMA LastPredType ==
  ASSUME SessionInv, CacheInv, pc = "step", Mapped, NEW l \in Lanes
  PROVE  /\ LastPred(l) \in Vocab \cup {NoTok}
         /\ LastPred(l) = gen.beams[l].pred[gen.step]
<1>1. /\ gen.beams[l].pred \in Seq(Candidates) /\ Len(gen.beams[l].pred) = gen.step
      /\ gen.step \in Nat /\ gen.step >= 1
  BY StepPositions DEF CacheInv, GenHolds, BeamsOf, ActiveBeamsAreDistinct
<1>2. LastPred(l) = gen.beams[l].pred[gen.step]
  BY <1>1 DEF LastPred
<1>3. LastPred(l) \in Candidates
  <2> DEFINE pred == gen.beams[l].pred
             k    == gen.step
  <2>1. pred \in Seq(Candidates) /\ Len(pred) = k /\ k \in 1 .. k
    BY <1>1
  <2>2. pred[k] \in Candidates
    <3> HIDE DEF pred, k
    <3> QED BY <2>1
  <2> QED BY <1>2, <2>2
<1>4. LastPred(l) # Unmapped
  BY DEF Mapped
<1> QED BY <1>2, <1>3, <1>4, Environment DEF Vocab

\* A decoding step over all lanes changes one position behind the history.
LEMMA StepCells ==
  ASSUME SessionInv, CacheInv, pc = "step", gen.step < gen.n, Mapped,
         NEW error \in {"Ok", "ModelError", "NoCandidates"}
  PROVE  /\ DecodeView(StepPass2(error))
         /\ StepPass2(error).ids = gen.ids /\ StepPass2(error).hist = gen.hist
         /\ \A l \in Lanes, q \in Pos : q # StepPosition =>
              StepPass2(error).self[l][q] = self_kv[gen.slot][l][q]
         /\ error = "Ok" => \A l \in Lanes :
              StepPass2(error).self[l][StepPosition] = Conditional(LastPred(l))
<1> DEFINE after == StepPass2(error)
           each  == [l \in Lanes |-> Pass2Lane(self_kv[gen.slot][l], StepPosition,
                                               LastPred(l), error)]
<1>0. /\ gen.slot \in Slots /\ DecodeView(InCall)
      /\ InCall.self = self_kv[gen.slot] /\ InCall.fill = fill_kv
      /\ InCall.ids = gen.ids /\ InCall.hist = gen.hist
  BY CallCacheView
<1>1. /\ StepPosition \in Pos /\ gen.hist \in Nat /\ gen.hist <= StepPosition
      /\ gen.hist <= PreMax /\ PreMax \in Nat
  BY StepPositions
<1>2. /\ after.self = each /\ after.fill = fill_kv /\ after.ids = gen.ids
      /\ after.hist = gen.hist /\ GoodView(after)
  BY <1>0 DEF StepPass2, InCall, GoodView, DecodeView, IsView, ViewFields
<1>3. ASSUME NEW l \in Lanes
      PROVE  /\ each[l] \in Lane
             /\ \A q \in Pos : q # StepPosition => each[l][q] = self_kv[gen.slot][l][q]
             /\ error = "Ok" => each[l][StepPosition] = Conditional(LastPred(l))
  <2>1. self_kv[gen.slot][l] \in Lane /\ LastPred(l) \in Vocab \cup {NoTok}
    BY <1>0, LastPredType DEF DecodeView, Caches
  <2>2. each[l] = Pass2Lane(self_kv[gen.slot][l], StepPosition, LastPred(l), error)
    OBVIOUS
  <2> DEFINE lane == self_kv[gen.slot][l]
             pos  == StepPosition
             tok  == LastPred(l)
  <2>3. lane \in Lane /\ pos \in Pos /\ tok \in Vocab \cup {NoTok}
    BY <1>1, <2>1
  <2>4. /\ Pass2Lane(lane, pos, tok, error) \in Lane
        /\ \A q \in Pos : q # pos => Pass2Lane(lane, pos, tok, error)[q] = lane[q]
        /\ error = "Ok" => Pass2Lane(lane, pos, tok, error)[pos] = Conditional(tok)
    <3> HIDE DEF lane, pos, tok
    <3>1. lane \in Lane /\ pos \in Pos /\ tok \in Vocab \cup {NoTok}
      BY <2>3
    <3> QED BY ONLY <3>1, Pass2Cells, Z3, error \in {"Ok", "ModelError", "NoCandidates"}
  <2> HIDE DEF each
  <2> QED BY <2>2, <2>4
<1>4. each \in [Lanes -> Lane]
  <2>1. each = [l \in Lanes |-> each[l]]
    OBVIOUS
  <2> HIDE DEF each
  <2> QED BY <1>3, <2>1
<1> HIDE DEF after, each
<1>5. Caches(after)
  BY <1>0, <1>2, <1>4 DEF Caches, DecodeView
<1>6. ASSUME NEW l \in Lanes PROVE LaneHolds(after.self[l], gen.ids, gen.hist - 1)
  <2>1. LaneHolds(self_kv[gen.slot][l], gen.ids, gen.hist - 1)
    BY <1>0 DEF DecodeView
  <2>2. ASSUME NEW p \in 0 .. gen.hist - 1 - 1 PROVE p \in Pos /\ p # StepPosition
    BY <1>1 DEF Pos
  <2> QED BY <1>2, <1>3, <2>1, <2>2 DEF LaneHolds
<1> QED BY <1>2, <1>3, <1>5, <1>6 DEF DecodeView, after

\* The kept expansions read their parents' past and the token decoded last.
LEMMA StepKeepsCaches ==
  ASSUME SessionInv, CacheInv, step_decodes
  PROVE  CacheInv'
<1>0. pc = "step" /\ pc' = "step" /\ gen.step < gen.n /\ Mapped /\ GenInv
  BY DEF step_decodes, SessionInv
<1> DEFINE st == StepPass2("Ok")
           p  == StepPosition
           q  == first_position(gen.hist)
<1>1. PICK e \in Selections :
        /\ self_kv' = [self_kv EXCEPT ![gen.slot] =
             reorder_batch_slice(st.self, [l \in Lanes |-> e[l][1]], gen.hist, p - gen.hist + 1)]
        /\ gen' = [gen EXCEPT !.cur = StepPosition + 1, !.step = gen.step + 1,
             !.beams = [l \in Lanes |->
                [pred   |-> Append(gen.beams[e[l][1]].pred, e[l][2]),
                 active |-> gen.beams[e[l][1]].active]]]
  BY DEF step_decodes
<1> DEFINE beams == [l \in Lanes |->
                      [pred   |-> Append(gen.beams[e[l][1]].pred, e[l][2]),
                       active |-> gen.beams[e[l][1]].active]]
           self == reorder_batch_slice(st.self, [l \in Lanes |-> e[l][1]], gen.hist,
                                       p - gen.hist + 1)
<1>2. /\ p \in Pos /\ p = q + gen.step /\ q \in Nat /\ gen.step \in Nat /\ gen.step >= 1
      /\ gen.hist \in Nat /\ gen.hist <= p /\ gen.hist \in 0 .. PreMax /\ PreMax \in Nat
  BY <1>0, StepPositions
<1>3. /\ st.self \in [Lanes -> Lane]
      /\ \A l \in Lanes : LaneHolds(st.self[l], gen.ids, gen.hist - 1)
      /\ \A l \in Lanes, r \in Pos : r # p => st.self[l][r] = self_kv[gen.slot][l][r]
      /\ \A l \in Lanes : st.self[l][p] = Conditional(gen.beams[l].pred[gen.step])
  <2>1. /\ DecodeView(st) /\ st.ids = gen.ids /\ st.hist = gen.hist
        /\ \A l \in Lanes, r \in Pos : r # p => st.self[l][r] = self_kv[gen.slot][l][r]
        /\ \A l \in Lanes : st.self[l][p] = Conditional(LastPred(l))
    BY <1>0, StepCells
  <2>2. \A l \in Lanes : LastPred(l) = gen.beams[l].pred[gen.step]
    BY <1>0, LastPredType
  <2> HIDE DEF st, p
  <2> QED BY <2>1, <2>2 DEF DecodeView, Caches
<1>4. /\ gen.beams \in BeamsOf /\ DistinctBeams(gen.beams, gen.step)
      /\ gen.slot \in Slots
  BY <1>0, CallCacheView DEF CacheInv, GenHolds, ActiveBeamsAreDistinct, DistinctBeams
<1>5. beams \in BeamsOf /\ DistinctBeams(beams, gen.step + 1)
  BY <1>2, <1>4, ExpansionsDistinct
<1>6. /\ gen'.slot = gen.slot /\ gen'.n = gen.n /\ gen'.ids = gen.ids
      /\ gen'.hist = gen.hist /\ gen'.clean = gen.clean /\ gen'.beams = beams
      /\ gen'.step = gen.step + 1
  <2> HIDE DEF beams
  <2> QED BY <1>0, <1>1 DEF GenInv, GenFields, beams
<1>7. ASSUME NEW l \in Lanes
      PROVE  /\ e[l][1] \in Lanes
             /\ self[l] = MoveSlice(st.self[l], st.self[e[l][1]], gen.hist, p - gen.hist + 1)
             /\ self[l] \in Lane /\ LaneHolds(self[l], gen.ids, gen.hist - 1)
             /\ \A r \in q .. p : self[l][r] = IF r >= gen.hist THEN st.self[e[l][1]][r]
                                                               ELSE st.self[l][r]
  <2>1. e[l][1] \in Lanes
    BY DEF Selections
  <2>2. self[l] = MoveSlice(st.self[l], st.self[e[l][1]], gen.hist, p - gen.hist + 1)
    BY DEF reorder_batch_slice
  <2>3. st.self[l] \in Lane /\ st.self[e[l][1]] \in Lane
    BY <1>3, <2>1
  <2> HIDE DEF st, self, p, q
  <2>4. self[l] \in Lane
    BY <2>2, <2>3, MovedType
  <2>5. LaneHolds(self[l], gen.ids, gen.hist - 1)
    <3>1. CASE gen.hist = 0
      BY <3>1 DEF LaneHolds
    <3>2. CASE gen.hist # 0
      <4>1. gen.hist - 1 \in 0 .. PreMax /\ gen.hist - 1 <= gen.hist
        BY <1>2, <3>2
      <4> QED BY <1>2, <1>3, <2>2, <4>1, MovedKeepsHistory
    <3> QED BY <3>1, <3>2
  <2>6. ASSUME NEW r \in q .. p
        PROVE  self[l][r] = IF r >= gen.hist THEN st.self[e[l][1]][r] ELSE st.self[l][r]
    <3>1. r \in Pos /\ r \in Int
      BY <1>2 DEF Pos
    <3>2. r \in Slice(gen.hist, p - gen.hist + 1) <=> r >= gen.hist
      <4>1. gen.hist + (p - gen.hist + 1) - 1 = p /\ p \in Nat /\ r <= p
        BY <1>2 DEF Pos
      <4> QED BY <1>2, <3>1, <4>1 DEF Slice
    <3> QED BY <2>2, <3>1, <3>2 DEF MoveSlice
  <2> QED BY <2>1, <2>2, <2>4, <2>5, <2>6
<1>8. self \in [Lanes -> Lane]
  <2>1. self = [l \in Lanes |-> self[l]]
    BY DEF reorder_batch_slice
  <2> HIDE DEF self
  <2> QED BY <1>7, <2>1
<1>9. self_kv' = [self_kv EXCEPT ![gen.slot] = self] /\ self_kv'[gen.slot] = self
  BY <1>1, <1>4 DEF CacheInv, CacheTypes
<1> HIDE DEF st, self, beams
<1>10. ASSUME NEW l \in Lanes, gen.ids # <<>> \/ gen.hist = 0
       PROVE  \E m \in Lanes : self[l][q] = self_kv[gen.slot][m][q]
  <2> HIDE DEF p, q
  <2>1. q \in q .. p /\ q \in Pos /\ q # p
    BY <1>2 DEF Pos
  <2>2. self[l][q] \in {st.self[e[l][1]][q], st.self[l][q]}
    BY <1>7, <2>1
  <2> QED BY <1>3, <1>7, <2>1, <2>2
<1>11. ASSUME NEW l \in Lanes, NEW i \in 1 .. gen.step
       PROVE  self[l][q + i] = Conditional(beams[l].pred[i])
  <2>1. /\ i \in Nat /\ q + i \in q .. p /\ q + i >= gen.hist
        /\ (q + i = p <=> i = gen.step) /\ q + i \in Pos
    BY <1>2 DEF first_position, Pos
  <2>2. self[l][q + i] = st.self[e[l][1]][q + i] /\ e[l][1] \in Lanes
    BY <1>7, <2>1
  <2>3. beams[l].pred[i] = gen.beams[e[l][1]].pred[i]
    <3> DEFINE pred == gen.beams[e[l][1]].pred
               tok  == e[l][2]
    <3>1. pred \in Seq(Candidates) /\ Len(pred) = gen.step /\ tok \in Candidates
      BY <1>4, <2>2 DEF BeamsOf, DistinctBeams, Selections
    <3>2. Append(pred, tok)[i] = pred[i]
      <4> HIDE DEF pred, tok
      <4> QED BY <3>1, AppendProperties
    <3> QED BY <3>2 DEF beams
  <2>4. CASE i = gen.step
    BY <1>3, <2>1, <2>2, <2>3, <2>4
  <2>5. CASE i # gen.step
    <3>1. i \in 1 .. gen.step - 1
      BY <1>2, <2>5
    <3>2. self_kv[gen.slot][e[l][1]][q + i] = Conditional(gen.beams[e[l][1]].pred[i])
      BY <1>0, <2>2, <3>1 DEF CacheInv, BeamReadsItsOwnPast
    <3>3. st.self[e[l][1]][q + i] = self_kv[gen.slot][e[l][1]][q + i]
      BY <1>3, <2>1, <2>2, <2>5
    <3> QED BY <2>2, <2>3, <3>2, <3>3
  <2> QED BY <2>4, <2>5
<1>12. BeamReadsItsOwnPast'
  <2>1. ASSUME NEW l \in Lanes, gen.ids # <<>>
        PROVE  self[l][q] = Conditional(gen.ids[Len(gen.ids)])
    BY <1>0, <1>10, <2>1 DEF CacheInv, BeamReadsItsOwnPast
  <2>2. ASSUME NEW l \in Lanes, gen.hist = 0 PROVE self[l][q] = Conditional(BOS)
    BY <1>0, <1>10, <2>2 DEF CacheInv, BeamReadsItsOwnPast
  <2>3. \A i \in 1 .. gen'.step - 1 : i \in 1 .. gen.step
    BY <1>2, <1>6
  <2>4. first_position(gen'.hist) = q
    BY <1>6
  <2> HIDE DEF q
  <2> QED BY <1>6, <1>9, <1>11, <2>1, <2>2, <2>3, <2>4 DEF BeamReadsItsOwnPast, Conditional
<1>13. ActiveBeamsAreDistinct'
  BY <1>5, <1>6 DEF ActiveBeamsAreDistinct, DistinctBeams
<1>14. UNCHANGED <<context_ids, history_seqlen, ret, fill_kv>> /\ fill_kv \in Lane
  BY DEF step_decodes, CacheInv, CacheTypes
<1> QED BY <1>0, <1>5, <1>6, <1>7, <1>8, <1>9, <1>12, <1>13, <1>14, DecodedKeepsCaches

\* Every other decoding step ends the generation.
LEMMA StopKeepsCaches ==
  ASSUME SessionInv, CacheInv,
         \/ first_decode_stops \/ step_stops_before_decoding
         \/ step_stops_after_decoding \/ generate_returns
  PROVE  CacheInv'
<1>0. pc # "idle"
  BY DEF first_decode_stops, step_stops_before_decoding, step_stops_after_decoding,
     generate_returns
<1>1. /\ gen.slot \in Slots /\ DecodeView(InCall) /\ GenInv
      /\ InCall.ids = gen.ids /\ InCall.hist = gen.hist
  BY <1>0, CallCacheView DEF SessionInv
<1>2. ASSUME NEW st, DecodeView(st), st.ids = gen.ids, st.hist = gen.hist
      PROVE  DecodeView(RolledBack(st)) /\ RolledBack(st).ids = gen.ids
             /\ RolledBack(st).hist = gen.hist
  <2>1. RolledBack(st).self = st.self /\ RolledBack(st).fill = st.fill
    BY <1>2 DEF RolledBack, DecodeView, GoodView, IsView, ViewFields
  <2> QED BY <1>2, <2>1, CursorReset DEF DecodeView, Caches
<1>3. {"Ok", "Cancelled", "NoCandidates", "ModelError", "InvalidArgument"} \subseteq Errors
  BY DEF Errors
<1>4. \A error \in Pass2Errors : error \in {"Ok", "ModelError", "NoCandidates"}
  BY DEF Pass2Errors
<1>5. CASE first_decode_stops
  <2>1. PICK tok \in FirstQueries, error \in Pass2Errors :
          \/ Finish(RolledBack(FirstPass2(InCall, tok, error)), "Cancelled")
          \/ Finish(FirstPass2(InCall, tok, error), IF error = "Ok" THEN "NoCandidates" ELSE error)
    BY <1>5 DEF first_decode_stops
  <2>2. tok \in Vocab \cup {NoTok}
    <3>1. gen.ids # <<>> => gen.ids[Len(gen.ids)] \in Vocab
      BY <1>1 DEF GenInv, History
    <3> QED BY <3>1 DEF FirstQueries, Vocab
  <2>3. /\ DecodeView(FirstPass2(InCall, tok, error))
        /\ FirstPass2(InCall, tok, error).ids = gen.ids
        /\ FirstPass2(InCall, tok, error).hist = gen.hist
    <3>1. /\ FirstPass2(InCall, tok, error).ids = InCall.ids
          /\ FirstPass2(InCall, tok, error).hist = InCall.hist
      BY <1>1 DEF FirstPass2, DecodeView, GoodView, IsView, ViewFields
    <3> QED BY <1>1, <1>4, <2>2, <3>1, FirstPass2Decodes
  <2> QED BY <1>0, <1>2, <1>3, <1>4, <2>1, <2>3, FinishKeepsCaches
<1>6. CASE step_stops_before_decoding
  <2>1. Finish(RolledBack(InCall), "Cancelled") \/ Finish(RolledBack(InCall), "InvalidArgument")
    BY <1>6 DEF step_stops_before_decoding
  <2> QED BY <1>0, <1>1, <1>2, <1>3, <2>1, FinishKeepsCaches
<1>7. CASE step_stops_after_decoding
  <2>1. PICK error \in Pass2Errors :
          \/ Finish(RolledBack(StepPass2(error)), "Cancelled")
          \/ Finish(RolledBack(StepPass2(error)), IF error = "Ok" THEN "NoCandidates" ELSE error)
    BY <1>7 DEF step_stops_after_decoding
  <2>2. pc = "step" /\ gen.step < gen.n /\ Mapped
    BY <1>7 DEF step_stops_after_decoding
  <2>3. /\ DecodeView(StepPass2(error)) /\ StepPass2(error).ids = gen.ids
        /\ StepPass2(error).hist = gen.hist
    BY <1>4, <2>2, StepCells
  <2> QED BY <1>0, <1>2, <1>3, <1>4, <2>1, <2>3, FinishKeepsCaches
<1>8. CASE generate_returns
  BY <1>0, <1>1, <1>3, <1>8, FinishKeepsCaches DEF generate_returns
<1> QED BY <1>5, <1>6, <1>7, <1>8

\* SessionInv and CacheInv together are inductive.
LEMMA NextKeepsCaches == SessionInv /\ CacheInv /\ [Next]_vars => CacheInv'
<1> SUFFICES ASSUME SessionInv, CacheInv, [Next]_vars PROVE CacheInv'
  OBVIOUS
<1>1. CASE \E s \in Slots : Calls(s)
  <2>1. PICK s \in Slots : Calls(s)
    BY <1>1
  <2>2. <<>> \in Seq(Vocab \cup {BadId}) /\ Snapshots \subseteq Seq(Vocab \cup {BadId})
    BY Environment
  <2> QED BY <2>1, <2>2, CallKeepsCaches, StartKeepsCaches DEF Calls, generate
<1>2. CASE Decoding
  BY <1>2, FirstKeepsCaches, StepKeepsCaches, StopKeepsCaches DEF Decoding
<1>3. CASE UNCHANGED vars
  BY <1>3 DEF vars, CacheInv, CacheTypes, SlotHolds, LaneHolds, Generating, GenHolds,
     BeamReadsItsOwnPast, ActiveBeamsAreDistinct
<1> QED BY <1>1, <1>2, <1>3 DEF Next

\* So both always hold.
LEMMA CachesAlwaysHold == Spec => [](SessionInv /\ CacheInv)
<1>1. SessionInv /\ CacheInv /\ [Next]_vars => SessionInv' /\ CacheInv'
  BY NextKeepsHistories, NextKeepsCaches
<1> QED BY <1>1, InitHistory, InitCaches, PTL DEF Spec

-----------------------------------------------------------------------------
(* Theorems *)

\* What is known of the session and of its caches types every variable.
LEMMA TypesFollow ==
  ASSUME SessionInv, CacheInv
  PROVE  TypeOK
<1>1. \A hist, cur \in Nat : hist <= 1 + MaxHistory /\ cur <= hist + MaxPinyin
                             => hist \in 0 .. PreMax /\ cur \in 0 .. PreMax
  BY SessionConfig, CacheShape
<1>2. \A ids, cur, hist : History(ids, cur, hist) =>
        ids \in Seq(Vocab) /\ hist \in 0 .. PreMax /\ cur \in 0 .. PreMax
  <2> SUFFICES ASSUME NEW ids, NEW cur, NEW hist, History(ids, cur, hist)
               PROVE  ids \in Seq(Vocab) /\ hist \in 0 .. PreMax /\ cur \in 0 .. PreMax
    OBVIOUS
  <2>1. hist \in Nat /\ cur \in Nat /\ hist <= 1 + MaxHistory /\ cur <= hist + MaxPinyin
    BY SessionConfig DEF History
  <2> QED BY <1>1, <2>1 DEF History
<1>3. SlotsTypeOK
  BY <1>2 DEF SessionInv, SlotsInv, CacheInv, CacheTypes, SlotsTypeOK, Lane
<1>4. gen \in [slot : Slots \cup {NoSlot}, n : 0 .. MaxPinyin, step : 0 .. MaxPinyin,
               ids : Seq(Vocab), cur : 0 .. PreMax, hist : 0 .. PreMax, clean : Cell,
               beams : [Lanes -> [pred : Seq(Candidates), active : BOOLEAN]]]
  <2>1. CASE pc = "idle"
    <3>1. gen = IdleGen
      BY <2>1 DEF CacheInv
    <3>2. 0 \in 0 .. MaxPinyin /\ 0 \in 0 .. PreMax /\ <<>> \in Seq(Vocab)
          /\ NoBeam \in [pred : Seq(Candidates), active : BOOLEAN]
      BY SessionConfig, CacheShape DEF NoBeam
    <3> QED BY <3>1, <3>2, SpecialCells DEF IdleGen
  <2>2. CASE pc # "idle"
    <3>1. GenInv /\ GenHolds /\ pc \in {"first", "step"}
      BY <2>2 DEF SessionInv, CacheInv
    <3>2. gen.step \in 0 .. MaxPinyin /\ gen.n \in 0 .. MaxPinyin
      BY <3>1, SessionConfig DEF GenInv, GenHolds
    <3>3. gen.ids \in Seq(Vocab) /\ gen.hist \in 0 .. PreMax /\ gen.cur \in 0 .. PreMax
      BY <1>2, <3>1 DEF GenInv
    <3> QED BY <3>1, <3>2, <3>3 DEF GenInv, GenHolds, GenFields, BeamsOf
  <2> QED BY <2>1, <2>2
<1> QED BY <1>3, <1>4 DEF TypeOK, SessionInv, CacheInv, CacheTypes, Lane

\* Every variable of the session and its slots keeps the type the program gives it,
\* the cursors and positions within the cache.
THEOREM SessionTypesHold == Spec => []TypeOK
<1> QED BY TypesFollow, CachesAlwaysHold, PTL

\* And what is committed is causal.
LEMMA CausalFollows ==
  ASSUME Roomy, SessionInv, CacheInv
  PROVE  CommittedHistoryIsCausal
<1> SUFFICES ASSUME NEW s \in Slots, NEW p \in 0 .. CommittedLen(s) - 1,
                    NEW c \in IF Generating(s) /\ pc = "step" /\ p = gen.hist - 1
                              THEN {gen.clean} ELSE {self_kv[s][l][p] : l \in Lanes}
             PROVE  IsHistoryCell(c, CommittedIds(s), p)
  BY DEF CommittedHistoryIsCausal
<1>1. CASE ~Generating(s)
  <2>1. SlotHolds(s) /\ CommittedIds(s) = context_ids[s] /\ CommittedLen(s) = history_seqlen[s]
    BY <1>1 DEF CacheInv, CommittedIds, CommittedLen
  <2> QED BY <1>1, <2>1 DEF SlotHolds, LaneHolds
<1>2. CASE Generating(s)
  <2>1. /\ GenHolds /\ GenInv /\ pc \in {"first", "step"} /\ gen.slot = s
        /\ CommittedIds(s) = gen.ids /\ CommittedLen(s) = gen.hist /\ gen.hist \in Nat
    BY <1>2 DEF SessionInv, CacheInv, Generating, CommittedIds, CommittedLen,
       GenInv, History
  <2>2. CASE pc = "step" /\ p = gen.hist - 1
    <3>1. gen.hist > 0 /\ c = gen.clean
      BY <1>2, <2>1, <2>2
    <3> QED BY <2>1, <2>2, <3>1 DEF GenHolds
  <2>3. CASE pc = "step" /\ p # gen.hist - 1
    <3>1. p \in 0 .. gen.hist - 1 - 1
      BY <2>1, <2>3
    <3> QED BY <1>2, <2>1, <2>3, <3>1 DEF GenHolds, LaneHolds
  <2>4. CASE pc = "first"
    BY <1>2, <2>1, <2>4 DEF GenHolds, LaneHolds
  <2> QED BY <2>1, <2>2, <2>3, <2>4
<1> QED BY <1>1, <1>2

\* Whatever calls, cancellations and failed executions come, in whatever order and
\* on whatever slots: the committed history of every slot is causal state of its
\* own text, in every lane.
THEOREM CommittedHistoryIsAlwaysCausal ==
  ASSUME MaxHistory <= SlotCapacity
  PROVE  Spec => []CommittedHistoryIsCausal
<1>1. Roomy
  BY DEF Roomy
<1>2. SessionInv /\ CacheInv => CommittedHistoryIsCausal
  BY <1>1, CausalFollows
<1> QED BY <1>2, CachesAlwaysHold, PTL

\* Before every decoding step each lane reads its own beam: parents that are
\* reordered, dropped or taken several times never mix two beams' pasts.
THEOREM BeamsAlwaysReadTheirOwnPast == Spec => []BeamReadsItsOwnPast
<1>1. CacheInv => BeamReadsItsOwnPast
  BY DEF CacheInv
<1> QED BY <1>1, CachesAlwaysHold, PTL

\* However many candidates the model leaves, the active beams are distinct and at
\* least one of them is left.
THEOREM ActiveBeamsAreAlwaysDistinct == Spec => []ActiveBeamsAreDistinct
<1>1. CacheInv => ActiveBeamsAreDistinct
  BY DEF CacheInv
<1> QED BY <1>1, CachesAlwaysHold, PTL

-----------------------------------------------------------------------------
(* The refinement *)

\* A generation starts below the maximum.
Below(ids) == IF Len(ids) >= MaxHistory THEN LastIds(ids, eviction_target) ELSE ids

\* What a generation is prepared from: its snapshot, or what is there.
Base(s, context) == IF context = <<>> THEN context_ids[s] ELSE Window(without_bos(context))

\* Preparing a generation leaves the window of what was there or of the snapshot,
\* refuses the snapshot, or fails to replace what was there with it.
LEMMA PreparedText ==
  ASSUME NEW s, GoodView(sync_from_context(s)), NEW context \in Seq(Vocab \cup {BadId}), NEW fails
  PROVE  /\ HasBadId(context) => /\ Prepared(s, context, fails).err = "InvalidArgument"
                                 /\ Prepared(s, context, fails).st.ids = context_ids[s]
         /\ ~HasBadId(context) =>
              \/ Prepared(s, context, fails).st.ids = Below(Base(s, context))
              \/ /\ context # <<>>
                 /\ Prepared(s, context, fails).err # "Ok"
                 /\ Prepared(s, context, fails).st.ids = Undo(context_ids[s], without_bos(context))
<1> DEFINE from  == sync_from_context(s)
           given == IF context = <<>> THEN Outcome(from, "Ok")
                    ELSE replace_context_impl(from, context, fails)
           out   == Prepared(s, context, fails)
           base  == Base(s, context)
           left  == Undo(context_ids[s], without_bos(context))
<1>0. from.ids = context_ids[s] /\ (HasBadId(context) => context # <<>>)
  BY DEF sync_from_context, HasBadId
<1>1. GoodOutcome(given)
  <2>1. CASE context = <<>>
    BY <2>1 DEF GoodOutcome, Outcome
  <2>2. CASE context # <<>>
    BY <1>0, <2>2, ReplaceOutcome
  <2> QED BY <2>1, <2>2
<1>2. CASE HasBadId(context)
  <2>1. given = Outcome(from, "InvalidArgument")
    BY <1>0, <1>2, ReplaceText
  <2>2. out = given
    BY <2>1 DEF Prepared, Outcome
  <2> HIDE DEF out, given
  <2> QED BY <1>0, <1>2, <2>1, <2>2 DEF Outcome, out
<1>3. ASSUME ~HasBadId(context)
      PROVE  \/ given.err = "Ok" /\ given.st.ids = base
             \/ given.err # "Ok" /\ context # <<>> /\ given.st.ids = left
  <2>1. CASE context = <<>>
    BY <1>0, <2>1 DEF Outcome, Base
  <2>2. CASE context # <<>>
    <3>1. Commits(given, left, Window(without_bos(context)))
      BY <1>0, <1>3, <2>2, ReplaceText
    <3>2. Window(without_bos(context)) = base
      BY <2>2 DEF Base
    <3> HIDE DEF given, base, left
    <3> QED BY <2>2, <3>1, <3>2 DEF Commits
  <2> QED BY <2>1, <2>2
<1>4. /\ given.st.ids \in Seq(Vocab) /\ Len(given.st.ids) \in Nat
      /\ Len(given.st.ids) <= MaxHistory /\ MaxHistory \in Nat
  BY <1>1, SessionConfig DEF GoodOutcome, GoodView, History
<1>5. CASE ~HasBadId(context) /\ given.err # "Ok"
  <2>1. out = given
    BY <1>5 DEF Prepared
  <2> HIDE DEF given, out, base, left
  <2> QED BY <1>3, <1>5, <2>1 DEF out, left
<1>6. CASE ~HasBadId(context) /\ given.err = "Ok"
  <2>1. out.st.ids = Below(given.st.ids)
    <3>1. CASE ~(Len(given.st.ids) >= MaxHistory)
      BY <1>6, <3>1 DEF Prepared, Below
    <3>2. CASE Len(given.st.ids) >= MaxHistory
      <4>1. out = truncate_history(given.st, eviction_target)
        BY <1>6, <3>2 DEF Prepared
      <4>2. Below(given.st.ids) = LastIds(given.st.ids, eviction_target)
        BY <3>2 DEF Below
      <4>3. CASE eviction_target < 0 \/ eviction_target >= Len(given.st.ids)
        <5>1. out.st = given.st
          BY <4>1, <4>3 DEF truncate_history, Outcome
        <5>2. eviction_target = Len(given.st.ids)
          <6> HIDE DEF given
          <6> QED BY <1>4, <3>2, <4>3, EvictionTarget
        <5> HIDE DEF given, out
        <5> QED BY <1>4, <4>2, <5>1, <5>2, NewestNoneOrAll
      <4>4. CASE ~(eviction_target < 0 \/ eviction_target >= Len(given.st.ids))
        <5>1. out.st = EvictTo(given.st, eviction_target)
          BY <4>1, <4>4 DEF truncate_history, Outcome
        <5> HIDE DEF given, out
        <5> QED BY <4>2, <5>1 DEF EvictTo
      <4> QED BY <4>3, <4>4
    <3> QED BY <3>1, <3>2
  <2> HIDE DEF given, out, base, left
  <2> QED BY <1>3, <1>6, <2>1 DEF out, base
<1> QED BY <1>2, <1>5, <1>6

\* The ledger's windows and remainders are the session's.
LEMMA LedgerWindows ==
  ASSUME NEW ids, NEW old
  PROVE  /\ Ledger!Windowed(ids) = Window(ids) /\ Ledger!BelowMax(ids) = Below(ids)
         /\ Ledger!Plain(ids) = without_bos(ids)
         /\ Ledger!Known(ids) <=> ~HasBadId(ids)
         /\ Ledger!Spared(old, ids) = Spare(old, ids)
         /\ Ledger!Undone(old, ids) = Undo(old, ids)
<1>1. \A k : Ledger!Newest(ids, k) = LastIds(ids, k)
  BY DEF Ledger!Newest, LastIds
<1>2. \A k : Ledger!Newest(old, k) = LastIds(old, k)
  BY DEF Ledger!Newest, LastIds
<1>3. Ledger!Windowed(ids) = Window(ids) /\ Ledger!BelowMax(ids) = Below(ids)
  BY <1>1 DEF Ledger!Windowed, Ledger!BelowMax, Window, Below
<1>4. Ledger!Plain(ids) = without_bos(ids) /\ (Ledger!Known(ids) <=> ~HasBadId(ids))
  BY DEF Ledger!Plain, without_bos, Ledger!Known, HasBadId
<1>5. Ledger!Spared(old, ids) = Spare(old, ids)
  BY <1>2 DEF Ledger!Spared, Spare
<1>6. Ledger!Undone(old, ids) = Undo(old, ids)
  BY <1>3 DEF Ledger!Undone, Undo, Ledger!IsPrefix, IsPrefix
<1> QED BY <1>3, <1>4, <1>5, <1>6

\* The text of every slot, and the answer, as the ledger sees them.
CommittedTexts == [s \in Slots |-> CommittedIds(s)]
LastAnswer       == IF pc = "idle" THEN ret.err ELSE "Pending"

\* A call that ends with a history no generation is in progress on writes one text.
LEMMA SyncText ==
  ASSUME MaxHistory <= SlotCapacity, SlotsInv, pc = "idle", pc' = "idle",
         NEW s \in Slots, NEW out, GoodView(out.st), sync_to_context(s, out)
  PROVE  /\ CommittedTexts' = [CommittedTexts EXCEPT ![s] = out.st.ids]
         /\ LastAnswer' = out.err
<1>1. Fits(out.st.ids)
  <2>1. Len(out.st.ids) \in Nat /\ Len(out.st.ids) <= MaxHistory
    BY DEF GoodView, History
  <2> QED BY <2>1, SessionConfig, SlotConfig DEF Fits
<1>2. context_ids' = [context_ids EXCEPT ![s] = out.st.ids] /\ LastAnswer' = out.err
  BY <1>1 DEF sync_to_context, WriteMeta, LastAnswer
<1>3. /\ CommittedTexts = [r \in Slots |-> context_ids[r]]
      /\ CommittedTexts' = [r \in Slots |-> context_ids'[r]]
  BY DEF CommittedTexts, CommittedIds, Generating
<1> QED BY <1>2, <1>3 DEF SlotsInv

\* One that writes a text and answers is a Put of the ledger, when no other decodes.
LEMMA PutText ==
  ASSUME pc = "idle", CacheTypes, NEW s, NEW ids, NEW answers,
         CommittedTexts' = [CommittedTexts EXCEPT ![s] = ids], LastAnswer' \in answers
  PROVE  Ledger!Put(s, ids, answers)
<1>1. LastAnswer # "Pending"
  BY DEF CacheTypes, LastAnswer, Errors
<1> QED BY <1>1 DEF Ledger!Put, CommittedTexts, LastAnswer

\* What every call starts from.
LEMMA CallStarts ==
  ASSUME SessionInv, CacheInv, pc = "idle", NEW s \in Slots
  PROVE  /\ SlotsInv /\ CacheTypes
         /\ GoodView(sync_from_context(s)) /\ sync_from_context(s).ids = context_ids[s]
         /\ CommittedTexts[s] = context_ids[s]
BY SlotView DEF SessionInv, CacheInv, sync_from_context, CommittedTexts, CommittedIds, Generating

\* reset clears the text.
LEMMA ResetImplements ==
  ASSUME SessionInv, CacheInv, NEW s \in Slots, reset(s)
  PROVE  Ledger!Reset(s)
<1>0. pc = "idle" /\ pc' = "idle"
  BY DEF reset
<1>1. SlotsInv /\ CacheTypes
  BY <1>0, CallStarts
<1>2. /\ context_ids' = [context_ids EXCEPT ![s] = SubSeq(context_ids[s], 1, 0)]
      /\ ret'.err = "Ok"
  BY DEF reset, WriteMeta, truncate_context_ids, Meta
<1>3. SubSeq(context_ids[s], 1, 0) = <<>>
  BY SubSeqEmpty
<1>4. /\ CommittedTexts = [r \in Slots |-> context_ids[r]]
      /\ CommittedTexts' = [r \in Slots |-> context_ids'[r]]
  BY <1>0 DEF CommittedTexts, CommittedIds, Generating
<1>5. CommittedTexts' = [CommittedTexts EXCEPT ![s] = <<>>]
  BY <1>1, <1>2, <1>3, <1>4 DEF SlotsInv
<1>6. LastAnswer' \in {"Ok"}
  BY <1>0, <1>2 DEF LastAnswer
<1> QED BY <1>0, <1>1, <1>5, <1>6, PutText DEF Ledger!Reset

\* fill is the ledger's fill of the same ids.
LEMMA FillImplements ==
  ASSUME MaxHistory <= SlotCapacity, SessionInv, CacheInv,
         NEW s \in Slots, NEW ids \in FillArgs, fill(s, ids)
  PROVE  Ledger!Fill(s, ids)
<1>0. pc = "idle" /\ pc' = "idle" /\ ids \in Seq(Vocab \cup {BadId})
  BY Environment DEF fill
<1>1. /\ SlotsInv /\ CacheTypes
      /\ GoodView(sync_from_context(s)) /\ sync_from_context(s).ids = context_ids[s]
      /\ CommittedTexts[s] = context_ids[s]
  BY <1>0, CallStarts
<1>2. PICK fails \in Faults : sync_to_context(s, fill_impl(sync_from_context(s), ids, fails))
  BY DEF fill
<1> DEFINE out == fill_impl(sync_from_context(s), ids, fails)
<1>3. GoodOutcome(out)
  BY <1>0, <1>1, FillOutcome
<1>4. CommittedTexts' = [CommittedTexts EXCEPT ![s] = out.st.ids] /\ LastAnswer' = out.err
  BY <1>0, <1>1, <1>2, <1>3, SyncText DEF GoodOutcome
<1>5. /\ HasBadId(ids) => out.err = "InvalidArgument" /\ out.st.ids = CommittedTexts[s]
      /\ ~HasBadId(ids) => Commits(out, Spare(CommittedTexts[s], without_bos(ids)),
                                   Window(CommittedTexts[s] \o without_bos(ids)))
  BY <1>0, <1>1, FillText DEF Outcome
<1>6. out.err \in Errors
  BY <1>3 DEF GoodOutcome, Errors
<1> HIDE DEF out
<1>7. \A answers : LastAnswer' \in answers => Ledger!Put(s, out.st.ids, answers)
  BY <1>0, <1>1, <1>4, PutText
<1>8. CASE HasBadId(ids)
  <2>1. Ledger!Put(s, CommittedTexts[s], {"InvalidArgument"})
    BY <1>4, <1>5, <1>7, <1>8
  <2> QED BY <1>8, <2>1, LedgerWindows DEF Ledger!Fill, Ledger!Refuse, CommittedTexts
<1>9. CASE ~HasBadId(ids) /\ out.err = "Ok"
  <2>1. Ledger!Put(s, Window(CommittedTexts[s] \o without_bos(ids)), {"Ok"})
    BY <1>4, <1>5, <1>7, <1>9 DEF Commits
  <2> QED BY <1>9, <2>1, LedgerWindows DEF Ledger!Fill, CommittedTexts
<1>10. CASE ~HasBadId(ids) /\ out.err # "Ok"
  <2>1. Ledger!Put(s, Spare(CommittedTexts[s], without_bos(ids)), Errors \ {"Ok"})
    BY <1>4, <1>5, <1>6, <1>7, <1>10 DEF Commits
  <2> QED BY <1>10, <2>1, LedgerWindows DEF Ledger!Fill, CommittedTexts
<1> QED BY <1>8, <1>9, <1>10

\* replace_context is the ledger's replacement by the same ids.
LEMMA ReplaceImplements ==
  ASSUME MaxHistory <= SlotCapacity, SessionInv, CacheInv,
         NEW s \in Slots, NEW ids \in ContextArgs, replace_context(s, ids)
  PROVE  Ledger!Replace(s, ids)
<1>0. pc = "idle" /\ pc' = "idle" /\ ids \in Seq(Vocab \cup {BadId})
  BY Environment DEF replace_context
<1>1. /\ SlotsInv /\ CacheTypes
      /\ GoodView(sync_from_context(s)) /\ sync_from_context(s).ids = context_ids[s]
      /\ CommittedTexts[s] = context_ids[s]
  BY <1>0, CallStarts
<1>2. PICK fails \in Faults :
        sync_to_context(s, replace_context_impl(sync_from_context(s), ids, fails))
  BY DEF replace_context
<1> DEFINE out == replace_context_impl(sync_from_context(s), ids, fails)
<1>3. GoodOutcome(out)
  BY <1>0, <1>1, ReplaceOutcome
<1>4. CommittedTexts' = [CommittedTexts EXCEPT ![s] = out.st.ids] /\ LastAnswer' = out.err
  BY <1>0, <1>1, <1>2, <1>3, SyncText DEF GoodOutcome
<1>5. /\ HasBadId(ids) => out.err = "InvalidArgument" /\ out.st.ids = CommittedTexts[s]
      /\ ~HasBadId(ids) => Commits(out, Undo(CommittedTexts[s], without_bos(ids)),
                                   Window(without_bos(ids)))
  BY <1>0, <1>1, ReplaceText DEF Outcome
<1>6. out.err \in Errors
  BY <1>3 DEF GoodOutcome, Errors
<1> HIDE DEF out
<1>7. \A answers : LastAnswer' \in answers => Ledger!Put(s, out.st.ids, answers)
  BY <1>0, <1>1, <1>4, PutText
<1>8. CASE HasBadId(ids)
  <2>1. Ledger!Put(s, CommittedTexts[s], {"InvalidArgument"})
    BY <1>4, <1>5, <1>7, <1>8
  <2> QED BY <1>8, <2>1, LedgerWindows DEF Ledger!Replace, Ledger!Refuse, CommittedTexts
<1>9. CASE ~HasBadId(ids) /\ out.err = "Ok"
  <2>1. Ledger!Put(s, Window(without_bos(ids)), {"Ok"})
    BY <1>4, <1>5, <1>7, <1>9 DEF Commits
  <2> QED BY <1>9, <2>1, LedgerWindows DEF Ledger!Replace
<1>10. CASE ~HasBadId(ids) /\ out.err # "Ok"
  <2>1. Ledger!Put(s, Undo(CommittedTexts[s], without_bos(ids)), Errors \ {"Ok"})
    BY <1>4, <1>5, <1>6, <1>7, <1>10 DEF Commits
  <2> QED BY <1>10, <2>1, LedgerWindows DEF Ledger!Replace, CommittedTexts
<1> QED BY <1>8, <1>9, <1>10

\* A generation that leaves what its preparation left, and answers or goes on, is the
\* ledger's generation with the same snapshot.
LEMMA PreparationImplements ==
  ASSUME SessionInv, CacheInv, pc = "idle", NEW s \in Slots, NEW context \in Snapshots, NEW fails,
         CommittedTexts' = [CommittedTexts EXCEPT ![s] = Prepared(s, context, fails).st.ids],
         IF Prepared(s, context, fails).err = "Ok"
         THEN LastAnswer' \in Errors \cup {"Pending"}
         ELSE LastAnswer' = Prepared(s, context, fails).err
  PROVE  Ledger!Generate(s, context)
<1> DEFINE out == Prepared(s, context, fails)
<1>1. /\ SlotsInv /\ CacheTypes /\ GoodView(sync_from_context(s))
      /\ CommittedTexts[s] = context_ids[s] /\ context \in Seq(Vocab \cup {BadId})
  BY CallStarts, Environment
<1>2. GoodOutcome(out)
  BY <1>1, PreparedOutcome
<1>3. LastAnswer' \in Errors \cup {"Pending"} /\ (out.err # "Ok" => LastAnswer' \in Errors \ {"Ok"})
  <2> HIDE DEF out
  <2> QED BY <1>2 DEF GoodOutcome, Errors, out
<1>4. /\ HasBadId(context) => out.err = "InvalidArgument" /\ out.st.ids = context_ids[s]
      /\ ~HasBadId(context) =>
           \/ out.st.ids = Below(Base(s, context))
           \/ /\ context # <<>> /\ out.err # "Ok"
              /\ out.st.ids = Undo(context_ids[s], without_bos(context))
  BY <1>1, PreparedText
<1>5. \A answers : LastAnswer' \in answers => Ledger!Put(s, out.st.ids, answers)
  BY <1>1, PutText
<1>6. Ledger!Base(s, context) = Base(s, context)
  <2>1. Ledger!Windowed(Ledger!Plain(context)) = Window(without_bos(context))
    BY LedgerWindows
  <2> QED BY <1>1, <2>1 DEF Ledger!Base, Base, CommittedTexts
<1>7. CASE HasBadId(context)
  <2>1. LastAnswer' \in {"InvalidArgument"}
    BY <1>4, <1>7
  <2> HIDE DEF out
  <2>2. Ledger!Put(s, CommittedTexts[s], {"InvalidArgument"})
    BY <1>1, <1>4, <1>5, <1>7, <2>1
  <2> QED BY <1>7, <2>2, LedgerWindows DEF Ledger!Generate, Ledger!Refuse, CommittedTexts
<1>8. CASE ~HasBadId(context) /\ out.st.ids = Below(Base(s, context))
  <2> HIDE DEF out
  <2>1. LastAnswer' \in {"Ok", "Pending"} \cup (Errors \ {"Ok"})
    BY <1>3
  <2>2. Ledger!Put(s, Ledger!BelowMax(Ledger!Base(s, context)),
                   {"Ok", "Pending"} \cup (Errors \ {"Ok"}))
    <3>1. out.st.ids = Ledger!BelowMax(Ledger!Base(s, context))
      BY <1>6, <1>8, LedgerWindows
    <3> QED BY <1>5, <2>1, <3>1
  <2> QED BY <1>8, <2>2, LedgerWindows DEF Ledger!Generate
<1>9. CASE /\ ~HasBadId(context) /\ context # <<>> /\ out.err # "Ok"
           /\ out.st.ids = Undo(context_ids[s], without_bos(context))
  <2> HIDE DEF out
  <2>1. Ledger!Put(s, Undo(CommittedTexts[s], without_bos(context)), Errors \ {"Ok"})
    BY <1>1, <1>3, <1>5, <1>9
  <2> QED BY <1>9, <2>1, LedgerWindows DEF Ledger!Generate, CommittedTexts
<1> HIDE DEF out
<1> QED BY <1>4, <1>7, <1>8, <1>9

\* A generation that ends before the decoder is reached.
LEMMA EarlyEndImplements ==
  ASSUME MaxHistory <= SlotCapacity, SessionInv, CacheInv,
         NEW s \in Slots, NEW context \in Snapshots,
         \/ generate_returns_early(s, context) \/ generate_cancelled(s, context)
         \/ generate_rejected(s, context)
  PROVE  Ledger!Generate(s, context)
<1>0. pc = "idle" /\ pc' = "idle"
  BY DEF generate_returns_early, generate_cancelled, generate_rejected
<1>1. /\ SlotsInv /\ GoodView(sync_from_context(s)) /\ context \in Seq(Vocab \cup {BadId})
  BY <1>0, CallStarts, Environment
<1>2. ASSUME NEW fails, NEW st, NEW error \in Errors, GoodView(st),
             st.ids = Prepared(s, context, fails).st.ids,
             Prepared(s, context, fails).err # "Ok" => error = Prepared(s, context, fails).err,
             sync_to_context(s, Outcome(st, error))
      PROVE  Ledger!Generate(s, context)
  <2>1. CommittedTexts' = [CommittedTexts EXCEPT ![s] = st.ids] /\ LastAnswer' = error
    BY <1>0, <1>1, <1>2, SyncText DEF Outcome
  <2> QED BY <1>0, <1>2, <2>1, PreparationImplements
<1>3. CASE generate_returns_early(s, context)
  <2>1. PICK fails \in Faults :
          LET out == Prepared(s, context, fails)
          IN  \E error \in IF out.err # "Ok" THEN {out.err} ELSE {"Ok", "InvalidArgument"} :
                sync_to_context(s, Outcome(out.st, error))
    BY <1>3 DEF generate_returns_early
  <2> DEFINE out == Prepared(s, context, fails)
  <2>2. PICK error \in IF out.err # "Ok" THEN {out.err} ELSE {"Ok", "InvalidArgument"} :
          sync_to_context(s, Outcome(out.st, error))
    BY <2>1
  <2>3. GoodOutcome(out)
    BY <1>1, PreparedOutcome
  <2>4. error \in Errors /\ (out.err # "Ok" => error = out.err)
    BY <2>2, <2>3 DEF GoodOutcome, Errors
  <2> QED BY <1>2, <2>2, <2>3, <2>4 DEF GoodOutcome
<1>4. CASE generate_cancelled(s, context)
  <2>1. PICK fails \in Faults :
          LET out == Prepared(s, context, fails)
          IN  out.err = "Ok" /\ sync_to_context(s, Outcome(RolledBack(out.st), "Cancelled"))
    BY <1>4 DEF generate_cancelled
  <2> DEFINE st == RolledBack(Prepared(s, context, fails).st)
  <2>2. GoodView(st) /\ st.ids = Prepared(s, context, fails).st.ids
    BY <1>1, PreparedOutcome, CursorReset DEF GoodOutcome
  <2>3. "Cancelled" \in Errors
    BY DEF Errors
  <2> QED BY <1>2, <2>1, <2>2, <2>3
<1>5. CASE generate_rejected(s, context)
  <2>1. PICK fails \in Faults, n \in 1 .. MaxPinyin + 1 :
          LET out == Prepared(s, context, fails)
              st  == IF n > MaxPinyin THEN out.st ELSE Rewound(out.st)
          IN  /\ out.err = "Ok"
              /\ \E error \in Rejections(st.hist, n) : sync_to_context(s, Outcome(st, error))
    BY <1>5 DEF generate_rejected
  <2> DEFINE out == Prepared(s, context, fails)
             st  == IF n > MaxPinyin THEN out.st ELSE Rewound(out.st)
  <2>2. GoodView(st) /\ st.ids = out.st.ids
    BY <1>1, PreparedOutcome, CursorReset DEF GoodOutcome
  <2>3. PICK error \in Rejections(st.hist, n) : sync_to_context(s, Outcome(st, error))
    BY <2>1
  <2>4. error \in Errors
    BY DEF Errors, Rejections
  <2> QED BY <1>2, <2>1, <2>2, <2>3, <2>4
<1> QED BY <1>3, <1>4, <1>5

\* One that goes on has committed its preparation.
LEMMA StartImplements ==
  ASSUME SessionInv, CacheInv, NEW s \in Slots, NEW context \in Snapshots,
         generate_starts(s, context)
  PROVE  Ledger!Generate(s, context)
<1>0. pc = "idle" /\ GoodView(sync_from_context(s)) /\ context \in Seq(Vocab \cup {BadId})
      /\ SlotsInv
  BY CallStarts, Environment DEF generate_starts
<1>1. PICK fails \in Faults, n \in 1 .. MaxPinyin :
        LET st == Rewound(Prepared(s, context, fails).st)
        IN  /\ Prepared(s, context, fails).err = "Ok"
            /\ pc' = "first"
            /\ gen' = [IdleGen EXCEPT !.slot = s, !.n = n, !.ids = st.ids, !.cur = st.cur,
                         !.hist  = st.hist,
                         !.clean = IF st.hist > 0 THEN st.self[0][first_position(st.hist)]
                                                  ELSE Zero]
  BY ZenonT(30) DEF generate_starts
<1> DEFINE out == Prepared(s, context, fails)
           st  == Rewound(out.st)
<1>2. gen'.slot = s /\ gen'.ids = st.ids
  <2> HIDE DEF out, st
  <2> QED BY <1>1 DEF IdleGen, st, out
<1>3. st.ids = out.st.ids
  <2>1. GoodView(out.st)
    BY <1>0, PreparedOutcome DEF GoodOutcome
  <2> HIDE DEF out
  <2> QED BY <2>1, CursorReset
<1>4. CommittedTexts' = [CommittedTexts EXCEPT ![s] = out.st.ids]
  <2>1. CommittedTexts = [r \in Slots |-> context_ids[r]]
    BY <1>0 DEF CommittedTexts, CommittedIds, Generating
  <2>2. CommittedTexts' = [r \in Slots |-> IF r = s THEN gen'.ids ELSE context_ids'[r]]
    BY <1>1, <1>2 DEF CommittedTexts, CommittedIds, Generating
  <2>3. context_ids' = context_ids
    BY DEF generate_starts
  <2> HIDE DEF out, st
  <2> QED BY <1>2, <1>3, <2>1, <2>2, <2>3
<1>5. LastAnswer' = "Pending"
  BY <1>1 DEF LastAnswer
<1> QED BY <1>0, <1>1, <1>4, <1>5, PreparationImplements

\* A generation in progress that returns leaves the text as it is and answers.
LEMMA FinishImplements ==
  ASSUME MaxHistory <= SlotCapacity, SessionInv, pc # "idle", NEW st, GoodView(st),
         st.ids = gen.ids, NEW error \in Errors, Finish(st, error)
  PROVE  Ledger!Answer
<1>1. SlotsInv /\ gen.slot \in Slots
  BY DEF SessionInv, GenInv
<1>2. sync_to_context(gen.slot, Outcome(Restored(st), error)) /\ pc' = "idle"
  BY DEF Finish
<1>3. Restored(st).ids = gen.ids
  BY DEF Restored, GoodView, IsView, ViewFields
<1>4. Fits(gen.ids)
  <2>1. Len(gen.ids) \in Nat /\ Len(gen.ids) <= MaxHistory
    BY DEF GoodView, History
  <2> QED BY <2>1, SessionConfig, SlotConfig DEF Fits
<1>5. context_ids' = [context_ids EXCEPT ![gen.slot] = gen.ids] /\ ret'.err = error
  BY <1>2, <1>3, <1>4 DEF sync_to_context, WriteMeta, Outcome
<1>6. CommittedTexts' = [r \in Slots |-> context_ids'[r]]
  BY <1>2 DEF CommittedTexts, CommittedIds, Generating
<1>7. CommittedTexts = [r \in Slots |-> IF r = gen.slot THEN gen.ids ELSE context_ids[r]]
  BY DEF CommittedTexts, CommittedIds, Generating
<1>8. CommittedTexts' = CommittedTexts
  BY <1>1, <1>5, <1>6, <1>7 DEF SlotsInv
<1> QED BY <1>2, <1>5, <1>8 DEF Ledger!Answer, CommittedTexts, Errors

\* Decoding leaves the text as it is, and answers or goes on.
LEMMA DecodingImplements ==
  ASSUME MaxHistory <= SlotCapacity, SessionInv, Decoding
  PROVE  Ledger!Answer
<1>0. pc # "idle" /\ GoodView(InCall) /\ InCall.ids = gen.ids /\ GenInv
  <2>1. pc # "idle"
    BY ZenonT(30) DEF Decoding, first_decode_stops, first_decode, step_stops_before_decoding,
       step_stops_after_decoding, step_decodes, generate_returns
  <2> QED BY <2>1, CallView DEF SessionInv, InCall
<1>1. GoodView(RolledBack(InCall)) /\ RolledBack(InCall).ids = gen.ids
  BY <1>0, CursorReset
<1>2. CASE first_decode_stops
  <2>1. PICK tok \in FirstQueries, error \in Pass2Errors :
          LET st == FirstPass2(InCall, tok, error)
          IN  Finish(RolledBack(st), "Cancelled")
              \/ Finish(st, IF error = "Ok" THEN "NoCandidates" ELSE error)
    BY <1>2 DEF first_decode_stops
  <2> DEFINE st == FirstPass2(InCall, tok, error)
  <2>2. GoodView(st) /\ st.ids = gen.ids
    <3>1. FirstPass2(InCall, tok, error).ids = InCall.ids
      BY <1>0 DEF FirstPass2, GoodView, IsView, ViewFields
    <3> QED BY <1>0, <3>1, DecodingView
  <2> HIDE DEF st
  <2>3. GoodView(RolledBack(st)) /\ RolledBack(st).ids = gen.ids
    BY <2>2, CursorReset
  <2>4. "Cancelled" \in Errors /\ (IF error = "Ok" THEN "NoCandidates" ELSE error) \in Errors
    BY DEF Errors, Pass2Errors
  <2> QED BY <1>0, <2>1, <2>2, <2>3, <2>4, FinishImplements DEF st
<1>3. CASE step_stops_before_decoding
  <2>1. Finish(RolledBack(InCall), "Cancelled") \/ Finish(RolledBack(InCall), "InvalidArgument")
    BY <1>3 DEF step_stops_before_decoding
  <2>2. "Cancelled" \in Errors /\ "InvalidArgument" \in Errors
    BY DEF Errors
  <2> QED BY <1>0, <1>1, <2>1, <2>2, FinishImplements
<1>4. CASE step_stops_after_decoding
  <2>1. PICK error \in Pass2Errors :
          LET st == RolledBack(StepPass2(error))
          IN  Finish(st, "Cancelled")
              \/ Finish(st, IF error = "Ok" THEN "NoCandidates" ELSE error)
    BY <1>4 DEF step_stops_after_decoding
  <2> DEFINE st == StepPass2(error)
  <2>2. GoodView(st) /\ st.ids = gen.ids
    BY <1>0 DEF StepPass2, GoodView, IsView, ViewFields
  <2> HIDE DEF st
  <2>3. GoodView(RolledBack(st)) /\ RolledBack(st).ids = gen.ids
    BY <2>2, CursorReset
  <2>4. "Cancelled" \in Errors /\ (IF error = "Ok" THEN "NoCandidates" ELSE error) \in Errors
    BY DEF Errors, Pass2Errors
  <2> QED BY <1>0, <2>1, <2>3, <2>4, FinishImplements DEF st
<1>5. CASE generate_returns
  <2>1. Finish(InCall, "Ok") /\ "Ok" \in Errors
    BY <1>5 DEF generate_returns, Errors
  <2> QED BY <1>0, <2>1, FinishImplements
<1>6. CASE first_decode \/ step_decodes
  <2>1. /\ context_ids' = context_ids /\ ret' = ret /\ pc' = "step"
    BY <1>6, ZenonT(30) DEF first_decode, step_decodes
  <2>2. gen'.slot = gen.slot /\ gen'.ids = gen.ids
    <3>1. CASE first_decode
      BY <1>0, <3>1 DEF first_decode, GenInv, GenFields
    <3>2. CASE step_decodes
      BY <1>0, <3>2 DEF step_decodes, GenInv, GenFields
    <3> QED BY <1>6, <3>1, <3>2
  <2>3. CommittedTexts' = CommittedTexts
    BY <1>0, <2>1, <2>2 DEF CommittedTexts, CommittedIds, Generating
  <2> QED BY <1>0, <2>1, <2>3 DEF Ledger!Answer, CommittedTexts
<1> QED BY <1>2, <1>3, <1>4, <1>5, <1>6 DEF Decoding

\* With slots at least as large as the window, the session implements CommittedText
\* call by call: a fill or a replacement answered Ok has committed the window of the
\* ids that call was given; one that failed has added nothing, and left the text, the
\* part of it room was made from, or, while rebuilding, none; ids out of the vocabulary
\* change nothing; a generation commits its snapshot or fails as a replacement does,
\* and nothing it decodes; and no slot's text is touched by a call on another.
THEOREM SessionImplementsCommittedText ==
  ASSUME MaxHistory <= SlotCapacity
  PROVE  Spec => ImplementsCommittedText
<1>1. Init => Ledger!Init
  BY DEF Init, InitSlots, Ledger!Init, CommittedIds, Generating
<1>2. SessionInv /\ CacheInv => CallsAreTheLedgers
  BY ResetImplements, FillImplements, ReplaceImplements, EarlyEndImplements, StartImplements,
     DecodingImplements DEF CallsAreTheLedgers, generate
<1>3. SessionInv /\ CacheInv /\ [Next]_vars
        => [Ledger!Next]_<<[s \in Slots |-> CommittedIds(s)],
                           IF pc = "idle" THEN ret.err ELSE "Pending">>
  <2> SUFFICES ASSUME SessionInv, CacheInv, [Next]_vars
               PROVE  Ledger!Next \/ UNCHANGED <<CommittedTexts, LastAnswer>>
    BY DEF CommittedTexts, LastAnswer
  <2>1. CASE \E s \in Slots : Calls(s)
    <3>1. PICK s \in Slots : Calls(s)
      BY <2>1
    <3>2. \/ Ledger!Reset(s)
          \/ \E ids \in FillArgs : Ledger!Fill(s, ids)
          \/ \E ids \in ContextArgs : Ledger!Replace(s, ids)
          \/ \E ids \in Snapshots : Ledger!Generate(s, ids)
      BY <1>2, <3>1, ZenonT(30) DEF Calls, CallsAreTheLedgers
    <3> QED BY <3>2 DEF Ledger!Next
  <2>2. CASE Decoding
    BY <1>2, <2>2 DEF CallsAreTheLedgers, Ledger!Next
  <2>3. CASE UNCHANGED vars
    BY <2>3 DEF vars, CommittedTexts, CommittedIds, Generating, LastAnswer
  <2> QED BY <2>1, <2>2, <2>3 DEF Next
<1> QED BY <1>1, <1>2, <1>3, CachesAlwaysHold, PTL
        DEF Spec, ImplementsCommittedText, Ledger!Spec

=============================================================================
