--------------------------- MODULE InferenceSession ---------------------------
(***************************************************************************)
(* InferenceSession (src/src/engine/inference_engine.cpp) over a set of    *)
(* context slots (src/src/context/context.cpp).                            *)
(*                                                                         *)
(* A session binds no slot: reset, fill, replace_context and generate take *)
(* one on every call.  The slot's KV storage is written in place through a *)
(* view, also in the middle of a generation; its ids and cursors are copied*)
(* into the session when a call starts (sync_from_context) and back when it*)
(* ends (sync_to_context).  reset, fill and replace_context run without    *)
(* giving control away and are one action each.  generate calls back into  *)
(* the client between model executions: it is one action from poll to poll.*)
(*                                                                         *)
(* The networks are external.  A pass-1 execution writes the causal state  *)
(* of the tokens it is given, a pass-2 execution writes conditional state, *)
(* either may fail and leave the cells it was writing in any state, and    *)
(* the scores of the decoder are an arbitrary choice of candidates.        *)
(***************************************************************************)
EXTENDS Context

CONSTANTS
  BadId,        \* an argument outside [0, context_vocab_size)
  Unmapped,     \* a Chinese candidate without a context id
  MaxHistory,   \* core_config.max_history_length
  MaxPinyin,    \* core_config.max_pinyin_length
  Pre1Batch,    \* batch size pass 1 was exported with, 0 when dynamic
  Pre2Batch,    \* batch size pass 2 was exported with, 0 when dynamic
  Candidates,   \* bound: the Chinese ids a candidate list holds
  ModelFaults,  \* which executions may fail: "prefill" (pass 1), "decode" (the rest)
  FillArgs,     \* bound: the id sequences passed to fill
  ContextArgs,  \* bound: the snapshots passed to replace_context
  Snapshots     \* bound: the snapshots passed to generate, <<>> for none

\* Guaranteed by parse_core_config: max_history < max_context - max_pinyin with
\* max_context + 1 <= pre_model.max_seqlen.
ASSUME SessionConfig ==
  /\ MaxHistory \in Nat /\ MaxPinyin \in Nat
  /\ SlackInterval < MaxHistory
  /\ MaxPinyin >= 1
  /\ MaxHistory + MaxPinyin + 1 < PreMax

\* Checked by the session's constructor.
ASSUME DecoderBatch == Pre1Batch \in Nat /\ Pre2Batch \in {0, Beam}

ASSUME Environment ==
  /\ BadId \notin Vocab /\ Unmapped \notin Vocab \cup {NoTok}
  /\ Candidates \subseteq Tokens \cup {Unmapped}
  /\ ModelFaults \subseteq {"prefill", "decode"}
  /\ FillArgs \subseteq Seq(Vocab \cup {BadId})
  /\ ContextArgs \subseteq Seq(Vocab \cup {BadId})
  /\ Snapshots \subseteq Seq(Vocab \cup {BadId})

VARIABLES
  fill_kv,  \* the session's one-lane scratch cache
  pc,       \* where the generation in progress stands
  gen,      \* the locals of the generation in progress
  ret       \* the slot and the error of the call that returned last

vars == <<self_kv, context_ids, current_seqlen, history_seqlen, fill_kv, pc, gen, ret>>

-----------------------------------------------------------------------------
(* Model executions *)

\* Pass 1 over one lane: the tokens land at start, start + 1, ... and each one
\* attends to all the positions before its own.
Pass1Lane(lane, toks, start) ==
  LET seen  == [i \in 1 .. start |-> lane[i - 1].tok] \o toks
      clean == \A p \in 0 .. start - 1 : lane[p].kind = "causal"
  IN  update_mhsa_kv(lane, start,
        [i \in 1 .. Len(toks) |->
           IF clean THEN [tok  |-> toks[i], kind |-> "causal",
                          ctx  |-> SubSeq(seen, 1, start + i - 1)]
                    ELSE [tok |-> toks[i], kind |-> "mixed", ctx |-> <<>>]])

\* A failed execution may have written any part of its rows.
TornLane(lane, start, length) ==
  update_mhsa_kv(lane, start, [i \in 1 .. length |-> Torn])

\* The external choices of one pass-1 execution.
Faults == IF "prefill" \in ModelFaults THEN BOOLEAN ELSE {FALSE}

-----------------------------------------------------------------------------
(* The session's view of the slot a call works on: self_kv_, history_ids_,
   current_seqlen_ and history_seqlen_ of the object, and fill_kv_. *)

sync_from_context(s) ==
  [self |-> self_kv[s], fill |-> fill_kv, ids |-> context_ids[s],
   cur |-> current_seqlen[s], hist |-> history_seqlen[s]]

Outcome(st, error) == [st |-> st, err |-> error]

\* Mutant: the slack is not left free.
eviction_target_WithoutSlack == MaxHistory

eviction_target == MaxHistory - SlackInterval

without_bos(ids) == IF ids # <<>> /\ Head(ids) = BOS THEN Tail(ids) ELSE ids

\* Exported for one lane (or dynamic), prefill runs on fill_kv and is copied;
\* exported for the beam, it runs on the slot itself.
PrefillOnScratch == Pre1Batch \in {0, 1}
DecodeOnScratch  == Pre2Batch # Beam \/ Beam = 1

\* Mutant: the BOS sink is not counted.
EvictTo_WithoutBos(st, keep) ==
  LET discarded == Len(st.ids) - keep
  IN  [self |-> shift_cached_tokens(st.self, discarded, keep),
       fill |-> Forget(shift_batch_tokens(st.fill, discarded, keep), keep),
       ids |-> LastIds(st.ids, keep), cur |-> keep, hist |-> keep]

\* Keep the newest `keep` ids behind the BOS sink, in the scratch cache too.
EvictTo(st, keep) ==
  LET discarded == Len(st.ids) - keep
  IN  [self |-> shift_cached_tokens(st.self, discarded, keep),
       fill |-> Forget(shift_batch_tokens(st.fill, discarded, keep), keep),
       ids  |-> LastIds(st.ids, keep),
       cur  |-> 1 + keep,
       hist |-> 1 + keep]

truncate_history(st, target) ==
  IF target < 0 \/ target >= Len(st.ids)
  THEN Outcome(st, "InvalidArgument")
  ELSE Outcome(EvictTo(st, target), "Ok")

\* Mutant: the scratch cache is trusted to hold the slot's prefix.
SyncedScratch_Stale(st) == st.fill

\* The scratch cache belongs to the session: before it is used it takes the
\* committed prefix of the slot the call works on.
SyncedScratch(st) == MoveSlice(st.fill, st.self[0], 0, st.hist)

\* Mutant: the new slice is copied to beam 0 only.
Prefill_FirstLaneOnly(st, toks, fails) ==
  LET start   == st.hist
      scratch == IF fails THEN TornLane(SyncedScratch(st), start, Len(toks))
                          ELSE Pass1Lane(SyncedScratch(st), toks, start)
  IN  [st EXCEPT !.fill = scratch,
                 !.self = copy_batch_slice_from(st.self, 0, scratch, start, Len(toks))]

\* run_pre_pass1 and the copies around it.  `fails` is the external model's
\* choice; the cells a failed execution was writing are lost.
Prefill(st, toks, fails) ==
  LET start == st.hist
      run(lane) == IF fails THEN TornLane(lane, start, Len(toks))
                            ELSE Pass1Lane(lane, toks, start)
      scratch == run(SyncedScratch(st))
      lane0   == copy_batch_slice_from(st.self, 0, scratch, start, Len(toks))
  IN  IF ~PrefillOnScratch
      THEN [st EXCEPT !.self = [l \in Lanes |-> run(st.self[l])]]
      ELSE IF fails
      THEN [st EXCEPT !.fill = scratch]
      ELSE [st EXCEPT !.fill = scratch,
                      !.self = copy_batch_slice_to_all(lane0, 0, start, Len(toks))]

\* What the callers of run_pre_pass1 return before or after executing it.
PrefillError(st, toks, fails) ==
  IF \/ ~PrefillOnScratch /\ Pre1Batch # Beam
     \/ Len(toks) > PreMax - st.hist
  THEN "InvalidArgument"
  ELSE IF fails THEN "ModelError" ELSE "Ok"

\* Mutant: the ids are appended before the execution is known to have succeeded.
Commit_BeforeRunning(st, toks, ids, fails) ==
  Outcome([Prefill(st, toks, fails) EXCEPT !.ids = ids,
             !.hist = st.hist + Len(toks), !.cur = st.hist + Len(toks)],
          PrefillError(st, toks, fails))

\* Commit `ids` once their `toks` have gone through pass 1 from st.hist on.
Commit(st, toks, ids, fails) ==
  LET error == PrefillError(st, toks, fails)
      after == Prefill(st, toks, fails)
      end   == st.hist + Len(toks)
  IN  IF error = "InvalidArgument" THEN Outcome(st, error)
      ELSE IF error = "ModelError" THEN Outcome(after, error)
      ELSE Outcome([after EXCEPT !.ids = ids, !.hist = end, !.cur = end], "Ok")

fill_from_scratch(st, context, fails) ==
  LET effective == IF Len(context) > MaxHistory THEN LastIds(context, eviction_target)
                                                ELSE context
      cleared   == [st EXCEPT !.ids = <<>>, !.cur = 0, !.hist = 0]
  IN  IF effective = <<>> THEN Outcome(cleared, "Ok")
      ELSE Commit(cleared, <<BOS>> \o effective, effective, fails)

\* Mutant: nothing is evicted.
fill_incremental_WithoutEviction(st, new, fails) ==
  IF new = <<>> THEN Outcome(st, "Ok") ELSE Commit(st, new, st.ids \o new, fails)

fill_incremental(st, new, fails) ==
  LET total == Len(st.ids) + Len(new)
      keep  == eviction_target - Len(new)
      base  == IF total > MaxHistory THEN EvictTo(st, keep) ELSE st
  IN  IF new = <<>> THEN Outcome(st, "Ok")
      ELSE IF total > MaxHistory /\ keep <= 0
      THEN fill_from_scratch(st, LastIds(new, eviction_target), fails)
      ELSE Commit(base, new, base.ids \o new, fails)

HasBadId(ids) == \E i \in 1 .. Len(ids) : ids[i] \notin Vocab

\* Mutant: ids out of the vocabulary are let through.
fill_impl_Unchecked(st, new, fails) ==
  LET ids == without_bos(new)
  IN  IF ids = <<>> THEN Outcome(st, "Ok")
      ELSE IF st.hist = 0 THEN fill_from_scratch(st, ids, fails)
      ELSE fill_incremental(st, ids, fails)

fill_impl(st, new, fails) ==
  LET ids == without_bos(new)
  IN  IF HasBadId(ids) THEN Outcome(st, "InvalidArgument")
      ELSE IF ids = <<>> THEN Outcome(st, "Ok")
      ELSE IF st.hist = 0 THEN fill_from_scratch(st, ids, fails)
      ELSE fill_incremental(st, ids, fails)

replace_context_impl(st, context, fails) ==
  LET stripped == without_bos(context)
      target == IF Len(stripped) > MaxHistory THEN LastIds(stripped, eviction_target)
                                              ELSE stripped
      kept   == 1 + Len(target)
  IN  IF HasBadId(stripped) THEN Outcome(st, "InvalidArgument")
      ELSE IF target = st.ids
      THEN Outcome([st EXCEPT !.cur = st.hist], "Ok")
      ELSE IF Len(target) < Len(st.ids) /\ IsPrefix(target, st.ids)
      THEN Outcome([st EXCEPT !.ids = target, !.hist = kept, !.cur = kept], "Ok")
      ELSE IF IsPrefix(st.ids, target) /\ st.hist > 0
      THEN fill_incremental(st, SubSeq(target, Len(st.ids) + 1, Len(target)), fails)
      ELSE fill_from_scratch(st, target, fails)

-----------------------------------------------------------------------------
(* Calls that run without giving control away *)

NoBeam  == [pred |-> <<>>, active |-> FALSE]
IdleGen == [slot |-> NoSlot, n |-> 0, step |-> 0, ids |-> <<>>, cur |-> 0,
            hist |-> 0, clean |-> Zero, beams |-> [l \in Lanes |-> NoBeam]]

\* sync_to_context throws when the ids do not fit the slot; the cache, written
\* in place, keeps what the call did to it.
sync_to_context(s, out) ==
  /\ self_kv' = [self_kv EXCEPT ![s] = out.st.self]
  /\ fill_kv' = out.st.fill
  /\ IF Fits(out.st.ids) THEN WriteMeta(s, out.st)
     ELSE UNCHANGED <<context_ids, current_seqlen, history_seqlen>>
  /\ ret' = [slot |-> s, err |-> IF Fits(out.st.ids) THEN out.err ELSE "Exception"]

\* Only the ids and cursors are cleared; the cache keeps its bytes.
reset(s) ==
  /\ pc = "idle"
  /\ WriteMeta(s, [truncate_context_ids(Meta(s), 0) EXCEPT !.cur = 0, !.hist = 0])
  /\ ret' = [slot |-> s, err |-> "Ok"]
  /\ UNCHANGED <<self_kv, fill_kv, pc, gen>>

fill(s, ids) ==
  /\ pc = "idle"
  /\ \E fails \in Faults :
       sync_to_context(s, fill_impl(sync_from_context(s), ids, fails))
  /\ UNCHANGED <<pc, gen>>

replace_context(s, ids) ==
  /\ pc = "idle"
  /\ \E fails \in Faults :
       sync_to_context(s, replace_context_impl(sync_from_context(s), ids, fails))
  /\ UNCHANGED <<pc, gen>>

-----------------------------------------------------------------------------
(* generate *)

\* The snapshot, when one is given, then the window: a history at its maximum
\* is evicted before the pinyin is looked at.
Prepared(s, context, fails) ==
  LET given == IF context = <<>> THEN Outcome(sync_from_context(s), "Ok")
               ELSE replace_context_impl(sync_from_context(s), context, fails)
  IN  IF given.err = "Ok" /\ Len(given.st.ids) >= MaxHistory
      THEN truncate_history(given.st, eviction_target)
      ELSE given

\* Mutant: the generation cursor stays where the last step left it.
RolledBack_NoCursor(st) == st

RolledBack(st) == [st EXCEPT !.cur = st.hist]

\* Without history the first step overwrites position zero.
Rewound(st) == IF st.hist > 0 THEN st ELSE [st EXCEPT !.cur = 0]

first_position(hist)   == IF hist > 0 THEN hist - 1 ELSE 0
last_position(hist, n) == IF hist > 0 THEN hist + n - 2 ELSE n - 1

\* A call that returns before the first poll: the snapshot or the window
\* failed, the pinyin is empty (one empty beam, Ok) or out of its vocabulary.
generate_returns_early(s, context) ==
  /\ pc = "idle"
  /\ \E fails \in Faults :
       LET out == Prepared(s, context, fails)
       IN  \E error \in IF out.err # "Ok" THEN {out.err} ELSE {"Ok", "InvalidArgument"} :
             sync_to_context(s, Outcome(out.st, error))
  /\ UNCHANGED <<pc, gen>>

\* The first poll cancels, whatever the pinyin.
generate_cancelled(s, context) ==
  /\ pc = "idle"
  /\ \E fails \in Faults :
       LET out == Prepared(s, context, fails)
       IN  /\ out.err = "Ok"
           /\ sync_to_context(s, Outcome(RolledBack(out.st), "Cancelled"))
  /\ UNCHANGED <<pc, gen>>

\* Past the first poll: too much pinyin, a failing post model or cross-KV
\* projection, or positions beyond the cache.
Rejections(hist, n) ==
  IF n > MaxPinyin THEN {"PinyinLimitExceeded"}
  ELSE {error \in {"ModelError", "ContextLimitExceeded"} :
          IF error = "ModelError" THEN "decode" \in ModelFaults ELSE last_position(hist, n) \notin Pos}

generate_rejected(s, context) ==
  /\ pc = "idle"
  /\ \E fails \in Faults, n \in 1 .. MaxPinyin + 1 :
       LET out == Prepared(s, context, fails)
           st  == IF n > MaxPinyin THEN out.st ELSE Rewound(out.st)
       IN  /\ out.err = "Ok"
           /\ \E error \in Rejections(st.hist, n) : sync_to_context(s, Outcome(st, error))
  /\ UNCHANGED <<pc, gen>>

\* The call goes on to the decoder.  The cache is already the prepared one;
\* the ids and cursors of the slot stay behind until the call returns.
generate_starts(s, context) ==
  /\ pc = "idle"
  /\ \E fails \in Faults, n \in 1 .. MaxPinyin :
       LET out == Prepared(s, context, fails)
           st  == Rewound(out.st)
       IN  /\ out.err = "Ok"
           /\ last_position(st.hist, n) \in Pos
           /\ self_kv' = [self_kv EXCEPT ![s] = st.self]
           /\ fill_kv' = st.fill
           /\ pc' = "first"
           /\ gen' = [IdleGen EXCEPT !.slot = s, !.n = n, !.ids = st.ids, !.cur = st.cur,
                        !.hist  = st.hist,
                        !.clean = IF st.hist > 0 THEN st.self[0][first_position(st.hist)]
                                                 ELSE Zero]
  /\ UNCHANGED <<context_ids, current_seqlen, history_seqlen, ret>>

\* The session's locals while a generation is in progress.
InCall == [self |-> self_kv[gen.slot], fill |-> fill_kv,
           ids |-> gen.ids, cur |-> gen.cur, hist |-> gen.hist]

\* Mutant: the boundary is restored in beam 0 only.
Restored_FirstLaneOnly(st) ==
  IF st.hist = 0 THEN st
  ELSE [st EXCEPT !.self[0][first_position(st.hist)] = gen.clean]

\* RestoreHistoryBoundary: on every exit the boundary cell goes back to its
\* snapshot, in every lane and in the scratch cache when that ran the decoder.
Restored(st) ==
  LET p == first_position(st.hist)
  IN  IF st.hist = 0 THEN st
      ELSE [st EXCEPT !.self = restore_position(st.self, p, gen.clean),
                      !.fill = IF DecodeOnScratch THEN [st.fill EXCEPT ![p] = gen.clean]
                                                  ELSE st.fill]

Finish(st, error) ==
  /\ sync_to_context(gen.slot, Outcome(Restored(st), error))
  /\ pc' = "idle"
  /\ gen' = IdleGen

\* run_pre_pass2 on one lane.  A masked-out candidate list returns before the
\* execution; an execution that fails loses the cell it was writing.
Pass2Errors == IF "decode" \in ModelFaults THEN {"Ok", "ModelError", "NoCandidates"} ELSE {"Ok"}
Pass2Lane(lane, p, tok, error) ==
  CASE error = "Ok"           -> update_mhsa_kv(lane, p, <<Conditional(tok)>>)
    [] error = "ModelError"   -> TornLane(lane, p, 1)
    [] error = "NoCandidates" -> lane

\* The first decoder query is the last committed token, or BOS.  With a BOS-only
\* history, history_ids_.back() reads an empty vector: any value.
FirstQueries ==
  IF gen.hist = 0 THEN {BOS}
  ELSE IF gen.ids # <<>> THEN {gen.ids[Len(gen.ids)]}
  ELSE Vocab \cup {NoTok}

FirstPass2(st, tok, error) ==
  LET p       == first_position(st.hist)
      scratch == Pass2Lane(SyncedScratch(st), p, tok, error)
  IN  IF DecodeOnScratch
      THEN [st EXCEPT !.fill = scratch,
              !.self = copy_batch_slice_to_all(
                         copy_batch_slice_from(st.self, 0, scratch, p, 1), 0, p, 1)]
      ELSE [st EXCEPT !.self = [l \in Lanes |-> Pass2Lane(st.self[l], p, tok, error)]]

\* The second poll comes before the decoder's error is looked at.  Without a
\* finite logit there are no candidates; those errors leave the cursor alone.
first_decode_stops ==
  /\ pc = "first"
  /\ \E tok \in FirstQueries, error \in Pass2Errors :
       LET st == FirstPass2(InCall, tok, error)
       IN  \/ Finish(RolledBack(st), "Cancelled")
           \/ Finish(st, IF error = "Ok" THEN "NoCandidates" ELSE error)

\* top_tokens of a row with a finite logit: between one and beam_size different
\* candidates, in an order the logits choose.
TopTokens == {t \in UNION {[1 .. k -> Candidates] : k \in 1 .. Beam} : IsInjective(t)}

\* Mutant: the lanes left over keep the score of the candidate they repeat.
FirstBeams_AllActive ==
  {[l \in Lanes |-> [pred |-> <<top[(l % Len(top)) + 1]>>, active |-> TRUE]] : top \in TopTokens}

\* One beam per candidate kept; the lanes left over repeat them with score -inf.
FirstBeams ==
  {[l \in Lanes |-> [pred |-> <<top[(l % Len(top)) + 1]>>, active |-> l < Len(top)]] :
     top \in TopTokens}

first_decode ==
  /\ pc = "first"
  /\ \E tok \in FirstQueries, beams \in FirstBeams :
       LET st == FirstPass2(InCall, tok, "Ok")
       IN  /\ self_kv' = [self_kv EXCEPT ![gen.slot] = st.self]
           /\ fill_kv' = st.fill
           /\ gen' = [gen EXCEPT !.beams = beams, !.step = 1,
                                 !.cur = IF gen.hist > 0 THEN gen.hist ELSE 1]
  /\ pc' = "step"
  /\ UNCHANGED <<context_ids, current_seqlen, history_seqlen, ret>>

StepPosition == IF gen.hist > 0 THEN gen.hist + gen.step - 1 ELSE gen.step

LastPred(l) == gen.beams[l].pred[Len(gen.beams[l].pred)]
Mapped      == \A l \in Lanes : LastPred(l) # Unmapped

\* One pass-2 execution over all lanes, each with the last token of its beam.
StepPass2(error) ==
  [InCall EXCEPT !.self = [l \in Lanes |->
     Pass2Lane(self_kv[gen.slot][l], StepPosition, LastPred(l), error)]]

\* The poll at the top of the loop, and a candidate with no context id.
step_stops_before_decoding ==
  /\ pc = "step" /\ gen.step < gen.n
  /\ \/ Finish(RolledBack(InCall), "Cancelled")
     \/ /\ ~Mapped
        /\ Finish(RolledBack(InCall), "InvalidArgument")

\* The poll after the execution, its error, or no finite logit in any lane.
step_stops_after_decoding ==
  /\ pc = "step" /\ gen.step < gen.n /\ Mapped
  /\ \E error \in Pass2Errors :
       LET st == RolledBack(StepPass2(error))
       IN  \/ Finish(st, "Cancelled")
           \/ Finish(st, IF error = "Ok" THEN "NoCandidates" ELSE error)

\* The beam_size best expansions, as <<parent, token>>: no expansion twice; an
\* expansion of an inactive beam scores -inf, so it comes last and only when
\* every active beam, each of which has one, is already represented.
Selections ==
  {e \in [Lanes -> Lanes \X Candidates] :
     LET active(l) == gen.beams[e[l][1]].active
     IN  /\ \A l, m \in Lanes : l # m => e[l] # e[m]
         /\ \A l, m \in Lanes : l < m /\ active(m) => active(l)
         /\ (\E l \in Lanes : ~active(l)) =>
              \A b \in Lanes : gen.beams[b].active => \E l \in Lanes : e[l][1] = b}

step_decodes ==
  /\ pc = "step" /\ gen.step < gen.n /\ Mapped
  /\ LET st == StepPass2("Ok")
     IN \E e \in Selections :
          /\ self_kv' = [self_kv EXCEPT ![gen.slot] =
               reorder_batch_slice(st.self, [l \in Lanes |-> e[l][1]],
                                   gen.hist, StepPosition - gen.hist + 1)]
          /\ gen' = [gen EXCEPT !.cur = StepPosition + 1, !.step = gen.step + 1,
               !.beams = [l \in Lanes |->
                  [pred   |-> Append(gen.beams[e[l][1]].pred, e[l][2]),
                   active |-> gen.beams[e[l][1]].active]]]
  /\ UNCHANGED <<context_ids, current_seqlen, history_seqlen, fill_kv, pc, ret>>

generate_returns ==
  /\ pc = "step" /\ gen.step = gen.n
  /\ Finish(InCall, "Ok")

-----------------------------------------------------------------------------
Init ==
  /\ InitSlots
  /\ fill_kv = [p \in Pos |-> Zero]
  /\ pc  = "idle"
  /\ gen = IdleGen
  /\ ret = [slot |-> NoSlot, err |-> "Ok"]

generate(s, context) ==
  \/ generate_returns_early(s, context)
  \/ generate_cancelled(s, context)
  \/ generate_rejected(s, context)
  \/ generate_starts(s, context)

Calls(s) ==
  \/ reset(s)
  \/ \E ids \in FillArgs : fill(s, ids)
  \/ \E ids \in ContextArgs : replace_context(s, ids)
  \/ \E context \in Snapshots : generate(s, context)

Decoding ==
  \/ first_decode_stops
  \/ first_decode
  \/ step_stops_before_decoding
  \/ step_stops_after_decoding
  \/ step_decodes
  \/ generate_returns

Next == (\E s \in Slots : Calls(s)) \/ Decoding

Spec == Init /\ [][Next]_vars

-----------------------------------------------------------------------------
(* Properties *)

Errors == {"Ok", "InvalidArgument", "PinyinLimitExceeded", "ContextLimitExceeded",
           "Cancelled", "NoCandidates", "ModelError", "Exception"}

\* Every variable holds a value the program's types allow.
TypeOK ==
  /\ SlotsTypeOK
  /\ fill_kv \in [Pos -> Cell]
  /\ pc \in {"idle", "first", "step"}
  /\ gen \in [slot : Slots \cup {NoSlot}, n : 0 .. MaxPinyin, step : 0 .. MaxPinyin,
              ids : Seq(Vocab), cur : 0 .. PreMax, hist : 0 .. PreMax, clean : Cell,
              beams : [Lanes -> [pred : Seq(Candidates), active : BOOLEAN]]]
  /\ ret \in [slot : Slots \cup {NoSlot}, err : Errors]

\* The committed ids of a slot, the call in progress on it included.
Generating(s)   == pc # "idle" /\ gen.slot = s
CommittedIds(s) == IF Generating(s) THEN gen.ids ELSE context_ids[s]
CommittedLen(s) == IF Generating(s) THEN gen.hist ELSE history_seqlen[s]

\* The two cursors and the ids always describe one history: nothing, or BOS and
\* every id (1 + context_ids_len, engine_tests.cpp:201), never more than the
\* window, and the generation cursor is never behind the history or further
\* ahead than one pinyin window.
CursorsAgree ==
  \A s \in Slots :
    LET ids  == CommittedIds(s)
        hist == CommittedLen(s)
        cur  == IF Generating(s) THEN gen.cur ELSE current_seqlen[s]
    IN  /\ hist = 1 + Len(ids) \/ (hist = 0 /\ ids = <<>>)
        /\ Len(ids) <= MaxHistory
        /\ hist <= cur /\ cur <= hist + MaxPinyin

\* The committed history of every slot is pass-1 state in every lane
\* (cache-semantics.md): no generation, cancelled, failed or finished, leaves
\* conditional state in it, and no fill through the scratch cache computes it
\* from another slot's text.  While a generation runs its boundary is held by
\* the snapshot instead.
CommittedHistoryIsCausal ==
  \A s \in Slots : \A p \in 0 .. CommittedLen(s) - 1 :
    LET cells == IF Generating(s) /\ pc = "step" /\ p = gen.hist - 1
                 THEN {gen.clean} ELSE {self_kv[s][l][p] : l \in Lanes}
    IN  \A c \in cells : IsHistoryCell(c, CommittedIds(s), p)

\* Before each decoding step every lane reads exactly its own beam: the history,
\* the last committed token (BOS without a history) in conditional state, and
\* the conditional states of the beam's own tokens.
BeamReadsItsOwnPast ==
  pc = "step" =>
    \A l \in Lanes :
      LET lane == self_kv[gen.slot][l]
          q    == first_position(gen.hist)
      IN  /\ gen.ids # <<>> => lane[q] = Conditional(gen.ids[Len(gen.ids)])
          /\ gen.hist = 0 => lane[q] = Conditional(BOS)
          /\ \A i \in 1 .. gen.step - 1 : lane[q + i] = Conditional(gen.beams[l].pred[i])

\* The active beams are distinct candidates of the steps decoded so far, and at
\* least one is left: what is returned with Ok is never empty or repeated.
ActiveBeamsAreDistinct ==
  pc = "step" =>
    /\ \E l \in Lanes : gen.beams[l].active
    /\ \A l \in Lanes : Len(gen.beams[l].pred) = gen.step
    /\ \A l, m \in Lanes : gen.beams[l].active /\ gen.beams[m].active /\ l # m =>
         gen.beams[l].pred # gen.beams[m].pred

\* A cancelled generation leaves the slot ready for a retry: the generation
\* cursor is back at the committed history (c-api.md:49).
CancelRestoresCursor ==
  pc = "idle" /\ ret.err = "Cancelled" =>
    current_seqlen[ret.slot] = history_seqlen[ret.slot]

\* A validated configuration leaves room for a full history and a full pinyin
\* window: no call runs out of positions and no slot is too small for the ids
\* the session commits.
WindowAlwaysFits == ret.err \notin {"ContextLimitExceeded", "Exception"}

\* A snapshot of valid ids is always accepted when the model does not fail:
\* the window eviction in front of a generation cannot be refused.
ValidSnapshotIsAccepted ==
  pc = "idle" =>
    \A s \in Slots, context \in Snapshots :
      ~HasBadId(context) => Prepared(s, context, FALSE).err = "Ok"

\* The committed texts and the answers, as CommittedText sees them: with a
\* generation in progress its own ids stand for the slot's, and it has no answer yet.
Ledger == INSTANCE CommittedText WITH
  Target     <- eviction_target,
  Vocabulary <- Vocab,
  Failures   <- Errors \ {"Ok"},
  text       <- [s \in Slots |-> CommittedIds(s)],
  answer     <- IF pc = "idle" THEN ret.err ELSE "Pending"

\* Every call is the ledger's call of the same kind, on the same slot, with the
\* same ids.
CallsAreTheLedgers ==
  /\ \A s \in Slots :
       /\ reset(s) => Ledger!Reset(s)
       /\ \A ids \in FillArgs : fill(s, ids) => Ledger!Fill(s, ids)
       /\ \A ids \in ContextArgs : replace_context(s, ids) => Ledger!Replace(s, ids)
       /\ \A ids \in Snapshots : generate(s, ids) => Ledger!Generate(s, ids)
  /\ Decoding => Ledger!Answer

\* The session implements CommittedText, call by call: a call answered Ok has
\* committed the window of the ids it was given, one answered with an error has
\* added nothing and left exactly what the ledger says of that call and those ids,
\* and a generation commits its whole snapshot or none of it and nothing it decodes.
ImplementsCommittedText == Ledger!Spec /\ [][CallsAreTheLedgers]_vars

\* cache-semantics.md:8: "The last committed token is reused as the first
\* conditional query", and BOS is the last committed token of a history without ids.
FirstQueryIsTheLastCommittedToken ==
  pc = "first" => FirstQueries = {(<<BOS>> \o gen.ids)[1 + Len(gen.ids)]}

=============================================================================
