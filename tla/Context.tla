------------------------------- MODULE Context -------------------------------
(***************************************************************************)
(* A context slot: class Context of src/src/context/context.{hpp,cpp}.     *)
(*                                                                         *)
(* A slot is storage: a view of the stacked KV cache, the ids of the text  *)
(* committed to it (BOS is not stored) and two cursors.  The session and   *)
(* the manager both write it; this module holds the variables they share,  *)
(* what a cell of the cache means, and the operations of the class.        *)
(***************************************************************************)
EXTENDS KvCache, SequencesExt

CONSTANTS
  Slots,        \* the manager's slots
  Tokens,       \* context-vocabulary ids other than BOS
  BOS,          \* id of "bos_token"
  NoTok,        \* content of a cell nothing meaningful was written to
  NoSlot,       \* no slot: no call in progress, no request answered
  SlotCapacity, \* ids a slot can hold: core_config.max_context_length
  SlackInterval \* core_config.slack_interval: room made when a history is cut

Vocab == Tokens \cup {BOS}

ASSUME SlotConfig ==
  /\ BOS \notin Tokens /\ NoTok \notin Vocab
  /\ NoSlot \notin Slots
  /\ SlotCapacity \in Nat /\ SlotCapacity < PreMax
  /\ SlackInterval \in Nat

VARIABLES
  self_kv,         \* slot -> lane -> position -> cell
  context_ids,     \* slot -> committed ids
  current_seqlen,  \* slot -> next position generation would write
  history_seqlen   \* slot -> committed positions, BOS included

slot_vars == <<self_kv, context_ids, current_seqlen, history_seqlen>>

-----------------------------------------------------------------------------
(* Cells *)

\* Which execution wrote a cell.  "causal": pass 1 over a causal prefix;
\* "mixed": pass 1 over a prefix that held something else; "cond": pass 2;
\* "torn": an execution that failed; "zero": the zeroed allocation.
Kinds == {"causal", "mixed", "cond", "torn", "zero"}

\* ctx is the sequence of tokens a causal cell attended to.
Cell == [tok : Vocab \cup {NoTok}, kind : Kinds, ctx : Seq(Vocab \cup {NoTok})]

Zero           == [tok |-> NoTok, kind |-> "zero", ctx |-> <<>>]
Torn           == [tok |-> NoTok, kind |-> "torn", ctx |-> <<>>]
Conditional(t) == [tok |-> t, kind |-> "cond", ctx |-> <<>>]

ZeroLanes == [l \in Lanes |-> [p \in Pos |-> Zero]]

LastIds(ids, k) == SubSeq(ids, Len(ids) - k + 1, Len(ids))

\* A shifted cell still attended to the ids that were dropped (cache-semantics.md
\* calls the shift an approximation); the model keeps only the part of ctx that
\* the cell's new position still speaks of.
Forget(lane, retained) ==
  [p \in Pos |->
     IF p \in Slice(1, retained) /\ Len(lane[p].ctx) >= p
     THEN [lane[p] EXCEPT !.ctx = <<BOS>> \o LastIds(lane[p].ctx, p - 1)]
     ELSE lane[p]]

\* Drop `discarded` tokens behind BOS in every lane of a slot.
shift_cached_tokens(kv, discarded, retained) ==
  LET shifted == shift_all(kv, discarded, retained)
  IN  [l \in Lanes |-> Forget(shifted[l], retained)]

\* A cell is the pass-1 state of position p of a history: it holds the token of
\* that position and attended to BOS and the ids before it (and nothing else but
\* ids evicted since).
IsHistoryCell(c, ids, p) ==
  /\ c.kind = "causal"
  /\ c.tok = (<<BOS>> \o ids)[p + 1]
  /\ c.ctx = SubSeq(<<BOS>> \o ids, 1, p)

-----------------------------------------------------------------------------
(* Ids and cursors of one slot, as a record *)

Meta(s) == [ids |-> context_ids[s], cur |-> current_seqlen[s], hist |-> history_seqlen[s]]

AtMost(a, b) == IF a <= b THEN a ELSE b

\* Throws, that is, does not apply, when n is more than the length.
truncate_context_ids(meta, n) ==
  [ids |-> SubSeq(meta.ids, 1, n), cur |-> AtMost(meta.cur, 1 + n),
   hist |-> AtMost(meta.hist, 1 + n)]

\* append_context_ids throws std::out_of_range past the capacity.
Fits(ids) == Len(ids) <= SlotCapacity

WriteMeta(s, meta) ==
  /\ context_ids'    = [context_ids EXCEPT ![s] = meta.ids]
  /\ current_seqlen' = [current_seqlen EXCEPT ![s] = meta.cur]
  /\ history_seqlen' = [history_seqlen EXCEPT ![s] = meta.hist]

\* The manager's constructor: a zeroed cache, no ids.
InitSlots ==
  /\ self_kv        = [s \in Slots |-> ZeroLanes]
  /\ context_ids    = [s \in Slots |-> <<>>]
  /\ current_seqlen = [s \in Slots |-> 0]
  /\ history_seqlen = [s \in Slots |-> 0]

SlotsTypeOK ==
  /\ self_kv \in [Slots -> [Lanes -> [Pos -> Cell]]]
  /\ context_ids \in [Slots -> Seq(Vocab)]
  /\ current_seqlen \in [Slots -> 0 .. PreMax]
  /\ history_seqlen \in [Slots -> 0 .. PreMax]
=============================================================================
