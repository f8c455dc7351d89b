------------------------------- MODULE KvCache -------------------------------
(***************************************************************************)
(* The self-attention cache of one context slot: PersistentTensor of       *)
(* src/src/context/kv_cache.cpp, and the cache writes of                   *)
(* src/src/custom_ops/update_kv_cache.cpp.                                 *)
(*                                                                         *)
(* A tensor [layers, 2, B, max_seqlen, heads, head_dim] is a function from *)
(* lanes (the batch dimension) to functions from positions to cells; a     *)
(* cell stands for the K and V rows of every layer at one position, which  *)
(* every operation of the class moves together.  What a cell holds is left *)
(* to the modules that use the cache.                                      *)
(***************************************************************************)
EXTENDS Integers, Sequences

CONSTANTS
  PreMax,   \* pre_model.max_seqlen: positions per lane
  Beam      \* batch dimension of a slot's cache: one lane per beam

ASSUME CacheShape == PreMax \in Nat \ {0} /\ Beam \in Nat \ {0}

Pos   == 0 .. PreMax - 1
Lanes == 0 .. Beam - 1

\* The positions [start, start + length) of a lane.
Slice(start, length) == start .. start + length - 1

\* memmove of one slice between two lanes, at the same positions.
MoveSlice(dst, src, start, length) ==
  [p \in Pos |-> IF p \in Slice(start, length) THEN src[p] ELSE dst[p]]

\* One lane of another tensor (the session's one-lane scratch) copied into
\* lane d of this one.
copy_batch_slice_from(kv, d, src, start, length) ==
  [kv EXCEPT ![d] = MoveSlice(kv[d], src, start, length)]

\* Lane b of this tensor copied over all its other lanes.
copy_batch_slice_to_all(kv, b, start, length) ==
  [l \in Lanes |-> MoveSlice(kv[l], kv[b], start, length)]

\* restore_batch_slice with length 1, in every lane: what the destructor of
\* RestoreHistoryBoundary does with the snapshot of one cell.
restore_position(kv, p, cell) ==
  [l \in Lanes |-> [kv[l] EXCEPT ![p] = cell]]

\* Mutant: the BOS sink slides away with the rest.
shift_batch_tokens_OverSink(lane, discarded, retained) ==
  [p \in Pos |-> IF p \in Slice(0, retained) THEN lane[p + discarded] ELSE lane[p]]

\* Drop `discarded` tokens after position 0, which keeps the BOS sink, and
\* slide the next `retained` ones down to position 1.  Nothing is cleared:
\* positions past 1 + retained keep their bytes.
shift_batch_tokens(lane, discarded, retained) ==
  [p \in Pos |-> IF p \in Slice(1, retained) THEN lane[p + discarded] ELSE lane[p]]

shift_all(kv, discarded, retained) ==
  [l \in Lanes |-> shift_batch_tokens(kv[l], discarded, retained)]

\* Mutant: without the scratch buffer a lane reads lanes already overwritten.
reorder_batch_slice_InPlace(kv, parents, start, length) ==
  [l \in Lanes |-> MoveSlice(kv[l],
     IF parents[l] < l THEN kv[parents[parents[l]]] ELSE kv[parents[l]], start, length)]

\* Lane l takes the slice of lane parents[l]; the copy goes through a scratch
\* buffer, so every lane reads the cells from before the reorder.
reorder_batch_slice(kv, parents, start, length) ==
  [l \in Lanes |-> MoveSlice(kv[l], kv[parents[l]], start, length)]

\* phono::update_mhsa_kv: row s of the new values lands at start + s.
update_mhsa_kv(lane, start, cells) ==
  [p \in Pos |-> IF p \in Slice(start, Len(cells)) THEN cells[p - start + 1] ELSE lane[p]]
=============================================================================
