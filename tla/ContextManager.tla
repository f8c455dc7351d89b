---------------------------- MODULE ContextManager ----------------------------
(***************************************************************************)
(* ContextManager of src/src/context/context.cpp: which slot a text gets.  *)
(*                                                                         *)
(* get_context_auto returns the slot that already holds the most of the    *)
(* text, cut down (prefix) or slid down (a piece from the middle) to what  *)
(* is reusable, or gives up a slot.  A slot that was reused is protected;  *)
(* the others are on trial and are given up first.                         *)
(*                                                                         *)
(* Slot values decay with the wall clock, so which of two slots is the     *)
(* weaker one is an arbitrary choice here.  What sessions do to the slots  *)
(* in between is the action session_commits.                               *)
(***************************************************************************)
EXTENDS Context, FiniteSetsExt

CONSTANTS
  MinAccept,      \* core_config.min_accept_context
  TrialNum,       \* core_config.trial_ratio is TrialNum / TrialDen
  TrialDen,
  Texts,          \* bound: what a session commits to a slot
  Ahead,          \* bound: how far a generation leaves the cursor ahead of it
  Requests        \* bound: the texts get_context_auto is asked for

NumContexts == Cardinality(Slots)

ASSUME ManagerConfig ==
  /\ NumContexts \in Nat \ {0} /\ Slots = 0 .. NumContexts - 1
  /\ MinAccept \in Nat \ {0}
  /\ TrialNum \in Nat /\ TrialDen \in Nat \ {0} /\ TrialNum <= TrialDen
  /\ Texts \subseteq Seq(Vocab) /\ \A text \in Texts : Fits(text)
  /\ Requests \subseteq Seq(Vocab) /\ Ahead \subseteq Nat

VARIABLES
  protected_slots,  \* the slots not on trial
  reply             \* the last request and the slot returned for it

manager_vars == <<slot_vars, protected_slots, reply>>

NoReply == [slot |-> NoSlot, asked |-> <<>>]

-----------------------------------------------------------------------------
(* Matching *)

\* The newest ids a slot has room for.
Trimmed(ids) == IF Len(ids) > SlotCapacity THEN LastIds(ids, SlotCapacity) ELSE ids

\* The slot holds the first k ids of the target from `offset` on.
Holds(s, offset, target, k) ==
  /\ offset + k <= Len(context_ids[s]) /\ k <= Len(target)
  /\ SubSeq(context_ids[s], offset + 1, offset + k) = SubSeq(target, 1, k)

\* How many ids of the target the slot holds from `offset` on.
Common(s, offset, target) == Max({k \in 0 .. Len(target) : Holds(s, offset, target, k)})

Match(s, offset, target) ==
  [slot |-> s, offset |-> offset, length |-> Common(s, offset, target)]

PrefixMatches(target) ==
  {m \in {Match(s, 0, target) : s \in Slots} : m.length > 0}

MiddleMatches(target) ==
  {m \in UNION {{Match(s, o, target) : o \in 1 .. Len(context_ids[s]) - 1} : s \in Slots} :
     m.length >= MinAccept}

\* The longest; then the nearest to the front; then the first slot.
Best(matches) ==
  CHOOSE m \in matches : \A n \in matches :
    \/ m.length > n.length
    \/ m.length = n.length /\ m.offset < n.offset
    \/ m.length = n.length /\ m.offset = n.offset /\ m.slot <= n.slot

\* The last one in the order of slots, and of offsets within a slot.
Farthest(matches) ==
  CHOOSE m \in matches : \A n \in matches :
    \/ m.slot > n.slot
    \/ m.slot = n.slot /\ m.offset >= n.offset

\* A match of the same length that shifts by the whole slack is preferred: it
\* leaves room before the next shift.
BestMiddle(target) ==
  LET best  == Best(MiddleMatches(target))
      slack == {m \in MiddleMatches(target) :
                  m.offset >= SlackInterval /\ m.length >= best.length}
  IN  IF SlackInterval > 1 /\ best.offset < SlackInterval /\ slack # {}
      THEN Farthest(slack) ELSE best

-----------------------------------------------------------------------------
(* Protection *)

trial_capacity ==
  LET share == (NumContexts * TrialNum + TrialDen - 1) \div TrialDen
  IN  Max({1, Min({share, NumContexts})})

protected_capacity == NumContexts - trial_capacity

\* Mutant: nothing is demoted.
touch_slot_Accumulate(s) ==
  IF protected_capacity = 0 THEN {protected_slots} ELSE {protected_slots \cup {s}}

\* touch_slot with promote: the sets of protected slots it can leave.  When they
\* are too many the weakest is demoted.
touch_slot(s) ==
  IF s \in protected_slots \/ protected_capacity = 0 THEN {protected_slots}
  ELSE IF Cardinality(protected_slots) >= protected_capacity
  THEN {(protected_slots \ {demoted}) \cup {s} : demoted \in protected_slots}
  ELSE {protected_slots \cup {s}}

\* Mutant: the weakest slot, whether it is protected or not.
choose_replacement_slot_Any ==
  LET empty == {s \in Slots : context_ids[s] = <<>>}
  IN  IF empty # {} THEN {Min(empty)} ELSE Slots

\* Mutant: weakest_slot compares with no slot and returns its initial value.
choose_replacement_slot_Sentinel ==
  LET empty == {s \in Slots : context_ids[s] = <<>>}
  IN  IF empty # {} THEN {Min(empty)} ELSE {NumContexts}

\* The first empty slot, or the weakest one on trial, or the weakest one.
choose_replacement_slot ==
  LET empty == {s \in Slots : context_ids[s] = <<>>}
      trial == Slots \ protected_slots
  IN  IF empty # {} THEN {Min(empty)} ELSE IF trial # {} THEN trial ELSE Slots

-----------------------------------------------------------------------------
(* get_context_auto: one call, by what it returns *)

\* Mutant: a piece from the middle is slid down without its ids.
Reused_IdsFromFront(m, target) ==
  [self |-> shift_cached_tokens(self_kv[m.slot], m.offset, m.length),
   meta |-> [ids |-> SubSeq(context_ids[m.slot], 1, m.length),
             cur |-> 1 + m.length, hist |-> 1 + m.length]]

\* What a slot holds once it is reduced to a match.
Reused(m, target) ==
  [self |-> IF m.offset = 0 THEN self_kv[m.slot]
            ELSE shift_cached_tokens(self_kv[m.slot], m.offset, m.length),
   meta |-> [ids |-> SubSeq(target, 1, m.length),
             cur |-> 1 + m.length, hist |-> 1 + m.length]]

Return(s, asked, self, meta) ==
  /\ self_kv' = [self_kv EXCEPT ![s] = self]
  /\ WriteMeta(s, meta)
  /\ reply' = [slot |-> s, asked |-> asked]

\* Mutant: a piece from the middle wins over a longer prefix.
PrefixWins_NotIfMiddle(target) ==
  PrefixMatches(target) # {} /\ MiddleMatches(target) = {}

\* A prefix wins over a piece from the middle that is not longer.
PrefixWins(target) ==
  /\ PrefixMatches(target) # {}
  /\ MiddleMatches(target) # {} =>
       Best(PrefixMatches(target)).length >= BestMiddle(target).length

get_context_auto_prefix(asked) ==
  LET target == Trimmed(asked)
      m      == Best(PrefixMatches(target))
      reused == Reused(m, target)
  IN  /\ PrefixWins(target)
      /\ Return(m.slot, asked, reused.self, reused.meta)
      /\ protected_slots' \in touch_slot(m.slot)

get_context_auto_middle(asked) ==
  LET target == Trimmed(asked)
      m      == BestMiddle(target)
      reused == Reused(m, target)
  IN  /\ ~PrefixWins(target) /\ MiddleMatches(target) # {}
      /\ Return(m.slot, asked, reused.self, reused.meta)
      /\ protected_slots' \in touch_slot(m.slot)

\* Nothing is reusable: the slot is zeroed and goes on trial.
get_context_auto_replace(asked) ==
  /\ PrefixMatches(Trimmed(asked)) = {} /\ MiddleMatches(Trimmed(asked)) = {}
  /\ \E s \in choose_replacement_slot :
       /\ Return(s, asked, ZeroLanes, [ids |-> <<>>, cur |-> 0, hist |-> 0])
       /\ protected_slots' = protected_slots \ {s}

get_context_auto(asked) ==
  \/ get_context_auto_prefix(asked)
  \/ get_context_auto_middle(asked)
  \/ get_context_auto_replace(asked)

-----------------------------------------------------------------------------
\* A session leaves a slot with some text, its pass-1 state in every lane, whatever
\* was there after it, and the generation cursor where the last generation left it.
\* Without text there may be a history of BOS (a snapshot that cut all of it off) or
\* none (reset).
session_commits ==
  \E s \in Slots, text \in Texts :
  \E hist \in IF text = <<>> THEN {0, 1} ELSE {1 + Len(text)}, ahead \in Ahead :
    LET history == <<BOS>> \o text
        cell(i) == [tok |-> history[i], kind |-> "causal", ctx |-> SubSeq(history, 1, i - 1)]
    IN  /\ self_kv' = [self_kv EXCEPT ![s] =
             [l \in Lanes |-> update_mhsa_kv(self_kv[s][l], 0, [i \in 1 .. hist |-> cell(i)])]]
        /\ WriteMeta(s, [ids |-> text, cur |-> AtMost(hist + ahead, PreMax), hist |-> hist])
        /\ reply' = NoReply
        /\ UNCHANGED protected_slots

ManagerInit ==
  /\ InitSlots
  /\ protected_slots = {}
  /\ reply = NoReply

ManagerNext == (\E asked \in Requests : get_context_auto(asked)) \/ session_commits

ManagerSpec == ManagerInit /\ [][ManagerNext]_manager_vars

-----------------------------------------------------------------------------
(* Properties *)

ManagerTypeOK ==
  /\ SlotsTypeOK
  /\ protected_slots \subseteq Slots
  /\ reply \in [slot : Slots \cup {NoSlot}, asked : Requests \cup {<<>>}]

\* The slot returned for a text that fits one holds an initial piece of it, and both
\* cursors stand behind exactly that piece: a session that fills the caller's ids from
\* context_ids_len() on continues the right text at the right position.  Of a longer
\* text the slot holds a piece of the end, and such a caller, though context.hpp:109 to
\* 112 tells it to, would continue another text.
ReplyIsReadyToFill ==
  reply.slot # NoSlot /\ Fits(reply.asked) =>
    LET ids  == context_ids[reply.slot]
        hist == history_seqlen[reply.slot]
    IN  /\ IsPrefix(ids, reply.asked)
        /\ hist = IF ids = <<>> THEN 0 ELSE 1 + Len(ids)
        /\ current_seqlen[reply.slot] = hist

\* Whatever was cut off, slid down or given up, each slot's cache is in every lane
\* the pass-1 state of the ids the slot says it holds, and of nothing else but
\* ids evicted in front of them.
SlotsHoldTheirHistory ==
  \A s \in Slots, l \in Lanes : \A p \in 0 .. history_seqlen[s] - 1 :
    IsHistoryCell(self_kv[s][l][p], context_ids[s], p)

\* No slot held more of the text than the slot returned keeps of it: not at its
\* front, not (from MinAccept ids on) anywhere else, whatever the preference for
\* slack or for prefixes chose.
LongestPieceIsReused ==
  [][reply'.slot # NoSlot =>
       LET target == Trimmed(reply'.asked)
       IN  \A s \in Slots, k \in Len(context_ids'[reply'.slot]) + 1 .. Len(target) :
             \A o \in 0 .. Len(context_ids[s]) - k : (o > 0 => k >= MinAccept) =>
               SubSeq(context_ids[s], o + 1, o + k) # SubSeq(target, 1, k)]_manager_vars

\* Between two sessions' calls a protected slot never loses all of its text: when
\* a slot has to be given up there is always an empty one or one on trial.
ProtectedTextSurvives ==
  [][reply'.slot # NoSlot =>
       \A s \in protected_slots : context_ids[s] # <<>> => context_ids'[s] # <<>>]_manager_vars

\* Reuse never protects so many slots that a new text finds none on trial.
TrialSlotsRemain == Cardinality(Slots \ protected_slots) >= trial_capacity

=============================================================================
