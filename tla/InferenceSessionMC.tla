-------------------------- MODULE InferenceSessionMC --------------------------
(***************************************************************************)
(* Instances of InferenceSession for TLC.  The ids passed to fill and      *)
(* replace_context are all the sequences up to a length over the model's   *)
(* tokens, with and without a leading BOS, and one that holds an id out of *)
(* the vocabulary.                                                         *)
(***************************************************************************)
EXTENDS InferenceSession

CONSTANTS
  FillBound,     \* bound: longest sequence passed to fill
  ContextBound   \* bound: longest snapshot passed to replace_context, generate

IdSequences(bound) ==
  LET plain == UNION {[1 .. k -> Tokens] : k \in 0 .. bound}
  IN  plain \cup {<<BOS>> \o ids : ids \in UNION {[1 .. k -> Tokens] : k \in 0 .. 1}}
            \cup {<<t, BadId>> : t \in Tokens}

MCFillArgs    == IdSequences(FillBound)
MCContextArgs == IdSequences(ContextBound)
\* A few ids, that two tokens 1 and 2 tell apart: none, some with BOS in front, some
\* that fill the window or are longer, some out of the vocabulary.
MCLedgerFills     == {<<2, 1>>, <<BOS, 2>>, <<1, BadId>>}
MCLedgerContexts  == {<<1>>, <<BOS, 1, 2, 2, 1>>}
MCLedgerSnapshots == {<<>>, <<1, 2, 1>>, <<BadId>>}
\* Candidate lists with and without an id that no context id maps to.
MCCandidates == Tokens \cup {Unmapped}
MCMapped     == Tokens

Symmetry == Permutations(Tokens) \cup Permutations(Slots)
=============================================================================
