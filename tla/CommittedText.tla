---------------------------- MODULE CommittedText ----------------------------
(***************************************************************************)
(* What a client of InferenceSession may rely on (inference_engine.hpp,    *)
(* the comments on fill, replace_context and generate): the committed text *)
(* of each slot, seen without caches, cursors, beams or cancellation.      *)
(*                                                                         *)
(* A fill or a replacement answered Ok has committed the window of what it *)
(* was given.  A fill that fails leaves the text as it was, or what it had *)
(* evicted to make room; a replacement that fails leaves the text as it    *)
(* was when it only had to be extended, and none when it was being         *)
(* rebuilt.  Ids out of the vocabulary are refused and nothing changes.  A *)
(* generation commits its snapshot, whatever it answers in the end, and    *)
(* nothing of what it decodes; while it decodes, no other call begins.     *)
(***************************************************************************)
EXTENDS Integers, SequencesExt

CONSTANTS
  Slots,        \* the context slots
  MaxHistory,   \* longest committed text
  Target,       \* length an eviction leaves
  BOS,          \* an id that may stand in front of a text and is no part of it
  Vocabulary,   \* the ids a text is made of
  FillArgs,     \* id sequences passed to fill
  ContextArgs,  \* id sequences passed to replace_context
  Snapshots,    \* id sequences passed to generate, <<>> for none
  Failures      \* answers other than "Ok" and "Pending"

VARIABLES
  text,        \* slot -> committed ids
  answer       \* what the last call answered, "Pending" while one decodes

Newest(ids, k) == SubSeq(ids, Len(ids) - k + 1, Len(ids))

Windowed(ids) == IF Len(ids) > MaxHistory THEN Newest(ids, Target) ELSE ids

\* A generation starts below the maximum.
BelowMax(ids) == IF Len(ids) >= MaxHistory THEN Newest(ids, Target) ELSE ids

Plain(ids) == IF ids # <<>> /\ Head(ids) = BOS THEN Tail(ids) ELSE ids

Known(ids) == \A i \in 1 .. Len(ids) : ids[i] \in Vocabulary

\* What is left of a text when its extension by ids fails: room was made first.
Spared(old, ids) ==
  IF Len(old) + Len(ids) <= MaxHistory THEN old
  ELSE Newest(old, IF Len(ids) < Target THEN Target - Len(ids) ELSE 0)

\* What is left of a text when its replacement by ids fails.
Undone(old, ids) == IF IsPrefix(old, Windowed(ids)) THEN old ELSE <<>>

Put(s, ids, answers) ==
  /\ answer # "Pending"
  /\ text' = [text EXCEPT ![s] = ids]
  /\ answer' \in answers

Init ==
  /\ text = [s \in Slots |-> <<>>]
  /\ answer = "Ok"

Reset(s) == Put(s, <<>>, {"Ok"})

Refuse(s, ids) == ~Known(ids) /\ Put(s, text[s], {"InvalidArgument"})

Fill(s, ids) ==
  \/ Refuse(s, ids)
  \/ Known(ids) /\ Put(s, Windowed(text[s] \o Plain(ids)), {"Ok"})
  \/ Known(ids) /\ Put(s, Spared(text[s], Plain(ids)), Failures)

Replace(s, ids) ==
  \/ Refuse(s, ids)
  \/ Known(ids) /\ Put(s, Windowed(Plain(ids)), {"Ok"})
  \/ Known(ids) /\ Put(s, Undone(text[s], Plain(ids)), Failures)

Base(s, ids) == IF ids = <<>> THEN text[s] ELSE Windowed(Plain(ids))

\* A generation answers now, before it decodes, or goes on.
Generate(s, ids) ==
  \/ Refuse(s, ids)
  \/ Known(ids) /\ Put(s, BelowMax(Base(s, ids)), {"Ok", "Pending"} \cup Failures)
  \/ Known(ids) /\ ids # <<>> /\ Put(s, Undone(text[s], Plain(ids)), Failures)

\* A generation that went on decodes, and answers.
Answer ==
  /\ answer = "Pending"
  /\ answer' \in {"Pending", "Ok"} \cup Failures
  /\ UNCHANGED text

Next ==
  \/ \E s \in Slots :
       \/ Reset(s)
       \/ \E ids \in FillArgs : Fill(s, ids)
       \/ \E ids \in ContextArgs : Replace(s, ids)
       \/ \E ids \in Snapshots : Generate(s, ids)
  \/ Answer

Spec == Init /\ [][Next]_<<text, answer>>
=============================================================================
