------------------------------- MODULE ImeEditor -------------------------------
(***************************************************************************)
(* The line editor of the interactive demo: class ImeEditor of             *)
(* src/apps/ime_editor.hpp, as operators over a record of text and cursor. *)
(*                                                                         *)
(* The text is UTF-8 and the cursor counts bytes.  A byte is <<c, i>>, the *)
(* i-th byte of a character c: all but the first are continuation bytes.   *)
(***************************************************************************)
EXTENDS Integers, Sequences, FiniteSetsExt, SequencesExt

CONSTANT Width   \* character -> the bytes of its UTF-8 encoding

ASSUME WidthConfig == \A c \in DOMAIN Width : Width[c] \in 1 .. 4

Utf8(c) == [i \in 1 .. Width[c] |-> <<c, i>>]
Encoded(chars) == FlattenSeq([i \in DOMAIN chars |-> Utf8(chars[i])])

EmptyEditor == [text |-> <<>>, cursor |-> 0]

is_continuation(byte) == byte[2] > 1

\* Position p stands before text[p + 1].  Mutant: a byte back.
previous_boundary_Byte(e) == e.cursor - 1

previous_boundary(e) ==
  Max({p \in 0 .. e.cursor - 1 : p = 0 \/ ~is_continuation(e.text[p + 1])})

next_boundary(e) ==
  Min({p \in e.cursor + 1 .. Len(e.text) :
         p = Len(e.text) \/ ~is_continuation(e.text[p + 1])})

text_before_cursor(e) == SubSeq(e.text, 1, e.cursor)

insert(e, bytes) ==
  [text   |-> text_before_cursor(e) \o bytes \o SubSeq(e.text, e.cursor + 1, Len(e.text)),
   cursor |-> e.cursor + Len(bytes)]

\* The bytes between two positions are cut out.
Cut(e, from, to) == SubSeq(e.text, 1, from) \o SubSeq(e.text, to + 1, Len(e.text))

backspace(e) ==
  IF e.cursor = 0 THEN e
  ELSE [text |-> Cut(e, previous_boundary(e), e.cursor), cursor |-> previous_boundary(e)]

erase(e) ==
  IF e.cursor < Len(e.text)
  THEN [e EXCEPT !.text = Cut(e, e.cursor, next_boundary(e))] ELSE e

move_left(e) ==
  IF e.cursor > 0 THEN [e EXCEPT !.cursor = previous_boundary(e)] ELSE e

move_right(e) ==
  IF e.cursor < Len(e.text) THEN [e EXCEPT !.cursor = next_boundary(e)] ELSE e

-----------------------------------------------------------------------------
\* A whole character starts at position p; a decoder replaces what is left, and the
\* vocabulary has no entry for that.
WholeAt(bytes, p) ==
  \A i \in 1 .. Width[bytes[p][1]] :
    p + i - 1 <= Len(bytes) /\ bytes[p + i - 1] = <<bytes[p][1], i>>

\* Nothing but whole characters: every byte has its neighbours.
IsWhole(bytes) ==
  \A p \in DOMAIN bytes :
    LET c == bytes[p][1]
        i == bytes[p][2]
    IN  /\ i > 1 => p > 1 /\ bytes[p - 1] = <<c, i - 1>>
        /\ i < Width[c] => p < Len(bytes) /\ bytes[p + 1] = <<c, i + 1>>

\* Both sides of the cursor are whole characters.
OnBoundary(e) ==
  IsWhole(text_before_cursor(e)) /\ IsWhole(SubSeq(e.text, e.cursor + 1, Len(e.text)))
=============================================================================
