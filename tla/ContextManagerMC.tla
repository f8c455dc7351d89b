--------------------------- MODULE ContextManagerMC ---------------------------
(***************************************************************************)
(* Instances of ContextManager for TLC: a text whose pieces repeat, and    *)
(* requests that match it in front, in the middle and not at all.          *)
(***************************************************************************)
EXTENDS ContextManager

CONSTANTS a, b

MCTokens   == {a, b}
ThreeSlots == 0 .. 2
\* One text that fills a slot, and none.
MCTexts    == {<<>>, <<a, b, a, b, a>>}
MCAhead    == {1}
\* What matches it in front, in the middle (at one offset, at two), not at all, and
\* more than a slot can hold.
MCRequests == {<<>>, <<a, b, b>>, <<b, a>>, <<b, a, b>>, <<b, b>>, <<a, a, b, a, b, a>>}
=============================================================================
