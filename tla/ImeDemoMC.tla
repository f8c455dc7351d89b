------------------------------- MODULE ImeDemoMC -------------------------------
(***************************************************************************)
(* Instances of ImeDemo for TLC: two histories and two slots.  The         *)
(* candidates with an id have one byte, the one without has two.           *)
(***************************************************************************)
EXTENDS ImeDemo

CONSTANTS a, b

TwoSlots     == 0 .. 1
MCWidth      == [c \in Candidates \cup {Letter} |-> IF c = Unmapped THEN 2 ELSE 1]
NoArgs       == {}
Symmetry     == Permutations(Tokens)
=============================================================================
