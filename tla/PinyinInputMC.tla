----------------------------- MODULE PinyinInputMC ----------------------------
(***************************************************************************)
(* Instances of PinyinInput for TLC: everything of up to five characters   *)
(* that can be typed with X, v, e, a separator and a letter of two bytes,  *)
(* over words that overlap: x, xu, xue, e, ue; and two that are not typed, *)
(* bv and bb, for what v and the wide letter are repaired to.  A single v  *)
(* is as near to bv as to x and e; bb, though smaller, is farther off.     *)
(***************************************************************************)
EXTENDS PinyinInput

CONSTANTS InputBound  \* bound: longest input

\* In no order, so that the words as near come before and behind the smallest.
MCWords      == <<<<98, 118>>, <<98, 98>>, <<120>>, <<120, 117>>, <<120, 117, 101>>, <<101>>,
                  <<117, 101>>>>
MCSeparators == {39}
MCInputs     == UNION {[1 .. n -> {88, 118, 101, 39, 233}] : n \in 0 .. InputBound}
MCLogits     == {-1, 1}
=============================================================================
