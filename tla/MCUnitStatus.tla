----------------------------- MODULE MCUnitStatus -----------------------------
(* A unit and one or two cards. *)
EXTENDS UnitStatus, TLC

CONSTANTS c1, c2

MCCards == {c1, c2}
MCOneCard == {c1}
MCLevels == {0, 2}
MCNoLevels == {}
MCSymmetry == Permutations(MCCards)
===============================================================================
