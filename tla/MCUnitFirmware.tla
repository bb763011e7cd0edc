---------------------------- MODULE MCUnitFirmware ----------------------------
(* A unit with one or two cards, and one foreign tag or none. *)
EXTENDS UnitFirmware, TLC

CONSTANTS c1, c2, t1

MCCards == {c1, c2}
MCOtherTags == {t1}
MCOneCard == {c1}
MCNoTags == {}
MCLeds == {0, 2}
MCNoLeds == {0}
MCIdle == 255
MCSymmetry == Permutations(MCCards)
===============================================================================
