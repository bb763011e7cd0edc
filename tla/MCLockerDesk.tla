----------------------------- MODULE MCLockerDesk -----------------------------
(* Two units without cards, or the first of them with cards and tags. *)
EXTENDS LockerDesk, TLC

CONSTANTS p1, p2

MCUnits == {1, 2}
MCNoCards == {}
MCCardUnits == {1}
MCPrescriptions == {p1, p2}
MCGoals == {"deposit", "fetch", "clear"}
MCNoGoals == {}
MCSymmetry == Permutations(MCPrescriptions)
===============================================================================
