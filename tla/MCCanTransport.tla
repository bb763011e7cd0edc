---------------------------- MODULE MCCanTransport ----------------------------
(* Two units that broadcast without a prescription (10 bytes) and with one (18 *)
(* bytes, whose segments are all full); a capture changes one into the other.   *)
(* One sends often enough for an entry that a fault has left to meet two more   *)
(* broadcasts; the other one's frames arrive between, and meet no fault.        *)
EXTENDS CanTransport, TLC

CONSTANTS u1, u2

MCUnits == {u1, u2}
MCLengths == {10, 18}
MCMaxSent == u1 :> 3 @@ u2 :> 1
MCMaxFaults == u1 :> 2 @@ u2 :> 0
===============================================================================
