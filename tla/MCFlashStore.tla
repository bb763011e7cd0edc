----------------------------- MODULE MCFlashStore -----------------------------
(* Two pages: one change of the settings, two of the pages, and power fails    *)
(* twice, so that what one loss has left is written over and cut off again.    *)
EXTENDS FlashStore, TLC

CONSTANTS s1, s2, p1

MCSettings == {s1, s2}
MCPrescriptions == {p1}
MCMaxWrites == Config :> 1 @@ Desk :> 2
===============================================================================
