----------------------------- MODULE MCCanDevice -----------------------------
(* Two threads, as in main.cpp: the polling thread lights the LED of a unit  *)
(* (ProcessRecievedEvent); the keyboard thread lights it too and opens the   *)
(* door (ReadKBLine).  For liveness both write the LED, so that each waits   *)
(* for the entry of the other.                                               *)
EXTENDS CanDevice, TLC

CONSTANTS poll, keyboard, led, door

MCKeysOf == poll :> {led} @@ keyboard :> {led, door}
MCOneKey == poll :> {led} @@ keyboard :> {led}
MCSymmetry == Permutations(Workers)
=============================================================================
