------------------------------ MODULE CanChannel ------------------------------
(***************************************************************************)
(* What the CAN transport promises about the broadcasts of a unit: each is  *)
(* delivered at most once and in the order of sending; while there was no   *)
(* fault none is skipped; and entries put together from two broadcasts, or  *)
(* from two captures, are delivered no more often than there were faults.   *)
(***************************************************************************)
EXTENDS Naturals

CONSTANT Units

VARIABLES
  sent,       \* number of broadcasts that the unit has begun to send
  last,       \* number of the last broadcast that was delivered whole
  faults,     \* number of frames of the unit that were lost or came late, and
              \* of captures of its state while it was being broadcast
  garbled     \* number of entries delivered that were not sent like that

vars == <<sent, last, faults, garbled>>

Init ==
  /\ sent = [u \in Units |-> 0]
  /\ last = [u \in Units |-> 0]
  /\ faults = [u \in Units |-> 0]
  /\ garbled = [u \in Units |-> 0]

Send(u) ==
  /\ sent' = [sent EXCEPT ![u] = @ + 1]
  /\ UNCHANGED <<last, faults, garbled>>

Fault(u) ==
  /\ faults' = [faults EXCEPT ![u] = @ + 1]
  /\ UNCHANGED <<sent, last, garbled>>

Deliver(u) ==
  /\ \E n \in last[u] + 1 .. sent[u] :
       /\ faults[u] = 0 => n = last[u] + 1
       /\ last' = [last EXCEPT ![u] = n]
  /\ UNCHANGED <<sent, faults, garbled>>

Garble(u) ==
  /\ garbled[u] < faults[u]
  /\ garbled' = [garbled EXCEPT ![u] = @ + 1]
  /\ UNCHANGED <<sent, last, faults>>

Next == \E u \in Units : Send(u) \/ Fault(u) \/ Deliver(u) \/ Garble(u)

Spec == Init /\ [][Next]_vars
===============================================================================
