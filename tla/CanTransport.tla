----------------------------- MODULE CanTransport -----------------------------
(***************************************************************************)
(* The broadcasts of the units on their way to the controller.              *)
(*   - A unit (canonchip.c, CANTransmit) cuts a broadcast into a first      *)
(*     frame, which has the length and four bytes, and segments of seven    *)
(*     bytes.  CANSend drops a frame while the bus is in error; it puts a   *)
(*     frame into the first message object that is free, and when that is   *)
(*     not the lowest one the frames after it may go out first.             *)
(*   - The broadcast is read out of syncEntry while it is sent.  A handler  *)
(*     that captures the state meanwhile (CanexSyncTrigger) rewrites it:    *)
(*     the broadcast is torn, and as CANTransmit reads the length again     *)
(*     after the first frame, its segments may be cut for other lengths     *)
(*     than the announced one.                                              *)
(*   - The controller's receive interrupt (CAN_STM32F40x.c) puts frames     *)
(*     into a mail queue, as long as there is room.                         *)
(*   - UpdateWorker takes them out (CanEx::Poll) and MessageReceiver puts   *)
(*     them together again, in rxTable, with one entry per unit.            *)
(*                                                                         *)
(* Only the place of a frame in its broadcast matters, so a frame has the   *)
(* number of its broadcast instead of its bytes; the code has no such       *)
(* numbers.  Broadcasts have more than four bytes (ten at least), so they   *)
(* are never sent in a single frame.  Responses and heartbeats are single   *)
(* frames, which never touch rxTable.                                       *)
(***************************************************************************)
EXTENDS Integers, Sequences

CONSTANTS
  Units,        \* the units on the bus
  Lengths,      \* the lengths of broadcasts, in bytes
  QueueSize,    \* mails of MBX_rx_ctrl
  MaxSent,      \* bound: broadcasts of each unit
  MaxFaults,    \* bound: faults of each unit, see Fault
  NoFrame, NoEntry

ASSUME CanTransportAssumption ==
  /\ Lengths \subseteq 5..255
  /\ QueueSize \in Nat \ {0}
  /\ MaxSent \in [Units -> Nat] /\ MaxFaults \in [Units -> Nat]

VARIABLES
  sent,       \* of each unit: the lengths that its broadcasts have announced
  cut,        \* of each unit: the lengths that their segments are cut for; one
              \* is divided by 7, the other one gives the remainder
  torn,       \* of each unit: the broadcasts during which a handler captured
  next,       \* of each unit: the frame it sends next, 0 for the first frame,
              \* or -1 between two broadcasts
  held,       \* of each unit: a frame that waits in a higher message object
  queue,      \* the controller's received mails
  rxTable,    \* of each unit: the entry that is being put together
  last,       \* history: the last broadcast delivered whole
  mixed,      \* history: the entries delivered with parts of two broadcasts
  faulty      \* history: of each frame that was lost or that overtook another,
              \* and of each capture that tore one, the broadcast

unitVars == <<sent, cut, torn, next, held>>
rxVars   == <<rxTable, last, mixed>>
vars == <<sent, cut, torn, next, held, queue, rxTable, last, mixed, faulty>>

\* Segments of a broadcast that is cut for the lengths c, and the bytes in its
\* k-th segment.
Remainder(c) == (c[2] - 4) % 7
Parts(c) == (c[1] - 4) \div 7 + (IF Remainder(c) = 0 THEN 0 ELSE 1)
SizeOf(c, k) == IF k < Parts(c) \/ Remainder(c) = 0 THEN 7 ELSE Remainder(c)

Segments(len) == Parts(<<len, len>>)
LastSegment(u) == Parts(cut[u][Len(cut[u])])   \* of the broadcast being sent

\* len: of a first frame the announced length, of a segment its own bytes.
Frames(u) == [unit : {u}, number : 1..MaxSent[u], seg : 0..36,
              len : Lengths \cup 1..7]
AllFrames == UNION {Frames(u) : u \in Units}

\* got: of each segment the broadcast that it was taken from, 0 if missing.
Entries(u) ==
  UNION {[number : 1..MaxSent[u], len : {l}, got : [1..Segments(l) -> 0..MaxSent[u]]]
           : l \in Lengths}

ASSUME NoneAssumption == \A u \in Units : NoFrame \notin Frames(u) /\ NoEntry \notin Entries(u)

TypeOK ==
  /\ \A u \in Units :
       /\ sent[u] \in Seq(Lengths) /\ Len(sent[u]) <= MaxSent[u]
       /\ cut[u] \in Seq(Lengths \X Lengths) /\ Len(cut[u]) = Len(sent[u])
       /\ torn[u] \subseteq 1..Len(sent[u])
       /\ next[u] \in -1..36
       /\ next[u] >= 0 => sent[u] # <<>> /\ next[u] <= LastSegment(u)
       /\ last[u] \in 0..Len(sent[u])
       /\ held[u] \in Frames(u) \cup {NoFrame}
       /\ rxTable[u] \in Entries(u) \cup {NoEntry}
       /\ mixed[u] \in Seq(1..Len(sent[u]))
       /\ faulty[u] \in Seq(1..Len(sent[u])) /\ Len(faulty[u]) <= MaxFaults[u]
  /\ queue \in Seq(AllFrames) /\ Len(queue) <= QueueSize

Init ==
  /\ sent = [u \in Units |-> <<>>]
  /\ cut = [u \in Units |-> <<>>]
  /\ torn = [u \in Units |-> {}]
  /\ next = [u \in Units |-> -1]
  /\ held = [u \in Units |-> NoFrame]
  /\ queue = <<>>
  /\ rxTable = [u \in Units |-> NoEntry]
  /\ last = [u \in Units |-> 0]
  /\ mixed = [u \in Units |-> <<>>]
  /\ faulty = [u \in Units |-> <<>>]

-----------------------------------------------------------------------------
(* The unit. *)

\* The main loop broadcasts what was captured last.
Begin(u) ==
  /\ next[u] = -1 /\ Len(sent[u]) < MaxSent[u]
  /\ \E l \in Lengths :
       /\ sent' = [sent EXCEPT ![u] = Append(@, l)]
       /\ cut' = [cut EXCEPT ![u] = Append(@, <<l, l>>)]
  /\ next' = [next EXCEPT ![u] = 0]
  /\ UNCHANGED <<torn, held, queue, rxVars, faulty>>

\* What counts as a fault of the broadcast n: a frame of it was lost or overtook
\* another one, or a handler captured while it was being sent.
Fault(u, n) ==
  /\ Len(faulty[u]) < MaxFaults[u]
  /\ faulty' = [faulty EXCEPT ![u] = Append(@, n)]

\* What the segments may be cut for when syncEntry is rewritten: up to the first
\* segment the new length can be read twice, or only for the remainder.
Recut(u) ==
  LET l == sent[u][Len(sent[u])]
  IN  {c \in Lengths \X Lengths :
         IF next[u] <= 1 THEN c[1] \in {l, c[2]} ELSE c = <<l, l>>}

\* A handler captures the state while it is being broadcast.  The next capture
\* returns at once, since syncTriggered stays set until the broadcast is over.
\* The first frame may have been the only one, with the new lengths.
Capture(u) ==
  LET n == Len(sent[u])
  IN  /\ next[u] >= 0 /\ n \notin torn[u]
      /\ torn' = [torn EXCEPT ![u] = @ \cup {n}]
      /\ \E c \in Recut(u) :
           /\ cut' = [cut EXCEPT ![u] = [@ EXCEPT ![n] = c]]
           /\ next' = [next EXCEPT ![u] = IF @ > Parts(c) THEN -1 ELSE @]
      /\ Fault(u, n)
      /\ UNCHANGED <<sent, held, queue, rxVars>>

Current(u) ==
  LET n == Len(sent[u])
  IN  [unit |-> u, number |-> n, seg |-> next[u],
       len |-> IF next[u] = 0 THEN sent[u][n] ELSE SizeOf(cut[u][n], next[u])]

\* Variant for the checks: the last segment is left out (i < segment-1).
AdvanceShort(u) ==
  /\ next[u] >= 0
  /\ next' = [next EXCEPT ![u] =
                IF @ >= LastSegment(u) - 1 THEN -1 ELSE @ + 1]
  /\ UNCHANGED <<sent, cut, torn>>

\* CANTransmit goes on to the next segment, or is done.
Advance(u) ==
  /\ next[u] >= 0
  /\ next' = [next EXCEPT ![u] =
                IF @ = LastSegment(u) THEN -1 ELSE @ + 1]
  /\ UNCHANGED <<sent, cut, torn>>

\* A frame of u is on the bus and the controller's interrupt takes it, or has
\* no mail left.  late: frames after one that still waits are overtaking it.
Arrive(u, frame, late) ==
  LET full == Len(queue) = QueueSize
  IN  /\ queue' = IF full THEN queue ELSE Append(queue, frame)
      /\ IF full \/ late THEN Fault(u, frame.number) ELSE UNCHANGED faulty

SendFrame(u) ==
  /\ Advance(u)
  /\ Arrive(u, Current(u), held[u] # NoFrame)
  /\ UNCHANGED <<held, rxVars>>

\* CANSend finds the lower message object busy; its frame waits in the next.
HoldFrame(u) ==
  /\ held[u] = NoFrame
  /\ Advance(u)
  /\ held' = [held EXCEPT ![u] = Current(u)]
  /\ UNCHANGED <<queue, rxVars, faulty>>

\* The frame that waited goes out.
ReleaseFrame(u) ==
  /\ held[u] # NoFrame
  /\ Arrive(u, held[u], FALSE)
  /\ held' = [held EXCEPT ![u] = NoFrame]
  /\ UNCHANGED <<sent, cut, torn, next, rxVars>>

\* CANSend returns at once: the bus is in error.
LoseFrame(u) ==
  /\ Advance(u)
  /\ Fault(u, Len(sent[u]))
  /\ UNCHANGED <<held, queue, rxVars>>

-----------------------------------------------------------------------------
(* The controller. *)

\* Variant for the checks: the segment that is not full is not counted.
NewEntryFullOnly(frame) ==
  [number |-> frame.number, len |-> frame.len,
   got |-> [k \in 1..(frame.len - 4) \div 7 |-> 0]]

\* RxStruct(entry): the bits of the segments that are still to come are clear.
NewEntry(frame) ==
  [number |-> frame.number, len |-> frame.len,
   got |-> [k \in 1..Segments(frame.len) |-> 0]]

\* Variant for the checks: pos+len >= Entry->GetLen() is out of range.
FitsBelow(entry, frame) ==
  4 + 7 * (frame.seg - 1) + frame.len < entry.len

\* SetSegment: a segment that would reach beyond the entry is ignored.
Fits(entry, frame) ==
  4 + 7 * (frame.seg - 1) + frame.len <= entry.len

SetSegment(entry, frame) ==
  IF Fits(entry, frame) THEN [entry EXCEPT !.got[frame.seg] = frame.number]
                        ELSE entry

IsComplete(entry) == \A k \in DOMAIN entry.got : entry.got[k] # 0

\* The bytes of the entry are those of one broadcast, and of one capture.
IsWhole(u, entry) ==
  entry.number \notin torn[u] /\ \A k \in DOMAIN entry.got : entry.got[k] = entry.number

\* The first frame is dropped if an entry of that unit is there already.
ReceiveFirst(frame) ==
  /\ frame.seg = 0
  /\ rxTable' = IF rxTable[frame.unit] = NoEntry
                THEN [rxTable EXCEPT ![frame.unit] = NewEntry(frame)]
                ELSE rxTable
  /\ UNCHANGED <<last, mixed>>

\* Variant for the checks: the delivered entry stays in rxTable.
ReceiveSegmentKeep(frame) ==
  LET u     == frame.unit
      entry == SetSegment(rxTable[u], frame)
  IN  /\ frame.seg > 0
      /\ IF rxTable[u] = NoEntry THEN UNCHANGED rxVars
         ELSE /\ rxTable' = [rxTable EXCEPT ![u] = entry]
              /\ IF ~IsComplete(entry) THEN UNCHANGED <<last, mixed>>
                 ELSE IF IsWhole(u, entry)
                 THEN last' = [last EXCEPT ![u] = entry.number] /\ UNCHANGED mixed
                 ELSE mixed' = [mixed EXCEPT ![u] = Append(@, entry.number)] /\ UNCHANGED last

\* A segment without an entry is dropped; the one that completes an entry
\* hands it to the unit's ProcessRecievedEvent and erases it.
ReceiveSegment(frame) ==
  LET u     == frame.unit
      entry == SetSegment(rxTable[u], frame)
  IN  /\ frame.seg > 0
      /\ IF rxTable[u] = NoEntry THEN UNCHANGED rxVars
         ELSE IF ~IsComplete(entry)
         THEN rxTable' = [rxTable EXCEPT ![u] = entry] /\ UNCHANGED <<last, mixed>>
         ELSE /\ rxTable' = [rxTable EXCEPT ![u] = NoEntry]
              /\ IF IsWhole(u, entry)
                 THEN last' = [last EXCEPT ![u] = entry.number] /\ UNCHANGED mixed
                 ELSE mixed' = [mixed EXCEPT ![u] = Append(@, entry.number)] /\ UNCHANGED last

Poll ==
  /\ queue # <<>>
  /\ queue' = Tail(queue)
  /\ ReceiveFirst(Head(queue)) \/ ReceiveSegment(Head(queue))
  /\ UNCHANGED <<unitVars, faulty>>

\* All broadcasts have been sent and received: the model stops, the code waits
\* for the next change.
Finished ==
  /\ queue = <<>>
  /\ \A u \in Units : next[u] = -1 /\ held[u] = NoFrame /\ Len(sent[u]) = MaxSent[u]
  /\ UNCHANGED vars

UnitStep(u) == SendFrame(u) \/ HoldFrame(u) \/ LoseFrame(u)
Next ==
  \/ \E u \in Units : Begin(u) \/ Capture(u) \/ UnitStep(u) \/ ReleaseFrame(u)
  \/ Poll
  \/ Finished

Fairness ==
  /\ WF_vars(Poll)
  /\ \A u \in Units : WF_vars(UnitStep(u)) /\ WF_vars(ReleaseFrame(u))

Spec == Init /\ [][Next]_vars
FairSpec == Spec /\ Fairness

-----------------------------------------------------------------------------
(* Properties. *)

\* The transport is the channel of CanChannel: broadcasts arrive once, in
\* order, without a gap unless there was a fault, and mixed, of two broadcasts
\* or of two captures, at most once per fault (CanEx.cpp, MessageReceiver).
Channel ==
  INSTANCE CanChannel WITH sent    <- [u \in Units |-> Len(sent[u])],
                           faults  <- [u \in Units |-> Len(faulty[u])],
                           garbled <- [u \in Units |-> Len(mixed[u])]
ImplementsChannel == Channel!Spec

Underway(u) ==
  \/ next[u] >= 0
  \/ held[u] # NoFrame
  \/ \E i \in 1..Len(queue) : queue[i].unit = u

\* An entry that is left in rxTable, by a lost or late frame or since a capture
\* changed the length after the first frame, turns the first frames of later
\* broadcasts away; it does not outlive a broadcast of its own length, unless
\* that one has met a fault itself (CanEx.cpp, MessageReceiver).
StaleEntryEnds ==
  \A u \in Units :
    rxTable[u] # NoEntry /\ ~Underway(u)
      => \A n \in rxTable[u].number .. Len(sent[u]) :
           sent[u][n] = rxTable[u].len => \E i \in 1..Len(faulty[u]) : faulty[u][i] = n

\* As long as no frame was lost or late and no broadcast was torn by a capture,
\* every broadcast is delivered in the end.
BroadcastArrives ==
  \A u \in Units : \A n \in 1..MaxSent[u] :
    Len(sent[u]) >= n ~> last[u] >= n \/ faulty[u] # <<>>

===============================================================================
