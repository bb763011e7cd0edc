-------------------------- MODULE CanTransport_proofs --------------------------
(***************************************************************************)
(* Proofs about CanTransport, for any units, lengths, queue and bounds.     *)
(*                                                                         *)
(* A frame of the unit u is named by its broadcast n and its place s there. *)
(* The argument has two halves.  One is about order (Order, Alone,          *)
(* HeldOrder): at most one earlier frame is still to come behind a frame,   *)
(* and then the frames that overtook it have met faults.  The other is      *)
(* about what the controller has put together (Taken, Entry, Blamed,        *)
(* Clean): a first frame is taken once; an entry whose broadcast met no     *)
(* fault has all segments that have come; and an entry that is delivered    *)
(* with parts of two broadcasts can be blamed on a fault of its own         *)
(* broadcast, or of the next one, which then never had an entry.            *)
(*   A broadcast that a capture tore may be cut otherwise than it announced. *)
(* Such a capture is a fault, comes before the second segment, and leaves    *)
(* the frames that are out as they are (Onward); without one a broadcast is  *)
(* cut as it announced (Straight).                                           *)
(***************************************************************************)
EXTENDS CanTransport, FiniteSetTheorems, TLAPS

Begun(u) == Len(sent[u])
Pieces(u, n) == Parts(cut[u][n])   \* the segments that it is sent in
LenOf(u, n, s) == IF s = 0 THEN sent[u][n] ELSE SizeOf(cut[u][n], s)
Faulty(u) == {faulty[u][i] : i \in 1..Len(faulty[u])}
Mixed(u) == {mixed[u][i] : i \in 1..Len(mixed[u])}

\* Where a frame is: in the queue, held back, or on its way either way.
InQueue(i, u, n, s) ==
  i \in 1..Len(queue) /\ queue[i].unit = u /\ queue[i].number = n /\ queue[i].seg = s
OnQueue(u, n, s) == \E i \in 1..Len(queue) : InQueue(i, u, n, s)
IsHeld(u, n, s) == held[u] # NoFrame /\ held[u].number = n /\ held[u].seg = s
Coming(u, n, s) == OnQueue(u, n, s) \/ IsHeld(u, n, s)

\* The unit is through with it; then it has come or is lost if it is not coming.
Past(u, n, s) ==
  /\ n \in 1..Begun(u) /\ s \in 0..Pieces(u, n)
  /\ n = Begun(u) => next[u] = -1 \/ s < next[u]
Gone(u, n, s) == Past(u, n, s) /\ ~Coming(u, n, s)

HasEntry(u, n) == rxTable[u] # NoEntry /\ rxTable[u].number = n
Taken(u, n) == n = last[u] \/ n \in Mixed(u) \/ HasEntry(u, n)

\* It has come for sure.
Consumed(u, n, s) == Gone(u, n, s) /\ (n \notin Faulty(u) \/ (s = 0 /\ Taken(u, n)))

Earlier(n, s, m, r) == n < m \/ (n = m /\ s < r)

\* (n, s) comes after (m, r) has come.
InLine(u, n, s, m, r) ==
  \E i, j \in 1..Len(queue) : i < j /\ InQueue(i, u, m, r) /\ InQueue(j, u, n, s)
Behind(u, n, s, m, r) ==
  \/ Consumed(u, m, r) /\ Coming(u, n, s)
  \/ InLine(u, n, s, m, r)
  \/ OnQueue(u, m, r) /\ IsHeld(u, n, s)

\* A frame of m may have overtaken (n, s): all broadcasts after n have met
\* faults, and so has n itself if the frame is not its last.
Overtaken(u, n, s, m) ==
  /\ \A k \in n + 1 .. m : k \in Faulty(u)
  /\ n \in Faulty(u) \/ (n < m /\ s = Pieces(u, n))

ValidFrame(u, frame) ==
  /\ frame.unit = u /\ Past(u, frame.number, frame.seg)
  /\ frame.len = LenOf(u, frame.number, frame.seg)

Valid(u) ==
  /\ \A i \in 1..Len(queue) : queue[i].unit = u => ValidFrame(u, queue[i])
  /\ held[u] # NoFrame => ValidFrame(u, held[u])

Once(u, n, s) == \A i, j : InQueue(i, u, n, s) /\ InQueue(j, u, n, s) => i = j

Distinct(u) ==
  \A n, s \in Nat :
    /\ Once(u, n, s) /\ ~(OnQueue(u, n, s) /\ IsHeld(u, n, s))

Order(u) ==
  \A n, s, m, r \in Nat :
    Earlier(n, s, m, r) /\ Behind(u, n, s, m, r) => Overtaken(u, n, s, m)

Alone(u) ==
  \A n, s, k, t, m, r \in Nat :
    Earlier(n, s, m, r) /\ Behind(u, n, s, m, r) /\ Earlier(k, t, m, r) /\ Behind(u, k, t, m, r)
      => n = k /\ s = t

HeldOrder(u) ==
  \A n, s, m, r \in Nat :
    IsHeld(u, n, s) /\ Past(u, m, r) /\ Earlier(n, s, m, r) => Overtaken(u, n, s, m)

Traffic(u) == Valid(u) /\ Distinct(u) /\ Order(u) /\ Alone(u) /\ HeldOrder(u)

TakenInv(u) ==
  /\ \A n \in Nat \ {0} : Taken(u, n) => Gone(u, n, 0)
  /\ \A n \in Nat \ {0} : HasEntry(u, n) => n # last[u] /\ n \notin Mixed(u)
  /\ \A i, j \in 1..Len(mixed[u]) : mixed[u][i] = mixed[u][j] => i = j

\* The entry has what has come of every broadcast of its length since its own.
Filled(u, n, len, got) ==
  \A m \in n..Begun(u) : \A s \in 1..Segments(len) :
    m \notin Faulty(u) /\ sent[u][m] = len /\ Gone(u, m, s) => got[s] # 0

\* Segments of another broadcast are there only if the next one met a fault.
Pure(u, n, len, got) ==
  n \notin Faulty(u) =>
    /\ n + 1 \notin Mixed(u)
    /\ \A s \in 1..Segments(len) :
         got[s] \in {0, n} \/ (n + 1 \in Faulty(u) /\ Gone(u, n + 1, 0))

\* It is newer than what was delivered, or cannot be whole.
Newer(u, n, len, got) ==
  last[u] < n \/ n \in torn[u] \/ \E s \in 1..Segments(len) : got[s] # n /\ Gone(u, n, s)

EntryOf(u, n, len, got) ==
  /\ n \in 1..Begun(u) /\ len = sent[u][n]
  /\ \E s \in 1..Segments(len) : got[s] = 0
  /\ Filled(u, n, len, got) /\ Pure(u, n, len, got) /\ Newer(u, n, len, got)

Entry(u) ==
  rxTable[u] # NoEntry => EntryOf(u, rxTable[u].number, rxTable[u].len, rxTable[u].got)

Blamed(u) ==
  \A n \in Mixed(u) \ Faulty(u) :
    n + 1 \in Faulty(u) /\ n + 1 \notin Mixed(u) /\ Gone(u, n + 1, 0) /\ ~HasEntry(u, n + 1)

\* Without a fault every first frame that has come was taken.
Clean(u) ==
  faulty[u] = <<>> => \A n \in Nat : Gone(u, n, 0) => n <= last[u] \/ HasEntry(u, n)

Books(u) == TakenInv(u) /\ Entry(u) /\ Blamed(u) /\ Clean(u)

\* A broadcast that no capture tore is cut for the length that it announced.
Straight(u) ==
  /\ torn[u] \subseteq Faulty(u)
  /\ \A n \in 1..Begun(u) : n \notin torn[u] => cut[u][n] = <<sent[u][n], sent[u][n]>>

UnitType(u) ==
  /\ sent[u] \in Seq(Lengths) /\ Len(sent[u]) <= MaxSent[u]
  /\ cut[u] \in Seq(Lengths \X Lengths) /\ Len(cut[u]) = Len(sent[u])
  /\ torn[u] \subseteq 1..Len(sent[u])
  /\ next[u] \in -1..36
  /\ next[u] >= 0 => sent[u] # <<>> /\ next[u] <= LastSegment(u)
  /\ last[u] \in 0..Len(sent[u])
  /\ mixed[u] \in Seq(1..Len(sent[u]))
  /\ faulty[u] \in Seq(1..Len(sent[u])) /\ Len(faulty[u]) <= MaxFaults[u]
  /\ held[u] \in Frames(u) \cup {NoFrame}
  /\ rxTable[u] \in Entries(u) \cup {NoEntry}

\* The variables are functions of the units, and the queue is a queue.
Maps ==
  /\ DOMAIN sent = Units /\ DOMAIN cut = Units /\ DOMAIN torn = Units
  /\ DOMAIN next = Units /\ DOMAIN held = Units
  /\ DOMAIN rxTable = Units /\ DOMAIN last = Units
  /\ DOMAIN mixed = Units /\ DOMAIN faulty = Units
QueueType == queue \in Seq(AllFrames) /\ Len(queue) <= QueueSize

UnitInv(u) == UnitType(u) /\ Straight(u) /\ Traffic(u) /\ Books(u)
IInv == Maps /\ QueueType /\ \A u \in Units : UnitInv(u)

LEMMA TypesSuffice == IInv => TypeOK
  BY DEF IInv, UnitInv, UnitType, QueueType, AllFrames, TypeOK

-----------------------------------------------------------------------------
(* Numbers and sequences. *)

LEMMA SegmentsIn ==
  ASSUME NEW len \in Lengths
  PROVE  len \in 5..255 /\ Segments(len) \in 1..36
  BY CanTransportAssumption DEF Segments, Parts, Remainder

LEMMA PartsIn ==
  ASSUME NEW c \in Lengths \X Lengths
  PROVE  Parts(c) \in 0..36 /\ \A k : SizeOf(c, k) \in 1..7
<1>1. c[1] \in 5..255 /\ c[2] \in 5..255
  BY CanTransportAssumption
<1>2. Remainder(c) \in 0..6
  BY <1>1 DEF Remainder
<1>3. Parts(c) \in 0..36
  BY <1>1, <1>2 DEF Parts, Remainder
<1> QED
  BY <1>2, <1>3 DEF SizeOf

LEMMA SentIn ==
  ASSUME NEW u \in Units, UnitType(u)
  PROVE  /\ Begun(u) \in Nat
         /\ \A n \in 1..Begun(u) :
              /\ sent[u][n] \in Lengths /\ Segments(sent[u][n]) \in 1..36
              /\ cut[u][n] \in Lengths \X Lengths /\ Pieces(u, n) \in 0..36
<1>1. /\ sent[u] \in Seq(Lengths) /\ cut[u] \in Seq(Lengths \X Lengths)
      /\ Len(cut[u]) = Len(sent[u])
  BY DEF UnitType
<1>2. Begun(u) \in Nat /\ \A n \in 1..Begun(u) : sent[u][n] \in Lengths
  BY <1>1 DEF Begun
<1>3. \A n \in 1..Begun(u) : cut[u][n] \in Lengths \X Lengths
  BY <1>1 DEF Begun
<1> QED
  BY <1>2, <1>3, SegmentsIn, PartsIn DEF Pieces

\* What an undisturbed broadcast is sent in.
LEMMA StraightIs ==
  ASSUME NEW u \in Units, UnitType(u), Straight(u), NEW n \in 1..Begun(u), n \notin Faulty(u)
  PROVE  /\ cut[u][n] = <<sent[u][n], sent[u][n]>> /\ n \notin torn[u]
         /\ Pieces(u, n) = Segments(sent[u][n]) /\ Pieces(u, n) \in 1..36
<1>1. cut[u][n] = <<sent[u][n], sent[u][n]>> /\ n \notin torn[u]
  BY DEF Straight
<1> QED
  BY <1>1, SentIn DEF Pieces, Segments

LEMMA StraightStays ==
  ASSUME NEW u, Straight(u), sent'[u] = sent[u], cut'[u] = cut[u], torn'[u] = torn[u],
         Faulty(u) \subseteq Faulty(u)'
  PROVE  Straight(u)'
  BY DEF Straight, Begun

LEMMA NextIn ==
  ASSUME NEW u \in Units, UnitType(u)
  PROVE  /\ next[u] \in Int /\ next[u] >= -1 /\ (next[u] >= 0 \/ next[u] = -1)
         /\ next[u] >= 0 => Begun(u) >= 1 /\ LastSegment(u) \in 0..36
                            /\ next[u] <= LastSegment(u) /\ LastSegment(u) = Pieces(u, Begun(u))
<1>1. next[u] >= 0 => sent[u] # <<>> /\ next[u] <= LastSegment(u)
  BY DEF UnitType
<1>2. LastSegment(u) = Pieces(u, Begun(u))
  BY DEF UnitType, LastSegment, Pieces, Begun
<1>3. ASSUME sent[u] # <<>> PROVE Begun(u) >= 1 /\ LastSegment(u) \in 0..36
  <2>1. sent[u] \in Seq(Lengths)
    BY DEF UnitType
  <2>2. Begun(u) >= 1 /\ Begun(u) \in Nat
    BY <1>3, <2>1 DEF Begun
  <2>3. Begun(u) \in 1..Begun(u)
    BY <2>2
  <2> QED
    BY <1>2, <2>2, <2>3, SentIn
<1>4. next[u] \in Int /\ next[u] >= -1 /\ (next[u] >= 0 \/ next[u] = -1)
  <2>1. next[u] \in -1..36
    BY DEF UnitType
  <2> QED
    BY <2>1
<1> QED
  BY <1>1, <1>2, <1>3, <1>4, Zenon

\* A segment of a broadcast as long as the entry fits into it.
LEMMA OwnFits ==
  ASSUME NEW len \in Lengths, NEW s \in 1..Segments(len)
  PROVE  4 + 7 * (s - 1) + SizeOf(<<len, len>>, s) <= len
<1>1. len \in 5..255
  BY SegmentsIn
<1>2. PICK q, r \in Nat : q = (len - 4) \div 7 /\ r = (len - 4) % 7 /\ r <= 6 /\ len = 4 + 7 * q + r
  BY <1>1
<1>3. Segments(len) = q + (IF r = 0 THEN 0 ELSE 1) /\ Remainder(<<len, len>>) = r
  BY <1>2 DEF Segments, Parts, Remainder
<1>4. s \in Int /\ s >= 1 /\ s <= q + (IF r = 0 THEN 0 ELSE 1)
  BY <1>2, <1>3
<1>5. SizeOf(<<len, len>>, s) = IF s < q + (IF r = 0 THEN 0 ELSE 1) \/ r = 0 THEN 7 ELSE r
  BY <1>3 DEF SizeOf, Segments
<1> QED
  BY <1>2, <1>4, <1>5

LEMMA PastUntil ==
  ASSUME NEW u \in Units, UnitType(u), NEW n, NEW s, Past(u, n, s)
  PROVE  /\ n \in Nat /\ s \in Nat /\ n >= 1 /\ n <= Begun(u) /\ s <= Pieces(u, n)
         /\ \A m \in 1..n : \A r \in 0..Pieces(u, m) :
              Earlier(m, r, n, s) => Past(u, m, r)
<1>1. /\ n \in Nat /\ s \in Nat /\ n >= 1 /\ n <= Begun(u) /\ s <= Pieces(u, n)
  BY SentIn DEF Past
<1>2. ASSUME NEW m \in 1..n, NEW r \in 0..Pieces(u, m), Earlier(m, r, n, s)
      PROVE  Past(u, m, r)
  <2>1. next[u] \in Int
    BY NextIn
  <2>2. Begun(u) \in Nat /\ m \in 1..Begun(u)
    BY <1>1, SentIn
  <2>3. r \in 0..Pieces(u, m) /\ r \in Int
    BY <2>2, SentIn
  <2> QED
    BY <1>1, <1>2, <2>1, <2>2, <2>3 DEF Past, Earlier
<1> QED
  BY <1>1, <1>2

-----------------------------------------------------------------------------
(* The queue. *)

LEMMA Appended ==
  ASSUME queue \in Seq(AllFrames), NEW f, queue' = Append(queue, f), NEW u, NEW n, NEW s
  PROVE  /\ \A i : InQueue(i, u, n, s)' <=>
              \/ InQueue(i, u, n, s)
              \/ i = Len(queue) + 1 /\ f.unit = u /\ f.number = n /\ f.seg = s
         /\ OnQueue(u, n, s)' <=>
              OnQueue(u, n, s) \/ (f.unit = u /\ f.number = n /\ f.seg = s)
<1>1. Len(queue) \in Nat /\ Len(queue') = Len(queue) + 1
  OBVIOUS
<1>2. /\ \A i \in 1..Len(queue) : queue'[i] = queue[i]
      /\ queue'[Len(queue) + 1] = f
  OBVIOUS
<1>3. \A i : InQueue(i, u, n, s)' <=>
              \/ InQueue(i, u, n, s)
              \/ i = Len(queue) + 1 /\ f.unit = u /\ f.number = n /\ f.seg = s
  BY <1>1, <1>2 DEF InQueue
<1>4. \A i : InQueue(i, u, n, s) => i \in 1..Len(queue)
  BY DEF InQueue
<1>5. Len(queue) + 1 \in 1..Len(queue') /\ \A i \in 1..Len(queue) : i \in 1..Len(queue')
  BY <1>1
<1> QED
  BY <1>3, <1>4, <1>5, Zenon DEF OnQueue

LEMMA AppendedLine ==
  ASSUME queue \in Seq(AllFrames), NEW f, queue' = Append(queue, f),
         NEW u, NEW n, NEW s, NEW m, NEW r, InLine(u, n, s, m, r)'
  PROVE  \/ InLine(u, n, s, m, r)
         \/ OnQueue(u, m, r) /\ f.unit = u /\ f.number = n /\ f.seg = s
<1>1. PICK i, j \in 1..Len(queue') : i < j /\ InQueue(i, u, m, r)' /\ InQueue(j, u, n, s)'
  BY Zenon DEF InLine
<1>2. Len(queue) \in Nat /\ Len(queue') = Len(queue) + 1
  OBVIOUS
<1>3. i \in 1..Len(queue)
  BY <1>1, <1>2
<1>4. InQueue(i, u, m, r)
  <2>1. queue'[i] = queue[i]
    BY <1>3
  <2> QED
    BY <1>1, <1>3, <2>1 DEF InQueue
<1>5. CASE InQueue(j, u, n, s)
  <2>1. j \in 1..Len(queue)
    BY <1>5 DEF InQueue
  <2> QED
    BY <1>1, <1>3, <1>4, <1>5, <2>1 DEF InLine
<1>6. CASE f.unit = u /\ f.number = n /\ f.seg = s
  BY <1>3, <1>4, <1>6 DEF OnQueue
<1> QED
  BY <1>1, <1>5, <1>6, Appended

LEMMA AppendedOnce ==
  ASSUME queue \in Seq(AllFrames), NEW f, queue' = Append(queue, f), NEW u, NEW n, NEW s,
         Once(u, n, s), ~(OnQueue(u, n, s) /\ f.unit = u /\ f.number = n /\ f.seg = s)
  PROVE  Once(u, n, s)'
<1> SUFFICES ASSUME NEW i, NEW j, InQueue(i, u, n, s)', InQueue(j, u, n, s)'
             PROVE  i = j
  BY Zenon DEF Once
<1>1. /\ InQueue(i, u, n, s) \/ (i = Len(queue) + 1 /\ f.unit = u /\ f.number = n /\ f.seg = s)
      /\ InQueue(j, u, n, s) \/ (j = Len(queue) + 1 /\ f.unit = u /\ f.number = n /\ f.seg = s)
  BY Appended
<1>2. \A k : InQueue(k, u, n, s) => OnQueue(u, n, s)
  BY DEF InQueue, OnQueue
<1> QED
  BY <1>1, <1>2, Zenon DEF Once

LEMMA Removed ==
  ASSUME queue \in Seq(AllFrames), queue # <<>>, queue' = Tail(queue), NEW u, NEW n, NEW s
  PROVE  /\ \A i \in Nat \ {0} : InQueue(i, u, n, s)' <=> InQueue(i + 1, u, n, s)
         /\ OnQueue(u, n, s)' => OnQueue(u, n, s)
         /\ OnQueue(u, n, s) => OnQueue(u, n, s)' \/ InQueue(1, u, n, s)
         /\ InQueue(1, u, n, s) <=>
              Head(queue).unit = u /\ Head(queue).number = n /\ Head(queue).seg = s
<1>1. Len(queue) \in Nat \ {0} /\ Len(queue') = Len(queue) - 1 /\ Head(queue) = queue[1]
  OBVIOUS
<1>2. \A i \in 1..Len(queue') : queue'[i] = queue[i + 1]
  OBVIOUS
<1>3. \A i \in Nat \ {0} : i \in 1..Len(queue') <=> i + 1 \in 1..Len(queue)
  BY <1>1
<1>4. \A i \in Nat \ {0} : InQueue(i, u, n, s)' <=> InQueue(i + 1, u, n, s)
  BY <1>2, <1>3 DEF InQueue
<1>5. ASSUME OnQueue(u, n, s)' PROVE OnQueue(u, n, s)
  <2>1. PICK i \in 1..Len(queue') : InQueue(i, u, n, s)'
    BY <1>5 DEF OnQueue
  <2>2. i \in Nat \ {0} /\ i + 1 \in 1..Len(queue)
    BY <1>1, <2>1
  <2> QED
    BY <1>4, <2>1, <2>2 DEF OnQueue
<1>6. ASSUME OnQueue(u, n, s), ~InQueue(1, u, n, s) PROVE OnQueue(u, n, s)'
  <2>1. PICK i \in 1..Len(queue) : InQueue(i, u, n, s)
    BY <1>6 DEF OnQueue
  <2>2. i # 1
    BY <1>6, <2>1
  <2>3. i - 1 \in Nat \ {0} /\ (i - 1) + 1 = i /\ i - 1 \in 1..Len(queue')
    BY <1>1, <2>1, <2>2
  <2>4. InQueue(i - 1, u, n, s)'
    BY <1>4, <2>1, <2>3
  <2> QED
    BY <2>3, <2>4 DEF OnQueue
<1>7. InQueue(1, u, n, s) <=>
        Head(queue).unit = u /\ Head(queue).number = n /\ Head(queue).seg = s
  BY <1>1 DEF InQueue
<1> QED
  BY <1>4, <1>5, <1>6, <1>7

LEMMA RemovedOnce ==
  ASSUME queue \in Seq(AllFrames), queue # <<>>, queue' = Tail(queue), NEW u, NEW n, NEW s,
         Once(u, n, s)
  PROVE  Once(u, n, s)' /\ (InQueue(1, u, n, s) => ~OnQueue(u, n, s)')
<1>1. \A i : InQueue(i, u, n, s)' => i \in Nat \ {0}
  BY DEF InQueue
<1>2. \A i : InQueue(i, u, n, s)' => InQueue(i + 1, u, n, s)
  BY <1>1, Removed
<1>3. Once(u, n, s)'
  <2> SUFFICES ASSUME NEW i, NEW j, InQueue(i, u, n, s)', InQueue(j, u, n, s)'
               PROVE  i = j
    BY Zenon DEF Once
  <2>1. InQueue(i + 1, u, n, s) /\ InQueue(j + 1, u, n, s)
    BY <1>2
  <2>2. i + 1 = j + 1
    BY <2>1, Zenon DEF Once
  <2> QED
    BY <1>1, <2>2
<1>4. ASSUME InQueue(1, u, n, s), OnQueue(u, n, s)' PROVE FALSE
  <2>1. PICK i : InQueue(i, u, n, s)'
    BY <1>4 DEF OnQueue
  <2>2. i + 1 = 1
    BY <1>2, <1>4, <2>1, Zenon DEF Once
  <2> QED
    BY <1>1, <2>1, <2>2
<1> QED
  BY <1>3, <1>4

LEMMA RemovedLine ==
  ASSUME queue \in Seq(AllFrames), queue # <<>>, queue' = Tail(queue),
         NEW u, NEW n, NEW s, NEW m, NEW r
  PROVE  /\ InLine(u, n, s, m, r)' => InLine(u, n, s, m, r)
         /\ InQueue(1, u, m, r) /\ OnQueue(u, n, s)' => InLine(u, n, s, m, r)
<1>1. Len(queue) \in Nat \ {0} /\ Len(queue') = Len(queue) - 1
  OBVIOUS
<1>2. ASSUME InLine(u, n, s, m, r)' PROVE InLine(u, n, s, m, r)
  <2>1. PICK i, j \in 1..Len(queue') : i < j /\ InQueue(i, u, m, r)' /\ InQueue(j, u, n, s)'
    BY <1>2, Zenon DEF InLine
  <2>2. i + 1 \in 1..Len(queue) /\ j + 1 \in 1..Len(queue) /\ i + 1 < j + 1
    BY <1>1, <2>1
  <2>3. i \in Nat \ {0} /\ j \in Nat \ {0}
    BY <1>1, <2>1
  <2>4. InQueue(i + 1, u, m, r)
    BY <2>1, <2>3, Removed
  <2>5. InQueue(j + 1, u, n, s)
    BY <2>1, <2>3, Removed
  <2> QED
    BY <2>2, <2>4, <2>5, Zenon DEF InLine
<1>3. ASSUME InQueue(1, u, m, r), OnQueue(u, n, s)' PROVE InLine(u, n, s, m, r)
  <2>1. PICK i \in 1..Len(queue') : InQueue(i, u, n, s)'
    BY <1>3, Zenon DEF OnQueue
  <2>2. i + 1 \in 1..Len(queue) /\ i \in Nat \ {0} /\ 1 < i + 1 /\ 1 \in 1..Len(queue)
    BY <1>1, <2>1
  <2>3. InQueue(i + 1, u, n, s)
    BY <2>1, <2>2, Removed
  <2> QED
    BY <1>3, <2>2, <2>3, Zenon DEF InLine
<1> QED
  BY <1>2, <1>3

-----------------------------------------------------------------------------
(* What a step keeps. *)

\* A step of the transport as far as one unit's broadcasts are concerned:
\* none is shortened, a frame that has gone stays so, and the segments are cut
\* in another way only for a fault and before the first one.
Onward(u) ==
  /\ Begun(u)' \in Nat /\ Begun(u) <= Begun(u)'
  /\ \A n \in 1..Begun(u) : sent'[u][n] = sent[u][n]
  /\ torn[u] \subseteq torn'[u]
  /\ \A n \in 1..Begun(u) :
       cut'[u][n] = cut[u][n] \/ (n \in Faulty(u)' /\ \A s : Past(u, n, s) => s = 0)
  /\ Faulty(u) \subseteq Faulty(u)'
  /\ faulty'[u] = <<>> => faulty[u] = <<>> /\ Faulty(u)' = {}
  /\ \A n, s \in Nat : Gone(u, n, s) => Gone(u, n, s)'

\* Frames that go are lost.
NoneComes(u) ==
  /\ rxTable'[u] = rxTable[u] /\ last'[u] = last[u] /\ mixed'[u] = mixed[u]
  /\ \A n, s \in Nat : Gone(u, n, s)' => Gone(u, n, s) \/ n \in Faulty(u)'

LEMMA BooksStay ==
  ASSUME NEW u \in Units, UnitType(u), Books(u), Onward(u), NoneComes(u)
  PROVE  Books(u)'
<1>1. /\ \A n : Taken(u, n)' <=> Taken(u, n)
      /\ \A n : HasEntry(u, n)' <=> HasEntry(u, n)
      /\ Mixed(u)' = Mixed(u)
  BY DEF Taken, HasEntry, Mixed, NoneComes
<1>2. TakenInv(u)'
  <2>1. \A n \in Nat \ {0} : Taken(u, n)' => Gone(u, n, 0)'
    BY <1>1 DEF Books, TakenInv, Onward
  <2>2. \A n \in Nat \ {0} : HasEntry(u, n)' => n # last'[u] /\ n \notin Mixed(u)'
    BY <1>1 DEF Books, TakenInv, NoneComes
  <2>3. \A i, j \in 1..Len(mixed'[u]) : mixed'[u][i] = mixed'[u][j] => i = j
    BY DEF Books, TakenInv, NoneComes
  <2> QED
    BY <2>1, <2>2, <2>3 DEF TakenInv
<1>3. Entry(u)'
  <2> SUFFICES ASSUME rxTable[u] # NoEntry,
                      NEW n, n = rxTable[u].number, NEW len, len = rxTable[u].len,
                      NEW got, got = rxTable[u].got, EntryOf(u, n, len, got)
               PROVE  EntryOf(u, n, len, got)'
    BY Zenon DEF Books, Entry, NoneComes
  <2>1. /\ n \in 1..Begun(u) /\ len = sent[u][n] /\ n \in Nat
        /\ \E s \in 1..Segments(len) : got[s] = 0
        /\ Filled(u, n, len, got) /\ Pure(u, n, len, got) /\ Newer(u, n, len, got)
    BY DEF EntryOf
  <2>2. len \in Lengths /\ Segments(len) \in 1..36 /\ Begun(u) \in Nat
    BY <2>1, SentIn
  <2>3. n \in 1..Begun(u)' /\ len = sent'[u][n]
    BY <2>1, <2>2 DEF Onward
  <2>4. Filled(u, n, len, got)'
    <3> SUFFICES ASSUME NEW m \in n..Begun(u)', NEW s \in 1..Segments(len),
                        m \notin Faulty(u)', sent'[u][m] = len, Gone(u, m, s)'
                 PROVE  got[s] # 0
      BY DEF Filled
    <3>1. m \in Nat /\ s \in Nat
      BY <2>2, <2>3 DEF Onward
    <3>2. Gone(u, m, s)
      BY <3>1 DEF NoneComes
    <3>3. m \in 1..Begun(u)
      BY <3>2 DEF Gone, Past
    <3>4. m \in n..Begun(u) /\ sent[u][m] = len /\ m \notin Faulty(u)
      BY <2>2, <3>3 DEF Onward
    <3> QED
      BY <2>1, <3>2, <3>4 DEF Filled
  <2>5. Pure(u, n, len, got)'
    <3> SUFFICES ASSUME n \notin Faulty(u)'
                 PROVE  /\ n + 1 \notin Mixed(u)
                        /\ \A s \in 1..Segments(len) :
                             \/ got[s] \in {0, n}
                             \/ n + 1 \in Faulty(u)' /\ Gone(u, n + 1, 0)'
      BY <1>1 DEF Pure
    <3>1. n \notin Faulty(u) /\ n + 1 \in Nat
      BY <2>1 DEF Onward
    <3> QED
      BY <2>1, <3>1 DEF Pure, Onward
  <2>6. Newer(u, n, len, got)'
    <3>1. \A s \in 1..Segments(len) : Gone(u, n, s) => Gone(u, n, s)'
      BY <2>1, <2>2 DEF Onward
    <3> QED
      BY <2>1, <3>1 DEF Newer, NoneComes, Onward
  <2> QED
    BY <2>1, <2>3, <2>4, <2>5, <2>6 DEF EntryOf
<1>4. Blamed(u)'
  <2> SUFFICES ASSUME NEW n \in Mixed(u), n \notin Faulty(u)'
               PROVE  /\ n + 1 \in Faulty(u)' /\ n + 1 \notin Mixed(u)
                      /\ Gone(u, n + 1, 0)' /\ ~HasEntry(u, n + 1)
    BY <1>1 DEF Blamed
  <2>1. n \notin Faulty(u)
    BY DEF Onward
  <2>2. n + 1 \in Nat
    BY SentIn DEF Mixed, UnitType, Begun
  <2> QED
    BY <2>1, <2>2 DEF Books, Blamed, Onward
<1>5. Clean(u)'
  BY <1>1 DEF Books, Clean, Onward, NoneComes
<1> QED
  BY <1>2, <1>3, <1>4, <1>5 DEF Books

LEMMA ComingPast ==
  ASSUME NEW u, Valid(u), NEW n, NEW s, Coming(u, n, s)
  PROVE  Past(u, n, s)
  BY DEF Valid, ValidFrame, Coming, OnQueue, InQueue, IsHeld

LEMMA BehindComing ==
  ASSUME NEW u, NEW n, NEW s, NEW m, NEW r, Valid(u), Behind(u, n, s, m, r)
  PROVE  Coming(u, n, s) /\ Past(u, n, s) /\ Past(u, m, r)
<1>1. Coming(u, n, s)
  BY DEF Behind, InLine, Coming, OnQueue
<1>2. Gone(u, m, r) \/ Coming(u, m, r)
  BY DEF Behind, InLine, Consumed, Coming, OnQueue
<1> QED
  BY <1>1, <1>2, ComingPast DEF Gone

LEMMA OvertakenStays ==
  ASSUME NEW u \in Units, Onward(u), NEW n, NEW s, NEW m, Past(u, n, s), Overtaken(u, n, s, m)
  PROVE  Overtaken(u, n, s, m)'
<1>1. cut'[u][n] = cut[u][n] \/ n \in Faulty(u)'
  BY DEF Past, Onward
<1>2. Pieces(u, n)' = Pieces(u, n) \/ n \in Faulty(u)'
  BY <1>1 DEF Pieces
<1> QED
  BY <1>2 DEF Overtaken, Onward

LEMMA ConsumedStays ==
  ASSUME NEW u \in Units, TakenInv(u), Onward(u), NoneComes(u), NEW n \in Nat, NEW s \in Nat,
         Consumed(u, n, s)'
  PROVE  Consumed(u, n, s)
<1>1. Taken(u, n)' <=> Taken(u, n)
  BY DEF Taken, HasEntry, Mixed, NoneComes
<1>2. n # 0
  BY DEF Consumed, Gone, Past
<1>3. CASE Gone(u, n, s)
  BY <1>1, <1>3 DEF Consumed, Onward
<1>4. CASE n \in Faulty(u)'
  BY <1>1, <1>2, <1>4 DEF Consumed, TakenInv
<1> QED
  BY <1>3, <1>4 DEF Consumed, NoneComes

LEMMA OrderStays ==
  ASSUME NEW u \in Units, Onward(u), Valid(u), Order(u), Alone(u),
         \A n, s, m, r \in Nat :
           Earlier(n, s, m, r) /\ Behind(u, n, s, m, r)' => Behind(u, n, s, m, r)
  PROVE  Order(u)' /\ Alone(u)'
<1>1. ASSUME NEW n \in Nat, NEW s \in Nat, NEW m \in Nat, NEW r \in Nat,
             Earlier(n, s, m, r), Behind(u, n, s, m, r)'
      PROVE  Overtaken(u, n, s, m)'
  <2>1. Behind(u, n, s, m, r)
    BY <1>1
  <2>2. Past(u, n, s) /\ Overtaken(u, n, s, m)
    BY <1>1, <2>1, BehindComing DEF Order
  <2> QED
    BY <2>2, OvertakenStays
<1>2. ASSUME NEW n \in Nat, NEW s \in Nat, NEW k \in Nat, NEW t \in Nat,
             NEW m \in Nat, NEW r \in Nat,
             Earlier(n, s, m, r), Behind(u, n, s, m, r)',
             Earlier(k, t, m, r), Behind(u, k, t, m, r)'
      PROVE  n = k /\ s = t
  <2>1. Behind(u, n, s, m, r) /\ Behind(u, k, t, m, r)
    BY <1>2
  <2> QED
    BY <1>2, <2>1, Zenon DEF Alone
<1>3. Order(u)'
  BY <1>1, Zenon DEF Order, Earlier
<1>4. Alone(u)'
  BY <1>2, SMTT(60) DEF Alone, Earlier
<1> QED
  BY <1>3, <1>4

-----------------------------------------------------------------------------
(* Steps of another unit. *)

QueueMoves(u) ==
  \/ queue' = queue
  \/ \E f : queue' = Append(queue, f) /\ f.unit # u
  \/ queue # <<>> /\ queue' = Tail(queue) /\ Head(queue).unit # u

Unmoved(u) ==
  /\ sent'[u] = sent[u] /\ cut'[u] = cut[u] /\ torn'[u] = torn[u]
  /\ next'[u] = next[u] /\ held'[u] = held[u] /\ rxTable'[u] = rxTable[u]
  /\ last'[u] = last[u] /\ mixed'[u] = mixed[u] /\ faulty'[u] = faulty[u]

LEMMA QueueElsewhere ==
  ASSUME NEW u, queue \in Seq(AllFrames), QueueMoves(u)
  PROVE  /\ \A n, s : OnQueue(u, n, s)' <=> OnQueue(u, n, s)
         /\ \A n, s, m, r : InLine(u, n, s, m, r)' => InLine(u, n, s, m, r)
         /\ \A i \in 1..Len(queue') : queue'[i].unit = u =>
              \E j \in 1..Len(queue) : queue'[i] = queue[j]
         /\ \A n, s : Once(u, n, s) => Once(u, n, s)'
<1>1. CASE queue' = queue
  BY <1>1 DEF OnQueue, InLine, InQueue, Once
<1>2. ASSUME NEW f, queue' = Append(queue, f), f.unit # u
      PROVE  /\ \A n, s : OnQueue(u, n, s)' <=> OnQueue(u, n, s)
             /\ \A n, s, m, r : InLine(u, n, s, m, r)' => InLine(u, n, s, m, r)
             /\ \A i \in 1..Len(queue') : queue'[i].unit = u =>
                  \E j \in 1..Len(queue) : queue'[i] = queue[j]
             /\ \A n, s : Once(u, n, s) => Once(u, n, s)'
  <2>1. \A n, s : OnQueue(u, n, s)' <=> OnQueue(u, n, s)
    BY <1>2, Appended
  <2>2. \A n, s, m, r : InLine(u, n, s, m, r)' => InLine(u, n, s, m, r)
    BY <1>2, AppendedLine
  <2>3. \A i \in 1..Len(queue') : i \in 1..Len(queue) \/ queue'[i] = f
    BY <1>2
  <2>4. \A i \in 1..Len(queue) : queue'[i] = queue[i]
    BY <1>2
  <2>5. \A i \in 1..Len(queue') : queue'[i].unit = u =>
          \E j \in 1..Len(queue) : queue'[i] = queue[j]
    BY <1>2, <2>3, <2>4
  <2>6. ASSUME NEW n, NEW s, Once(u, n, s) PROVE Once(u, n, s)'
    <3>1. \A i : InQueue(i, u, n, s)' <=> InQueue(i, u, n, s)
      BY <1>2, Appended
    <3> QED
      BY <2>6, <3>1 DEF Once
  <2> QED
    BY <2>1, <2>2, <2>5, <2>6
<1>3. CASE queue # <<>> /\ queue' = Tail(queue) /\ Head(queue).unit # u
  <2>1. \A n, s : ~InQueue(1, u, n, s)
    BY <1>3, Removed
  <2>2. \A n, s : OnQueue(u, n, s)' <=> OnQueue(u, n, s)
    BY <1>3, <2>1, Removed
  <2>3. \A n, s, m, r : InLine(u, n, s, m, r)' => InLine(u, n, s, m, r)
    BY <1>3, RemovedLine
  <2>4. \A i \in 1..Len(queue') : queue'[i] = queue[i + 1] /\ i + 1 \in 1..Len(queue)
    BY <1>3
  <2>5. ASSUME NEW n, NEW s, Once(u, n, s) PROVE Once(u, n, s)'
    BY <1>3, <2>5, RemovedOnce
  <2> QED
    BY <2>2, <2>3, <2>4, <2>5
<1> QED
  BY <1>1, <1>2, <1>3 DEF QueueMoves

LEMMA Elsewhere ==
  ASSUME NEW u \in Units, UnitInv(u), QueueType, Unmoved(u), QueueMoves(u)
  PROVE  UnitInv(u)'
<1>1. queue \in Seq(AllFrames) /\ Traffic(u) /\ UnitType(u) /\ Straight(u) /\ Books(u)
  BY DEF QueueType, UnitInv
<1>2. /\ \A n, s : OnQueue(u, n, s)' <=> OnQueue(u, n, s)
      /\ \A n, s, m, r : InLine(u, n, s, m, r)' => InLine(u, n, s, m, r)
      /\ \A i \in 1..Len(queue') : queue'[i].unit = u =>
           \E j \in 1..Len(queue) : queue'[i] = queue[j]
      /\ \A n, s : Once(u, n, s) => Once(u, n, s)'
  BY <1>1, QueueElsewhere
<1>3. UnitType(u)'
  BY <1>1 DEF UnitType, Unmoved, LastSegment
<1>4. /\ \A n, s : Past(u, n, s)' <=> Past(u, n, s)
      /\ \A n, s : IsHeld(u, n, s)' <=> IsHeld(u, n, s)
      /\ Faulty(u)' = Faulty(u) /\ Begun(u)' = Begun(u) /\ Mixed(u)' = Mixed(u)
  BY DEF Past, Pieces, IsHeld, Faulty, Begun, Mixed, Unmoved
<1>5. \A n, s : /\ Coming(u, n, s)' <=> Coming(u, n, s)
                /\ Gone(u, n, s)' <=> Gone(u, n, s)
  BY <1>2, <1>4 DEF Coming, Gone
<1>6. Onward(u) /\ NoneComes(u)
  <2>1. Begun(u) \in Nat
    BY <1>1, SentIn
  <2>2. faulty[u] = <<>> => Faulty(u) = {}
    BY DEF Faulty
  <2> QED
    BY <1>4, <1>5, <2>1, <2>2 DEF Onward, NoneComes, Unmoved
<1>7. Books(u)'
  BY <1>1, <1>6, BooksStay
<1>8. Valid(u)'
  <2>1. \A i \in 1..Len(queue') : queue'[i].unit = u => ValidFrame(u, queue'[i])
    BY <1>1, <1>2 DEF Traffic, Valid
  <2>2. held[u] # NoFrame => ValidFrame(u, held[u])
    BY <1>1 DEF Traffic, Valid
  <2>3. \A f : ValidFrame(u, f) => ValidFrame(u, f)'
    BY <1>4 DEF ValidFrame, LenOf, Unmoved
  <2> QED
    BY <2>1, <2>2, <2>3 DEF Valid, ValidFrame, Unmoved
<1>9. Distinct(u)'
  <2>1. \A n, s \in Nat : Once(u, n, s) /\ ~(OnQueue(u, n, s) /\ IsHeld(u, n, s))
    BY <1>1 DEF Traffic, Distinct
  <2> QED
    BY <1>2, <1>4, <2>1 DEF Distinct
<1>10. Order(u)' /\ Alone(u)'
  <2>1. \A n, s \in Nat : Consumed(u, n, s)' => Consumed(u, n, s)
    BY <1>1, <1>6, ConsumedStays DEF Books
  <2>2. \A n, s, m, r \in Nat : Behind(u, n, s, m, r)' => Behind(u, n, s, m, r)
    BY <1>2, <1>4, <1>5, <2>1 DEF Behind
  <2> QED
    BY <1>1, <1>6, <2>2, OrderStays DEF Traffic
<1>11. HeldOrder(u)'
  BY <1>1, <1>4, <1>6, OvertakenStays, ComingPast DEF Traffic, HeldOrder, Coming, Earlier
<1>12. Straight(u)'
  BY <1>1, <1>4, StraightStays DEF Unmoved
<1> QED
  BY <1>3, <1>7, <1>8, <1>9, <1>10, <1>11, <1>12 DEF UnitInv, Traffic

-----------------------------------------------------------------------------
(* The unit goes on, and faults. *)

LEMMA AppendIn ==
  ASSUME NEW S, NEW q \in Seq(S), NEW x \in S
  PROVE  /\ Append(q, x) \in Seq(S) /\ Append(q, x) # <<>> /\ Len(Append(q, x)) = Len(q) + 1
         /\ Len(q) \in Nat
         /\ \A i \in 1..Len(q) : Append(q, x)[i] = q[i]
         /\ Append(q, x)[Len(q) + 1] = x
         /\ {Append(q, x)[i] : i \in 1..Len(Append(q, x))} = {q[i] : i \in 1..Len(q)} \cup {x}
<1>1. /\ Append(q, x) \in Seq(S) /\ Append(q, x) # <<>> /\ Len(Append(q, x)) = Len(q) + 1
      /\ Len(q) \in Nat
      /\ \A i \in 1..Len(q) : Append(q, x)[i] = q[i]
      /\ Append(q, x)[Len(q) + 1] = x
  OBVIOUS
<1>2. DEFINE p == Append(q, x)
<1>3. \A i : i \in 1..Len(p) <=> i \in 1..Len(q) \/ i = Len(q) + 1
  BY <1>1
<1>4. /\ \A i \in 1..Len(q) : p[i] = q[i]
      /\ p[Len(q) + 1] = x
  BY <1>1
<1>5. {p[i] : i \in 1..Len(p)} = {q[i] : i \in 1..Len(q)} \cup {x}
  <2> HIDE DEF p
  <2> QED
    BY <1>3, <1>4
<1> QED
  BY <1>1, <1>5

LEMMA FaultAdds ==
  ASSUME NEW u \in Units, UnitType(u), DOMAIN faulty = Units,
         NEW n \in 1..Begun(u), Fault(u, n)
  PROVE  /\ faulty'[u] \in Seq(1..Begun(u)) /\ Len(faulty'[u]) <= MaxFaults[u]
         /\ faulty'[u] # <<>> /\ Faulty(u)' = Faulty(u) \cup {n}
         /\ DOMAIN faulty' = Units /\ \A v \in Units : v # u => faulty'[v] = faulty[v]
<1>1. faulty[u] \in Seq(1..Begun(u))
  BY DEF UnitType, Begun
<1>2. faulty'[u] = Append(faulty[u], n) /\ Len(faulty[u]) < MaxFaults[u]
  BY DEF Fault
<1>3. MaxFaults[u] \in Nat
  BY CanTransportAssumption
<1>4. Faulty(u)' = Faulty(u) \cup {n}
  BY <1>1, <1>2, AppendIn DEF Faulty
<1>5. faulty'[u] \in Seq(1..Begun(u)) /\ faulty'[u] # <<>> /\ Len(faulty'[u]) <= MaxFaults[u]
  BY <1>1, <1>2, <1>3, AppendIn
<1>6. DOMAIN faulty' = Units /\ \A v \in Units : v # u => faulty'[v] = faulty[v]
  BY DEF Fault
<1> QED
  BY <1>4, <1>5, <1>6

\* The frame that the unit sends next.
LEMMA CurrentIs ==
  ASSUME NEW u \in Units, UnitType(u), next[u] >= 0
  PROVE  /\ Current(u).unit = u /\ Current(u).number = Begun(u) /\ Current(u).seg = next[u]
         /\ Current(u).len = LenOf(u, Begun(u), next[u])
         /\ Begun(u) \in 1..Begun(u) /\ next[u] \in 0..Pieces(u, Begun(u))
         /\ Current(u) \in Frames(u) /\ Current(u) \in AllFrames
         /\ ~Past(u, Begun(u), next[u])
<1>1. /\ Current(u).unit = u /\ Current(u).number = Begun(u) /\ Current(u).seg = next[u]
      /\ Current(u).len = LenOf(u, Begun(u), next[u])
      /\ Current(u) = [unit |-> u, number |-> Begun(u), seg |-> next[u],
                       len |-> LenOf(u, Begun(u), next[u])]
  BY DEF Current, Begun, LenOf
<1>2. /\ Begun(u) \in Nat /\ Begun(u) >= 1 /\ next[u] \in Int
      /\ next[u] <= Pieces(u, Begun(u)) /\ Pieces(u, Begun(u)) \in 0..36
  BY NextIn, SentIn
<1>3. Begun(u) \in 1..Begun(u) /\ next[u] \in 0..Pieces(u, Begun(u)) /\ next[u] \in 0..36
  BY <1>2
<1>4. Begun(u) \in 1..MaxSent[u]
  BY <1>2, CanTransportAssumption DEF UnitType, Begun
<1>5. LenOf(u, Begun(u), next[u]) \in Lengths \cup 1..7
  <2>1. sent[u][Begun(u)] \in Lengths /\ cut[u][Begun(u)] \in Lengths \X Lengths
    BY <1>3, SentIn
  <2>2. SizeOf(cut[u][Begun(u)], next[u]) \in 1..7
    BY <2>1, PartsIn
  <2> QED
    BY <2>1, <2>2, Zenon DEF LenOf
<1>6. Current(u) \in Frames(u)
  BY <1>1, <1>3, <1>4, <1>5 DEF Frames
<1>7. ~Past(u, Begun(u), next[u])
  BY <1>2 DEF Past
<1> QED
  BY <1>1, <1>3, <1>6, <1>7 DEF AllFrames

LEMMA AdvancePast ==
  ASSUME NEW u \in Units, UnitType(u), DOMAIN next = Units, Advance(u)
  PROVE  /\ next[u] >= 0
         /\ \A n, s \in Nat : Past(u, n, s)' <=> Past(u, n, s) \/ (n = Begun(u) /\ s = next[u])
         /\ next'[u] \in -1..36 /\ (next'[u] >= 0 => next'[u] <= LastSegment(u))
         /\ sent' = sent /\ cut' = cut /\ torn' = torn /\ Begun(u)' = Begun(u) /\ LastSegment(u)' = LastSegment(u)
         /\ DOMAIN next' = Units /\ \A v \in Units : v # u => next'[v] = next[v]
<1>1. /\ next[u] >= 0 /\ sent' = sent /\ cut' = cut /\ torn' = torn /\ Begun(u)' = Begun(u) /\ LastSegment(u)' = LastSegment(u)
      /\ next'[u] = IF next[u] = LastSegment(u) THEN -1 ELSE next[u] + 1
      /\ DOMAIN next' = Units /\ \A v \in Units : v # u => next'[v] = next[v]
  BY DEF Advance, Begun, LastSegment
<1>2. /\ Begun(u) \in Nat /\ Begun(u) >= 1 /\ next[u] \in Int
      /\ next[u] <= LastSegment(u) /\ LastSegment(u) \in 0..36
  BY <1>1, NextIn, SentIn
<1>3. LastSegment(u) = Pieces(u, Begun(u))
  BY <1>1, NextIn
<1>4. next'[u] \in -1..36 /\ (next'[u] >= 0 => next'[u] <= LastSegment(u))
  BY <1>1, <1>2
<1>5. ASSUME NEW n \in Nat, NEW s \in Nat
      PROVE  Past(u, n, s)' <=> Past(u, n, s) \/ (n = Begun(u) /\ s = next[u])
  <2>1. CASE n = Begun(u)
    <3>1. Pieces(u, n) = LastSegment(u) /\ n \in 1..Begun(u)
      BY <1>2, <1>3, <2>1
    <3>2. Past(u, n, s) <=> s \in 0..LastSegment(u) /\ (next[u] = -1 \/ s < next[u])
      BY <2>1, <3>1 DEF Past
    <3>3. Past(u, n, s)' <=> s \in 0..LastSegment(u) /\ (next'[u] = -1 \/ s < next'[u])
      BY <1>1, <2>1, <3>1 DEF Past, Pieces
    <3> QED
      BY <1>1, <1>2, <2>1, <3>2, <3>3
  <2>2. CASE n # Begun(u)
    BY <1>1, <2>2 DEF Past, Pieces
  <2> QED
    BY <2>1, <2>2
<1> QED
  BY <1>1, <1>4, <1>5

-----------------------------------------------------------------------------
(* Steps of the unit that put no frame into the queue. *)

LEMMA ValidStays ==
  ASSUME NEW u, NEW f, Onward(u), ValidFrame(u, f),
         \A n, s \in Nat : Past(u, n, s) => Past(u, n, s)'
  PROVE  f.unit = u /\ Past(u, f.number, f.seg)' /\ f.len = LenOf(u, f.number, f.seg)'
<1>1. f.unit = u /\ Past(u, f.number, f.seg) /\ f.len = LenOf(u, f.number, f.seg)
  BY DEF ValidFrame
<1>2. f.number \in 1..Begun(u) /\ f.number \in Nat /\ f.seg \in Nat
  BY <1>1 DEF Past
<1>3. sent'[u][f.number] = sent[u][f.number] /\ (f.seg = 0 \/ cut'[u][f.number] = cut[u][f.number])
  BY <1>1, <1>2 DEF Onward
<1>4. LenOf(u, f.number, f.seg)' = LenOf(u, f.number, f.seg)
  BY <1>3 DEF LenOf
<1> QED
  BY <1>1, <1>2, <1>4

LEMMA TrafficStays ==
  ASSUME NEW u \in Units, Traffic(u), TakenInv(u), Onward(u), NoneComes(u),
         queue' = queue, held'[u] = held[u] \/ held'[u] = NoFrame,
         \A n, s \in Nat : Past(u, n, s) => Past(u, n, s)'
  PROVE  Valid(u)' /\ Distinct(u)' /\ Order(u)' /\ Alone(u)'
<1>1. /\ \A n, s : OnQueue(u, n, s)' <=> OnQueue(u, n, s)
      /\ \A n, s, m, r : InLine(u, n, s, m, r)' <=> InLine(u, n, s, m, r)
      /\ \A n, s : Once(u, n, s)' <=> Once(u, n, s)
  BY DEF OnQueue, InLine, InQueue, Once
<1>2. \A n, s : IsHeld(u, n, s)' => IsHeld(u, n, s)
  BY DEF IsHeld
<1>3. \A f : ValidFrame(u, f) => ValidFrame(u, f)'
  BY ValidStays DEF ValidFrame
<1>4. Valid(u)'
  <2>1. \A i \in 1..Len(queue) : queue[i].unit = u => ValidFrame(u, queue[i])
    BY DEF Traffic, Valid
  <2>2. held'[u] # NoFrame => held'[u] = held[u] /\ ValidFrame(u, held[u])
    BY DEF Traffic, Valid
  <2>3. \A i \in 1..Len(queue) : queue[i].unit = u => ValidFrame(u, queue[i])'
    BY <1>3, <2>1
  <2>4. held'[u] # NoFrame => ValidFrame(u, held[u])'
    BY <1>3, <2>2
  <2> QED
    BY <2>2, <2>3, <2>4 DEF Valid, ValidFrame
<1>5. Distinct(u)'
  BY <1>1, <1>2 DEF Traffic, Distinct
<1>6. \A n, s \in Nat : Consumed(u, n, s)' => Consumed(u, n, s)
  BY ConsumedStays
<1>7. \A n, s, m, r \in Nat : Behind(u, n, s, m, r)' => Behind(u, n, s, m, r)
  BY <1>1, <1>2, <1>6 DEF Behind, Coming
<1>8. Order(u)' /\ Alone(u)'
  BY <1>7, OrderStays DEF Traffic
<1> QED
  BY <1>4, <1>5, <1>8

LEMMA HeldOrderStays ==
  ASSUME NEW u \in Units, Traffic(u), Onward(u),
         held'[u] = held[u] \/ held'[u] = NoFrame,
         \A n, s \in Nat : Past(u, n, s)' => Past(u, n, s)
  PROVE  HeldOrder(u)'
<1>1. \A n, s : IsHeld(u, n, s)' => IsHeld(u, n, s)
  BY DEF IsHeld
<1>2. \A n, s : IsHeld(u, n, s) => Past(u, n, s)
  BY ComingPast DEF Traffic, Coming
<1>3. ASSUME NEW n \in Nat, NEW s \in Nat, NEW m \in Nat, NEW r \in Nat,
             IsHeld(u, n, s)', Past(u, m, r)', Earlier(n, s, m, r)
      PROVE  Overtaken(u, n, s, m)'
  <2>1. IsHeld(u, n, s) /\ Past(u, m, r) /\ Past(u, n, s)
    BY <1>1, <1>2, <1>3
  <2>2. Overtaken(u, n, s, m)
    BY <1>3, <2>1 DEF Traffic, HeldOrder
  <2> QED
    BY <2>1, <2>2, OvertakenStays
<1> QED
  BY <1>3 DEF HeldOrder, Earlier

\* The frame that is sent, or lost, while another waits has met a fault.
LEMMA HeldOrderNext ==
  ASSUME NEW u \in Units, UnitType(u), Traffic(u), Onward(u), Begun(u) \in Faulty(u)',
         Begun(u)' = Begun(u), held'[u] = held[u], next[u] >= 0,
         \A n, s \in Nat : Past(u, n, s)' => Past(u, n, s) \/ (n = Begun(u) /\ s = next[u])
  PROVE  HeldOrder(u)'
<1>1. \A n, s : IsHeld(u, n, s)' => IsHeld(u, n, s)
  BY DEF IsHeld
<1>2. \A n, s : IsHeld(u, n, s) => Past(u, n, s)
  BY ComingPast DEF Traffic, Coming
<1>3. Begun(u) \in Nat /\ \A n \in 1..Begun(u) : Pieces(u, n) \in 0..36
  BY SentIn
<1>4. ASSUME NEW n \in Nat, NEW s \in Nat, NEW m \in Nat, NEW r \in Nat,
             IsHeld(u, n, s)', Past(u, m, r)', Earlier(n, s, m, r)
      PROVE  Overtaken(u, n, s, m)'
  <2>1. IsHeld(u, n, s) /\ Past(u, n, s)
    BY <1>1, <1>2, <1>4
  <2>2. CASE Past(u, m, r)
    <3>1. Overtaken(u, n, s, m)
      BY <1>4, <2>1, <2>2 DEF Traffic, HeldOrder
    <3> QED
      BY <2>1, <3>1, OvertakenStays
  <2>3. CASE m = Begun(u) /\ r = next[u]
    <3>1. /\ n \in 1..Begun(u) /\ s \in 0..Pieces(u, n) /\ n <= m
          /\ sent'[u][n] = sent[u][n]
      BY <1>4, <2>1 DEF Past, Earlier, Onward
    <3>2. ASSUME NEW k \in n + 1 .. m PROVE k \in Faulty(u)'
      <4>1. CASE k = m
        BY <2>3, <4>1
      <4>2. CASE k < m
        <5>1. k \in 1..Begun(u) /\ k # Begun(u) /\ k \in Nat /\ Earlier(n, s, k, 0) /\ k \in n + 1 .. k
          BY <1>3, <2>3, <3>1, <4>2 DEF Earlier
        <5>2. Past(u, k, 0)
          BY <1>3, <5>1 DEF Past
        <5>3. Overtaken(u, n, s, k)
          BY <2>1, <5>1, <5>2 DEF Traffic, HeldOrder
        <5> QED
          BY <5>1, <5>3 DEF Overtaken, Onward
      <4> QED
        BY <4>1, <4>2
    <3>3. n \in Faulty(u)' \/ (n < m /\ s = Pieces(u, n)')
      <4>1. CASE n = m
        BY <2>3, <4>1
      <4>2. CASE n < m /\ s # Pieces(u, n)
        <5>1. s + 1 \in 0..Pieces(u, n) /\ n # Begun(u) /\ s + 1 \in Nat /\ Earlier(n, s, n, s + 1)
          BY <1>3, <2>3, <3>1, <4>2 DEF Earlier
        <5>2. Past(u, n, s + 1)
          BY <3>1, <5>1 DEF Past
        <5>3. Overtaken(u, n, s, n)
          BY <2>1, <5>1, <5>2 DEF Traffic, HeldOrder
        <5> QED
          BY <5>3 DEF Overtaken, Onward
      <4>3. Pieces(u, n)' = Pieces(u, n) \/ n \in Faulty(u)'
        BY <3>1 DEF Past, Onward, Pieces
      <4> QED
        BY <3>1, <4>1, <4>2, <4>3
    <3> QED
      BY <3>2, <3>3 DEF Overtaken
  <2> QED
    BY <1>4, <2>2, <2>3
<1> QED
  BY <1>4 DEF HeldOrder, Earlier

LEMMA SeqMore ==
  ASSUME NEW n \in Nat, NEW q \in Seq(1..n)
  PROVE  q \in Seq(1..n + 1)
  OBVIOUS

LEMMA BeginKeeps ==
  ASSUME NEW u \in Units, UnitInv(u), Maps, Begin(u)
  PROVE  UnitInv(u)' /\ Maps' /\ \A v \in Units : v # u => Unmoved(v)
<1>1. UnitType(u) /\ Straight(u) /\ Traffic(u) /\ Books(u) /\ Begun(u) \in Nat
  BY SentIn DEF UnitInv
<1>2. PICK l \in Lengths : /\ sent' = [sent EXCEPT ![u] = Append(@, l)]
                            /\ cut' = [cut EXCEPT ![u] = Append(@, <<l, l>>)]
  BY DEF Begin
<1>3. /\ next[u] = -1 /\ Begun(u) < MaxSent[u]
      /\ next' = [next EXCEPT ![u] = 0]
      /\ UNCHANGED <<torn, held, queue, rxTable, last, mixed, faulty>>
  BY DEF Begin, Begun, rxVars
<1>4. /\ sent'[u] \in Seq(Lengths) /\ sent'[u] # <<>> /\ Begun(u)' = Begun(u) + 1
      /\ \A n \in 1..Begun(u) : sent'[u][n] = sent[u][n]
      /\ sent'[u][Begun(u) + 1] = l
  BY <1>1, <1>2, AppendIn DEF Maps, UnitType, Begun
<1>14. /\ cut'[u] \in Seq(Lengths \X Lengths) /\ Len(cut'[u]) = Begun(u) + 1
       /\ \A n \in 1..Begun(u) : cut'[u][n] = cut[u][n]
       /\ cut'[u][Begun(u) + 1] = <<l, l>>
  <2>1. cut[u] \in Seq(Lengths \X Lengths) /\ Len(cut[u]) = Begun(u) /\ <<l, l>> \in Lengths \X Lengths
    BY <1>1 DEF UnitType, Begun
  <2>2. cut'[u] = Append(cut[u], <<l, l>>)
    BY <1>2 DEF Maps
  <2> QED
    BY <2>1, <2>2, AppendIn
<1>15. \A n \in 1..Begun(u) : Pieces(u, n)' = Pieces(u, n)
  BY <1>14 DEF Pieces
<1>5. Maps' /\ \A v \in Units : v # u => Unmoved(v)
  BY <1>2, <1>3 DEF Maps, Unmoved
<1>6. UnitType(u)'
  <2>1. next'[u] = 0 /\ next'[u] \in -1..36
    BY <1>3 DEF Maps
  <2>2. LastSegment(u)' = Segments(l)
    BY <1>14 DEF LastSegment, Segments
  <2>3. Len(sent[u]) = Begun(u) /\ Len(sent'[u]) = Begun(u) + 1 /\ Begun(u) + 1 <= MaxSent[u]
    BY <1>1, <1>3, <1>4, CanTransportAssumption DEF Begun
  <2>4. mixed[u] \in Seq(1..Begun(u)) /\ faulty[u] \in Seq(1..Begun(u)) /\ last[u] \in 0..Begun(u)
    BY <1>1, <2>3 DEF UnitType
  <2>5. /\ mixed[u] \in Seq(1..Begun(u) + 1) /\ faulty[u] \in Seq(1..Begun(u) + 1)
        /\ last[u] \in 0..Begun(u) + 1
    BY <1>1, <2>4, SeqMore
  <2>6. 0 <= Segments(l)
    BY SegmentsIn
  <2>7. /\ Len(faulty[u]) <= MaxFaults[u]
        /\ held[u] \in Frames(u) \cup {NoFrame}
        /\ rxTable[u] \in Entries(u) \cup {NoEntry}
    BY <1>1 DEF UnitType
  <2>8. held'[u] \in (Frames(u) \cup {NoFrame}) /\ rxTable'[u] \in (Entries(u) \cup {NoEntry})
    BY <1>3, <2>7
  <2>9. torn'[u] \subseteq 1..Begun(u) + 1
    BY <1>1, <1>3 DEF UnitType, Begun
  <2> QED
    BY <1>3, <1>4, <1>14, <2>1, <2>2, <2>3, <2>5, <2>6, <2>7, <2>8, <2>9
      DEF UnitType, Frames, Entries
<1>7. ASSUME NEW n \in Nat, NEW s \in Nat PROVE Past(u, n, s)' <=> Past(u, n, s)
  <2>1. next'[u] = 0
    BY <1>3 DEF Maps
  <2>2. CASE n \in 1..Begun(u)
    BY <1>1, <1>3, <1>4, <1>15, <2>2 DEF Past
  <2>3. CASE n \notin 1..Begun(u)
    BY <1>1, <1>4, <2>1, <2>3 DEF Past
  <2> QED
    BY <2>2, <2>3
<1>8. ASSUME NEW n \in Nat, NEW s \in Nat PROVE Gone(u, n, s)' <=> Gone(u, n, s)
  BY <1>3, <1>7 DEF Gone, Coming, OnQueue, InQueue, IsHeld
<1>9. Faulty(u)' = Faulty(u) /\ (faulty[u] = <<>> => Faulty(u) = {})
  BY <1>3 DEF Faulty
<1>10. Onward(u) /\ NoneComes(u)
  BY <1>1, <1>3, <1>4, <1>8, <1>9, <1>14 DEF Onward, NoneComes
<1>11. Books(u)'
  BY <1>1, <1>10, BooksStay
<1>12. Valid(u)' /\ Distinct(u)' /\ Order(u)' /\ Alone(u)'
  BY <1>1, <1>3, <1>7, <1>10, TrafficStays DEF Books
<1>13. HeldOrder(u)'
  BY <1>1, <1>3, <1>7, <1>10, HeldOrderStays
<1>16. Straight(u)'
  <2>1. torn'[u] \subseteq Faulty(u)'
    BY <1>1, <1>3, <1>9 DEF Straight
  <2>2. ASSUME NEW n \in 1..Begun(u)', n \notin torn'[u]
        PROVE  cut'[u][n] = <<sent'[u][n], sent'[u][n]>>
    <3>1. CASE n \in 1..Begun(u)
      BY <1>1, <1>3, <1>4, <1>14, <2>2, <3>1 DEF Straight
    <3>2. CASE n = Begun(u) + 1
      BY <1>4, <1>14, <3>2
    <3> QED
      BY <1>1, <1>4, <3>1, <3>2
  <2> QED
    BY <2>1, <2>2 DEF Straight
<1> QED
  BY <1>5, <1>6, <1>11, <1>12, <1>13, <1>16 DEF UnitInv, Traffic

\* A handler captures: nothing moves, but the broadcast has met a fault.
LEMMA CaptureKeeps ==
  ASSUME NEW u \in Units, UnitInv(u), Maps, Capture(u)
  PROVE  UnitInv(u)' /\ Maps' /\ \A v \in Units : v # u => Unmoved(v)
<1>1. UnitType(u) /\ Straight(u) /\ Traffic(u) /\ Books(u) /\ Begun(u) \in Nat
  BY SentIn DEF UnitInv
<1>2. PICK c \in Recut(u) :
        /\ cut' = [cut EXCEPT ![u] = [@ EXCEPT ![Begun(u)] = c]]
        /\ next' = [next EXCEPT ![u] = IF @ > Parts(c) THEN -1 ELSE @]
  BY DEF Capture, Begun
<1>3. /\ next[u] >= 0 /\ Begun(u) \notin torn[u] /\ Fault(u, Begun(u))
      /\ torn' = [torn EXCEPT ![u] = @ \cup {Begun(u)}]
      /\ UNCHANGED <<sent, held, queue, rxTable, last, mixed>>
  BY DEF Capture, Begun, rxVars
<1>4. /\ next[u] \in Int /\ Begun(u) >= 1 /\ Begun(u) \in 1..Begun(u)
      /\ next[u] <= Pieces(u, Begun(u)) /\ Begun(u)' = Begun(u)
  <2>1. next[u] \in Int /\ Begun(u) >= 1 /\ next[u] <= Pieces(u, Begun(u))
    BY <1>1, <1>3, NextIn
  <2> QED
    BY <1>1, <1>3, <2>1 DEF Begun
<1>5. c \in Lengths \X Lengths /\ (next[u] <= 1 \/ c = cut[u][Begun(u)])
  <2>1. cut[u][Begun(u)] = <<sent[u][Begun(u)], sent[u][Begun(u)]>>
    BY <1>1, <1>3, <1>4 DEF Straight
  <2> QED
    BY <2>1 DEF Recut, Begun
<1>6. /\ cut'[u] \in Seq(Lengths \X Lengths) /\ Len(cut'[u]) = Begun(u)
      /\ cut'[u][Begun(u)] = c
      /\ \A n \in 1..Begun(u) : n # Begun(u) => cut'[u][n] = cut[u][n]
      /\ DOMAIN cut' = Units /\ \A v \in Units : v # u => cut'[v] = cut[v]
  <2>1. cut[u] \in Seq(Lengths \X Lengths) /\ Len(cut[u]) = Begun(u)
    BY <1>1 DEF UnitType, Begun
  <2>2. cut'[u] = [cut[u] EXCEPT ![Begun(u)] = c]
    BY <1>2 DEF Maps
  <2>3. DOMAIN cut' = Units /\ \A v \in Units : v # u => cut'[v] = cut[v]
    BY <1>2 DEF Maps
  <2> QED
    BY <1>4, <1>5, <2>1, <2>2, <2>3
<1>7. Parts(c) \in 0..36 /\ Pieces(u, Begun(u))' = Parts(c) /\ LastSegment(u)' = Parts(c)
  BY <1>4, <1>5, <1>6, PartsIn DEF Pieces, LastSegment
<1>8. /\ next'[u] = IF next[u] > Parts(c) THEN -1 ELSE next[u]
      /\ DOMAIN next' = Units /\ \A v \in Units : v # u => next'[v] = next[v]
  BY <1>2 DEF Maps
<1>9. /\ faulty'[u] \in Seq(1..Begun(u)) /\ Len(faulty'[u]) <= MaxFaults[u]
      /\ faulty'[u] # <<>> /\ Faulty(u)' = Faulty(u) \cup {Begun(u)}
      /\ DOMAIN faulty' = Units /\ \A v \in Units : v # u => faulty'[v] = faulty[v]
  BY <1>1, <1>3, <1>4, FaultAdds DEF Maps
<1>10. /\ torn'[u] = torn[u] \cup {Begun(u)}
       /\ DOMAIN torn' = Units /\ \A v \in Units : v # u => torn'[v] = torn[v]
  BY <1>3 DEF Maps
<1>11. Maps' /\ \A v \in Units : v # u => Unmoved(v)
  BY <1>3, <1>6, <1>8, <1>9, <1>10 DEF Maps, Unmoved
<1>12. UnitType(u)'
  <2>1. next'[u] \in -1..36 /\ (next'[u] >= 0 => next'[u] <= LastSegment(u)')
    BY <1>3, <1>4, <1>7, <1>8
  <2>2. next'[u] >= 0 => sent'[u] # <<>>
    BY <1>1, <1>3 DEF UnitType
  <2>3. torn'[u] \subseteq 1..Begun(u)
    BY <1>1, <1>4, <1>10 DEF UnitType, Begun
  <2> QED
    BY <1>1, <1>3, <1>6, <1>9, <2>1, <2>2, <2>3 DEF UnitType, Begun, Frames, Entries
<1>13. Straight(u)'
  <2>1. torn'[u] \subseteq Faulty(u)'
    BY <1>1, <1>9, <1>10 DEF Straight
  <2>2. \A n \in 1..Begun(u) : n \notin torn'[u] => cut'[u][n] = <<sent'[u][n], sent'[u][n]>>
    BY <1>1, <1>3, <1>6, <1>10 DEF Straight
  <2> QED
    BY <1>4, <2>1, <2>2 DEF Straight
<1>14. ASSUME NEW n \in Nat, NEW s \in Nat PROVE Past(u, n, s)' <=> Past(u, n, s)
  <2>1. CASE n = Begun(u)
    <3>1. Past(u, n, s) <=> s \in 0..Pieces(u, Begun(u)) /\ s < next[u]
      BY <1>3, <1>4, <2>1 DEF Past
    <3>2. Past(u, n, s)' <=> s \in 0..Parts(c) /\ (next'[u] = -1 \/ s < next'[u])
      BY <1>4, <1>7, <2>1 DEF Past
    <3>3. next[u] <= 1 \/ Parts(c) = Pieces(u, Begun(u))
      BY <1>5 DEF Pieces
    <3>4. Pieces(u, Begun(u)) \in 0..36
      BY <1>1, <1>4, SentIn
    <3> QED
      BY <1>3, <1>4, <1>7, <1>8, <3>1, <3>2, <3>3, <3>4
  <2>2. CASE n # Begun(u)
    BY <1>4, <1>6, <2>2 DEF Past, Pieces
  <2> QED
    BY <2>1, <2>2
<1>15. \A n, s \in Nat : Gone(u, n, s)' <=> Gone(u, n, s)
  BY <1>3, <1>14 DEF Gone, Coming, OnQueue, InQueue, IsHeld
<1>16. Onward(u) /\ NoneComes(u)
  <2>1. ASSUME NEW n \in 1..Begun(u)
        PROVE  cut'[u][n] = cut[u][n] \/ (n \in Faulty(u)' /\ \A s : Past(u, n, s) => s = 0)
    <3>1. CASE n # Begun(u)
      BY <1>6, <3>1
    <3>2. CASE n = Begun(u) /\ c = cut[u][n]
      BY <1>6, <3>2
    <3>3. CASE n = Begun(u) /\ next[u] <= 1
      <4>1. ASSUME NEW s, Past(u, n, s) PROVE s = 0
        <5>1. s \in 0..Pieces(u, Begun(u)) /\ s < next[u]
          BY <1>3, <1>4, <3>3, <4>1 DEF Past
        <5>2. Pieces(u, Begun(u)) \in 0..36
          BY <1>1, <1>4, SentIn
        <5> QED
          BY <1>4, <3>3, <5>1, <5>2
      <4> QED
        BY <1>9, <3>3, <4>1
    <3> QED
      BY <1>5, <3>1, <3>2, <3>3
  <2>2. Onward(u)
    BY <1>1, <1>3, <1>4, <1>9, <1>10, <1>15, <2>1 DEF Onward
  <2>3. NoneComes(u)
    BY <1>3, <1>15 DEF NoneComes
  <2> QED
    BY <2>2, <2>3
<1>17. Books(u)'
  BY <1>1, <1>16, BooksStay
<1>18. Valid(u)' /\ Distinct(u)' /\ Order(u)' /\ Alone(u)'
  BY <1>1, <1>3, <1>14, <1>16, TrafficStays DEF Books
<1>19. HeldOrder(u)'
  BY <1>1, <1>3, <1>14, <1>16, HeldOrderStays
<1> QED
  BY <1>11, <1>12, <1>13, <1>17, <1>18, <1>19 DEF UnitInv, Traffic

\* The frame is lost: the bus is in error, or the controller has no mail left.
LEMMA LostKeeps ==
  ASSUME NEW u \in Units, UnitInv(u), Maps, Advance(u), Fault(u, Begun(u)),
         UNCHANGED <<held, queue, rxTable, last, mixed>>
  PROVE  UnitInv(u)' /\ Maps' /\ \A v \in Units : v # u => Unmoved(v)
<1>1. UnitType(u) /\ Straight(u) /\ Traffic(u) /\ Books(u) /\ Begun(u) \in Nat
  BY SentIn DEF UnitInv
<1>2. /\ next[u] >= 0
      /\ \A n, s \in Nat : Past(u, n, s)' <=> Past(u, n, s) \/ (n = Begun(u) /\ s = next[u])
      /\ next'[u] \in -1..36 /\ (next'[u] >= 0 => next'[u] <= LastSegment(u))
      /\ sent' = sent /\ cut' = cut /\ torn' = torn /\ Begun(u)' = Begun(u) /\ LastSegment(u)' = LastSegment(u)
      /\ DOMAIN next' = Units /\ \A v \in Units : v # u => next'[v] = next[v]
  BY <1>1, AdvancePast DEF Maps
<1>3. Current(u).number = Begun(u) /\ Begun(u) \in 1..Begun(u)
  BY <1>1, <1>2, CurrentIs
<1>4. /\ faulty'[u] \in Seq(1..Begun(u)) /\ Len(faulty'[u]) <= MaxFaults[u]
      /\ faulty'[u] # <<>> /\ Faulty(u)' = Faulty(u) \cup {Begun(u)}
      /\ DOMAIN faulty' = Units /\ \A v \in Units : v # u => faulty'[v] = faulty[v]
  BY <1>1, <1>3, FaultAdds DEF Maps
<1>5. Maps' /\ \A v \in Units : v # u => Unmoved(v)
  BY <1>2, <1>4 DEF Maps, Unmoved
<1>6. UnitType(u)'
  <2>1. next'[u] >= 0 => sent[u] # <<>>
    BY <1>1, <1>2 DEF UnitType
  <2> QED
    BY <1>1, <1>2, <1>4, <2>1 DEF UnitType, Begun, Frames, Entries
<1>7. ASSUME NEW n \in Nat, NEW s \in Nat
      PROVE  /\ Gone(u, n, s) => Gone(u, n, s)'
             /\ Gone(u, n, s)' => Gone(u, n, s) \/ n \in Faulty(u)'
  <2>1. Coming(u, n, s)' <=> Coming(u, n, s)
    BY DEF Coming, OnQueue, InQueue, IsHeld
  <2> QED
    BY <1>2, <1>4, <2>1 DEF Gone
<1>8. Onward(u) /\ NoneComes(u)
  <2>1. Onward(u)
    <3>1. Faulty(u) \subseteq Faulty(u)' /\ faulty'[u] # <<>>
      BY <1>4
    <3>2. Begun(u)' \in Nat /\ Begun(u) <= Begun(u)'
      BY <1>1, <1>2
    <3>3. /\ \A n \in 1..Begun(u) : sent'[u][n] = sent[u][n] /\ cut'[u][n] = cut[u][n]
          /\ torn[u] \subseteq torn'[u]
      BY <1>2
    <3> QED
      BY <1>7, <3>1, <3>2, <3>3, Zenon DEF Onward
  <2>2. NoneComes(u)
    BY <1>7 DEF NoneComes
  <2> QED
    BY <2>1, <2>2
<1>9. Books(u)'
  BY <1>1, <1>8, BooksStay
<1>10. Valid(u)' /\ Distinct(u)' /\ Order(u)' /\ Alone(u)'
  BY <1>1, <1>2, <1>8, TrafficStays DEF Books
<1>11. HeldOrder(u)'
  BY <1>1, <1>2, <1>4, <1>8, HeldOrderNext
<1>12. Straight(u)'
  BY <1>1, <1>2, <1>4, StraightStays
<1> QED
  BY <1>5, <1>6, <1>9, <1>10, <1>11, <1>12 DEF UnitInv, Traffic

\* The frame that waited is lost.
LEMMA DropKeeps ==
  ASSUME NEW u \in Units, UnitInv(u), Maps, held[u] # NoFrame, Fault(u, held[u].number),
         held' = [held EXCEPT ![u] = NoFrame],
         UNCHANGED <<sent, cut, torn, next, queue, rxTable, last, mixed>>
  PROVE  UnitInv(u)' /\ Maps' /\ \A v \in Units : v # u => Unmoved(v)
<1>1. UnitType(u) /\ Straight(u) /\ Traffic(u) /\ Books(u) /\ Begun(u) \in Nat
  BY SentIn DEF UnitInv
<1>2. /\ \A n, s : Past(u, n, s)' <=> Past(u, n, s)
      /\ Begun(u)' = Begun(u) /\ LastSegment(u)' = LastSegment(u)
  BY DEF Past, Pieces, Begun, LastSegment
<1>3. held[u].number \in 1..Begun(u)
  BY <1>1 DEF Traffic, Valid, ValidFrame, Past
<1>4. /\ faulty'[u] \in Seq(1..Begun(u)) /\ Len(faulty'[u]) <= MaxFaults[u]
      /\ faulty'[u] # <<>> /\ Faulty(u)' = Faulty(u) \cup {held[u].number}
      /\ DOMAIN faulty' = Units /\ \A v \in Units : v # u => faulty'[v] = faulty[v]
  BY <1>1, <1>3, FaultAdds DEF Maps
<1>5. Maps' /\ \A v \in Units : v # u => Unmoved(v)
  BY <1>4 DEF Maps, Unmoved
<1>6. held'[u] = NoFrame
  BY DEF Maps
<1>7. UnitType(u)'
  <2>1. held'[u] \in (Frames(u) \cup {NoFrame})
    BY <1>6
  <2> QED
    BY <1>1, <1>2, <1>4, <2>1 DEF UnitType, Begun, Frames, Entries
<1>8. ASSUME NEW n \in Nat, NEW s \in Nat
      PROVE  /\ Gone(u, n, s) => Gone(u, n, s)'
             /\ Gone(u, n, s)' => Gone(u, n, s) \/ n \in Faulty(u)'
  <2>1. /\ Coming(u, n, s)' => Coming(u, n, s)
        /\ Coming(u, n, s) => Coming(u, n, s)' \/ n = held[u].number
    BY <1>6 DEF Coming, OnQueue, InQueue, IsHeld
  <2> QED
    BY <1>2, <1>4, <2>1 DEF Gone
<1>9. Onward(u) /\ NoneComes(u)
  <2>1. /\ Begun(u)' \in Nat /\ Begun(u) <= Begun(u)'
        /\ \A n \in 1..Begun(u) : sent'[u][n] = sent[u][n]
    BY <1>1, <1>2
  <2>2. Faulty(u) \subseteq Faulty(u)'
    BY <1>4
  <2>3. Onward(u)
    BY <1>4, <1>8, <2>1, <2>2 DEF Onward
  <2> QED
    BY <1>8, <2>3 DEF NoneComes
<1>10. Books(u)'
  BY <1>1, <1>9, BooksStay
<1>11. Valid(u)' /\ Distinct(u)' /\ Order(u)' /\ Alone(u)'
  BY <1>1, <1>2, <1>6, <1>9, TrafficStays DEF Books
<1>12. HeldOrder(u)'
  BY <1>1, <1>2, <1>6, <1>9, HeldOrderStays
<1>13. Straight(u)'
  BY <1>1, <1>4, StraightStays
<1> QED
  BY <1>5, <1>7, <1>10, <1>11, <1>12, <1>13 DEF UnitInv, Traffic

-----------------------------------------------------------------------------
(* Steps of the unit that hold a frame back or put it into the queue. *)

\* No frame of the unit is later than the one that it is about to send.
LEMMA NoneLater ==
  ASSUME NEW u \in Units, UnitType(u), next[u] >= 0, NEW n \in Nat, NEW s \in Nat,
         Past(u, n, s) \/ (n = Begun(u) /\ s = next[u])
  PROVE  ~Earlier(Begun(u), next[u], n, s)
  BY SentIn, NextIn DEF Past, Earlier

LEMMA ValidNext ==
  ASSUME NEW u,
         \A i \in 1..Len(queue') : \E f : f = queue'[i] /\ (f.unit = u => ValidFrame(u, f)'),
         \E f : f = held'[u] /\ (f # NoFrame => ValidFrame(u, f)')
  PROVE  Valid(u)'
<1>1. \A i \in 1..Len(queue') : queue'[i].unit = u => ValidFrame(u, queue[i])'
  BY DEF ValidFrame, Past
<1>2. held'[u] # NoFrame => ValidFrame(u, held[u])'
  BY DEF ValidFrame, Past
<1> QED
  BY <1>1, <1>2 DEF Valid, ValidFrame

LEMMA HoldKeeps ==
  ASSUME NEW u \in Units, UnitInv(u), Maps, HoldFrame(u)
  PROVE  UnitInv(u)' /\ Maps' /\ \A v \in Units : v # u => Unmoved(v)
<1>1. UnitType(u) /\ Straight(u) /\ Traffic(u) /\ Books(u) /\ Begun(u) \in Nat
  BY SentIn DEF UnitInv
<1>2. /\ held[u] = NoFrame /\ held' = [held EXCEPT ![u] = Current(u)] /\ Advance(u)
      /\ UNCHANGED <<queue, rxTable, last, mixed, faulty>>
  BY DEF HoldFrame, rxVars
<1>3. /\ next[u] >= 0
      /\ \A n, s \in Nat : Past(u, n, s)' <=> Past(u, n, s) \/ (n = Begun(u) /\ s = next[u])
      /\ next'[u] \in -1..36 /\ (next'[u] >= 0 => next'[u] <= LastSegment(u))
      /\ sent' = sent /\ cut' = cut /\ torn' = torn /\ Begun(u)' = Begun(u) /\ LastSegment(u)' = LastSegment(u)
      /\ DOMAIN next' = Units /\ \A v \in Units : v # u => next'[v] = next[v]
  BY <1>1, <1>2, AdvancePast DEF Maps
<1>4. /\ Current(u).unit = u /\ Current(u).number = Begun(u) /\ Current(u).seg = next[u]
      /\ Current(u).len = LenOf(u, Begun(u), next[u])
      /\ Begun(u) \in 1..Begun(u) /\ next[u] \in 0..Pieces(u, Begun(u))
      /\ Current(u) \in Frames(u) /\ ~Past(u, Begun(u), next[u])
  BY <1>1, <1>3, CurrentIs
<1>5. Begun(u) \in Nat /\ next[u] \in Nat
  BY <1>1, <1>3, NextIn
<1>6. held'[u] = Current(u) /\ DOMAIN held' = Units /\ \A v \in Units : v # u => held'[v] = held[v]
  BY <1>2 DEF Maps
<1>7. Maps' /\ \A v \in Units : v # u => Unmoved(v)
  BY <1>2, <1>3, <1>6 DEF Maps, Unmoved
<1>8. UnitType(u)'
  <2>1. next'[u] >= 0 => sent[u] # <<>>
    BY <1>1, <1>3 DEF UnitType
  <2>2. held'[u] \in (Frames(u) \cup {NoFrame})
    BY <1>4, <1>6
  <2> QED
    BY <1>1, <1>2, <1>3, <2>1, <2>2 DEF UnitType, Begun, Frames, Entries
<1>9. /\ \A n, s : OnQueue(u, n, s)' <=> OnQueue(u, n, s)
      /\ \A n, s, m, r : InLine(u, n, s, m, r)' <=> InLine(u, n, s, m, r)
      /\ \A n, s : Once(u, n, s)' <=> Once(u, n, s)
      /\ \A n, s : ~IsHeld(u, n, s)
      /\ \A n, s : IsHeld(u, n, s)' => n = Begun(u) /\ s = next[u]
  BY <1>2, <1>4, <1>6 DEF OnQueue, InLine, InQueue, Once, IsHeld
<1>10. ~Coming(u, Begun(u), next[u])
  BY <1>1, <1>4, ComingPast DEF Traffic
<1>11. Current(u) # NoFrame
  BY <1>4, NoneAssumption
<1>12. ASSUME NEW n \in Nat, NEW s \in Nat
       PROVE  Coming(u, n, s)' <=> Coming(u, n, s) \/ (n = Begun(u) /\ s = next[u])
  <2>1. IsHeld(u, n, s)' <=> n = Begun(u) /\ s = next[u]
    BY <1>4, <1>6, <1>11 DEF IsHeld
  <2> QED
    BY <1>9, <2>1 DEF Coming
<1>13. ASSUME NEW n \in Nat, NEW s \in Nat PROVE Gone(u, n, s)' <=> Gone(u, n, s)
  BY <1>3, <1>4, <1>12 DEF Gone
<1>14. Faulty(u)' = Faulty(u) /\ (faulty[u] = <<>> => Faulty(u) = {})
  BY <1>2 DEF Faulty
<1>15. Onward(u) /\ NoneComes(u)
  <2>1. faulty' = faulty /\ NoneComes(u)
    BY <1>2, <1>13 DEF NoneComes
  <2>2. Onward(u)
    BY <1>1, <1>3, <1>13, <1>14, <2>1, SMTT(30) DEF Onward
  <2> QED
    BY <2>1, <2>2
<1>16. Books(u)'
  BY <1>1, <1>15, BooksStay
<1>17. Valid(u)'
  <2>1. ASSUME NEW i \in 1..Len(queue), queue[i].unit = u PROVE ValidFrame(u, queue[i])'
    <3>1. ValidFrame(u, queue[i])
      BY <1>1, <2>1 DEF Traffic, Valid
    <3> QED
      BY <1>2, <1>3, <1>15, <3>1, ValidStays DEF ValidFrame
  <2>2. ValidFrame(u, held[u])'
    BY <1>3, <1>4, <1>5, <1>6 DEF ValidFrame, LenOf
  <2> QED
    BY <1>2, <2>1, <2>2 DEF Valid, ValidFrame
<1>18. Distinct(u)'
  BY <1>1, <1>9, <1>10 DEF Traffic, Distinct, Coming
<1>19. Order(u)' /\ Alone(u)'
  <2>1. \A n, s \in Nat : Consumed(u, n, s)' => Consumed(u, n, s)
    BY <1>1, <1>15, ConsumedStays DEF Books
  <2>2. ASSUME NEW n \in Nat, NEW s \in Nat, NEW m \in Nat, NEW r \in Nat,
               Earlier(n, s, m, r), Behind(u, n, s, m, r)'
        PROVE  Behind(u, n, s, m, r)
    <3>1. CASE IsHeld(u, n, s)'
      <4>1. Past(u, m, r)
        BY <1>1, <1>9, <2>1, <2>2, <3>1, ComingPast, BehindComing
          DEF Behind, InLine, Consumed, Gone, Coming, OnQueue, Traffic
      <4> QED
        BY <1>1, <1>3, <1>9, <2>2, <3>1, <4>1, NoneLater
    <3>2. CASE ~IsHeld(u, n, s)'
      BY <1>9, <2>1, <2>2, <3>2 DEF Behind, Coming
    <3> QED
      BY <3>1, <3>2
  <2> QED
    BY <1>1, <1>15, <2>2, OrderStays DEF Traffic
<1>20. HeldOrder(u)'
  <2> SUFFICES ASSUME NEW n \in Nat, NEW s \in Nat, NEW m \in Nat, NEW r \in Nat,
                      IsHeld(u, n, s)', Past(u, m, r)', Earlier(n, s, m, r)
               PROVE  FALSE
    BY DEF HeldOrder, Earlier
  <2> QED
    BY <1>1, <1>3, <1>9, NoneLater
<1>21. Straight(u)'
  BY <1>1, <1>3, <1>14, StraightStays
<1> QED
  BY <1>7, <1>8, <1>16, <1>17, <1>18, <1>19, <1>20, <1>21 DEF UnitInv, Traffic

LEMMA ReleaseKeeps ==
  ASSUME NEW u \in Units, UnitInv(u), Maps, queue \in Seq(AllFrames), held[u] # NoFrame,
         queue' = Append(queue, held[u]), held' = [held EXCEPT ![u] = NoFrame],
         UNCHANGED <<sent, cut, torn, next, rxTable, last, mixed, faulty>>
  PROVE  UnitInv(u)' /\ Maps' /\ \A v \in Units : v # u => Unmoved(v)
<1>1. UnitType(u) /\ Straight(u) /\ Traffic(u) /\ Books(u) /\ Begun(u) \in Nat
  BY SentIn DEF UnitInv
<1>2. /\ \A n, s : Past(u, n, s)' <=> Past(u, n, s)
      /\ Begun(u)' = Begun(u) /\ LastSegment(u)' = LastSegment(u)
  BY DEF Past, Pieces, Begun, LastSegment
<1>3. ValidFrame(u, held[u]) /\ held[u].unit = u
  BY <1>1 DEF Traffic, Valid, ValidFrame
<1>4. held'[u] = NoFrame /\ DOMAIN held' = Units /\ \A v \in Units : v # u => held'[v] = held[v]
  BY DEF Maps
<1>5. Maps' /\ \A v \in Units : v # u => Unmoved(v)
  BY <1>4 DEF Maps, Unmoved
<1>6. UnitType(u)'
  <2>1. held'[u] \in (Frames(u) \cup {NoFrame})
    BY <1>4
  <2> QED
    BY <1>1, <1>2, <2>1 DEF UnitType, Begun, Frames, Entries
<1>7. ASSUME NEW n, NEW s
      PROVE  /\ OnQueue(u, n, s)' <=> OnQueue(u, n, s) \/ IsHeld(u, n, s)
             /\ ~IsHeld(u, n, s)' /\ (Coming(u, n, s)' <=> Coming(u, n, s))
  <2>1. OnQueue(u, n, s)' <=> OnQueue(u, n, s) \/ IsHeld(u, n, s)
    BY <1>3, Appended DEF IsHeld
  <2> QED
    BY <1>4, <2>1 DEF IsHeld, Coming
<1>8. \A n, s : Gone(u, n, s)' <=> Gone(u, n, s)
  BY <1>2, <1>7 DEF Gone
<1>9. Faulty(u)' = Faulty(u) /\ (faulty[u] = <<>> => Faulty(u) = {})
  BY DEF Faulty
<1>10. Onward(u) /\ NoneComes(u)
  <2>1. Onward(u)
    BY <1>1, <1>2, <1>8, <1>9 DEF Onward
  <2> QED
    BY <1>8, <2>1 DEF NoneComes
<1>11. Books(u)'
  BY <1>1, <1>10, BooksStay
<1>12. Valid(u)'
  <2>1. \A f : ValidFrame(u, f) => ValidFrame(u, f)'
    BY <1>2, <1>10, ValidStays DEF ValidFrame
  <2>2. ASSUME NEW i \in 1..Len(queue')
        PROVE  \E f : f = queue'[i] /\ (f.unit = u => ValidFrame(u, f)')
    <3>1. (i \in 1..Len(queue) /\ queue'[i] = queue[i]) \/ queue'[i] = held[u]
      OBVIOUS
    <3>2. CASE i \in 1..Len(queue) /\ queue'[i] = queue[i]
      BY <1>1, <2>1, <3>2 DEF Traffic, Valid
    <3>3. CASE queue'[i] = held[u]
      BY <1>3, <2>1, <3>3
    <3> QED
      BY <3>1, <3>2, <3>3
  <2> QED
    BY <1>4, <2>2, ValidNext
<1>13. Distinct(u)'
  <2>1. ASSUME NEW n \in Nat, NEW s \in Nat PROVE Once(u, n, s)'
    <3>1. Once(u, n, s) /\ ~(OnQueue(u, n, s) /\ IsHeld(u, n, s))
      BY <1>1 DEF Traffic, Distinct
    <3> QED
      BY <3>1, AppendedOnce DEF IsHeld
  <2> QED
    BY <1>7, <2>1 DEF Distinct
<1>14. Order(u)' /\ Alone(u)'
  <2>1. \A n, s \in Nat : Consumed(u, n, s)' => Consumed(u, n, s)
    BY <1>1, <1>10, ConsumedStays DEF Books
  <2>2. ASSUME NEW n \in Nat, NEW s \in Nat, NEW m \in Nat, NEW r \in Nat,
               Behind(u, n, s, m, r)'
        PROVE  Behind(u, n, s, m, r)
    <3>1. InLine(u, n, s, m, r)' => InLine(u, n, s, m, r) \/ (OnQueue(u, m, r) /\ IsHeld(u, n, s))
      BY AppendedLine DEF IsHeld
    <3> QED
      BY <1>7, <2>1, <2>2, <3>1 DEF Behind
  <2> QED
    BY <1>1, <1>10, <2>2, OrderStays DEF Traffic
<1>15. HeldOrder(u)'
  BY <1>7 DEF HeldOrder
<1>16. Straight(u)'
  BY <1>1, <1>9, StraightStays
<1> QED
  BY <1>5, <1>6, <1>11, <1>12, <1>13, <1>14, <1>15, <1>16 DEF UnitInv, Traffic

LEMMA SendKeeps ==
  ASSUME NEW u \in Units, UnitInv(u), Maps, queue \in Seq(AllFrames), Advance(u),
         queue' = Append(queue, Current(u)),
         IF held[u] # NoFrame THEN Fault(u, Begun(u)) ELSE UNCHANGED faulty,
         UNCHANGED <<held, rxTable, last, mixed>>
  PROVE  UnitInv(u)' /\ Maps' /\ \A v \in Units : v # u => Unmoved(v)
<1>1. UnitType(u) /\ Straight(u) /\ Traffic(u) /\ Books(u) /\ Begun(u) \in Nat
  BY SentIn DEF UnitInv
<1>2. /\ next[u] >= 0
      /\ \A n, s \in Nat : Past(u, n, s)' <=> Past(u, n, s) \/ (n = Begun(u) /\ s = next[u])
      /\ next'[u] \in -1..36 /\ (next'[u] >= 0 => next'[u] <= LastSegment(u))
      /\ sent' = sent /\ cut' = cut /\ torn' = torn /\ Begun(u)' = Begun(u) /\ LastSegment(u)' = LastSegment(u)
      /\ DOMAIN next' = Units /\ \A v \in Units : v # u => next'[v] = next[v]
  BY <1>1, AdvancePast DEF Maps
<1>3. /\ Current(u).unit = u /\ Current(u).number = Begun(u) /\ Current(u).seg = next[u]
      /\ Current(u).len = LenOf(u, Begun(u), next[u])
      /\ Begun(u) \in 1..Begun(u) /\ next[u] \in 0..Pieces(u, Begun(u))
      /\ ~Past(u, Begun(u), next[u])
  BY <1>1, <1>2, CurrentIs
<1>4. Begun(u) \in Nat /\ next[u] \in Nat
  BY <1>1, <1>2, NextIn
<1>5. /\ faulty'[u] \in Seq(1..Begun(u)) /\ Len(faulty'[u]) <= MaxFaults[u]
      /\ Faulty(u) \subseteq Faulty(u)'
      /\ faulty'[u] = <<>> => faulty[u] = <<>> /\ Faulty(u)' = {}
      /\ DOMAIN faulty' = Units /\ \A v \in Units : v # u => faulty'[v] = faulty[v]
      /\ held[u] # NoFrame => Begun(u) \in Faulty(u)'
  <2>1. CASE held[u] # NoFrame
    <3>1. /\ faulty'[u] \in Seq(1..Begun(u)) /\ Len(faulty'[u]) <= MaxFaults[u]
          /\ faulty'[u] # <<>> /\ Faulty(u)' = Faulty(u) \cup {Begun(u)}
          /\ DOMAIN faulty' = Units /\ \A v \in Units : v # u => faulty'[v] = faulty[v]
      BY <1>1, <1>3, <2>1, FaultAdds DEF Maps
    <3> QED
      BY <3>1
  <2>2. CASE held[u] = NoFrame
    BY <1>1, <2>2 DEF Maps, UnitType, Begun, Faulty
  <2> QED
    BY <2>1, <2>2
<1>6. Maps' /\ \A v \in Units : v # u => Unmoved(v)
  BY <1>2, <1>5 DEF Maps, Unmoved
<1>7. UnitType(u)'
  <2>1. next'[u] >= 0 => sent[u] # <<>>
    BY <1>1, <1>2 DEF UnitType
  <2> QED
    BY <1>1, <1>2, <1>5, <2>1 DEF UnitType, Begun, Frames, Entries
<1>8. ASSUME NEW n, NEW s
      PROVE  /\ OnQueue(u, n, s)' <=> OnQueue(u, n, s) \/ (n = Begun(u) /\ s = next[u])
             /\ IsHeld(u, n, s)' <=> IsHeld(u, n, s)
             /\ Coming(u, n, s)' <=> Coming(u, n, s) \/ (n = Begun(u) /\ s = next[u])
  <2>1. OnQueue(u, n, s)' <=> OnQueue(u, n, s) \/ (n = Begun(u) /\ s = next[u])
    BY <1>3, Appended
  <2> QED
    BY <2>1 DEF IsHeld, Coming
<1>9. ~Coming(u, Begun(u), next[u])
  BY <1>1, <1>3, ComingPast DEF Traffic
<1>10. \A n, s \in Nat : Gone(u, n, s)' <=> Gone(u, n, s)
  BY <1>2, <1>3, <1>8 DEF Gone
<1>11. Onward(u) /\ NoneComes(u)
  <2>1. Onward(u)
    <3>1. Begun(u)' \in Nat /\ Begun(u) <= Begun(u)'
      BY <1>1, <1>2
    <3>2. /\ \A n \in 1..Begun(u) : sent'[u][n] = sent[u][n] /\ cut'[u][n] = cut[u][n]
          /\ torn[u] \subseteq torn'[u]
      BY <1>2
    <3> QED
      BY <1>5, <1>10, <3>1, <3>2, Zenon DEF Onward
  <2> QED
    BY <1>10, <2>1 DEF NoneComes
<1>12. Books(u)'
  BY <1>1, <1>11, BooksStay
<1>13. Valid(u)'
  <2>1. ASSUME NEW f, ValidFrame(u, f) PROVE ValidFrame(u, f)'
    BY <1>2, <1>11, <2>1, ValidStays DEF ValidFrame
  <2>2. ASSUME NEW f, f = Current(u) PROVE ValidFrame(u, f)'
    BY <1>2, <1>3, <1>4, <2>2 DEF ValidFrame, LenOf
  <2>3. ASSUME NEW i \in 1..Len(queue')
        PROVE  \E f : f = queue'[i] /\ (f.unit = u => ValidFrame(u, f)')
    <3>1. (i \in 1..Len(queue) /\ queue'[i] = queue[i]) \/ queue'[i] = Current(u)
      OBVIOUS
    <3>2. CASE i \in 1..Len(queue) /\ queue'[i] = queue[i]
      BY <1>1, <2>1, <3>2 DEF Traffic, Valid
    <3>3. CASE queue'[i] = Current(u)
      BY <2>2, <3>3
    <3> QED
      BY <3>1, <3>2, <3>3
  <2>4. held[u] # NoFrame => ValidFrame(u, held[u])
    BY <1>1 DEF Traffic, Valid
  <2>5. \E f : f = held'[u] /\ (f # NoFrame => ValidFrame(u, f)')
    BY <2>1, <2>4
  <2> QED
    BY <2>3, <2>5, ValidNext
<1>14. Distinct(u)'
  <2>1. ASSUME NEW n \in Nat, NEW s \in Nat
        PROVE  Once(u, n, s)' /\ ~(OnQueue(u, n, s)' /\ IsHeld(u, n, s)')
    <3>1. Once(u, n, s) /\ ~(OnQueue(u, n, s) /\ IsHeld(u, n, s))
      BY <1>1 DEF Traffic, Distinct
    <3>2. ~(Coming(u, n, s) /\ n = Begun(u) /\ s = next[u])
      BY <1>9
    <3>3. Once(u, n, s)'
      BY <1>3, <3>1, <3>2, AppendedOnce DEF Coming
    <3> QED
      BY <1>8, <3>1, <3>2, <3>3 DEF Coming
  <2> QED
    BY <2>1 DEF Distinct
<1>15. HeldOrder(u)'
  <2>1. CASE held[u] = NoFrame
    BY <2>1 DEF HeldOrder, IsHeld
  <2>2. CASE held[u] # NoFrame
    BY <1>1, <1>2, <1>5, <1>11, <2>2, HeldOrderNext
  <2> QED
    BY <2>1, <2>2
<1>16. ASSUME NEW n \in Nat, NEW s \in Nat, NEW m \in Nat, NEW r \in Nat,
              Earlier(n, s, m, r), Behind(u, n, s, m, r)'
       PROVE  \/ Behind(u, n, s, m, r) /\ ~(m = Begun(u) /\ r = next[u])
              \/ m = Begun(u) /\ r = next[u] /\ IsHeld(u, n, s)
  <2>1. \A k, t \in Nat : Consumed(u, k, t)' => Consumed(u, k, t)
    BY <1>1, <1>11, ConsumedStays DEF Books
  <2>2. InLine(u, n, s, m, r)' =>
          InLine(u, n, s, m, r) \/ (OnQueue(u, m, r) /\ n = Begun(u) /\ s = next[u])
    BY <1>3, AppendedLine
  <2>3. \/ Behind(u, n, s, m, r)
        \/ (OnQueue(u, m, r) \/ Consumed(u, m, r)) /\ n = Begun(u) /\ s = next[u]
        \/ m = Begun(u) /\ r = next[u] /\ IsHeld(u, n, s)
    BY <1>8, <1>16, <2>1, <2>2 DEF Behind
  <2>4. CASE (OnQueue(u, m, r) \/ Consumed(u, m, r)) /\ n = Begun(u) /\ s = next[u]
    <3>1. Past(u, m, r)
      BY <1>1, <2>4, ComingPast DEF Traffic, Coming, Consumed, Gone
    <3> QED
      BY <1>1, <1>2, <1>16, <2>4, <3>1, NoneLater
  <2>5. CASE Behind(u, n, s, m, r)
    <3>1. Past(u, m, r)
      BY <1>1, <2>5, BehindComing DEF Traffic
    <3> QED
      BY <1>3, <2>5, <3>1
  <2> QED
    BY <2>3, <2>4, <2>5
<1>17. Order(u)'
  <2>1. ASSUME NEW n \in Nat, NEW s \in Nat, NEW m \in Nat, NEW r \in Nat,
               Earlier(n, s, m, r), Behind(u, n, s, m, r)'
        PROVE  Overtaken(u, n, s, m)'
    <3>1. CASE Behind(u, n, s, m, r)
      <4>1. Overtaken(u, n, s, m) /\ Past(u, n, s)
        BY <1>1, <2>1, <3>1, BehindComing DEF Traffic, Order
      <4> QED
        BY <1>11, <4>1, OvertakenStays
    <3>2. CASE m = Begun(u) /\ r = next[u] /\ IsHeld(u, n, s)
      <4>1. IsHeld(u, n, s)' /\ Past(u, m, r)'
        BY <1>2, <1>8, <3>2
      <4> QED
        BY <1>15, <2>1, <4>1 DEF HeldOrder, Earlier
    <3> QED
      BY <1>16, <2>1, <3>1, <3>2
  <2> QED
    BY <2>1, Zenon DEF Order, Earlier
<1>18. Alone(u)'
  <2>1. ASSUME NEW n \in Nat, NEW s \in Nat, NEW k \in Nat, NEW t \in Nat,
               NEW m \in Nat, NEW r \in Nat,
               Earlier(n, s, m, r), Behind(u, n, s, m, r)',
               Earlier(k, t, m, r), Behind(u, k, t, m, r)'
        PROVE  n = k /\ s = t
    <3>1. CASE m = Begun(u) /\ r = next[u]
      <4>1. IsHeld(u, n, s) /\ IsHeld(u, k, t)
        BY <1>16, <2>1, <3>1
      <4> QED
        BY <4>1 DEF IsHeld
    <3>2. CASE ~(m = Begun(u) /\ r = next[u])
      <4>1. Behind(u, n, s, m, r) /\ Behind(u, k, t, m, r)
        BY <1>16, <2>1, <3>2
      <4>2. Alone(u)
        BY <1>1 DEF Traffic
      <4> QED
        BY <2>1, <4>1, <4>2, Zenon DEF Alone
    <3> QED
      BY <3>1, <3>2
  <2> QED
    BY <2>1, SMTT(60) DEF Alone, Earlier
<1>19. Straight(u)'
  BY <1>1, <1>2, <1>5, StraightStays
<1> QED
  BY <1>6, <1>7, <1>12, <1>13, <1>14, <1>15, <1>17, <1>18, <1>19 DEF UnitInv, Traffic

-----------------------------------------------------------------------------
(* The controller takes a frame out of the queue. *)

Polled(u, h) ==
  /\ queue # <<>> /\ queue' = Tail(queue) /\ h = Head(queue) /\ h.unit = u
  /\ UNCHANGED <<sent, cut, torn, next, held, faulty>>

LEMMA PolledIs ==
  ASSUME NEW u \in Units, UnitInv(u), QueueType, NEW h, Polled(u, h)
  PROVE  /\ queue \in Seq(AllFrames) /\ UnitType(u) /\ Traffic(u) /\ Books(u)
         /\ Begun(u) \in Nat /\ h.number \in 1..Begun(u) /\ h.seg \in 0..Pieces(u, h.number)
         /\ h.number \in Nat /\ h.seg \in Nat /\ Straight(u)
         /\ h.len = LenOf(u, h.number, h.seg) /\ sent[u][h.number] \in Lengths
         /\ Past(u, h.number, h.seg) /\ InQueue(1, u, h.number, h.seg)
         /\ Coming(u, h.number, h.seg)
         /\ \A n, s : Past(u, n, s)' <=> Past(u, n, s)
         /\ \A n, s : OnQueue(u, n, s)' => OnQueue(u, n, s)
         /\ \A n, s \in Nat : Coming(u, n, s)' <=> Coming(u, n, s) /\ ~(n = h.number /\ s = h.seg)
         /\ \A n, s \in Nat : Gone(u, n, s)' <=> Gone(u, n, s) \/ (n = h.number /\ s = h.seg)
         /\ Onward(u)
<1>1. /\ queue \in Seq(AllFrames) /\ UnitType(u) /\ Traffic(u) /\ Books(u) /\ Straight(u)
      /\ Begun(u) \in Nat
  BY SentIn DEF QueueType, UnitInv
<1>2. /\ queue # <<>> /\ queue' = Tail(queue) /\ h = Head(queue) /\ h.unit = u
      /\ sent' = sent /\ cut' = cut /\ torn' = torn /\ next' = next /\ held' = held /\ faulty' = faulty
  BY DEF Polled
<1>3. 1 \in 1..Len(queue) /\ queue[1] = h
  BY <1>1, <1>2
<1>4. ValidFrame(u, h)
  BY <1>1, <1>2, <1>3 DEF Traffic, Valid
<1>5. /\ h.number \in 1..Begun(u) /\ h.seg \in 0..Pieces(u, h.number)
      /\ h.len = LenOf(u, h.number, h.seg) /\ Past(u, h.number, h.seg)
  BY <1>4 DEF ValidFrame, Past
<1>6. h.number \in Nat /\ h.seg \in Nat /\ sent[u][h.number] \in Lengths
  BY <1>1, <1>5, SentIn
<1>7. InQueue(1, u, h.number, h.seg) /\ OnQueue(u, h.number, h.seg)
  BY <1>2, <1>3 DEF InQueue, OnQueue
<1>8. Once(u, h.number, h.seg) /\ ~IsHeld(u, h.number, h.seg)
  BY <1>1, <1>6, <1>7 DEF Traffic, Distinct
<1>9. \A n, s : IsHeld(u, n, s)' <=> IsHeld(u, n, s)
  BY <1>2 DEF IsHeld
<1>10. \A n, s : OnQueue(u, n, s)' => OnQueue(u, n, s)
  BY <1>1, <1>2, Removed
<1>11. ASSUME NEW n, NEW s
       PROVE  OnQueue(u, n, s)' <=> OnQueue(u, n, s) /\ ~(n = h.number /\ s = h.seg)
  <2>1. CASE n = h.number /\ s = h.seg
    BY <1>1, <1>2, <1>7, <1>8, <2>1, RemovedOnce
  <2>2. CASE ~(n = h.number /\ s = h.seg)
    BY <1>1, <1>2, <2>2, Removed
  <2> QED
    BY <2>1, <2>2
<1>12. \A n, s : Coming(u, n, s)' <=> Coming(u, n, s) /\ ~(n = h.number /\ s = h.seg)
  BY <1>8, <1>9, <1>11 DEF Coming
<1>13. \A n, s : Past(u, n, s)' <=> Past(u, n, s)
  BY <1>2 DEF Past, Begun, Pieces
<1>14. \A n, s : Gone(u, n, s)' <=> Gone(u, n, s) \/ (n = h.number /\ s = h.seg)
  BY <1>5, <1>12, <1>13 DEF Gone
<1>15. Onward(u)
  <2>1. Begun(u)' = Begun(u) /\ Faulty(u)' = Faulty(u) /\ (faulty[u] = <<>> => Faulty(u) = {})
    BY <1>2 DEF Begun, Faulty
  <2> QED
    BY <1>1, <1>2, <1>14, <2>1 DEF Onward
<1> QED
  BY <1>1, <1>5, <1>6, <1>7, <1>10, <1>12, <1>13, <1>14, <1>15 DEF Coming

LEMMA PollTraffic ==
  ASSUME NEW u \in Units, UnitInv(u), QueueType, NEW h, Polled(u, h),
         \A n : Taken(u, n)' => Taken(u, n) \/ (n = h.number /\ h.seg = 0)
  PROVE  Traffic(u)'
<1>1. /\ queue \in Seq(AllFrames) /\ Traffic(u) /\ Books(u) /\ Onward(u)
      /\ InQueue(1, u, h.number, h.seg)
      /\ \A n, s : Past(u, n, s)' <=> Past(u, n, s)
      /\ \A n, s : OnQueue(u, n, s)' => OnQueue(u, n, s)
      /\ \A n, s \in Nat : Coming(u, n, s)' <=> Coming(u, n, s) /\ ~(n = h.number /\ s = h.seg)
      /\ \A n, s \in Nat : Gone(u, n, s)' <=> Gone(u, n, s) \/ (n = h.number /\ s = h.seg)
  BY PolledIs
<1>2. /\ queue # <<>> /\ queue' = Tail(queue) /\ h = Head(queue) /\ h.unit = u
      /\ sent' = sent /\ cut' = cut /\ torn' = torn /\ next' = next /\ held' = held /\ faulty' = faulty
  BY DEF Polled
<1>3. Faulty(u)' = Faulty(u) /\ \A n, s : IsHeld(u, n, s)' <=> IsHeld(u, n, s)
  BY <1>2 DEF Faulty, IsHeld
<1>4. Valid(u)'
  <2>1. \A f : ValidFrame(u, f) => ValidFrame(u, f)'
    BY <1>1, <1>2, ValidStays DEF ValidFrame
  <2>2. ASSUME NEW i \in 1..Len(queue')
        PROVE  \E f : f = queue'[i] /\ (f.unit = u => ValidFrame(u, f)')
    <3>1. queue'[i] = queue[i + 1] /\ i + 1 \in 1..Len(queue)
      BY <1>1, <1>2
    <3> QED
      BY <1>1, <2>1, <3>1 DEF Traffic, Valid
  <2>3. held[u] # NoFrame => ValidFrame(u, held[u])
    BY <1>1 DEF Traffic, Valid
  <2>4. \E f : f = held'[u] /\ (f # NoFrame => ValidFrame(u, f)')
    BY <1>2, <2>1, <2>3
  <2> QED
    BY <2>2, <2>4, ValidNext
<1>5. Distinct(u)'
  <2>1. ASSUME NEW n \in Nat, NEW s \in Nat PROVE Once(u, n, s)' /\ ~(OnQueue(u, n, s)' /\ IsHeld(u, n, s)')
    <3>1. Once(u, n, s) /\ ~(OnQueue(u, n, s) /\ IsHeld(u, n, s))
      BY <1>1 DEF Traffic, Distinct
    <3>2. Once(u, n, s)'
      BY <1>1, <1>2, <3>1, RemovedOnce
    <3> QED
      BY <1>1, <1>3, <3>1, <3>2
  <2> QED
    BY <2>1 DEF Distinct
<1>6. Order(u)' /\ Alone(u)'
  <2>1. ASSUME NEW m \in Nat, NEW r \in Nat, Consumed(u, m, r)'
        PROVE  Consumed(u, m, r) \/ (m = h.number /\ r = h.seg)
    BY <1>1, <1>3, <2>1 DEF Consumed
  <2>2. ASSUME NEW n \in Nat, NEW s \in Nat, NEW m \in Nat, NEW r \in Nat,
               Behind(u, n, s, m, r)'
        PROVE  Behind(u, n, s, m, r)
    <3>1. /\ InLine(u, n, s, m, r)' => InLine(u, n, s, m, r)
          /\ InQueue(1, u, m, r) /\ OnQueue(u, n, s)' => InLine(u, n, s, m, r)
          /\ InQueue(1, u, m, r) => OnQueue(u, m, r)
      BY <1>1, <1>2, RemovedLine DEF OnQueue, InQueue
    <3> QED
      BY <1>1, <1>3, <2>1, <2>2, <3>1 DEF Behind, Coming
  <2> QED
    BY <1>1, <2>2, OrderStays DEF Traffic
<1>7. HeldOrder(u)'
  BY <1>1, <1>2, HeldOrderStays
<1> QED
  BY <1>4, <1>5, <1>6, <1>7 DEF Traffic

\* A frame that has not come when the head of the queue does comes behind it.
LEMMA HeadFirst ==
  ASSUME NEW u \in Units, UnitInv(u), QueueType, NEW h, Polled(u, h),
         NEW n \in Nat, NEW s \in Nat, Coming(u, n, s), ~(n = h.number /\ s = h.seg)
  PROVE  Behind(u, n, s, h.number, h.seg)
<1>1. queue \in Seq(AllFrames) /\ InQueue(1, u, h.number, h.seg) /\ Coming(u, n, s)'
  BY PolledIs
<1>2. queue # <<>> /\ queue' = Tail(queue) /\ held' = held
  BY DEF Polled
<1>3. InQueue(1, u, h.number, h.seg) /\ OnQueue(u, n, s)' => InLine(u, n, s, h.number, h.seg)
  BY <1>1, <1>2, RemovedLine
<1>4. OnQueue(u, h.number, h.seg)
  BY <1>1 DEF OnQueue, InQueue
<1> QED
  BY <1>1, <1>2, <1>3, <1>4 DEF Behind, Coming, IsHeld

LEMMA TakenFirst ==
  ASSUME NEW u, Books(u), NEW m \in Nat \ {0}, Taken(u, m)
  PROVE  Gone(u, m, 0) /\ Consumed(u, m, 0)
  BY DEF Books, TakenInv, Consumed

\* The entry before the frame: what EntryOf says, and some segment is missing.
HasOne(u, n, len, got) ==
  rxTable[u] # NoEntry /\ n = rxTable[u].number /\ len = rxTable[u].len /\ got = rxTable[u].got

LEMMA MissingComes ==
  ASSUME NEW u \in Units, UnitInv(u), NEW n, NEW len, NEW got, HasOne(u, n, len, got),
         n \notin Faulty(u)
  PROVE  \E k \in 1..Segments(len) :
           k \in Nat /\ k <= Pieces(u, n) /\ (Past(u, n, k) => Coming(u, n, k))
<1>1. EntryOf(u, n, len, got)
  BY DEF UnitInv, Books, Entry, EntryOf, HasOne
<1>2. PICK k \in 1..Segments(len) : got[k] = 0
  BY <1>1 DEF EntryOf
<1>3. /\ n \in 1..Begun(u) /\ len = sent[u][n] /\ Filled(u, n, len, got)
      /\ UnitType(u) /\ Straight(u)
  BY <1>1 DEF EntryOf, UnitInv
<1>4. /\ Begun(u) \in Nat /\ n \in n..Begun(u) /\ Segments(len) \in 1..36
      /\ Pieces(u, n) = Segments(len)
  BY <1>3, SentIn, StraightIs
<1>5. ~Gone(u, n, k)
  BY <1>2, <1>3, <1>4 DEF Filled
<1> QED
  BY <1>3, <1>4, <1>5 DEF Gone

\* A segment of another broadcast reaches an entry whose own met no fault.
LEMMA Foreign ==
  ASSUME NEW u \in Units, UnitInv(u), QueueType, NEW h, Polled(u, h),
         NEW n, NEW len, NEW got, HasOne(u, n, len, got), n \notin Faulty(u),
         h.number # n, h.seg # 0
  PROVE  n + 1 \in Faulty(u) /\ Gone(u, n + 1, 0)
<1>1. /\ UnitType(u) /\ Traffic(u) /\ Books(u) /\ Begun(u) \in Nat
      /\ h.number \in 1..Begun(u) /\ h.number \in Nat /\ h.seg \in Nat
      /\ Past(u, h.number, h.seg) /\ Coming(u, h.number, h.seg)
  BY PolledIs
<1>2. n \in 1..Begun(u) /\ n \in Nat \ {0} /\ HasEntry(u, n)
  BY <1>1 DEF Books, Entry, EntryOf, HasOne, HasEntry
<1>3. Consumed(u, n, 0)
  BY <1>1, <1>2, TakenFirst DEF Taken
<1>4. ~(h.number < n)
  <2> SUFFICES ASSUME h.number < n PROVE FALSE
    OBVIOUS
  <2>1. Earlier(h.number, h.seg, n, 0) /\ Behind(u, h.number, h.seg, n, 0)
    BY <1>1, <1>3 DEF Earlier, Behind
  <2>2. Overtaken(u, h.number, h.seg, n)
    BY <1>1, <1>2, <2>1 DEF Traffic, Order
  <2>3. n \in h.number + 1 .. n
    BY <1>1, <1>2
  <2> QED
    BY <2>2, <2>3 DEF Overtaken
<1>5. n < h.number
  BY <1>1, <1>2, <1>4
<1>6. PICK k \in 1..Segments(len) :
        k \in Nat /\ k <= Pieces(u, n) /\ (Past(u, n, k) => Coming(u, n, k))
  BY MissingComes
<1>7. Pieces(u, n) \in 0..36 /\ k >= 1 /\ k \in 0..Pieces(u, n)
  <2>1. Pieces(u, n) \in 0..36
    BY <1>1, <1>2, SentIn
  <2>2. len = sent[u][n]
    BY <1>1 DEF Books, Entry, EntryOf, HasOne
  <2> QED
    BY <1>6, <2>1, <2>2
<1>8. Past(u, n, k)
  BY <1>1, <1>2, <1>5, <1>7 DEF Past
<1>9. Earlier(n, k, h.number, h.seg) /\ Behind(u, n, k, h.number, h.seg)
  BY <1>2, <1>5, <1>6, <1>8, HeadFirst DEF Earlier
<1>10. Overtaken(u, n, k, h.number)
  BY <1>1, <1>2, <1>6, <1>9 DEF Traffic, Order
<1>11. n + 1 \in Faulty(u)
  BY <1>1, <1>2, <1>5, <1>10 DEF Overtaken
<1>12. Past(u, n + 1, 0) /\ Earlier(n + 1, 0, h.number, h.seg)
  <2>1. n + 1 \in 1..h.number /\ Earlier(n + 1, 0, h.number, h.seg) /\ n + 1 \in 1..Begun(u)
    BY <1>1, <1>2, <1>5 DEF Earlier
  <2>2. 0 \in 0..Pieces(u, n + 1)
    BY <1>1, <2>1, SentIn
  <2> QED
    BY <1>1, <2>1, <2>2, PastUntil
<1>13. ~Coming(u, n + 1, 0)
  <2> SUFFICES ASSUME Coming(u, n + 1, 0) PROVE FALSE
    OBVIOUS
  <2>1. n + 1 \in Nat /\ 0 \in Nat
    BY <1>2
  <2>2. Behind(u, n + 1, 0, h.number, h.seg)
    BY <2>1, HeadFirst
  <2>3. n = n + 1
    BY <1>1, <1>2, <1>6, <1>9, <1>12, <2>1, <2>2, Zenon DEF Traffic, Alone
  <2> QED
    BY <1>2, <2>3
<1> QED
  BY <1>11, <1>12, <1>13 DEF Gone

\* Where the frame is put into the entry, or leaves it as it is; one of an
\* undisturbed broadcast of the same length is put there.
Puts(u, h, len, got, gotn) ==
  /\ \A s \in 1..Segments(len) :
       gotn[s] = got[s] \/ (h.seg # 0 /\ s = h.seg /\ gotn[s] = h.number)
  /\ h.number \notin Faulty(u) /\ sent[u][h.number] = len /\ h.seg # 0
       => gotn[h.seg] = h.number

LEMMA EntryNext ==
  ASSUME NEW u \in Units, UnitInv(u), QueueType, NEW h, Polled(u, h),
         NEW n, NEW len, NEW got, HasOne(u, n, len, got), NEW gotn, Puts(u, h, len, got, gotn)
  PROVE  /\ \A m \in n..Begun(u) : \A s \in 1..Segments(len) :
              m \notin Faulty(u) /\ sent[u][m] = len /\ Gone(u, m, s)' => gotn[s] # 0
         /\ n \notin Faulty(u) =>
              /\ n + 1 \notin Mixed(u)
              /\ \A s \in 1..Segments(len) :
                   gotn[s] \in {0, n} \/ (n + 1 \in Faulty(u) /\ Gone(u, n + 1, 0)')
         /\ \/ last[u] < n \/ n \in torn[u]
            \/ \E s \in 1..Segments(len) : gotn[s] # n /\ Gone(u, n, s) /\ Gone(u, n, s)'
<1>1. /\ UnitType(u) /\ Books(u) /\ Begun(u) \in Nat
      /\ h.number \in 1..Begun(u) /\ h.number \in Nat /\ h.seg \in Nat
      /\ Coming(u, h.number, h.seg)
      /\ \A k, s \in Nat : Gone(u, k, s)' <=> Gone(u, k, s) \/ (k = h.number /\ s = h.seg)
  BY PolledIs
<1>2. /\ n \in 1..Begun(u) /\ len = sent[u][n]
      /\ Filled(u, n, len, got) /\ Pure(u, n, len, got) /\ Newer(u, n, len, got)
  BY <1>1 DEF Books, Entry, EntryOf, HasOne
<1>3. n \in Nat /\ n + 1 \in Nat /\ Segments(len) \in 1..36
  BY <1>1, <1>2, SentIn
<1>4. ASSUME NEW m \in n..Begun(u), NEW s \in 1..Segments(len),
             m \notin Faulty(u), sent[u][m] = len, Gone(u, m, s)'
      PROVE  gotn[s] # 0
  <2>1. m \in Nat /\ s \in Nat /\ s # 0
    BY <1>3
  <2>2. CASE Gone(u, m, s)
    <3>1. got[s] # 0
      BY <1>2, <1>4, <2>2 DEF Filled
    <3> QED
      BY <1>1, <3>1 DEF Puts
  <2>3. CASE m = h.number /\ s = h.seg
    BY <1>1, <1>4, <2>1, <2>3 DEF Puts
  <2> QED
    BY <1>1, <1>4, <2>1, <2>2, <2>3
<1>5. ASSUME n \notin Faulty(u)
      PROVE  /\ n + 1 \notin Mixed(u)
             /\ \A s \in 1..Segments(len) :
                  gotn[s] \in {0, n} \/ (n + 1 \in Faulty(u) /\ Gone(u, n + 1, 0)')
  <2>1. n + 1 \notin Mixed(u)
    BY <1>2, <1>5 DEF Pure
  <2>2. ASSUME NEW s \in 1..Segments(len), gotn[s] \notin {0, n}
        PROVE  n + 1 \in Faulty(u) /\ Gone(u, n + 1, 0)
    <3>1. CASE gotn[s] = got[s]
      BY <1>2, <1>5, <2>2, <3>1 DEF Pure
    <3>2. CASE h.seg # 0 /\ gotn[s] = h.number
      BY <1>5, <2>2, <3>2, Foreign
    <3> QED
      BY <3>1, <3>2 DEF Puts
  <2>3. Gone(u, n + 1, 0) => Gone(u, n + 1, 0)'
    BY <1>1, <1>3
  <2> QED
    BY <2>1, <2>2, <2>3
<1>6. \/ last[u] < n \/ n \in torn[u]
      \/ \E s \in 1..Segments(len) : gotn[s] # n /\ Gone(u, n, s) /\ Gone(u, n, s)'
  <2>1. ASSUME NEW s \in 1..Segments(len), got[s] # n, Gone(u, n, s)
        PROVE  gotn[s] # n /\ Gone(u, n, s)'
    <3>1. s \in Nat
      BY <1>3
    <3>2. Gone(u, n, s)'
      BY <1>1, <1>3, <2>1, <3>1
    <3>3. ~(n = h.number /\ s = h.seg)
      BY <1>1, <2>1 DEF Gone
    <3> QED
      BY <2>1, <3>2, <3>3 DEF Puts
  <2> QED
    BY <1>2, <2>1 DEF Newer
<1> QED
  BY <1>4, <1>5, <1>6

\* What a first frame finds that becomes an entry.
LEMMA EntryNew ==
  ASSUME NEW u \in Units, UnitInv(u), QueueType, NEW h, Polled(u, h),
         rxTable[u] = NoEntry, h.seg = 0
  PROVE  /\ \A m \in h.number..Begun(u) : \A s \in 1..Segments(h.len) :
              m \notin Faulty(u) => ~Gone(u, m, s)'
         /\ h.number \notin Faulty(u) => h.number + 1 \notin Mixed(u)
         /\ last[u] < h.number \/ h.number \in torn[u] \/ Gone(u, h.number, 1)'
         /\ h.number # last[u] /\ h.number \notin Mixed(u)
         /\ \A n \in Mixed(u) : n \notin Faulty(u) => n + 1 # h.number
<1>1. /\ UnitType(u) /\ Traffic(u) /\ Books(u) /\ Begun(u) \in Nat
      /\ h.number \in 1..Begun(u) /\ h.number \in Nat /\ Straight(u)
      /\ h.len = sent[u][h.number] /\ Coming(u, h.number, 0)
      /\ \A k, s \in Nat : Gone(u, k, s)' <=> Gone(u, k, s) \/ (k = h.number /\ s = 0)
  BY PolledIs DEF LenOf
<1>2. h.number \in Nat \ {0} /\ Segments(h.len) \in 1..36 /\ ~Gone(u, h.number, 0)
  BY <1>1, SentIn DEF Gone
<1>3. ~Taken(u, h.number)
  BY <1>1, <1>2, TakenFirst
<1>4. h.number # last[u] /\ h.number \notin Mixed(u)
  BY <1>3 DEF Taken
\* Nothing later has come for sure, unless h.number met a fault, or is over.
<1>5. ASSUME NEW m \in Nat, NEW s \in Nat, Earlier(h.number, 0, m, s), Consumed(u, m, s)
      PROVE  Behind(u, h.number, 0, m, s) /\ Overtaken(u, h.number, 0, m)
  <2>1. Behind(u, h.number, 0, m, s)
    BY <1>1, <1>5 DEF Behind
  <2> QED
    BY <1>1, <1>5, <2>1 DEF Traffic, Order
<1>6. ASSUME NEW m \in h.number..Begun(u), NEW s \in 1..Segments(h.len),
             m \notin Faulty(u), Gone(u, m, s)'
      PROVE  FALSE
  <2>1. m \in Nat /\ s \in Nat /\ s # 0 /\ Earlier(h.number, 0, m, s) /\ h.number <= m
    BY <1>1, <1>2 DEF Earlier
  <2>2. Consumed(u, m, s)
    BY <1>1, <1>6, <2>1 DEF Consumed
  <2>3. Overtaken(u, h.number, 0, m)
    BY <1>5, <2>1, <2>2
  <2>4. m \in h.number + 1 .. m \/ m = h.number
    BY <1>1, <2>1
  <2> QED
    BY <1>6, <2>1, <2>3, <2>4 DEF Overtaken
<1>7. ASSUME h.number \notin Faulty(u), h.number + 1 \in Mixed(u) PROVE FALSE
  <2>1. h.number + 1 \in Nat \ {0} /\ h.number + 1 \in Nat /\ Earlier(h.number, 0, h.number + 1, 0)
    BY <1>1 DEF Earlier
  <2>2. Consumed(u, h.number + 1, 0)
    BY <1>1, <1>7, <2>1, TakenFirst DEF Taken
  <2>3. Overtaken(u, h.number, 0, h.number + 1)
    BY <1>5, <2>1, <2>2
  <2>4. Pieces(u, h.number) \in 1..36
    BY <1>1, <1>7, StraightIs
  <2> QED
    BY <1>1, <1>2, <1>7, <2>3, <2>4 DEF Overtaken
<1>8. ASSUME ~(last[u] < h.number), h.number \notin torn[u] PROVE Gone(u, h.number, 1)'
  <2>1. last[u] \in Nat \ {0} /\ h.number < last[u] /\ last[u] <= Begun(u)
    <3>1. last[u] \in 0..Begun(u)
      BY <1>1 DEF UnitType, Begun
    <3> QED
      BY <1>1, <1>4, <1>8, <3>1
  <2>2. Consumed(u, last[u], 0)
    BY <1>1, <2>1, TakenFirst DEF Taken
  <2>3. Past(u, h.number, 1)
    <3>1. cut[u][h.number] = <<h.len, h.len>>
      BY <1>1, <1>8 DEF Straight
    <3>2. 1 \in 0..Pieces(u, h.number)
      BY <1>2, <3>1 DEF Pieces, Segments
    <3> QED
      BY <1>1, <2>1, <3>2 DEF Past
  <2>4. ~Coming(u, h.number, 1)
    <3> SUFFICES ASSUME Coming(u, h.number, 1) PROVE FALSE
      OBVIOUS
    <3>1. /\ Earlier(h.number, 0, last[u], 0) /\ Earlier(h.number, 1, last[u], 0)
          /\ Behind(u, h.number, 0, last[u], 0) /\ Behind(u, h.number, 1, last[u], 0)
      BY <1>1, <2>1, <2>2 DEF Earlier, Behind
    <3>2. last[u] \in Nat /\ 1 \in Nat /\ 0 \in Nat
      BY <2>1
    <3>3. 0 = 1
      BY <1>1, <3>1, <3>2, Zenon DEF Traffic, Alone
    <3> QED
      BY <3>3
  <2> QED
    BY <1>1, <2>3, <2>4 DEF Gone
<1>9. ASSUME NEW n \in Mixed(u), n \notin Faulty(u) PROVE n + 1 # h.number
  BY <1>1, <1>2, <1>9 DEF Books, Blamed
<1> QED
  BY <1>4, <1>6, <1>7, <1>8, <1>9

\* EntryNext in the terms of EntryOf, when nothing is delivered.
LEMMA EntryOfNext ==
  ASSUME NEW u \in Units, UnitInv(u), QueueType, NEW h, Polled(u, h),
         NEW n, NEW len, NEW got, HasOne(u, n, len, got), NEW gotn, Puts(u, h, len, got, gotn),
         last'[u] = last[u], mixed'[u] = mixed[u], \E s \in 1..Segments(len) : gotn[s] = 0
  PROVE  EntryOf(u, n, len, gotn)'
<1>1. sent' = sent /\ cut' = cut /\ torn' = torn /\ Begun(u)' = Begun(u) /\ Faulty(u)' = Faulty(u) /\ Mixed(u)' = Mixed(u)
  BY DEF Polled, Begun, Faulty, Mixed
<1>2. n \in 1..Begun(u) /\ len = sent[u][n]
  BY DEF UnitInv, Books, Entry, EntryOf, HasOne
<1>3. Filled(u, n, len, gotn)'
  BY <1>1, EntryNext DEF Filled
<1>4. Pure(u, n, len, gotn)'
  BY <1>1, EntryNext DEF Pure
<1>5. Newer(u, n, len, gotn)'
  BY <1>1, EntryNext DEF Newer
<1> QED
  BY <1>1, <1>2, <1>3, <1>4, <1>5 DEF EntryOf

-----------------------------------------------------------------------------
(* rxTable. *)

LEMMA EntryFields ==
  ASSUME NEW u \in Units, NEW e \in Entries(u)
  PROVE  /\ e.number \in 1..MaxSent[u] /\ e.len \in Lengths
         /\ e.got \in [1..Segments(e.len) -> 0..MaxSent[u]]
         /\ e = [number |-> e.number, len |-> e.len, got |-> e.got]
<1>1. PICK l \in Lengths :
        e \in [number : 1..MaxSent[u], len : {l}, got : [1..Segments(l) -> 0..MaxSent[u]]]
  BY DEF Entries
<1>2. e.len = l
  BY <1>1
<1> QED
  BY <1>1, <1>2

LEMMA EntryMade ==
  ASSUME NEW u \in Units, NEW n \in 1..MaxSent[u], NEW l \in Lengths,
         NEW g \in [1..Segments(l) -> 0..MaxSent[u]]
  PROVE  [number |-> n, len |-> l, got |-> g] \in Entries(u)
<1>1. [number |-> n, len |-> l, got |-> g]
        \in [number : 1..MaxSent[u], len : {l}, got : [1..Segments(l) -> 0..MaxSent[u]]]
  OBVIOUS
<1> QED
  BY <1>1 DEF Entries

LEMMA SetIs ==
  ASSUME NEW u \in Units, NEW e \in Entries(u), NEW f, f.number \in 1..MaxSent[u],
         f.number \notin Faulty(u) /\ sent[u][f.number] = e.len /\ f.seg # 0 =>
           f.seg \in 1..Segments(e.len) /\ Fits(e, f)
  PROVE  /\ SetSegment(e, f) \in Entries(u)
         /\ SetSegment(e, f).number = e.number /\ SetSegment(e, f).len = e.len
         /\ f.seg # 0 => Puts(u, f, e.len, e.got, SetSegment(e, f).got)
<1>1. /\ e.number \in 1..MaxSent[u] /\ e.len \in Lengths
      /\ e.got \in [1..Segments(e.len) -> 0..MaxSent[u]]
      /\ e = [number |-> e.number, len |-> e.len, got |-> e.got]
  BY EntryFields
<1>2. MaxSent[u] \in Nat /\ f.number \in 0..MaxSent[u]
  BY CanTransportAssumption
<1>3. CASE Fits(e, f)
  <2>1. SetSegment(e, f) = [e EXCEPT !.got[f.seg] = f.number]
    BY <1>3 DEF SetSegment
  <2> DEFINE g == [e.got EXCEPT ![f.seg] = f.number]
  <2>2. SetSegment(e, f) = [number |-> e.number, len |-> e.len, got |-> g]
    BY <1>1, <2>1
  <2>3. g \in [1..Segments(e.len) -> 0..MaxSent[u]]
    BY <1>1, <1>2
  <2>4. f.seg # 0 => Puts(u, f, e.len, e.got, g)
    BY <1>1, <1>2 DEF Puts
  <2> HIDE DEF g
  <2>5. [number |-> e.number, len |-> e.len, got |-> g] \in Entries(u)
    BY <1>1, <2>3, EntryMade
  <2> QED
    BY <2>2, <2>4, <2>5
<1>4. CASE ~Fits(e, f)
  <2>1. SetSegment(e, f) = e
    BY <1>4 DEF SetSegment
  <2> QED
    BY <1>4, <2>1 DEF Puts
<1> QED
  BY <1>3, <1>4

LEMMA NewIs ==
  ASSUME NEW u \in Units, NEW f, f.number \in 1..MaxSent[u], f.len \in Lengths
  PROVE  /\ NewEntry(f) \in Entries(u)
         /\ NewEntry(f).number = f.number /\ NewEntry(f).len = f.len
         /\ \A s \in 1..Segments(f.len) : NewEntry(f).got[s] = 0
<1>1. MaxSent[u] \in Nat
  BY CanTransportAssumption
<1> DEFINE g == [k \in 1..Segments(f.len) |-> 0]
<1>2. NewEntry(f) = [number |-> f.number, len |-> f.len, got |-> g]
  BY DEF NewEntry
<1>3. g \in [1..Segments(f.len) -> 0..MaxSent[u]] /\ \A s \in 1..Segments(f.len) : g[s] = 0
  BY <1>1
<1> HIDE DEF g
<1>4. [number |-> f.number, len |-> f.len, got |-> g] \in Entries(u)
  BY <1>3, EntryMade
<1> QED
  BY <1>2, <1>3, <1>4

\* The cases of Poll, for the unit of the frame.
Enters(u, h) ==
  /\ h.seg = 0 /\ rxTable[u] = NoEntry
  /\ rxTable' = [rxTable EXCEPT ![u] = NewEntry(h)] /\ UNCHANGED <<last, mixed>>
Drops(u, h) ==
  /\ h.seg = 0 <=> rxTable[u] # NoEntry
  /\ UNCHANGED <<rxTable, last, mixed>>
Joins(u, h) ==
  LET e == SetSegment(rxTable[u], h)
  IN  /\ h.seg > 0 /\ rxTable[u] # NoEntry /\ ~IsComplete(e)
      /\ rxTable' = [rxTable EXCEPT ![u] = e] /\ UNCHANGED <<last, mixed>>
Delivers(u, h) ==
  LET e == SetSegment(rxTable[u], h)
  IN  /\ h.seg > 0 /\ rxTable[u] # NoEntry /\ IsComplete(e) /\ IsWhole(u, e)
      /\ rxTable' = [rxTable EXCEPT ![u] = NoEntry]
      /\ last' = [last EXCEPT ![u] = e.number] /\ UNCHANGED mixed
Garbles(u, h) ==
  LET e == SetSegment(rxTable[u], h)
  IN  /\ h.seg > 0 /\ rxTable[u] # NoEntry /\ IsComplete(e) /\ ~IsWhole(u, e)
      /\ rxTable' = [rxTable EXCEPT ![u] = NoEntry]
      /\ mixed' = [mixed EXCEPT ![u] = Append(@, e.number)] /\ UNCHANGED last

LEMMA PollCases ==
  ASSUME IInv, Poll
  PROVE  \E u \in Units : \E h :
           /\ Polled(u, h) /\ \A v \in Units : v # u => QueueMoves(v)
           /\ Enters(u, h) \/ Drops(u, h) \/ Joins(u, h) \/ Delivers(u, h) \/ Garbles(u, h)
<1>1. /\ queue # <<>> /\ queue' = Tail(queue)
      /\ ReceiveFirst(Head(queue)) \/ ReceiveSegment(Head(queue))
      /\ UNCHANGED <<sent, cut, torn, next, held, faulty>>
  BY DEF Poll, unitVars
<1>2. PICK h : h = Head(queue)
  OBVIOUS
<1>3. h \in AllFrames
  BY <1>1, <1>2 DEF IInv, QueueType
<1>4. PICK u \in Units : h \in Frames(u)
  BY <1>3 DEF AllFrames
<1>5. h.unit = u /\ h.seg \in 0..36
  BY <1>4 DEF Frames
<1>6. Polled(u, h) /\ \A v \in Units : v # u => QueueMoves(v)
  BY <1>1, <1>2, <1>5 DEF Polled, QueueMoves
<1>7. ASSUME ReceiveFirst(h) PROVE Enters(u, h) \/ Drops(u, h)
  BY <1>5, <1>7 DEF ReceiveFirst, Enters, Drops
<1>8. ASSUME ReceiveSegment(h) PROVE Drops(u, h) \/ Joins(u, h) \/ Delivers(u, h) \/ Garbles(u, h)
  <2>1. ASSUME rxTable[u] = NoEntry PROVE Drops(u, h)
    BY <1>5, <1>8, <2>1 DEF ReceiveSegment, Drops, rxVars
  <2>2. ASSUME rxTable[u] # NoEntry PROVE Joins(u, h) \/ Delivers(u, h) \/ Garbles(u, h)
    <3> DEFINE e == SetSegment(rxTable[u], h)
    <3>1. CASE ~IsComplete(e)
      BY <1>5, <1>8, <2>2, <3>1 DEF ReceiveSegment, Joins
    <3>2. CASE IsComplete(e) /\ IsWhole(u, e)
      BY <1>5, <1>8, <2>2, <3>2 DEF ReceiveSegment, Delivers
    <3>3. CASE IsComplete(e) /\ ~IsWhole(u, e)
      BY <1>5, <1>8, <2>2, <3>3 DEF ReceiveSegment, Garbles
    <3> QED
      BY <3>1, <3>2, <3>3
  <2> QED
    BY <2>1, <2>2
<1>9. ReceiveFirst(h) \/ ReceiveSegment(h)
  BY <1>1, <1>2
<1> QED
  BY <1>6, <1>7, <1>8, <1>9

-----------------------------------------------------------------------------
(* Poll. *)

LEMMA PolledTypes ==
  ASSUME NEW u \in Units, UnitInv(u), Maps, NEW h, Polled(u, h),
         rxTable'[u] \in (Entries(u) \cup {NoEntry}), last'[u] \in 0..Begun(u),
         mixed'[u] \in Seq(1..Begun(u))
  PROVE  UnitType(u)' /\ Straight(u)'
<1>1. /\ sent' = sent /\ cut' = cut /\ torn' = torn /\ next' = next /\ held' = held /\ faulty' = faulty
      /\ LastSegment(u)' = LastSegment(u)
  BY DEF Polled, LastSegment
<1>2. UnitType(u) /\ Straight(u)
  BY DEF UnitInv
<1>3. Straight(u)'
  BY <1>1, <1>2, StraightStays DEF Faulty
<1> QED
  BY <1>1, <1>2, <1>3 DEF UnitType, Begun, Frames, Entries

LEMMA ElementIn ==
  ASSUME NEW S, NEW q \in Seq(S), NEW i \in 1..Len(q)
  PROVE  q[i] \in S
  OBVIOUS

LEMMA MixedIn ==
  ASSUME NEW u \in Units, UnitType(u), NEW n \in Mixed(u)
  PROVE  n \in 1..Begun(u) /\ n \in Nat /\ n + 1 \in Nat
<1>1. mixed[u] \in Seq(1..Begun(u))
  BY DEF UnitType, Begun
<1>2. n \in 1..Begun(u)
  <2>1. PICK i \in 1..Len(mixed[u]) : n = mixed[u][i]
    BY DEF Mixed
  <2> QED
    BY <1>1, <2>1, ElementIn
<1>3. Begun(u) \in Nat
  BY SentIn
<1> QED
  BY <1>2, <1>3

LEMMA EntersKeeps ==
  ASSUME NEW u \in Units, UnitInv(u), Maps, QueueType, NEW h, Polled(u, h), Enters(u, h)
  PROVE  UnitInv(u)' /\ Maps' /\ \A v \in Units : v # u => Unmoved(v)
<1>1. /\ UnitType(u) /\ Books(u) /\ Begun(u) \in Nat
      /\ h.number \in 1..Begun(u) /\ h.number \in Nat /\ h.seg \in Nat
      /\ h.len = sent[u][h.number] /\ h.len \in Lengths
      /\ \A n, s \in Nat : Gone(u, n, s)' <=> Gone(u, n, s) \/ (n = h.number /\ s = h.seg)
  BY PolledIs DEF Enters, LenOf
<1>2. /\ h.seg = 0 /\ rxTable[u] = NoEntry /\ last' = last /\ mixed' = mixed
      /\ rxTable' = [rxTable EXCEPT ![u] = NewEntry(h)]
  BY DEF Enters
<1>3. sent' = sent /\ cut' = cut /\ torn' = torn /\ next' = next /\ held' = held /\ faulty' = faulty
  BY DEF Polled
<1>4. Begun(u)' = Begun(u) /\ Faulty(u)' = Faulty(u) /\ Mixed(u)' = Mixed(u)
  BY <1>2, <1>3 DEF Begun, Faulty, Mixed
<1>5. /\ rxTable'[u] = NewEntry(h)
      /\ DOMAIN rxTable' = Units /\ \A v \in Units : v # u => rxTable'[v] = rxTable[v]
  BY <1>2 DEF Maps
<1>6. Maps' /\ \A v \in Units : v # u => Unmoved(v)
  BY <1>2, <1>3, <1>5 DEF Maps, Unmoved
<1>7. h.number \in 1..MaxSent[u] /\ Segments(h.len) \in 1..36
  <2>1. Begun(u) <= MaxSent[u] /\ MaxSent[u] \in Nat
    BY <1>1, CanTransportAssumption DEF UnitType, Begun
  <2>2. h.number \in 1..MaxSent[u]
    BY <1>1, <2>1
  <2>3. Segments(h.len) \in 1..36
    BY <1>1, SegmentsIn
  <2> QED
    BY <2>2, <2>3
<1>8. /\ NewEntry(h) \in Entries(u) /\ NewEntry(h) # NoEntry
      /\ NewEntry(h).number = h.number /\ NewEntry(h).len = h.len
      /\ \A s \in 1..Segments(h.len) : NewEntry(h).got[s] = 0
  BY <1>1, <1>7, NewIs, NoneAssumption
<1>9. UnitType(u)' /\ Straight(u)'
  <2>1. last'[u] \in 0..Begun(u) /\ mixed'[u] \in Seq(1..Begun(u))
    BY <1>1, <1>2 DEF UnitType, Begun
  <2>2. rxTable'[u] \in (Entries(u) \cup {NoEntry})
    BY <1>5, <1>8
  <2> QED
    BY <2>1, <2>2, PolledTypes
<1>10. /\ \A n : HasEntry(u, n)' <=> n = h.number
       /\ \A n : ~HasEntry(u, n)
       /\ \A n : Taken(u, n)' <=> Taken(u, n) \/ n = h.number
  BY <1>2, <1>4, <1>5, <1>8 DEF HasEntry, Taken
<1>11. Traffic(u)'
  BY <1>2, <1>10, PollTraffic
<1>12. /\ \A m \in h.number..Begun(u) : \A s \in 1..Segments(h.len) :
            m \notin Faulty(u) => ~Gone(u, m, s)'
       /\ h.number \notin Faulty(u) => h.number + 1 \notin Mixed(u)
       /\ last[u] < h.number \/ h.number \in torn[u] \/ Gone(u, h.number, 1)'
       /\ h.number # last[u] /\ h.number \notin Mixed(u)
       /\ \A n \in Mixed(u) : n \notin Faulty(u) => n + 1 # h.number
  BY <1>2, EntryNew
<1>13. TakenInv(u)'
  <2>1. \A n \in Nat \ {0} : Taken(u, n)' => Gone(u, n, 0)'
    BY <1>1, <1>2, <1>10 DEF Books, TakenInv
  <2>2. \A i, j \in 1..Len(mixed'[u]) : mixed'[u][i] = mixed'[u][j] => i = j
    BY <1>1, <1>2 DEF Books, TakenInv
  <2> QED
    BY <1>2, <1>4, <1>10, <1>12, <2>1, <2>2 DEF TakenInv
<1>14. Entry(u)'
  <2>1. ASSUME NEW n, n = h.number, NEW len, len = h.len, NEW got, got = NewEntry(h).got
        PROVE  EntryOf(u, n, len, got)'
    <3>1. n \in 1..Begun(u)' /\ len = sent'[u][n] /\ \E s \in 1..Segments(len) : got[s] = 0
      BY <1>1, <1>3, <1>4, <1>7, <1>8, <2>1
    <3>2. Filled(u, n, len, got)'
      BY <1>3, <1>4, <1>12, <2>1 DEF Filled
    <3>3. Pure(u, n, len, got)'
      BY <1>4, <1>8, <1>12, <2>1 DEF Pure
    <3>4. Newer(u, n, len, got)'
      <4>1. 1 \in 1..Segments(len) /\ got[1] # n
        BY <1>1, <1>7, <1>8, <2>1
      <4> QED
        BY <1>2, <1>3, <1>12, <2>1, <4>1 DEF Newer
    <3> QED
      BY <3>1, <3>2, <3>3, <3>4 DEF EntryOf
  <2> QED
    BY <1>5, <1>8, <2>1 DEF Entry, EntryOf, Filled, Pure, Newer
<1>15. Blamed(u)'
  <2>1. ASSUME NEW n \in Mixed(u) \ Faulty(u) PROVE Gone(u, n + 1, 0) => Gone(u, n + 1, 0)'
    <3>1. n + 1 \in Nat
      BY <1>1, MixedIn
    <3> QED
      BY <1>1, <3>1
  <2> QED
    BY <1>1, <1>4, <1>10, <1>12, <2>1 DEF Books, Blamed
<1>16. Clean(u)'
  BY <1>1, <1>2, <1>3, <1>10 DEF Books, Clean
<1> QED
  BY <1>6, <1>9, <1>11, <1>13, <1>14, <1>15, <1>16 DEF UnitInv, Books

\* The entry after its segment came.
LEMMA PolledSets ==
  ASSUME NEW u \in Units, UnitInv(u), QueueType, NEW h, Polled(u, h), h.seg > 0,
         rxTable[u] # NoEntry, NEW e, e = SetSegment(rxTable[u], h)
  PROVE  /\ e \in Entries(u) /\ e # NoEntry /\ e.number = rxTable[u].number
         /\ e.len = rxTable[u].len /\ Puts(u, h, e.len, rxTable[u].got, e.got)
<1>1. /\ UnitType(u) /\ Straight(u) /\ Begun(u) \in Nat /\ h.number \in 1..Begun(u)
      /\ h.seg \in 0..Pieces(u, h.number) /\ h.seg \in Nat
      /\ h.len = LenOf(u, h.number, h.seg)
  BY PolledIs
<1>2. Begun(u) <= MaxSent[u] /\ MaxSent[u] \in Nat /\ rxTable[u] \in Entries(u)
  BY <1>1, CanTransportAssumption DEF UnitType, Begun
<1>3. h.number \in 1..MaxSent[u]
  BY <1>1, <1>2
<1>4. PICK r : r = rxTable[u]
  OBVIOUS
\* A segment of an undisturbed broadcast that is as long as the entry fits.
<1>5. ASSUME h.number \notin Faulty(u), sent[u][h.number] = r.len
      PROVE  h.seg \in 1..Segments(r.len) /\ Fits(r, h)
  <2>1. r.len \in Lengths
    BY <1>2, <1>4, EntryFields
  <2>2. /\ cut[u][h.number] = <<r.len, r.len>> /\ Pieces(u, h.number) = Segments(r.len)
        /\ Segments(r.len) \in 1..36
    BY <1>1, <1>5, StraightIs
  <2>3. h.seg \in 1..Segments(r.len)
    BY <1>1, <2>2
  <2>4. h.len = SizeOf(<<r.len, r.len>>, h.seg)
    BY <1>1, <2>2 DEF LenOf
  <2>5. 4 + 7 * (h.seg - 1) + SizeOf(<<r.len, r.len>>, h.seg) <= r.len
    BY <2>1, <2>3, OwnFits
  <2> QED
    BY <2>3, <2>4, <2>5 DEF Fits
<1>6. /\ e \in Entries(u) /\ e.number = r.number /\ e.len = r.len
      /\ Puts(u, h, r.len, r.got, e.got)
  BY <1>2, <1>3, <1>4, <1>5, SetIs
<1> QED
  BY <1>4, <1>6, NoneAssumption

LEMMA DropsKeeps ==
  ASSUME NEW u \in Units, UnitInv(u), Maps, QueueType, NEW h, Polled(u, h), Drops(u, h)
  PROVE  UnitInv(u)' /\ Maps' /\ \A v \in Units : v # u => Unmoved(v)
<1>1. /\ UnitType(u) /\ Traffic(u) /\ Books(u) /\ Begun(u) \in Nat
      /\ h.number \in 1..Begun(u) /\ h.number \in Nat /\ h.seg \in Nat
      /\ Past(u, h.number, h.seg) /\ Coming(u, h.number, h.seg)
      /\ \A n, s \in Nat : Gone(u, n, s)' <=> Gone(u, n, s) \/ (n = h.number /\ s = h.seg)
  BY PolledIs
<1>2. rxTable' = rxTable /\ last' = last /\ mixed' = mixed
  BY DEF Drops
<1>3. sent' = sent /\ cut' = cut /\ torn' = torn /\ next' = next /\ held' = held /\ faulty' = faulty
  BY DEF Polled
<1>4. Begun(u)' = Begun(u) /\ Faulty(u)' = Faulty(u) /\ Mixed(u)' = Mixed(u)
  BY <1>2, <1>3 DEF Begun, Faulty, Mixed
<1>5. Maps' /\ \A v \in Units : v # u => Unmoved(v)
  BY <1>2, <1>3 DEF Maps, Unmoved
<1>6. UnitType(u)' /\ Straight(u)'
  <2>1. /\ last'[u] \in 0..Begun(u) /\ mixed'[u] \in Seq(1..Begun(u))
        /\ rxTable'[u] \in (Entries(u) \cup {NoEntry})
    BY <1>1, <1>2 DEF UnitType, Begun
  <2> QED
    BY <2>1, PolledTypes
<1>7. /\ \A n : HasEntry(u, n)' <=> HasEntry(u, n)
      /\ \A n : Taken(u, n)' <=> Taken(u, n)
  BY <1>2, <1>4 DEF HasEntry, Taken
<1>8. Traffic(u)'
  BY <1>7, PollTraffic
<1>9. TakenInv(u)'
  BY <1>1, <1>2, <1>4, <1>7 DEF Books, TakenInv
<1>10. Entry(u)'
  <2>1. ASSUME NEW n, NEW len, NEW got, HasOne(u, n, len, got) PROVE EntryOf(u, n, len, got)'
    <3>1. h.seg = 0
      BY <2>1 DEF Drops, HasOne
    <3>2. Puts(u, h, len, got, got)
      BY <3>1 DEF Puts
    <3>3. \E s \in 1..Segments(len) : got[s] = 0
      BY <1>1, <2>1 DEF Books, Entry, EntryOf, HasOne
    <3> QED
      BY <1>2, <2>1, <3>2, <3>3, EntryOfNext
  <2> QED
    BY <1>2, <2>1 DEF Entry, EntryOf, Filled, Pure, Newer, HasOne
<1>11. Blamed(u)'
  <2>1. ASSUME NEW n \in Mixed(u) \ Faulty(u) PROVE Gone(u, n + 1, 0) => Gone(u, n + 1, 0)'
    <3>1. n + 1 \in Nat
      BY <1>1, MixedIn
    <3> QED
      BY <1>1, <3>1
  <2> QED
    BY <1>1, <1>4, <1>7, <2>1 DEF Books, Blamed
<1>12. ASSUME faulty[u] = <<>>, h.seg = 0 PROVE h.number <= last[u] \/ HasEntry(u, h.number)
  <2>1. Faulty(u) = {}
    BY <1>12 DEF Faulty
  <2>2. PICK n, len, got : HasOne(u, n, len, got)
    BY <1>12 DEF Drops, HasOne
  <2>3. n \in 1..Begun(u) /\ n \in Nat \ {0} /\ HasEntry(u, n) /\ len = sent[u][n]
    BY <1>1, <2>2 DEF Books, Entry, EntryOf, HasOne, HasEntry
  <2>4. ~(n < h.number)
    <3> SUFFICES ASSUME n < h.number PROVE FALSE
      OBVIOUS
    <3>1. PICK k \in 1..Segments(len) :
            k \in Nat /\ k <= Pieces(u, n) /\ (Past(u, n, k) => Coming(u, n, k))
      BY <2>1, <2>2, MissingComes
    <3>2. Pieces(u, n) \in 0..36 /\ k >= 1 /\ k \in 0..Pieces(u, n)
      <4>1. Pieces(u, n) \in 0..36
        BY <1>1, <2>3, SentIn
      <4> QED
        BY <2>3, <3>1, <4>1
    <3>3. Past(u, n, k)
      BY <1>1, <2>3, <3>2 DEF Past
    <3>4. Earlier(n, k, h.number, h.seg) /\ Behind(u, n, k, h.number, h.seg)
      BY <2>3, <3>1, <3>3, HeadFirst DEF Earlier
    <3>5. Overtaken(u, n, k, h.number)
      BY <1>1, <2>3, <3>1, <3>4 DEF Traffic, Order
    <3>6. h.number \in n + 1 .. h.number
      BY <1>1, <2>3
    <3> QED
      BY <2>1, <3>5, <3>6 DEF Overtaken
  <2>5. ~(h.number < n)
    <3> SUFFICES ASSUME h.number < n PROVE FALSE
      OBVIOUS
    <3>1. Consumed(u, n, 0)
      BY <1>1, <2>3, TakenFirst DEF Taken
    <3>2. Earlier(h.number, h.seg, n, 0) /\ Behind(u, h.number, h.seg, n, 0)
      BY <1>1, <3>1 DEF Earlier, Behind
    <3>3. Overtaken(u, h.number, h.seg, n)
      BY <1>1, <2>3, <3>2 DEF Traffic, Order
    <3>4. n \in h.number + 1 .. n
      BY <1>1, <2>3
    <3> QED
      BY <2>1, <3>3, <3>4 DEF Overtaken
  <2>6. n = h.number
    BY <1>1, <2>3, <2>4, <2>5
  <2> QED
    BY <2>3, <2>6
<1>13. Clean(u)'
  <2>1. ASSUME faulty[u] = <<>>, NEW n \in Nat, Gone(u, n, 0)'
        PROVE  n <= last[u] \/ HasEntry(u, n)
    <3>1. Gone(u, n, 0) \/ (n = h.number /\ h.seg = 0)
      BY <1>1, <2>1
    <3> QED
      BY <1>1, <1>12, <2>1, <3>1, Zenon DEF Books, Clean
  <2> QED
    BY <1>2, <1>3, <1>7, <2>1 DEF Clean
<1> QED
  BY <1>5, <1>6, <1>8, <1>9, <1>10, <1>11, <1>13 DEF UnitInv, Books

LEMMA JoinsKeeps ==
  ASSUME NEW u \in Units, UnitInv(u), Maps, QueueType, NEW h, Polled(u, h), Joins(u, h)
  PROVE  UnitInv(u)' /\ Maps' /\ \A v \in Units : v # u => Unmoved(v)
<1>1. /\ UnitType(u) /\ Books(u) /\ Begun(u) \in Nat
      /\ h.number \in 1..Begun(u) /\ h.number \in Nat /\ h.seg \in Nat
      /\ \A n, s \in Nat : Gone(u, n, s)' <=> Gone(u, n, s) \/ (n = h.number /\ s = h.seg)
  BY PolledIs
<1>2. PICK e : e = SetSegment(rxTable[u], h)
  OBVIOUS
<1>3. /\ h.seg > 0 /\ rxTable[u] # NoEntry /\ ~IsComplete(e) /\ last' = last /\ mixed' = mixed
      /\ rxTable' = [rxTable EXCEPT ![u] = e]
  BY <1>2 DEF Joins
<1>4. sent' = sent /\ cut' = cut /\ torn' = torn /\ next' = next /\ held' = held /\ faulty' = faulty
  BY DEF Polled
<1>5. Begun(u)' = Begun(u) /\ Faulty(u)' = Faulty(u) /\ Mixed(u)' = Mixed(u)
  BY <1>3, <1>4 DEF Begun, Faulty, Mixed
<1>6. /\ rxTable'[u] = e
      /\ DOMAIN rxTable' = Units /\ \A v \in Units : v # u => rxTable'[v] = rxTable[v]
  BY <1>3 DEF Maps
<1>7. Maps' /\ \A v \in Units : v # u => Unmoved(v)
  BY <1>3, <1>4, <1>6 DEF Maps, Unmoved
<1>8. /\ e \in Entries(u) /\ e # NoEntry /\ e.number = rxTable[u].number
      /\ e.len = rxTable[u].len /\ Puts(u, h, e.len, rxTable[u].got, e.got)
  BY <1>2, <1>3, PolledSets
<1>9. UnitType(u)' /\ Straight(u)'
  <2>1. last'[u] \in 0..Begun(u) /\ mixed'[u] \in Seq(1..Begun(u))
    BY <1>1, <1>3 DEF UnitType, Begun
  <2>2. rxTable'[u] \in (Entries(u) \cup {NoEntry})
    BY <1>6, <1>8
  <2> QED
    BY <2>1, <2>2, PolledTypes
<1>10. /\ \A n : HasEntry(u, n)' <=> HasEntry(u, n)
       /\ \A n : Taken(u, n)' <=> Taken(u, n)
  BY <1>3, <1>5, <1>6, <1>8 DEF HasEntry, Taken
<1>11. Traffic(u)'
  BY <1>10, PollTraffic
<1>12. TakenInv(u)'
  BY <1>1, <1>3, <1>5, <1>10 DEF Books, TakenInv
<1>13. Entry(u)'
  <2>1. ASSUME NEW n, n = e.number, NEW len, len = e.len, NEW got, got = e.got
        PROVE  EntryOf(u, n, len, got)'
    <3>1. PICK g : g = rxTable[u].got
      OBVIOUS
    <3>2. HasOne(u, n, len, g) /\ Puts(u, h, len, g, got)
      BY <1>3, <1>8, <2>1, <3>1 DEF HasOne
    <3>3. \E s \in 1..Segments(len) : got[s] = 0
      BY <1>3, <1>8, <2>1, EntryFields DEF IsComplete
    <3> QED
      BY <1>3, <3>2, <3>3, EntryOfNext
  <2> QED
    BY <1>6, <2>1 DEF Entry, EntryOf, Filled, Pure, Newer
<1>14. Blamed(u)'
  <2>1. ASSUME NEW n \in Mixed(u) \ Faulty(u) PROVE Gone(u, n + 1, 0) => Gone(u, n + 1, 0)'
    <3>1. n + 1 \in Nat
      BY <1>1, MixedIn
    <3> QED
      BY <1>1, <3>1
  <2> QED
    BY <1>1, <1>5, <1>10, <2>1 DEF Books, Blamed
<1>15. Clean(u)'
  BY <1>1, <1>3, <1>4, <1>10 DEF Books, Clean
<1> QED
  BY <1>7, <1>9, <1>11, <1>12, <1>13, <1>14, <1>15 DEF UnitInv, Books

\* The entry that the frame completes.
LEMMA CompletesWhich ==
  ASSUME NEW u \in Units, UnitInv(u), QueueType, NEW h, Polled(u, h), h.seg > 0,
         rxTable[u] # NoEntry, NEW e, e = SetSegment(rxTable[u], h), IsComplete(e),
         NEW n, n = e.number
  PROVE  /\ n \in 1..Begun(u) /\ n \in Nat \ {0} /\ HasEntry(u, n)
         /\ IsWhole(u, e) => last[u] < n /\ (faulty[u] = <<>> => n = last[u] + 1)
         /\ ~IsWhole(u, e) => n \notin Mixed(u)
         /\ ~IsWhole(u, e) /\ n \notin Faulty(u) =>
              n + 1 \in Faulty(u) /\ n + 1 \notin Mixed(u) /\ Gone(u, n + 1, 0)'
<1>1. UnitType(u) /\ Straight(u) /\ Traffic(u) /\ Books(u) /\ Begun(u) \in Nat
  BY PolledIs
<1>2. /\ e \in Entries(u) /\ e.number = rxTable[u].number
      /\ e.len = rxTable[u].len /\ Puts(u, h, e.len, rxTable[u].got, e.got)
  BY PolledSets
<1>3. PICK len, got, gotn : len = e.len /\ got = rxTable[u].got /\ gotn = e.got
  OBVIOUS
<1>4. HasOne(u, n, len, got) /\ Puts(u, h, len, got, gotn)
  BY <1>2, <1>3 DEF HasOne
<1>5. DOMAIN gotn = 1..Segments(len)
  BY <1>2, <1>3, EntryFields
<1>6. \A s \in 1..Segments(len) : gotn[s] # 0
  BY <1>3, <1>5 DEF IsComplete
<1>7. n \in 1..Begun(u) /\ n \in Nat \ {0} /\ HasEntry(u, n)
  <2>1. n \in 1..Begun(u) /\ HasEntry(u, n)
    BY <1>1, <1>4 DEF Books, Entry, EntryOf, HasOne, HasEntry
  <2> QED
    BY <1>1, <2>1
<1>8. ASSUME IsWhole(u, e) PROVE last[u] < n
  <2>1. n \notin torn[u] /\ \A s \in 1..Segments(len) : gotn[s] = n
    BY <1>3, <1>5, <1>8 DEF IsWhole
  <2> QED
    BY <1>4, <2>1, EntryNext
<1>9. ASSUME IsWhole(u, e), faulty[u] = <<>> PROVE n = last[u] + 1
  <2>1. Faulty(u) = {}
    BY <1>9 DEF Faulty
  <2>2. last[u] \in Nat /\ last[u] < n
    <3>1. last[u] \in 0..Begun(u)
      BY <1>1 DEF UnitType, Begun
    <3> QED
      BY <1>1, <1>8, <1>9, <3>1
  <2>3. PICK k : k = last[u] + 1
    OBVIOUS
  <2>4. k \in Nat /\ k \in 1..Begun(u) /\ k <= n
    BY <1>1, <1>7, <2>2, <2>3
  <2> SUFFICES ASSUME k # n PROVE FALSE
    BY <2>3
  <2>5. Earlier(k, 0, n, 0) /\ n \in k + 1 .. n
    BY <1>7, <2>4 DEF Earlier
  <2>6. Gone(u, n, 0) /\ Consumed(u, n, 0)
    BY <1>1, <1>7, TakenFirst DEF Taken
  <2>7. ~Coming(u, k, 0)
    <3> SUFFICES ASSUME Coming(u, k, 0) PROVE FALSE
      OBVIOUS
    <3>1. Behind(u, k, 0, n, 0)
      BY <2>6 DEF Behind
    <3>2. Overtaken(u, k, 0, n)
      BY <1>1, <1>7, <2>4, <2>5, <3>1 DEF Traffic, Order
    <3> QED
      BY <2>1, <2>5, <3>2 DEF Overtaken
  <2>8. Past(u, k, 0)
    <3>1. k \in 1..n /\ 0 \in 0..Pieces(u, k)
      BY <1>1, <1>7, <2>4, SentIn
    <3> QED
      BY <1>1, <2>5, <2>6, <3>1, PastUntil DEF Gone
  <2>9. k <= last[u] \/ HasEntry(u, k)
    BY <1>1, <1>9, <2>4, <2>7, <2>8 DEF Books, Clean, Gone
  <2> QED
    BY <1>7, <2>2, <2>3, <2>9 DEF HasEntry
<1>10. n \notin Mixed(u)
  BY <1>1, <1>7 DEF Books, TakenInv
<1>11. ASSUME ~IsWhole(u, e), n \notin Faulty(u)
       PROVE  n + 1 \in Faulty(u) /\ n + 1 \notin Mixed(u) /\ Gone(u, n + 1, 0)'
  <2>1. PICK s \in 1..Segments(len) : gotn[s] # n
    <3>1. n \notin torn[u]
      BY <1>1, <1>11 DEF Straight
    <3> QED
      BY <1>3, <1>5, <1>11, <3>1 DEF IsWhole
  <2>2. gotn[s] \notin {0, n}
    BY <1>6, <2>1
  <2> QED
    BY <1>4, <1>11, <2>2, EntryNext
<1> QED
  BY <1>7, <1>8, <1>9, <1>10, <1>11

LEMMA DeliversKeeps ==
  ASSUME NEW u \in Units, UnitInv(u), Maps, QueueType, NEW h, Polled(u, h), Delivers(u, h)
  PROVE  UnitInv(u)' /\ Maps' /\ \A v \in Units : v # u => Unmoved(v)
<1>1. /\ UnitType(u) /\ Books(u) /\ Begun(u) \in Nat
      /\ h.number \in 1..Begun(u) /\ h.number \in Nat /\ h.seg \in Nat
      /\ \A n, s \in Nat : Gone(u, n, s)' <=> Gone(u, n, s) \/ (n = h.number /\ s = h.seg)
  BY PolledIs
<1>2. PICK e, n : e = SetSegment(rxTable[u], h) /\ n = e.number
  OBVIOUS
<1>3. /\ h.seg > 0 /\ rxTable[u] # NoEntry /\ IsComplete(e) /\ IsWhole(u, e) /\ mixed' = mixed
      /\ rxTable' = [rxTable EXCEPT ![u] = NoEntry] /\ last' = [last EXCEPT ![u] = n]
  BY <1>2 DEF Delivers
<1>4. sent' = sent /\ cut' = cut /\ torn' = torn /\ next' = next /\ held' = held /\ faulty' = faulty
  BY DEF Polled
<1>5. Begun(u)' = Begun(u) /\ Faulty(u)' = Faulty(u) /\ Mixed(u)' = Mixed(u)
  BY <1>3, <1>4 DEF Begun, Faulty, Mixed
<1>6. /\ rxTable'[u] = NoEntry /\ last'[u] = n
      /\ DOMAIN rxTable' = Units /\ DOMAIN last' = Units
      /\ \A v \in Units : v # u => rxTable'[v] = rxTable[v] /\ last'[v] = last[v]
  BY <1>3 DEF Maps
<1>7. Maps' /\ \A v \in Units : v # u => Unmoved(v)
  BY <1>3, <1>4, <1>6 DEF Maps, Unmoved
<1>8. n \in 1..Begun(u) /\ n \in Nat \ {0} /\ HasEntry(u, n) /\ last[u] < n
  BY <1>2, <1>3, CompletesWhich
<1>9. UnitType(u)' /\ Straight(u)'
  <2>1. last'[u] \in 0..Begun(u) /\ mixed'[u] \in Seq(1..Begun(u))
    BY <1>1, <1>3, <1>6, <1>8 DEF UnitType, Begun
  <2> QED
    BY <1>6, <2>1, PolledTypes
<1>10. /\ \A k : ~HasEntry(u, k)'
       /\ \A k : Taken(u, k)' => Taken(u, k)
  BY <1>5, <1>6, <1>8 DEF HasEntry, Taken
<1>11. Traffic(u)'
  BY <1>10, PollTraffic
<1>12. TakenInv(u)'
  BY <1>1, <1>3, <1>10 DEF Books, TakenInv
<1>13. Entry(u)'
  BY <1>6 DEF Entry
<1>14. Blamed(u)'
  <2>1. ASSUME NEW k \in Mixed(u) \ Faulty(u) PROVE Gone(u, k + 1, 0) => Gone(u, k + 1, 0)'
    <3>1. k + 1 \in Nat
      BY <1>1, MixedIn
    <3> QED
      BY <1>1, <3>1
  <2> QED
    BY <1>1, <1>5, <1>10, <2>1 DEF Books, Blamed
<1>15. Clean(u)'
  <2>1. last[u] \in 0..Begun(u)
    BY <1>1 DEF UnitType, Begun
  <2>2. ASSUME faulty[u] = <<>>, NEW k \in Nat, Gone(u, k, 0)' PROVE k <= n
    <3>1. Gone(u, k, 0)
      BY <1>1, <1>3, <2>2
    <3>2. k <= last[u] \/ k = n
      BY <1>1, <1>8, <2>2, <3>1 DEF Books, Clean, HasEntry
    <3> QED
      BY <1>1, <1>8, <2>1, <3>2
  <2> QED
    BY <1>4, <1>6, <2>2 DEF Clean
<1> QED
  BY <1>7, <1>9, <1>11, <1>12, <1>13, <1>14, <1>15 DEF UnitInv, Books

LEMMA GarblesKeeps ==
  ASSUME NEW u \in Units, UnitInv(u), Maps, QueueType, NEW h, Polled(u, h), Garbles(u, h)
  PROVE  UnitInv(u)' /\ Maps' /\ \A v \in Units : v # u => Unmoved(v)
<1>1. /\ UnitType(u) /\ Books(u) /\ Begun(u) \in Nat
      /\ h.number \in 1..Begun(u) /\ h.number \in Nat /\ h.seg \in Nat
      /\ \A n, s \in Nat : Gone(u, n, s)' <=> Gone(u, n, s) \/ (n = h.number /\ s = h.seg)
  BY PolledIs
<1>2. PICK e, n : e = SetSegment(rxTable[u], h) /\ n = e.number
  OBVIOUS
<1>3. /\ h.seg > 0 /\ rxTable[u] # NoEntry /\ IsComplete(e) /\ ~IsWhole(u, e) /\ last' = last
      /\ rxTable' = [rxTable EXCEPT ![u] = NoEntry]
      /\ mixed' = [mixed EXCEPT ![u] = Append(mixed[u], n)]
  BY <1>2 DEF Garbles
<1>4. sent' = sent /\ cut' = cut /\ torn' = torn /\ next' = next /\ held' = held /\ faulty' = faulty
  BY DEF Polled
<1>5. Begun(u)' = Begun(u) /\ Faulty(u)' = Faulty(u)
  BY <1>4 DEF Begun, Faulty
<1>6. /\ rxTable'[u] = NoEntry /\ mixed'[u] = Append(mixed[u], n)
      /\ DOMAIN rxTable' = Units /\ DOMAIN mixed' = Units
      /\ \A v \in Units : v # u => rxTable'[v] = rxTable[v] /\ mixed'[v] = mixed[v]
  BY <1>3 DEF Maps
<1>7. Maps' /\ \A v \in Units : v # u => Unmoved(v)
  BY <1>3, <1>4, <1>6 DEF Maps, Unmoved
<1>8. /\ n \in 1..Begun(u) /\ n \in Nat \ {0} /\ HasEntry(u, n) /\ n \notin Mixed(u)
      /\ n \notin Faulty(u) =>
           n + 1 \in Faulty(u) /\ n + 1 \notin Mixed(u) /\ Gone(u, n + 1, 0)'
  BY <1>2, <1>3, CompletesWhich
<1>9. /\ mixed[u] \in Seq(1..Begun(u)) /\ Len(mixed[u]) \in Nat
      /\ mixed'[u] \in Seq(1..Begun(u)) /\ Len(mixed'[u]) = Len(mixed[u]) + 1
      /\ \A i \in 1..Len(mixed[u]) : mixed'[u][i] = mixed[u][i]
      /\ mixed'[u][Len(mixed[u]) + 1] = n
      /\ Mixed(u)' = Mixed(u) \cup {n}
  <2>1. mixed[u] \in Seq(1..Begun(u))
    BY <1>1 DEF UnitType, Begun
  <2> QED
    BY <1>6, <1>8, <2>1, AppendIn DEF Mixed
<1>10. UnitType(u)' /\ Straight(u)'
  <2>1. last'[u] \in 0..Begun(u)
    BY <1>1, <1>3 DEF UnitType, Begun
  <2> QED
    BY <1>6, <1>9, <2>1, PolledTypes
<1>11. /\ \A k : ~HasEntry(u, k)'
       /\ \A k : Taken(u, k)' => Taken(u, k)
  BY <1>3, <1>6, <1>8, <1>9 DEF HasEntry, Taken
<1>12. Traffic(u)'
  BY <1>11, PollTraffic
<1>13. TakenInv(u)'
  <2>1. \A k \in Nat \ {0} : Taken(u, k)' => Gone(u, k, 0)'
    BY <1>1, <1>11 DEF Books, TakenInv
  <2>2. ASSUME NEW i \in 1..Len(mixed'[u]), NEW j \in 1..Len(mixed'[u]),
               mixed'[u][i] = mixed'[u][j]
        PROVE  i = j
    <3>1. \A k \in 1..Len(mixed'[u]) : k \in 1..Len(mixed[u]) \/ k = Len(mixed[u]) + 1
      BY <1>9
    <3>2. \A k \in 1..Len(mixed[u]) : mixed'[u][k] # n
      BY <1>8, <1>9 DEF Mixed
    <3>3. CASE i \in 1..Len(mixed[u]) /\ j \in 1..Len(mixed[u])
      BY <1>1, <1>9, <2>2, <3>3 DEF Books, TakenInv
    <3> QED
      BY <1>9, <2>2, <3>1, <3>2, <3>3
  <2> QED
    BY <1>11, <2>1, <2>2 DEF TakenInv
<1>14. Entry(u)'
  BY <1>6 DEF Entry
<1>15. Blamed(u)'
  <2>1. ASSUME NEW k \in Mixed(u) \ Faulty(u)
        PROVE  k + 1 \in Faulty(u) /\ k + 1 \notin Mixed(u)' /\ Gone(u, k + 1, 0)'
    <3>1. k + 1 \in Nat
      BY <1>1, MixedIn
    <3>2. k + 1 \in Faulty(u) /\ k + 1 \notin Mixed(u) /\ Gone(u, k + 1, 0) /\ ~HasEntry(u, k + 1)
      BY <1>1 DEF Books, Blamed
    <3> QED
      BY <1>1, <1>8, <1>9, <3>1, <3>2
  <2>2. ASSUME n \notin Faulty(u)
        PROVE  n + 1 \in Faulty(u) /\ n + 1 \notin Mixed(u)' /\ Gone(u, n + 1, 0)'
    BY <1>8, <1>9, <2>2
  <2> QED
    BY <1>5, <1>9, <1>11, <2>1, <2>2 DEF Blamed
<1>16. Clean(u)'
  <2>1. faulty[u] = <<>> => Faulty(u) = {}
    BY DEF Faulty
  <2> QED
    BY <1>4, <1>8, <2>1 DEF Clean
<1> QED
  BY <1>7, <1>10, <1>12, <1>13, <1>14, <1>15, <1>16 DEF UnitInv, Books

-----------------------------------------------------------------------------
(* The invariant. *)

LEMMA InitInv == Init => IInv
<1> SUFFICES ASSUME Init PROVE IInv
  OBVIOUS
<1>1. Maps /\ QueueType
  BY CanTransportAssumption DEF Init, Maps, QueueType
<1>2. ASSUME NEW u \in Units PROVE UnitInv(u)
  <2>1. /\ sent[u] = <<>> /\ cut[u] = <<>> /\ torn[u] = {} /\ next[u] = -1
        /\ held[u] = NoFrame /\ queue = <<>>
        /\ rxTable[u] = NoEntry /\ last[u] = 0 /\ mixed[u] = <<>> /\ faulty[u] = <<>>
    BY <1>2 DEF Init
  <2>2. MaxSent[u] \in Nat /\ MaxFaults[u] \in Nat
    BY CanTransportAssumption
  <2>3. Begun(u) = 0 /\ Faulty(u) = {} /\ Mixed(u) = {}
    BY <2>1 DEF Begun, Faulty, Mixed
  <2>4. UnitType(u)
    BY <2>1, <2>2 DEF UnitType
  <2>5. \A n, s : ~Past(u, n, s) /\ ~Gone(u, n, s)
    BY <2>3 DEF Past, Gone
  <2>6. \A n, s : ~OnQueue(u, n, s) /\ ~IsHeld(u, n, s) /\ ~Coming(u, n, s) /\ ~HasEntry(u, n)
    BY <2>1 DEF OnQueue, IsHeld, Coming, HasEntry
  <2>7. \A n, s, i : ~InQueue(i, u, n, s)
    BY <2>1 DEF InQueue
  <2>8. Traffic(u)
    <3>1. Valid(u)
      BY <2>1 DEF Valid
    <3>2. Distinct(u)
      BY <2>6, <2>7 DEF Distinct, Once
    <3>3. \A n, s, m, r : ~Behind(u, n, s, m, r)
      BY <2>6, <2>7 DEF Behind, InLine
    <3> QED
      BY <2>6, <3>1, <3>2, <3>3, Zenon DEF Traffic, Order, Alone, HeldOrder
  <2>9. \A n \in Nat \ {0} : ~Taken(u, n)
    BY <2>1, <2>3, <2>6 DEF Taken
  <2>10. Books(u)
    BY <2>1, <2>3, <2>5, <2>6, <2>9 DEF Books, TakenInv, Entry, Blamed, Clean
  <2>11. Straight(u)
    BY <2>1, <2>3 DEF Straight
  <2> QED
    BY <2>4, <2>8, <2>10, <2>11 DEF UnitInv
<1> QED
  BY <1>1, <1>2 DEF IInv

\* A step of one unit, or one that takes a frame of it.
LEMMA OneMoves ==
  ASSUME IInv, NEW u \in Units, UnitInv(u)', Maps', QueueType',
         \A v \in Units : v # u => Unmoved(v) /\ QueueMoves(v)
  PROVE  IInv'
<1>1. ASSUME NEW v \in Units PROVE UnitInv(v)'
  <2>1. CASE v = u
    BY <2>1
  <2>2. CASE v # u
    BY <2>2, Elsewhere DEF IInv
  <2> QED
    BY <2>1, <2>2
<1> QED
  BY <1>1 DEF IInv

\* A frame of u goes into the queue.
LEMMA QueueGrows ==
  ASSUME QueueType, NEW u \in Units, NEW f \in Frames(u), Len(queue) # QueueSize,
         queue' = Append(queue, f)
  PROVE  QueueType' /\ \A v \in Units : v # u => QueueMoves(v)
<1>1. f \in AllFrames /\ f.unit = u
  BY DEF AllFrames, Frames
<1>2. queue' \in Seq(AllFrames) /\ Len(queue') = Len(queue) + 1 /\ Len(queue) \in Nat
  BY <1>1, AppendIn DEF QueueType
<1>3. AllFrames' = AllFrames
  BY DEF AllFrames, Frames
<1>4. Len(queue') <= QueueSize
  BY <1>2, CanTransportAssumption DEF QueueType
<1> QED
  BY <1>1, <1>2, <1>3, <1>4 DEF QueueType, QueueMoves

LEMMA QueueRests ==
  ASSUME QueueType, queue' = queue
  PROVE  QueueType' /\ \A v : QueueMoves(v)
  BY DEF QueueType, QueueMoves, AllFrames, Frames

LEMMA QueueShrinks ==
  ASSUME QueueType, queue # <<>>, queue' = Tail(queue)
  PROVE  QueueType'
<1>1. queue' \in Seq(AllFrames) /\ Len(queue') = Len(queue) - 1 /\ Len(queue) \in Nat
  BY DEF QueueType
<1>2. AllFrames' = AllFrames
  BY DEF AllFrames, Frames
<1>3. Len(queue') <= QueueSize
  BY <1>1, CanTransportAssumption DEF QueueType
<1> QED
  BY <1>1, <1>2, <1>3 DEF QueueType

LEMMA SendStep ==
  ASSUME IInv, NEW u \in Units, SendFrame(u)
  PROVE  IInv'
<1>1. Maps /\ QueueType /\ UnitInv(u) /\ UnitType(u)
  BY DEF IInv, UnitInv
<1>2. /\ Advance(u) /\ Arrive(u, Current(u), held[u] # NoFrame)
      /\ UNCHANGED <<held, rxTable, last, mixed>>
  BY DEF SendFrame, rxVars
<1>3. Current(u) \in Frames(u) /\ Current(u).number = Begun(u)
  BY <1>1, <1>2, CurrentIs DEF Advance
<1>4. CASE Len(queue) = QueueSize
  <2>1. queue' = queue /\ Fault(u, Begun(u))
    BY <1>2, <1>3, <1>4 DEF Arrive
  <2>2. UnitInv(u)' /\ Maps' /\ \A v \in Units : v # u => Unmoved(v)
    BY <1>1, <1>2, <2>1, LostKeeps
  <2> QED
    BY <1>1, <2>1, <2>2, QueueRests, OneMoves
<1>5. CASE Len(queue) # QueueSize
  <2>1. /\ queue' = Append(queue, Current(u))
        /\ IF held[u] # NoFrame THEN Fault(u, Begun(u)) ELSE UNCHANGED faulty
    BY <1>2, <1>3, <1>5 DEF Arrive
  <2>2. UnitInv(u)' /\ Maps' /\ \A v \in Units : v # u => Unmoved(v)
    BY <1>1, <1>2, <2>1, SendKeeps DEF QueueType
  <2>3. PICK f : f = Current(u)
    OBVIOUS
  <2>4. QueueType' /\ \A v \in Units : v # u => QueueMoves(v)
    BY <1>1, <1>3, <1>5, <2>1, <2>3, QueueGrows
  <2> QED
    BY <2>2, <2>4, OneMoves
<1> QED
  BY <1>4, <1>5

LEMMA ReleaseStep ==
  ASSUME IInv, NEW u \in Units, ReleaseFrame(u)
  PROVE  IInv'
<1>1. Maps /\ QueueType /\ UnitInv(u) /\ UnitType(u)
  BY DEF IInv, UnitInv
<1>2. /\ held[u] # NoFrame /\ Arrive(u, held[u], FALSE) /\ held' = [held EXCEPT ![u] = NoFrame]
      /\ UNCHANGED <<sent, cut, torn, next, rxTable, last, mixed>>
  BY DEF ReleaseFrame, rxVars
<1>3. held[u] \in Frames(u)
  BY <1>1, <1>2 DEF UnitType
<1>4. CASE Len(queue) = QueueSize
  <2>1. queue' = queue /\ Fault(u, held[u].number)
    BY <1>2, <1>4 DEF Arrive
  <2>2. UnitInv(u)' /\ Maps' /\ \A v \in Units : v # u => Unmoved(v)
    BY <1>1, <1>2, <2>1, DropKeeps
  <2> QED
    BY <1>1, <2>1, <2>2, QueueRests, OneMoves
<1>5. CASE Len(queue) # QueueSize
  <2>1. queue' = Append(queue, held[u]) /\ UNCHANGED faulty
    BY <1>2, <1>5 DEF Arrive
  <2>2. UnitInv(u)' /\ Maps' /\ \A v \in Units : v # u => Unmoved(v)
    BY <1>1, <1>2, <2>1, ReleaseKeeps DEF QueueType
  <2>3. PICK f : f = held[u]
    OBVIOUS
  <2>4. QueueType' /\ \A v \in Units : v # u => QueueMoves(v)
    BY <1>1, <1>3, <1>5, <2>1, <2>3, QueueGrows
  <2> QED
    BY <2>2, <2>4, OneMoves
<1> QED
  BY <1>4, <1>5

LEMMA PollStep ==
  ASSUME IInv, Poll
  PROVE  IInv'
<1>1. PICK u \in Units : \E h :
        /\ Polled(u, h) /\ \A v \in Units : v # u => QueueMoves(v)
        /\ Enters(u, h) \/ Drops(u, h) \/ Joins(u, h) \/ Delivers(u, h) \/ Garbles(u, h)
  BY PollCases
<1>2. PICK h :
        /\ Polled(u, h) /\ \A v \in Units : v # u => QueueMoves(v)
        /\ Enters(u, h) \/ Drops(u, h) \/ Joins(u, h) \/ Delivers(u, h) \/ Garbles(u, h)
  BY <1>1
<1>3. Maps /\ QueueType /\ UnitInv(u)
  BY DEF IInv
<1>4. UnitInv(u)' /\ Maps' /\ \A v \in Units : v # u => Unmoved(v)
  BY <1>2, <1>3, EntersKeeps, DropsKeeps, JoinsKeeps, DeliversKeeps, GarblesKeeps
<1>5. QueueType'
  BY <1>2, <1>3, QueueShrinks DEF Polled
<1> QED
  BY <1>2, <1>4, <1>5, OneMoves

LEMMA NextInv == IInv /\ [Next]_vars => IInv'
<1> SUFFICES ASSUME IInv, [Next]_vars PROVE IInv'
  OBVIOUS
<1>1. Maps /\ QueueType /\ \A u \in Units : UnitInv(u)
  BY DEF IInv
<1>2. ASSUME NEW u \in Units, Begin(u) PROVE IInv'
  <2>1. queue' = queue
    BY <1>2 DEF Begin
  <2> QED
    BY <1>1, <1>2, <2>1, BeginKeeps, QueueRests, OneMoves
<1>3. ASSUME NEW u \in Units, HoldFrame(u) PROVE IInv'
  <2>1. queue' = queue
    BY <1>3 DEF HoldFrame
  <2> QED
    BY <1>1, <1>3, <2>1, HoldKeeps, QueueRests, OneMoves
<1>4. ASSUME NEW u \in Units, LoseFrame(u) PROVE IInv'
  <2>1. /\ Advance(u) /\ Fault(u, Begun(u)) /\ queue' = queue
        /\ UNCHANGED <<held, queue, rxTable, last, mixed>>
    BY <1>4 DEF LoseFrame, rxVars, Begun
  <2> QED
    BY <1>1, <2>1, LostKeeps, QueueRests, OneMoves
<1>5. ASSUME NEW u \in Units, Capture(u) PROVE IInv'
  <2>1. queue' = queue
    BY <1>5 DEF Capture
  <2> QED
    BY <1>1, <1>5, <2>1, CaptureKeeps, QueueRests, OneMoves
<1>6. ASSUME UNCHANGED vars PROVE IInv'
  <2>1. /\ sent' = sent /\ cut' = cut /\ torn' = torn /\ next' = next /\ held' = held /\ queue' = queue
        /\ rxTable' = rxTable /\ last' = last /\ mixed' = mixed /\ faulty' = faulty
    BY <1>6 DEF vars
  <2>2. Maps' /\ \A u \in Units : Unmoved(u)
    BY <1>1, <2>1 DEF Maps, Unmoved
  <2>3. \A u \in Units : UnitInv(u)'
    BY <1>1, <2>1, <2>2, QueueRests, Elsewhere
  <2> QED
    BY <1>1, <2>1, <2>2, <2>3, QueueRests DEF IInv
<1>7. \/ \E u \in Units : \/ Begin(u) \/ Capture(u) \/ ReleaseFrame(u)
                          \/ SendFrame(u) \/ HoldFrame(u) \/ LoseFrame(u)
      \/ Poll
      \/ UNCHANGED vars
  BY DEF Next, UnitStep, Finished
<1> QED
  BY <1>2, <1>3, <1>4, <1>5, <1>6, <1>7, SendStep, ReleaseStep, PollStep

LEMMA Invariant == Spec => []IInv
  BY InitInv, NextInv, PTL DEF Spec

-----------------------------------------------------------------------------
\* Every reachable state of the transport has the types that TypeOK names: the
\* mail queue never holds more than it has room for, an entry of rxTable is
\* never longer than its broadcast (RxStruct), and nothing is delivered that
\* was not begun, for any units, lengths, queue and faults (CanEx.cpp).
THEOREM TypesHold == Spec => []TypeOK
  BY Invariant, TypesSuffice, PTL

\* An entry that is left in rxTable, by a lost or late frame or because a handler
\* changed the length between the first frame and the segments (canonchip.c,
\* CANTransmit), does not outlive a later broadcast of its own length, unless
\* that one met a fault itself (MessageReceiver, which turns the first frames of
\* those broadcasts away but takes the segments that fit).
THEOREM StaleEntriesEnd == Spec => []StaleEntryEnds
<1>1. IInv => StaleEntryEnds
  <2> SUFFICES ASSUME IInv, NEW u \in Units, rxTable[u] # NoEntry, ~Underway(u),
                      NEW n \in rxTable[u].number .. Len(sent[u]),
                      sent[u][n] = rxTable[u].len,
                      ~ \E i \in 1..Len(faulty[u]) : faulty[u][i] = n
               PROVE  FALSE
    BY DEF StaleEntryEnds
  <2>1. UnitType(u) /\ Straight(u) /\ Entry(u)
    BY DEF IInv, UnitInv, Books
  <2>2. PICK m, len, got : m = rxTable[u].number /\ len = rxTable[u].len /\ got = rxTable[u].got
    OBVIOUS
  <2>3. EntryOf(u, m, len, got)
    BY <2>1, <2>2 DEF Entry, EntryOf, Filled, Pure, Newer
  <2>4. PICK s \in 1..Segments(len) : got[s] = 0
    BY <2>3 DEF EntryOf
  <2>5. Begun(u) \in Nat /\ m \in 1..Begun(u) /\ n \in m..Begun(u) /\ len = sent[u][n]
    BY <2>1, <2>2, <2>3, SentIn DEF EntryOf, Begun
  <2>6. n \in 1..Begun(u)
    BY <2>5
  <2>7. n \notin Faulty(u) /\ s \in 0..Pieces(u, n)
    <3>1. n \notin Faulty(u)
      BY DEF Faulty
    <3>2. Pieces(u, n) = Segments(len) /\ Pieces(u, n) \in 1..36
      BY <2>1, <2>5, <2>6, <3>1, StraightIs
    <3> QED
      BY <2>4, <3>1, <3>2
  <2>8. next[u] = -1
    BY <2>1, NextIn DEF Underway
  <2>9. Past(u, n, s)
    BY <2>6, <2>7, <2>8 DEF Past
  <2>10. ~Coming(u, n, s)
    BY DEF Underway, Coming, OnQueue, InQueue, IsHeld
  <2>11. got[s] # 0
    BY <2>3, <2>4, <2>5, <2>7, <2>9, <2>10 DEF EntryOf, Filled, Gone
  <2> QED
    BY <2>4, <2>11
<1> QED
  BY <1>1, Invariant, PTL

-----------------------------------------------------------------------------
(* The channel. *)

LEMMA OneMore ==
  ASSUME NEW x, NEW y, NEW u \in Units, \A v \in Units : v # u => y[v] = x[v],
         Len(y[u]) = Len(x[u]) + 1
  PROVE  [v \in Units |-> Len(y[v])] = [[v \in Units |-> Len(x[v])] EXCEPT ![u] = @ + 1]
  OBVIOUS

\* Each entry that was delivered mixed has a fault that no other one has.
LEMMA BlamesDiffer ==
  ASSUME NEW u \in Units, UnitInv(u)
  PROVE  Len(mixed[u]) <= Len(faulty[u])
<1>1. UnitType(u) /\ TakenInv(u) /\ Blamed(u) /\ Begun(u) \in Nat
  BY SentIn DEF UnitInv, Books
<1>2. mixed[u] \in Seq(1..Begun(u)) /\ faulty[u] \in Seq(1..Begun(u))
  BY <1>1 DEF UnitType, Begun
<1>3. Len(mixed[u]) \in Nat /\ Len(faulty[u]) \in Nat
  BY <1>2
<1> DEFINE I == 1..Len(mixed[u])
           J == 1..Len(faulty[u])
           Blames(i, j) == \/ faulty[u][j] = mixed[u][i]
                           \/ mixed[u][i] \notin Faulty(u) /\ faulty[u][j] = mixed[u][i] + 1
           f == [i \in I |-> CHOOSE j \in J : Blames(i, j)]
<1>4. ASSUME NEW i \in I PROVE \E j \in J : Blames(i, j)
  <2>1. mixed[u][i] \in Mixed(u)
    BY DEF Mixed
  <2>2. mixed[u][i] \in Faulty(u) \/ (mixed[u][i] \notin Faulty(u) /\ mixed[u][i] + 1 \in Faulty(u))
    BY <1>1, <2>1 DEF Blamed
  <2> QED
    BY <2>2 DEF Faulty
<1>5. ASSUME NEW i \in I PROVE f[i] \in J /\ Blames(i, f[i])
  BY <1>4
<1> HIDE DEF f
<1>6. f \in [I -> J]
  BY <1>5 DEF f
<1>7. ASSUME NEW i \in I, NEW k \in I, f[i] = f[k] PROVE i = k
  <2>1. PICK a, b, c : a = mixed[u][i] /\ b = mixed[u][k] /\ c = faulty[u][f[i]]
    OBVIOUS
  <2>2. a \in Mixed(u) /\ b \in Mixed(u)
    BY <2>1 DEF Mixed
  <2>3. a \in Nat /\ b \in Nat
    BY <1>1, <2>2, MixedIn
  <2>4. /\ c = a \/ (a \notin Faulty(u) /\ c = a + 1)
        /\ c = b \/ (b \notin Faulty(u) /\ c = b + 1)
    BY <1>5, <1>7, <2>1
  <2>5. /\ a \notin Faulty(u) => a + 1 \notin Mixed(u)
        /\ b \notin Faulty(u) => b + 1 \notin Mixed(u)
    BY <1>1, <2>2 DEF Blamed
  <2>6. a = b
    BY <2>2, <2>3, <2>4, <2>5
  <2> QED
    BY <1>1, <2>1, <2>6 DEF TakenInv
<1>8. /\ IsFiniteSet(I) /\ Cardinality(I) = Len(mixed[u])
      /\ IsFiniteSet(J) /\ Cardinality(J) = Len(faulty[u])
  <2>1. ASSUME NEW n \in Nat PROVE IsFiniteSet(1..n) /\ Cardinality(1..n) = n
    <3>1. n \in Int /\ 1 \in Int
      OBVIOUS
    <3>2. IsFiniteSet(1..n) /\ Cardinality(1..n) = IF 1 > n THEN 0 ELSE n - 1 + 1
      BY <3>1, FS_Interval
    <3> QED
      BY <3>2
  <2> QED
    BY <1>3, <2>1
<1> SUFFICES ASSUME Len(faulty[u]) < Len(mixed[u]) PROVE FALSE
  BY <1>3
<1> HIDE DEF I, J, Blames
<1>9. \E i, k \in I : i # k /\ f[i] = f[k]
  BY <1>6, <1>8, FS_PigeonHole
<1> QED
  BY <1>7, <1>9

Bounded == \A u \in Units : Len(mixed[u]) <= Len(faulty[u])

LEMMA BoundedNext == IInv' => Bounded'
<1>1. IInv => Bounded
  BY BlamesDiffer DEF IInv, Bounded
<1> QED
  BY <1>1, PTL

LEMMA FaultIsFault ==
  ASSUME NEW u \in Units, NEW n, DOMAIN faulty = Units, faulty[u] \in Seq(1..Begun(u)), Fault(u, n),
         UNCHANGED <<sent, last, mixed>>
  PROVE  Channel!Fault(u)
<1>1. faulty'[u] = Append(faulty[u], n) /\ \A v \in Units : v # u => faulty'[v] = faulty[v]
  BY DEF Fault
<1>2. Len(faulty'[u]) = Len(faulty[u]) + 1
  BY <1>1
<1>3. [v \in Units |-> Len(faulty'[v])]
        = [[v \in Units |-> Len(faulty[v])] EXCEPT ![u] = @ + 1]
  BY <1>1, <1>2, OneMore
<1> QED
  BY <1>3 DEF Channel!Fault

LEMMA ArriveIsFault ==
  ASSUME NEW u \in Units, NEW f, NEW late, UnitType(u), Maps, Arrive(u, f, late),
         UNCHANGED <<sent, last, mixed>>
  PROVE  Channel!Fault(u) \/ UNCHANGED Channel!vars
<1>1. CASE UNCHANGED faulty
  BY <1>1 DEF Channel!vars
<1>2. CASE Fault(u, f.number)
  BY <1>2, FaultIsFault DEF UnitType, Maps, Begun
<1> QED
  BY <1>1, <1>2 DEF Arrive

LEMMA PollIsChannel ==
  ASSUME IInv, Bounded', Poll
  PROVE  (\E u \in Units : Channel!Deliver(u) \/ Channel!Garble(u)) \/ UNCHANGED Channel!vars
<1>1. PICK u \in Units : \E h :
        /\ Polled(u, h) /\ \A v \in Units : v # u => QueueMoves(v)
        /\ Enters(u, h) \/ Drops(u, h) \/ Joins(u, h) \/ Delivers(u, h) \/ Garbles(u, h)
  BY PollCases
<1>2. PICK h :
        /\ Polled(u, h)
        /\ Enters(u, h) \/ Drops(u, h) \/ Joins(u, h) \/ Delivers(u, h) \/ Garbles(u, h)
  BY <1>1
<1>3. /\ Maps /\ QueueType /\ UnitInv(u) /\ UnitType(u)
      /\ sent' = sent /\ faulty' = faulty
  BY <1>2 DEF IInv, UnitInv, Polled
<1>4. CASE Enters(u, h) \/ Drops(u, h) \/ Joins(u, h)
  <2>1. last' = last /\ mixed' = mixed
    BY <1>4 DEF Enters, Drops, Joins
  <2> QED
    BY <1>3, <2>1 DEF Channel!vars
<1>5. CASE Delivers(u, h)
  <2>1. PICK e, n : e = SetSegment(rxTable[u], h) /\ n = e.number
    OBVIOUS
  <2>2. /\ h.seg > 0 /\ rxTable[u] # NoEntry /\ IsComplete(e) /\ IsWhole(u, e) /\ mixed' = mixed
        /\ last' = [last EXCEPT ![u] = n]
    BY <1>5, <2>1 DEF Delivers
  <2>3. n \in 1..Begun(u) /\ last[u] < n /\ (faulty[u] = <<>> => n = last[u] + 1)
    BY <1>2, <1>3, <2>1, <2>2, CompletesWhich
  <2>4. last[u] \in 0..Begun(u) /\ Begun(u) \in Nat
    BY <1>3, SentIn DEF UnitType, Begun
  <2>5. n \in last[u] + 1 .. Begun(u)
    BY <2>3, <2>4
  <2>6. Len(faulty[u]) = 0 => faulty[u] = <<>>
    BY <1>3 DEF UnitType
  <2>7. Channel!Deliver(u)
    BY <1>3, <2>2, <2>3, <2>5, <2>6 DEF Channel!Deliver, Begun
  <2> QED
    BY <2>7
<1>6. CASE Garbles(u, h)
  <2>1. PICK n : n = SetSegment(rxTable[u], h).number
    OBVIOUS
  <2>2. last' = last /\ mixed' = [mixed EXCEPT ![u] = Append(mixed[u], n)]
    BY <1>6, <2>1 DEF Garbles
  <2>3. mixed'[u] = Append(mixed[u], n) /\ \A v \in Units : v # u => mixed'[v] = mixed[v]
    BY <1>3, <2>2 DEF Maps
  <2>4. mixed[u] \in Seq(1..Len(sent[u])) /\ faulty[u] \in Seq(1..Len(sent[u]))
    BY <1>3 DEF UnitType
  <2>5. /\ Len(mixed'[u]) = Len(mixed[u]) + 1
        /\ Len(mixed[u]) \in Nat /\ Len(faulty[u]) \in Nat
    BY <2>3, <2>4
  <2>6. Len(mixed'[u]) <= Len(faulty'[u])
    BY DEF Bounded
  <2>7. Len(mixed[u]) < Len(faulty[u])
    BY <1>3, <2>5, <2>6
  <2>8. [v \in Units |-> Len(mixed'[v])]
          = [[v \in Units |-> Len(mixed[v])] EXCEPT ![u] = @ + 1]
    BY <2>3, <2>5, OneMore
  <2>9. Channel!Garble(u)
    BY <1>3, <2>2, <2>7, <2>8 DEF Channel!Garble
  <2> QED
    BY <2>9
<1> QED
  BY <1>2, <1>4, <1>5, <1>6

\* The transport is the channel that CanChannel specifies: for each unit a
\* broadcast is delivered at most once and in the order of sending, none is
\* skipped while no frame was lost or overtook another and no handler captured
\* while one was being sent, and entries with parts of two broadcasts or of two
\* captures are delivered no more often than that happened (CANTransmit in
\* canonchip.c, CanexSyncTrigger in the unit, MessageReceiver in CanEx.cpp).
THEOREM IsChannel == Spec => ImplementsChannel
<1>1. Init => Channel!Init
  BY DEF Init, Channel!Init
<1>2. IInv /\ IInv' /\ [Next]_vars => [Channel!Next]_(Channel!vars)
  <2> SUFFICES ASSUME IInv, IInv', [Next]_vars
               PROVE  Channel!Next \/ UNCHANGED Channel!vars
    OBVIOUS
  <2>1. Maps /\ \A u \in Units : UnitInv(u) /\ UnitType(u)
    BY DEF IInv, UnitInv
  <2>2. ASSUME NEW u \in Units, Begin(u) PROVE Channel!Send(u)
    <3>1. PICK l \in Lengths : sent' = [sent EXCEPT ![u] = Append(@, l)]
      BY <2>2 DEF Begin
    <3>2. sent'[u] = Append(sent[u], l) /\ \A v \in Units : v # u => sent'[v] = sent[v]
      BY <2>1, <3>1 DEF Maps
    <3>3. Len(sent'[u]) = Len(sent[u]) + 1
      BY <2>1, <3>2 DEF UnitType
    <3>4. [v \in Units |-> Len(sent'[v])]
            = [[v \in Units |-> Len(sent[v])] EXCEPT ![u] = @ + 1]
      BY <3>2, <3>3, OneMore
    <3>5. UNCHANGED <<last, mixed, faulty>>
      BY <2>2 DEF Begin, rxVars
    <3> QED
      BY <3>4, <3>5 DEF Channel!Send
  <2>3. ASSUME NEW u \in Units, SendFrame(u) PROVE Channel!Fault(u) \/ UNCHANGED Channel!vars
    <3>1. UNCHANGED <<sent, last, mixed>> /\ Arrive(u, Current(u), held[u] # NoFrame)
      BY <2>3 DEF SendFrame, Advance, rxVars
    <3> QED
      BY <2>1, <3>1, ArriveIsFault
  <2>4. ASSUME NEW u \in Units, ReleaseFrame(u) PROVE Channel!Fault(u) \/ UNCHANGED Channel!vars
    <3>1. UNCHANGED <<sent, last, mixed>> /\ Arrive(u, held[u], FALSE)
      BY <2>4 DEF ReleaseFrame, rxVars
    <3> QED
      BY <2>1, <3>1, ArriveIsFault
  <2>5. ASSUME NEW u \in Units, LoseFrame(u) PROVE Channel!Fault(u)
    <3>1. UNCHANGED <<sent, last, mixed>> /\ Fault(u, Begun(u))
      BY <2>5 DEF LoseFrame, Advance, rxVars, Begun
    <3> QED
      BY <2>1, <3>1, FaultIsFault DEF UnitType, Maps, Begun
  <2>6. ASSUME NEW u \in Units, HoldFrame(u) PROVE UNCHANGED Channel!vars
    BY <2>6 DEF HoldFrame, Advance, rxVars, Channel!vars
  <2>7. ASSUME NEW u \in Units, Capture(u) PROVE Channel!Fault(u)
    <3>1. UNCHANGED <<sent, last, mixed>> /\ Fault(u, Begun(u))
      BY <2>7 DEF Capture, rxVars, Begun
    <3> QED
      BY <2>1, <3>1, FaultIsFault DEF UnitType, Maps, Begun
  <2>8. ASSUME UNCHANGED vars PROVE UNCHANGED Channel!vars
    BY <2>8 DEF vars, Channel!vars
  <2>9. ASSUME Poll PROVE Channel!Next \/ UNCHANGED Channel!vars
    BY <2>9, PollIsChannel, BoundedNext DEF Channel!Next
  <2>10. \/ \E u \in Units : \/ Begin(u) \/ Capture(u) \/ ReleaseFrame(u)
                             \/ SendFrame(u) \/ HoldFrame(u) \/ LoseFrame(u)
         \/ Poll
         \/ UNCHANGED vars
    BY DEF Next, UnitStep, Finished
  <2> QED
    BY <2>2, <2>3, <2>4, <2>5, <2>6, <2>7, <2>8, <2>9, <2>10 DEF Channel!Next
<1> QED
  BY <1>1, <1>2, Invariant, PTL DEF Spec, ImplementsChannel, Channel!Spec

===============================================================================
