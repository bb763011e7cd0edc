---------------------------- MODULE CanDriver_proofs ----------------------------
(***************************************************************************)
(* Proofs about CanDriver, for any senders, queue and limits.               *)
(*                                                                         *)
(* The inductive invariant IInv adds to TypeOK and BusyIsUnderway who has   *)
(* the mutex (Mutex), that a thread in CAN_push has a frame (HasFrame), and *)
(* that the mail it has put is in the queue when it looks at the hardware   *)
(* again (MailIsThere), which needs the mutex to keep the poller out.       *)
(* That a frame is in one place (OnlyOnce) is an equation between counts    *)
(* for all frames: a frame not in CAN_push nor accepted yet is nowhere.     *)
(***************************************************************************)
EXTENDS CanDriver, FiniteSetTheorems, SequenceTheorems, TLAPS

Mutex == \A t \in Threads : pc[t] # "idle" => owner = t
HasFrame == \A t \in Senders : pc[t] # "idle" => Frame(t) \in Frames
MailIsThere == \A t \in Threads : pc[t] = "again" => queue # <<>>

IInv == TypeOK /\ BusyIsUnderway /\ Mutex /\ HasFrame /\ MailIsThere

Mails == [box : Mailboxes, frame : Frames]

-----------------------------------------------------------------------------
(* The hardware. *)

\* A free mailbox keeps the mailboxes apart.
LEMMA AppendBox ==
  ASSUME NEW s \in Seq(Mails), Apart(s), NEW m \in Mails,
         m.box \notin {s[i].box : i \in DOMAIN s}
  PROVE  Append(s, m) \in Seq(Mails) /\ Apart(Append(s, m))
<1>1. Append(s, m) \in Seq(Mails)
  OBVIOUS
<1>2. ASSUME NEW i \in DOMAIN Append(s, m), NEW j \in DOMAIN Append(s, m),
             Append(s, m)[i].box = Append(s, m)[j].box
      PROVE  i = j
  <2>1. /\ Len(Append(s, m)) = Len(s) + 1
        /\ DOMAIN Append(s, m) = 1 .. Len(s) + 1 /\ DOMAIN s = 1 .. Len(s)
        /\ \A k \in 1 .. Len(s) : Append(s, m)[k] = s[k]
        /\ Append(s, m)[Len(s) + 1] = m
    OBVIOUS
  <2>2. \A k \in 1 .. Len(s) : s[k].box # m.box
    BY <2>1
  <2>3. CASE i \in 1 .. Len(s) /\ j \in 1 .. Len(s)
    BY <1>2, <2>1, <2>3 DEF Apart
  <2>4. CASE ~(i \in 1 .. Len(s) /\ j \in 1 .. Len(s))
    BY <1>2, <2>1, <2>2, <2>4
  <2> QED
    BY <2>3, <2>4
<1> QED
  BY <1>1, <1>2 DEF Apart

LEMMA TailBoxes ==
  ASSUME NEW s \in Seq(Mails), Apart(s), s # <<>>
  PROVE  Tail(s) \in Seq(Mails) /\ Apart(Tail(s))
<1>1. Tail(s) \in Seq(Mails)
  OBVIOUS
<1>2. ASSUME NEW i \in DOMAIN Tail(s), NEW j \in DOMAIN Tail(s), Tail(s)[i].box = Tail(s)[j].box
      PROVE  i = j
  <2>1. /\ Len(s) \in Nat \ {0} /\ DOMAIN s = 1 .. Len(s)
        /\ DOMAIN Tail(s) = 1 .. Len(s) - 1
        /\ \A k \in 1 .. Len(s) - 1 : Tail(s)[k] = s[k + 1]
    OBVIOUS
  <2>2. i + 1 \in DOMAIN s /\ j + 1 \in DOMAIN s /\ s[i + 1].box = s[j + 1].box
    BY <1>2, <2>1
  <2>3. i + 1 = j + 1
    BY <2>2 DEF Apart
  <2> QED
    BY <2>1, <2>3
<1> QED
  BY <1>1, <1>2 DEF Apart

\* HAL_CAN_Transmit_IT keeps the types and whether it is underway.
HwTypeOK ==
  /\ state \in {"READY", "RX", "TX", "TX_RX"}
  /\ boxes \in Seq(Mails) /\ Apart(boxes)
  /\ done \subseteq Mailboxes /\ tme \in BOOLEAN
  /\ clash \in BOOLEAN

LEMMA LowestIn ==
  ASSUME FreeBoxes # {}
  PROVE  Lowest(FreeBoxes) \in FreeBoxes
<1>1. FreeBoxes \subseteq {0, 1, 2}
  BY DEF FreeBoxes, Mailboxes
<1>2. \E b \in FreeBoxes : \A c \in FreeBoxes : b <= c
  <2>1. CASE 0 \in FreeBoxes
    BY <1>1, <2>1
  <2>2. CASE 0 \notin FreeBoxes /\ 1 \in FreeBoxes
    BY <1>1, <2>2
  <2>3. CASE 0 \notin FreeBoxes /\ 1 \notin FreeBoxes
    <3>1. FreeBoxes = {2}
      BY <1>1, <2>3
    <3> QED
      BY <3>1
  <2> QED
    BY <2>1, <2>2, <2>3
<1> QED
  BY <1>2 DEF Lowest

LEMMA HwWrKeeps ==
  ASSUME HwTypeOK, BusyIsUnderway, NEW f \in Frames, NEW p \in BOOLEAN, HwWr(f, p)
  PROVE  HwTypeOK' /\ BusyIsUnderway'
<1>1. CASE Idle /\ FreeBoxes # {}
  <2> DEFINE box == Lowest(FreeBoxes)
             mail == [box |-> box, frame |-> f]
  <2>1. box \in FreeBoxes
    BY <1>1, LowestIn
  <2>2. mail \in Mails /\ mail.box \notin {boxes[i].box : i \in DOMAIN boxes}
    BY <2>1 DEF Mails, FreeBoxes, Occupied
  <2>3. boxes' = Append(boxes, mail) /\ done' = done \ {box} /\ clash' = (clash \/ p)
    BY <1>1 DEF HwWr
  <2>4. boxes' \in Seq(Mails) /\ Apart(boxes')
    BY <2>2, <2>3, AppendBox DEF HwTypeOK
  <2>5. boxes' # <<>>
    BY <2>2, <2>3 DEF HwTypeOK
  <2>6. \/ tme' = TRUE /\ state' \in {"TX", "TX_RX"}
        \/ tme' = FALSE /\ state' = state
    BY <1>1 DEF HwWr
  <2>7. HwTypeOK'
    BY <2>3, <2>4, <2>6 DEF HwTypeOK
  <2>8. BusyIsUnderway'
    BY <1>1, <2>5, <2>6 DEF BusyIsUnderway, Idle
  <2> QED
    BY <2>7, <2>8
<1>2. CASE ~(Idle /\ FreeBoxes # {})
  BY <1>2 DEF HwWr, HwTypeOK, BusyIsUnderway, Idle, hwVars
<1> QED
  BY <1>1, <1>2

-----------------------------------------------------------------------------
(* The invariant holds initially, and every step keeps it. *)

\* What TypeOK says of the threads and their data.
DataTypeOK ==
  /\ owner \in Threads \cup {Nobody}
  /\ pc \in [Threads -> {"idle", "push", "queue", "again", "receive", "pull"}]
  /\ count \in [Senders -> 0..MaxFrames]
  /\ tokens \in 0..MaxTokens
  /\ queue \in Seq(Frames) /\ Len(queue) <= QueueSize
  /\ accepted \subseteq Frames /\ out \in Seq(Frames) /\ aborted \subseteq Frames
  /\ errors \in 0..MaxErrors

LEMMA TypeParts == TypeOK <=> DataTypeOK /\ HwTypeOK
  BY DEF TypeOK, DataTypeOK, HwTypeOK, Mails

\* The same for the next state.
LEMMA NextTypeParts == DataTypeOK' /\ HwTypeOK' => TypeOK'
  BY DEF TypeOK, DataTypeOK, HwTypeOK, Mails

LEMMA TailQueue ==
  ASSUME NEW s \in Seq(Frames), s # <<>>, Len(s) <= QueueSize
  PROVE  /\ Tail(s) \in Seq(Frames) /\ Len(Tail(s)) <= QueueSize
         /\ Head(s) \in Frames
<1>1. Tail(s) \in Seq(Frames) /\ Head(s) \in Frames
  OBVIOUS
<1>2. Len(s) \in Nat /\ Len(Tail(s)) = Len(s) - 1
  OBVIOUS
<1> QED
  BY <1>1, <1>2, CanDriverAssumption

\* Tokens are given back up to the bound.
LEMMA ReleaseTokens ==
  ASSUME tokens \in 0..MaxTokens, Release
  PROVE  tokens' \in 0..MaxTokens
  BY CanDriverAssumption DEF Release

LEMMA InitInv == Init => IInv
<1> SUFFICES ASSUME Init PROVE IInv
  OBVIOUS
<1>1. queue \in Seq(Frames) /\ Len(queue) = 0 /\ out \in Seq(Frames)
  BY DEF Init
<1>2. boxes \in Seq([box : Mailboxes, frame : Frames]) /\ Apart(boxes)
  BY DEF Init, Apart
<1>3. DataTypeOK
  <2>1. owner \in Threads \cup {Nobody}
        /\ pc \in [Threads -> {"idle", "push", "queue", "again", "receive", "pull"}]
    BY DEF Init
  <2>2. count \in [Senders -> 0..MaxFrames] /\ tokens \in 0..MaxTokens
        /\ errors \in 0..MaxErrors
    BY CanDriverAssumption DEF Init
  <2>3. Len(queue) <= QueueSize
    BY <1>1, CanDriverAssumption
  <2>4. accepted \subseteq Frames /\ aborted \subseteq Frames
    BY DEF Init
  <2> QED
    BY <1>1, <2>1, <2>2, <2>3, <2>4 DEF DataTypeOK
<1>5. HwTypeOK
  BY <1>2 DEF Init, HwTypeOK, Mails
<1>4. BusyIsUnderway /\ Mutex /\ HasFrame /\ MailIsThere
  BY DEF Init, BusyIsUnderway, Idle, Mutex, HasFrame, MailIsThere, Threads
<1> QED
  BY <1>3, <1>4, <1>5, TypeParts DEF IInv

\* A sender in CAN_push has the mutex, so nobody else moves; it hands on the
\* mutex or stays where the other conjuncts want it.
LEMMA ThreadMoves ==
  ASSUME IInv, NEW t \in Threads, pc[t] # "idle",
         \/ \E place \in {"queue", "again", "pull"} : Goto(t, place)
         \/ Leave(t),
         count' = count, pc'[t] = "again" => queue' # <<>>
  PROVE  Mutex' /\ HasFrame' /\ MailIsThere'
<1>1. pc \in [Threads -> {"idle", "push", "queue", "again", "receive", "pull"}]
  BY DEF IInv, TypeOK
<1>2. owner = t /\ \A s \in Threads \ {t} : pc[s] = "idle"
  <2>1. owner = t
    BY DEF IInv, Mutex
  <2> QED
    BY <2>1 DEF IInv, Mutex
<1>3. \A s \in Threads \ {t} : pc'[s] = "idle"
  BY <1>1, <1>2 DEF Goto, Leave
<1>4. pc'[t] # "idle" => owner' = t
  BY <1>1, <1>2 DEF Goto, Leave
<1>5. Mutex' /\ MailIsThere'
  BY <1>3, <1>4 DEF Mutex, MailIsThere, Threads
<1>6. ASSUME NEW s \in Senders, pc'[s] # "idle"
      PROVE  <<s, count'[s]>> \in Frames
  <2>1. s = t
    BY <1>3, <1>6 DEF Threads
  <2>2. Frame(s) \in Frames
    BY <2>1 DEF IInv, HasFrame
  <2> QED
    BY <2>2 DEF Frame
<1>7. HasFrame'
  BY <1>6 DEF HasFrame, Frame
<1> QED
  BY <1>5, <1>7

\* A frame is accepted and the mutex given back, or the thread goes on.
LEMMA ThreadTypes ==
  ASSUME IInv, NEW t \in Threads,
         \/ \E place \in {"queue", "again", "pull"} : Goto(t, place)
         \/ Leave(t)
  PROVE  /\ owner' \in Threads \cup {Nobody}
         /\ pc' \in [Threads -> {"idle", "push", "queue", "again", "receive", "pull"}]
  BY DEF IInv, TypeOK, Goto, Leave

LEMMA EnterStep ==
  ASSUME IInv, NEW t \in Senders, Enter(t)
  PROVE  IInv'
<1>1. DataTypeOK /\ HwTypeOK /\ t \in Threads
  BY TypeParts DEF IInv, Threads
<1>2. count[t] + 1 \in 0..MaxFrames /\ count[t] + 1 \in 1..MaxFrames
  BY <1>1, CanDriverAssumption DEF Enter, DataTypeOK
<1>3. DataTypeOK'
  BY <1>1, <1>2 DEF Enter, DataTypeOK, history
<1>4. HwTypeOK' /\ BusyIsUnderway'
  BY <1>1 DEF Enter, HwTypeOK, IInv, BusyIsUnderway, Idle, hwVars, history
<1>5. \A s \in Threads : pc[s] = "idle"
  BY CanDriverAssumption DEF Enter, IInv, Mutex, Threads
<1>6. \A s \in Threads : pc'[s] = IF s = t THEN "push" ELSE "idle"
  BY <1>1, <1>5 DEF Enter, DataTypeOK
<1>7. Mutex' /\ MailIsThere'
  BY <1>6 DEF Enter, Mutex, MailIsThere, Threads
<1>8. <<t, count'[t]>> \in Frames
  BY <1>1, <1>2 DEF Enter, DataTypeOK, Frames
<1>9. HasFrame'
  BY <1>6, <1>8 DEF HasFrame, Frame, Threads
<1> QED
  BY <1>3, <1>4, <1>7, <1>9, NextTypeParts DEF IInv

LEMMA PushStep ==
  ASSUME IInv, NEW t \in Senders, Push(t)
  PROVE  IInv'
<1>1. DataTypeOK /\ HwTypeOK /\ BusyIsUnderway /\ t \in Threads
  BY TypeParts DEF IInv, Threads
<1>2. PICK f \in Frames : f = Frame(t)
  BY DEF IInv, HasFrame, Push
<1>3. \/ Leave(t)
      \/ \E place \in {"queue", "again", "pull"} : Goto(t, place)
  BY DEF Push, Accept
<1>4. pc'[t] # "again"
  BY <1>1 DEF Push, Accept, Leave, Goto, DataTypeOK
<1>5. Mutex' /\ HasFrame' /\ MailIsThere'
  <2>1. pc[t] # "idle" /\ count' = count
    BY DEF Push
  <2> QED
    BY <1>1, <1>3, <1>4, <2>1, ThreadMoves
<1>6. HwTypeOK' /\ BusyIsUnderway'
  <2>1. CASE TxEmpty
    <3>1. HwWr(f, FALSE)
      BY <1>2, <2>1 DEF Push, HwWr
    <3> QED
      BY <1>1, <3>1, HwWrKeeps
  <2>2. CASE ~TxEmpty
    BY <1>1, <2>2 DEF Push, HwTypeOK, BusyIsUnderway, Idle, hwVars
  <2> QED
    BY <2>1, <2>2
<1>7. DataTypeOK'
  <2>1. owner' \in Threads \cup {Nobody}
        /\ pc' \in [Threads -> {"idle", "push", "queue", "again", "receive", "pull"}]
    BY <1>1, <1>3, ThreadTypes
  <2>2. tokens' \in 0..MaxTokens
    <3>1. tokens' = tokens \/ (tokens > 0 /\ tokens' = tokens - 1)
      BY DEF Push, TxEmpty
    <3> QED
      BY <1>1, <3>1, CanDriverAssumption DEF DataTypeOK
  <2>3. accepted' \subseteq Frames
    BY <1>1, <1>2 DEF Push, Accept, DataTypeOK
  <2> QED
    BY <1>1, <2>1, <2>2, <2>3 DEF Push, DataTypeOK
<1> QED
  BY <1>5, <1>6, <1>7, NextTypeParts DEF IInv

LEMMA QueueFullStep ==
  ASSUME IInv, NEW t \in Senders, QueueFull(t)
  PROVE  IInv'
<1>1. DataTypeOK /\ HwTypeOK /\ t \in Threads
  BY TypeParts DEF IInv, Threads
<1>2. Leave(t) /\ pc[t] # "idle" /\ count' = count
  BY DEF QueueFull
<1>3. pc'[t] # "again"
  BY <1>1, <1>2 DEF Leave, DataTypeOK
<1>4. Mutex' /\ HasFrame' /\ MailIsThere'
  BY <1>1, <1>2, <1>3, ThreadMoves
<1>5. DataTypeOK'
  BY <1>1, <1>2, ThreadTypes DEF QueueFull, DataTypeOK, history
<1>6. HwTypeOK' /\ BusyIsUnderway'
  BY <1>1 DEF QueueFull, HwTypeOK, IInv, BusyIsUnderway, Idle, hwVars, history
<1> QED
  BY <1>4, <1>5, <1>6, NextTypeParts DEF IInv

LEMMA PutStep ==
  ASSUME IInv, NEW t \in Senders, Put(t)
  PROVE  IInv'
<1>1. DataTypeOK /\ HwTypeOK /\ t \in Threads
  BY TypeParts DEF IInv, Threads
<1>2. PICK f \in Frames : f = Frame(t)
  BY DEF IInv, HasFrame, Put
<1>3. Goto(t, "again") /\ pc[t] # "idle" /\ count' = count
  BY DEF Put
<1>4. queue' = Append(queue, f) /\ Len(queue) < QueueSize
  BY <1>2 DEF Put
<1>5. queue' \in Seq(Frames) /\ Len(queue') <= QueueSize /\ queue' # <<>>
  BY <1>1, <1>4, CanDriverAssumption DEF DataTypeOK
<1>6. Mutex' /\ HasFrame' /\ MailIsThere'
  BY <1>1, <1>3, <1>5, ThreadMoves
<1>7. DataTypeOK'
  BY <1>1, <1>3, <1>5, ThreadTypes DEF Put, DataTypeOK, history
<1>8. HwTypeOK' /\ BusyIsUnderway'
  BY <1>1 DEF Put, HwTypeOK, IInv, BusyIsUnderway, Idle, hwVars, history
<1> QED
  BY <1>6, <1>7, <1>8, NextTypeParts DEF IInv

LEMMA AgainStep ==
  ASSUME IInv, NEW t \in Senders, Again(t)
  PROVE  IInv'
<1>1. DataTypeOK /\ HwTypeOK /\ BusyIsUnderway /\ t \in Threads
  BY TypeParts DEF IInv, Threads
<1>2. PICK f \in Frames : f = Frame(t)
  BY DEF IInv, HasFrame, Again
<1>3. Leave(t) /\ pc[t] # "idle" /\ count' = count
  BY DEF Again, Accept
<1>4. pc'[t] # "again"
  BY <1>1, <1>3 DEF Leave, DataTypeOK
<1>5. Mutex' /\ HasFrame' /\ MailIsThere'
  BY <1>1, <1>3, <1>4, ThreadMoves
<1>6. HwTypeOK' /\ BusyIsUnderway'
  <2>1. CASE TxEmpty
    <3>1. PICK p \in BOOLEAN : p = (Head(queue) # Frame(t))
      OBVIOUS
    <3>2. HwWr(f, p)
      BY <1>2, <2>1, <3>1 DEF Again, HwWr
    <3> QED
      BY <1>1, <3>2, HwWrKeeps
  <2>2. CASE ~TxEmpty
    BY <1>1, <2>2 DEF Again, HwTypeOK, BusyIsUnderway, Idle, hwVars
  <2> QED
    BY <2>1, <2>2
<1>7. queue' \in Seq(Frames) /\ Len(queue') <= QueueSize
  <2>1. queue # <<>>
    BY <1>1 DEF IInv, MailIsThere, Again
  <2>2. queue' = queue \/ queue' = Tail(queue)
    BY DEF Again
  <2> QED
    BY <1>1, <2>1, <2>2, TailQueue DEF DataTypeOK
<1>8. tokens' \in 0..MaxTokens
  <2>1. tokens' = tokens \/ (tokens > 0 /\ tokens' = tokens - 1)
    BY DEF Again, TxEmpty
  <2> QED
    BY <1>1, <2>1, CanDriverAssumption DEF DataTypeOK
<1>9. accepted' \subseteq Frames
  BY <1>1, <1>2 DEF Again, Accept, DataTypeOK
<1>10. DataTypeOK'
  BY <1>1, <1>3, <1>7, <1>8, <1>9, ThreadTypes DEF Again, DataTypeOK
<1> QED
  BY <1>5, <1>6, <1>10, NextTypeParts DEF IInv

LEMMA PollEnterStep ==
  ASSUME IInv, PollEnter
  PROVE  IInv'
<1>1. DataTypeOK /\ HwTypeOK /\ Poller \in Threads /\ Poller \notin Senders
  BY TypeParts, CanDriverAssumption DEF IInv, Threads
<1>2. DataTypeOK'
  BY <1>1 DEF PollEnter, DataTypeOK, history
<1>3. HwTypeOK' /\ BusyIsUnderway'
  BY DEF PollEnter, HwTypeOK, IInv, BusyIsUnderway, Idle, hwVars, history, TypeOK, Mails
<1>4. \A s \in Threads : pc[s] = "idle"
  BY CanDriverAssumption DEF PollEnter, IInv, Mutex, Threads
<1>5. \A s \in Threads : pc'[s] = IF s = Poller THEN "receive" ELSE "idle"
  BY <1>1, <1>4 DEF PollEnter, DataTypeOK
<1>6. Mutex' /\ MailIsThere'
  BY <1>5 DEF PollEnter, Mutex, MailIsThere
<1>7. HasFrame'
  BY <1>1, <1>5 DEF HasFrame, Threads
<1> QED
  BY <1>2, <1>3, <1>6, <1>7, NextTypeParts DEF IInv

LEMMA ReceiveStep ==
  ASSUME IInv, Receive
  PROVE  IInv'
<1>1. DataTypeOK /\ HwTypeOK /\ BusyIsUnderway /\ Poller \in Threads
  BY TypeParts DEF IInv, Threads
<1>2. Goto(Poller, "pull") /\ pc[Poller] # "idle" /\ count' = count
  BY DEF Receive
<1>3. pc'[Poller] # "again"
  BY <1>1, <1>2 DEF Goto, DataTypeOK
<1>4. Mutex' /\ HasFrame' /\ MailIsThere'
  BY <1>1, <1>2, <1>3, ThreadMoves
<1>5. /\ HwTypeOK' /\ BusyIsUnderway'
      /\ queue' \in Seq(Frames) /\ Len(queue') <= QueueSize
      /\ tokens' \in 0..MaxTokens
  <2>1. CASE queue # <<>>
    <3>1. PICK f \in Frames : f = Head(queue)
      BY <1>1, <2>1, TailQueue DEF DataTypeOK
    <3>2. HwWr(f, FALSE)
      BY <2>1, <3>1 DEF Receive, HwWr
    <3>3. HwTypeOK' /\ BusyIsUnderway'
      BY <1>1, <3>2, HwWrKeeps
    <3>4. queue' = Tail(queue) /\ tokens' = tokens
      BY <2>1 DEF Receive
    <3>5. queue' \in Seq(Frames) /\ Len(queue') <= QueueSize
      BY <1>1, <2>1, <3>4, TailQueue DEF DataTypeOK
    <3> QED
      BY <1>1, <3>3, <3>4, <3>5 DEF DataTypeOK
  <2>2. CASE queue = <<>>
    <3>1. UNCHANGED <<queue, hwVars, clash>> /\ Release
      BY <2>2 DEF Receive
    <3>2. tokens' \in 0..MaxTokens
      BY <1>1, <3>1, ReleaseTokens DEF DataTypeOK
    <3>3. HwTypeOK' /\ BusyIsUnderway'
      BY <1>1, <3>1 DEF HwTypeOK, BusyIsUnderway, Idle, hwVars
    <3> QED
      BY <1>1, <3>1, <3>2, <3>3 DEF DataTypeOK
  <2> QED
    BY <2>1, <2>2
<1>6. DataTypeOK'
  BY <1>1, <1>2, <1>5, ThreadTypes DEF Receive, DataTypeOK
<1> QED
  BY <1>4, <1>5, <1>6, NextTypeParts DEF IInv

LEMMA PullStep ==
  ASSUME IInv, Pull
  PROVE  IInv'
<1>1. DataTypeOK /\ HwTypeOK /\ Poller \in Threads
  BY TypeParts DEF IInv, Threads
<1>2. Leave(Poller) /\ pc[Poller] # "idle" /\ count' = count
  BY DEF Pull
<1>3. pc'[Poller] # "again"
  BY <1>1, <1>2 DEF Leave, DataTypeOK
<1>4. Mutex' /\ HasFrame' /\ MailIsThere'
  BY <1>1, <1>2, <1>3, ThreadMoves
<1>5. DataTypeOK'
  BY <1>1, <1>2, ThreadTypes DEF Pull, DataTypeOK, history
<1>6. HwTypeOK' /\ BusyIsUnderway'
  BY <1>1 DEF Pull, HwTypeOK, IInv, BusyIsUnderway, Idle, hwVars, history
<1> QED
  BY <1>4, <1>5, <1>6, NextTypeParts DEF IInv

\* The bus and the interrupts leave the threads and the queue alone.
LEMMA ThreadsKept ==
  ASSUME IInv, UNCHANGED <<threadVars, queue>>
  PROVE  Mutex' /\ HasFrame' /\ MailIsThere'
  BY DEF IInv, Mutex, HasFrame, MailIsThere, Frame, threadVars

LEMMA HeadBox ==
  ASSUME HwTypeOK, boxes # <<>>
  PROVE  /\ Head(boxes).box \in Mailboxes /\ Head(boxes).frame \in Frames
         /\ Tail(boxes) \in Seq(Mails) /\ Apart(Tail(boxes))
<1>1. Head(boxes) \in Mails
  BY DEF HwTypeOK
<1>2. Head(boxes).box \in Mailboxes /\ Head(boxes).frame \in Frames
  BY <1>1 DEF Mails
<1> QED
  BY <1>2, TailBoxes DEF HwTypeOK

LEMMA BusStep ==
  ASSUME IInv, Bus
  PROVE  IInv'
<1>1. DataTypeOK /\ HwTypeOK /\ BusyIsUnderway
  BY TypeParts DEF IInv
<1>2. Mutex' /\ HasFrame' /\ MailIsThere'
  BY ThreadsKept DEF Bus, Transmitted, TxError, RxError, threadVars
<1>3. CASE Transmitted
  <2>1. PICK m : m = Head(boxes)
    OBVIOUS
  <2>2. /\ m.box \in Mailboxes /\ m.frame \in Frames
        /\ Tail(boxes) \in Seq(Mails) /\ Apart(Tail(boxes))
    BY <1>1, <1>3, <2>1, HeadBox DEF Transmitted
  <2>3. /\ out' = Append(out, m.frame) /\ done' = done \cup {m.box}
        /\ boxes' = Tail(boxes) /\ state' = state /\ tme' = tme
        /\ clash' = clash
    BY <1>3, <2>1 DEF Transmitted
  <2>4. HwTypeOK'
    BY <1>1, <2>2, <2>3 DEF HwTypeOK
  <2>5. BusyIsUnderway'
    BY <1>1, <2>3 DEF BusyIsUnderway, Idle
  <2>6. out' \in Seq(Frames)
    BY <1>1, <2>2, <2>3 DEF DataTypeOK
  <2>7. DataTypeOK'
    BY <1>1, <1>3, <2>6 DEF Transmitted, DataTypeOK, threadVars
  <2> QED
    BY <1>2, <2>4, <2>5, <2>7, NextTypeParts DEF IInv
<1>4. CASE TxError
  <2>1. PICK m : m = Head(boxes)
    OBVIOUS
  <2>2. /\ m.frame \in Frames
        /\ Tail(boxes) \in Seq(Mails) /\ Apart(Tail(boxes))
    BY <1>1, <1>4, <2>1, HeadBox DEF TxError
  <2>3. /\ aborted' = aborted \cup {m.frame} /\ done' = {}
        /\ boxes' = Tail(boxes) /\ state' = "READY" /\ tme' = FALSE
        /\ clash' = clash /\ errors' = errors + 1 /\ errors < MaxErrors
    BY <1>4, <2>1 DEF TxError
  <2>4. HwTypeOK' /\ BusyIsUnderway'
    BY <1>1, <2>2, <2>3 DEF HwTypeOK, BusyIsUnderway, Idle
  <2>5. tokens' \in 0..MaxTokens
    BY <1>1, <1>4, ReleaseTokens DEF TxError, DataTypeOK
  <2>6. errors' \in 0..MaxErrors
    BY <1>1, <2>3, CanDriverAssumption DEF DataTypeOK
  <2>7. aborted' \subseteq Frames
    BY <1>1, <2>2, <2>3 DEF DataTypeOK
  <2>8. DataTypeOK'
    BY <1>1, <1>4, <2>5, <2>6, <2>7 DEF TxError, DataTypeOK, threadVars
  <2> QED
    BY <1>2, <2>4, <2>8, NextTypeParts DEF IInv
<1>5. CASE RxError
  <2>1. HwTypeOK' /\ BusyIsUnderway'
    BY <1>1, <1>5 DEF RxError, HwTypeOK, BusyIsUnderway, Idle
  <2>2. errors' \in 0..MaxErrors
    BY <1>1, <1>5, CanDriverAssumption DEF RxError, DataTypeOK
  <2>3. DataTypeOK'
    BY <1>1, <1>5, <2>2 DEF RxError, DataTypeOK, threadVars
  <2> QED
    BY <1>2, <2>1, <2>3, NextTypeParts DEF IInv
<1> QED
  BY <1>3, <1>4, <1>5 DEF Bus

LEMMA InterruptStep ==
  ASSUME IInv, Interrupt
  PROVE  IInv'
<1>1. DataTypeOK /\ HwTypeOK /\ BusyIsUnderway
  BY TypeParts DEF IInv
<1>2. Mutex' /\ HasFrame' /\ MailIsThere'
  BY ThreadsKept DEF Interrupt, TxInterrupt, RxInterrupt, threadVars
<1>3. DataTypeOK'
  BY <1>1 DEF Interrupt, TxInterrupt, RxInterrupt, DataTypeOK, threadVars, history
<1>4. HwTypeOK'
  BY <1>1 DEF Interrupt, TxInterrupt, RxInterrupt, HwTypeOK, history
<1>5. BusyIsUnderway'
  BY DEF Interrupt, TxInterrupt, RxInterrupt, BusyIsUnderway, Idle
<1> QED
  BY <1>2, <1>3, <1>4, <1>5, NextTypeParts DEF IInv

LEMMA NextInv == IInv /\ [Next]_vars => IInv'
<1> SUFFICES ASSUME IInv, [Next]_vars PROVE IInv'
  OBVIOUS
<1>1. ASSUME NEW t \in Senders, Enter(t) \/ SendStep(t) PROVE IInv'
  BY <1>1, EnterStep, PushStep, QueueFullStep, PutStep, AgainStep DEF SendStep
<1>2. CASE PollEnter
  BY <1>2, PollEnterStep
<1>3. CASE PollStep
  BY <1>3, ReceiveStep, PullStep DEF PollStep
<1>4. CASE Interrupt
  BY <1>4, InterruptStep
<1>5. CASE Bus
  BY <1>5, BusStep
<1>6. CASE UNCHANGED vars
  BY <1>6 DEF vars, IInv, TypeOK, BusyIsUnderway, Idle, Mutex, HasFrame, Frame, MailIsThere
<1> QED
  BY <1>1, <1>2, <1>3, <1>4, <1>5, <1>6 DEF Next

-----------------------------------------------------------------------------
\* Every reachable state of the driver has the types TypeOK names: the queue
\* never holds more mails than it has room for, and no mailbox is taken while a
\* frame in it is under way (CAN_push, HAL_CAN_Transmit_IT).
THEOREM TypeCorrect == Spec => []TypeOK
<1>1. IInv => TypeOK
  BY DEF IInv
<1> QED
  BY <1>1, InitInv, NextInv, PTL DEF Spec

\* Sending never stops for good: as long as State refuses frames, the
\* interrupt that makes it ready is enabled and due or to come, for any number
\* of bus errors, early interrupts and threads (CAN_Transmit_IT,
\* HAL_CAN_ErrorCallback).
THEOREM BusyUnderway == Spec => []BusyIsUnderway
<1>1. IInv => BusyIsUnderway
  BY DEF IInv
<1> QED
  BY <1>1, InitInv, NextInv, PTL DEF Spec
-----------------------------------------------------------------------------
(* A frame is in one place. *)

Occ(s, f) == Cardinality({i \in DOMAIN s : s[i] = f})
Boxed == [i \in DOMAIN boxes |-> boxes[i].frame]
Num(f) == Occ(queue, f) + Occ(Boxed, f) + Occ(out, f)

\* Frames that Send has accepted, and the mail of a thread still in CAN_push.
Placed == accepted \cup {Frame(t) : t \in {s \in Senders : pc[s] = "again"}}

OnlyOnce ==
  ~clash =>
    /\ aborted \subseteq Placed
    /\ \A f \in Frames : Num(f) = IF f \in Placed \ aborted THEN 1 ELSE 0

\* A frame in CAN_push has not been accepted, nor any later one.
Fresh ==
  /\ \A f \in accepted : f[2] <= count[f[1]]
  /\ \A t \in Senders : pc[t] # "idle" => Frame(t) \notin accepted

LEMMA OccNat ==
  ASSUME NEW s \in Seq(Frames), NEW f
  PROVE  IsFiniteSet({i \in DOMAIN s : s[i] = f}) /\ Occ(s, f) \in Nat
<1>1. Len(s) \in Nat /\ DOMAIN s = 1..Len(s)
  OBVIOUS
<1>2. IsFiniteSet(1..Len(s))
  <2>1. 1 \in Int /\ Len(s) \in Int
    BY <1>1
  <2> QED
    BY <2>1, FS_Interval
<1>3. IsFiniteSet({i \in DOMAIN s : s[i] = f})
  BY <1>1, <1>2, FS_Subset
<1> QED
  BY <1>3, FS_CardinalityType DEF Occ

LEMMA OccAppend ==
  ASSUME NEW s \in Seq(Frames), NEW x \in Frames, NEW f
  PROVE  /\ Append(s, x) \in Seq(Frames)
         /\ Occ(Append(s, x), f) = Occ(s, f) + (IF x = f THEN 1 ELSE 0)
<1> DEFINE I == {i \in DOMAIN s : s[i] = f}
           J == {i \in DOMAIN Append(s, x) : Append(s, x)[i] = f}
           n == Len(s) + 1
<1>1. /\ Append(s, x) \in Seq(Frames)
      /\ Len(s) \in Nat /\ DOMAIN s = 1..Len(s) /\ DOMAIN Append(s, x) = 1..Len(s) + 1
      /\ \A i \in 1..Len(s) : Append(s, x)[i] = s[i]
      /\ Append(s, x)[Len(s) + 1] = x
  OBVIOUS
<1>2. J = IF x = f THEN I \cup {n} ELSE I
  <2>1. \A i : i \in 1..Len(s) + 1 <=> i \in 1..Len(s) \/ i = Len(s) + 1
    BY <1>1
  <2>2. \A i : i \in J <=> i \in I \/ (i = n /\ x = f)
    BY <1>1, <2>1
  <2> QED
    BY <2>2
<1>3. n \notin I
  BY <1>1
<1>4. IsFiniteSet(I) /\ Cardinality(I) \in Nat
  BY OccNat DEF Occ
<1> HIDE DEF I, J, n
<1>5. Cardinality(J) = Cardinality(I) + (IF x = f THEN 1 ELSE 0)
  <2>1. Cardinality(I \cup {n}) = IF n \in I THEN Cardinality(I) ELSE Cardinality(I) + 1
    BY <1>4, FS_AddElement
  <2>2. CASE x = f
    BY <1>2, <1>3, <2>1, <2>2
  <2>3. CASE x # f
    BY <1>2, <1>4, <2>3
  <2> QED
    BY <2>2, <2>3
<1> QED
  BY <1>1, <1>5 DEF Occ, I, J

LEMMA OccTail ==
  ASSUME NEW s \in Seq(Frames), s # <<>>, NEW f
  PROVE  /\ Tail(s) \in Seq(Frames) /\ Head(s) \in Frames
         /\ Occ(s, f) = Occ(Tail(s), f) + (IF Head(s) = f THEN 1 ELSE 0)
<1> DEFINE I == {i \in DOMAIN s : s[i] = f}
           J == {i \in DOMAIN Tail(s) : Tail(s)[i] = f}
           b == [i \in J |-> i + 1]
<1>1. /\ Tail(s) \in Seq(Frames) /\ Head(s) \in Frames /\ Head(s) = s[1]
      /\ Len(s) \in Nat \ {0} /\ DOMAIN s = 1..Len(s) /\ DOMAIN Tail(s) = 1..Len(s) - 1
      /\ \A i \in 1..Len(s) - 1 : Tail(s)[i] = s[i + 1]
  OBVIOUS
<1>2. IsFiniteSet(I) /\ IsFiniteSet(J)
  BY <1>1, OccNat
<1>3. b \in Bijection(J, I \ {1})
  <2>1. \A i \in J : i \in Nat /\ i + 1 \in I /\ i + 1 # 1
    BY <1>1
  <2>2. b \in [J -> I \ {1}]
    BY <2>1
  <2>3. \A i, k \in J : b[i] = b[k] => i = k
    BY <2>1
  <2>4. \A k \in I \ {1} : k - 1 \in J /\ b[k - 1] = k
    BY <1>1
  <2>5. \A k \in I \ {1} : \E i \in J : b[i] = k
    BY <2>4
  <2> QED
    BY <2>2, <2>3, <2>5 DEF Bijection, Injection, Surjection, IsInjective
<1>4. Cardinality(I \ {1}) = Cardinality(J)
  BY <1>2, <1>3, FS_Bijection DEF ExistsBijection
<1>5. 1 \in I <=> Head(s) = f
  BY <1>1
<1>6. Cardinality(I) \in Nat
  BY <1>2, FS_CardinalityType
<1> HIDE DEF I, J, b
<1>7. Cardinality(I) = Cardinality(J) + (IF Head(s) = f THEN 1 ELSE 0)
  <2>1. Cardinality(I \ {1}) = IF 1 \in I THEN Cardinality(I) - 1 ELSE Cardinality(I)
    BY <1>2, FS_RemoveElement
  <2>2. CASE Head(s) = f
    BY <1>4, <1>5, <1>6, <2>1, <2>2
  <2>3. CASE Head(s) # f
    BY <1>4, <1>5, <1>6, <2>1, <2>3
  <2> QED
    BY <2>2, <2>3
<1> QED
  BY <1>1, <1>7 DEF Occ, I, J

LEMMA ElementIn ==
  ASSUME NEW S, NEW s \in Seq(S), NEW i \in 1..Len(s)
  PROVE  s[i] \in S
  OBVIOUS

LEMMA BoxedIs ==
  ASSUME boxes \in Seq(Mails)
  PROVE  /\ Boxed \in Seq(Frames)
         /\ \A f : {i \in DOMAIN Boxed : Boxed[i] = f} = InBoxes(f)
         /\ \A m \in Mails : boxes' = Append(boxes, m) => Boxed' = Append(Boxed, m.frame)
         /\ boxes # <<>> /\ boxes' = Tail(boxes) =>
              Boxed # <<>> /\ Head(Boxed) = Head(boxes).frame /\ Boxed' = Tail(Boxed)
<1>1. /\ Len(boxes) \in Nat /\ DOMAIN boxes = 1..Len(boxes)
      /\ \A i \in 1..Len(boxes) : boxes[i].frame \in Frames
  <2>1. Len(boxes) \in Nat /\ DOMAIN boxes = 1..Len(boxes)
    OBVIOUS
  <2>2. \A i \in 1..Len(boxes) : boxes[i] \in Mails
    BY ElementIn
  <2> QED
    BY <2>1, <2>2 DEF Mails
<1>2. Boxed \in Seq(Frames) /\ Len(Boxed) = Len(boxes)
  BY <1>1 DEF Boxed
<1>3. \A f : {i \in DOMAIN Boxed : Boxed[i] = f} = InBoxes(f)
  BY <1>1 DEF Boxed, InBoxes
<1>4. ASSUME NEW m \in Mails, boxes' = Append(boxes, m) PROVE Boxed' = Append(Boxed, m.frame)
  <2>1. m.frame \in Frames
    BY DEF Mails
  <2>2. /\ DOMAIN boxes' = 1..Len(boxes) + 1 /\ boxes'[Len(boxes) + 1] = m
        /\ \A i \in 1..Len(boxes) : boxes'[i] = boxes[i]
    BY <1>1, <1>4
  <2>3. Boxed' = [i \in 1..Len(boxes) + 1 |-> boxes'[i].frame]
    BY <2>2 DEF Boxed
  <2>4. Append(Boxed, m.frame) = [i \in 1..Len(boxes) + 1 |-> boxes'[i].frame]
    BY <1>1, <1>2, <2>1, <2>2 DEF Boxed
  <2> QED
    BY <2>3, <2>4
<1>5. ASSUME boxes # <<>>, boxes' = Tail(boxes)
      PROVE  Boxed # <<>> /\ Head(Boxed) = Head(boxes).frame /\ Boxed' = Tail(Boxed)
  <2>1. /\ Len(boxes) >= 1 /\ Head(boxes) = boxes[1] /\ DOMAIN boxes' = 1..Len(boxes) - 1
        /\ \A i \in 1..Len(boxes) - 1 : boxes'[i] = boxes[i + 1]
    BY <1>5
  <2>2. Boxed # <<>> /\ Head(Boxed) = Boxed[1] /\ Boxed[1] = boxes[1].frame
    BY <1>1, <1>2, <2>1 DEF Boxed
  <2>3. Boxed' = [i \in 1..Len(boxes) - 1 |-> boxes[i + 1].frame]
    BY <2>1 DEF Boxed
  <2>4. Tail(Boxed) = [i \in 1..Len(boxes) - 1 |-> boxes[i + 1].frame]
    BY <1>1, <1>2, <2>1 DEF Boxed
  <2> QED
    BY <2>1, <2>2, <2>3, <2>4
<1> QED
  BY <1>2, <1>3, <1>4, <1>5

\* The counts after one of the things that happen to the places.
LEMMA Nums ==
  ASSUME IInv, NEW f
  PROVE  /\ Occ(queue, f) \in Nat /\ Occ(Boxed, f) \in Nat /\ Occ(out, f) \in Nat
         /\ \A x \in Frames : queue' = Append(queue, x) =>
              Occ(queue, f)' = Occ(queue, f) + (IF x = f THEN 1 ELSE 0)
         /\ queue # <<>> /\ queue' = Tail(queue) =>
              /\ Head(queue) \in Frames
              /\ Occ(queue, f) = Occ(queue, f)' + (IF Head(queue) = f THEN 1 ELSE 0)
              /\ Occ(queue, f)' \in Nat
         /\ \A m \in Mails : boxes' = Append(boxes, m) =>
              Occ(Boxed, f)' = Occ(Boxed, f) + (IF m.frame = f THEN 1 ELSE 0)
         /\ boxes # <<>> /\ boxes' = Tail(boxes) =>
              /\ Head(boxes).frame \in Frames
              /\ Occ(Boxed, f) = Occ(Boxed, f)' + (IF Head(boxes).frame = f THEN 1 ELSE 0)
              /\ Occ(Boxed, f)' \in Nat
         /\ \A x \in Frames : out' = Append(out, x) =>
              Occ(out, f)' = Occ(out, f) + (IF x = f THEN 1 ELSE 0)
<1>1. queue \in Seq(Frames) /\ boxes \in Seq(Mails) /\ out \in Seq(Frames) /\ Boxed \in Seq(Frames)
  BY BoxedIs DEF IInv, TypeOK, Mails
<1>2. ASSUME NEW m \in Mails, boxes' = Append(boxes, m)
      PROVE  Occ(Boxed', f) = Occ(Boxed, f) + (IF m.frame = f THEN 1 ELSE 0)
  <2>1. Boxed' = Append(Boxed, m.frame) /\ m.frame \in Frames
    BY <1>1, <1>2, BoxedIs DEF Mails
  <2> QED
    BY <1>1, <2>1, OccAppend
<1>3. ASSUME boxes # <<>>, boxes' = Tail(boxes)
      PROVE  /\ Head(boxes).frame \in Frames
             /\ Occ(Boxed, f) = Occ(Boxed', f) + (IF Head(boxes).frame = f THEN 1 ELSE 0)
             /\ Occ(Boxed', f) \in Nat
  <2>1. Boxed # <<>> /\ Head(Boxed) = Head(boxes).frame /\ Boxed' = Tail(Boxed)
    BY <1>1, <1>3, BoxedIs
  <2> QED
    BY <1>1, <2>1, OccTail, OccNat
<1>4. ASSUME queue # <<>>, queue' = Tail(queue)
      PROVE  /\ Head(queue) \in Frames
             /\ Occ(queue, f) = Occ(queue', f) + (IF Head(queue) = f THEN 1 ELSE 0)
             /\ Occ(queue', f) \in Nat
  BY <1>1, <1>4, OccTail, OccNat
<1>5. \A x \in Frames : queue' = Append(queue, x) =>
              Occ(queue', f) = Occ(queue, f) + (IF x = f THEN 1 ELSE 0)
  BY <1>1, OccAppend
<1>6. \A x \in Frames : out' = Append(out, x) =>
              Occ(out', f) = Occ(out, f) + (IF x = f THEN 1 ELSE 0)
  BY <1>1, OccAppend
<1>7. Occ(queue, f) \in Nat /\ Occ(Boxed, f) \in Nat /\ Occ(out, f) \in Nat
  BY <1>1, OccNat
<1> QED
  BY <1>2, <1>3, <1>4, <1>5, <1>6, <1>7 DEF Occ

LEMMA HwWrPuts ==
  ASSUME NEW f \in Frames, NEW p \in BOOLEAN, HwWr(f, p), clash \in BOOLEAN, ~clash'
  PROVE  ~clash /\ ~p /\ \E m \in Mails : m.frame = f /\ boxes' = Append(boxes, m)
<1>1. Idle /\ FreeBoxes # {}
  BY DEF HwWr
<1>2. PICK b : b = Lowest(FreeBoxes)
  OBVIOUS
<1>3. b \in Mailboxes
  BY <1>1, <1>2, LowestIn DEF FreeBoxes
<1>4. PICK m : m = [box |-> b, frame |-> f]
  OBVIOUS
<1>5. m \in Mails /\ m.frame = f
  BY <1>3, <1>4 DEF Mails
<1>6. boxes' = Append(boxes, m) /\ clash' = (clash \/ p)
  BY <1>1, <1>2, <1>4 DEF HwWr
<1> QED
  BY <1>5, <1>6

\* Nothing moves.
LEMMA NoneMoves ==
  ASSUME OnlyOnce, UNCHANGED <<queue, boxes, out, aborted, clash>>, Placed' = Placed
  PROVE  OnlyOnce'
<1>1. Boxed' = Boxed
  BY DEF Boxed
<1>2. \A f : Num(f)' = Num(f)
  BY <1>1 DEF Num, Occ
<1> QED
  BY <1>2 DEF OnlyOnce

LEMMA PlacedNext ==
  ASSUME IInv, NEW t \in Senders, pc[t] # "idle", count' = count,
         NEW p, (p # "idle" /\ Goto(t, p)) \/ (p = "idle" /\ Leave(t))
  PROVE  /\ Placed = accepted \cup (IF pc[t] = "again" THEN {Frame(t)} ELSE {})
         /\ Placed' = accepted' \cup (IF p = "again" THEN {Frame(t)} ELSE {})
         /\ Fresh /\ accepted' \in {accepted, accepted \cup {Frame(t)}}
            /\ (p = "idle" \/ accepted' = accepted) => Fresh'
<1>1. pc \in [Threads -> {"idle", "push", "queue", "again", "receive", "pull"}] /\ t \in Threads
  BY DEF IInv, TypeOK, Threads
<1>2. owner = t /\ \A s \in Senders : s # t => pc[s] = "idle"
  <2>1. owner = t
    BY <1>1 DEF IInv, Mutex
  <2> QED
    BY <2>1 DEF IInv, Mutex, Threads
<1>3. pc'[t] = p /\ \A s \in Senders : s # t => pc'[s] = "idle"
  BY <1>1, <1>2 DEF Goto, Leave, Threads
<1>4. Placed = accepted \cup (IF pc[t] = "again" THEN {Frame(t)} ELSE {})
  BY <1>2 DEF Placed
<1>5. Placed' = accepted' \cup (IF p = "again" THEN {Frame(t)} ELSE {})
  BY <1>3 DEF Placed, Frame
<1>6. ASSUME Fresh, accepted' \in {accepted, accepted \cup {Frame(t)}},
             p = "idle" \/ accepted' = accepted
      PROVE  Fresh'
  <2>1. count[t] \in Nat
    BY CanDriverAssumption DEF IInv, TypeOK
  <2>2. \A f \in accepted' : f[2] <= count[f[1]]
    BY <1>6, <2>1 DEF Fresh, Frame
  <2>3. ASSUME NEW s \in Senders, pc'[s] # "idle" PROVE <<s, count[s]>> \notin accepted'
    <3>1. s = t /\ accepted' = accepted
      BY <1>3, <1>6, <2>3
    <3> QED
      BY <1>6, <3>1 DEF Fresh, Frame
  <2> QED
    BY <2>2, <2>3 DEF Fresh, Frame
<1> QED
  BY <1>4, <1>5, <1>6

LEMMA PushOnce ==
  ASSUME IInv, Fresh, OnlyOnce, NEW t \in Senders, Push(t)
  PROVE  Fresh' /\ OnlyOnce'
<1>1. /\ pc[t] = "push" /\ count' = count /\ queue' = queue /\ out' = out /\ aborted' = aborted
  BY DEF Push
<1>2. PICK g \in Frames : g = Frame(t)
  BY <1>1 DEF IInv, HasFrame
<1>3. g \notin accepted /\ clash \in BOOLEAN
  BY <1>1, <1>2 DEF Fresh, IInv, TypeOK
<1>4. CASE ~TxEmpty
  <2>1. Goto(t, "queue") /\ boxes' = boxes /\ clash' = clash /\ accepted' = accepted
    BY <1>4 DEF Push, hwVars
  <2>2. Placed' = Placed /\ Fresh'
    BY <1>1, <2>1, PlacedNext
  <2> QED
    BY <1>1, <2>1, <2>2, NoneMoves
<1>5. CASE TxEmpty
  <2>1. HwWr(g, FALSE) /\ Leave(t) /\ accepted' = accepted \cup {g}
    BY <1>2, <1>5 DEF Push, Accept, HwWr
  <2>2. Placed' = Placed \cup {g} /\ Placed = accepted /\ Fresh'
    BY <1>1, <1>2, <2>1, PlacedNext
  <2>3. ASSUME ~clash', NEW f \in Frames
        PROVE  /\ aborted \subseteq Placed
               /\ Num(f)' = IF f \in (Placed \cup {g}) \ aborted THEN 1 ELSE 0
    <3>1. ~clash /\ \E m \in Mails : m.frame = g /\ boxes' = Append(boxes, m)
      BY <1>3, <2>1, <2>3, HwWrPuts
    <3>2. aborted \subseteq Placed /\ Num(f) = IF f \in Placed \ aborted THEN 1 ELSE 0
      BY <3>1 DEF OnlyOnce
    <3>3. /\ Occ(Boxed, f)' = Occ(Boxed, f) + (IF g = f THEN 1 ELSE 0)
          /\ Occ(queue, f)' = Occ(queue, f) /\ Occ(out, f)' = Occ(out, f)
          /\ Occ(queue, f) \in Nat /\ Occ(Boxed, f) \in Nat /\ Occ(out, f) \in Nat
      <4>1. Occ(queue, f)' = Occ(queue, f) /\ Occ(out, f)' = Occ(out, f)
        BY <1>1 DEF Occ
      <4>2. Occ(Boxed, f)' = Occ(Boxed, f) + (IF g = f THEN 1 ELSE 0)
        BY <3>1, Nums
      <4> QED
        BY <4>1, <4>2, Nums
    <3>4. Num(f)' = Num(f) + (IF g = f THEN 1 ELSE 0) /\ Num(f) \in Nat
      BY <3>3 DEF Num
    <3> QED
      BY <1>3, <2>2, <3>2, <3>4
  <2> QED
    BY <1>1, <2>2, <2>3 DEF OnlyOnce
<1> QED
  BY <1>4, <1>5

LEMMA PutOnce ==
  ASSUME IInv, Fresh, OnlyOnce, NEW t \in Senders, Put(t)
  PROVE  Fresh' /\ OnlyOnce'
<1>1. /\ pc[t] = "queue" /\ count' = count /\ boxes' = boxes /\ out' = out
      /\ aborted' = aborted /\ accepted' = accepted /\ clash' = clash /\ Goto(t, "again")
  BY DEF Put, hwVars, history
<1>2. PICK g \in Frames : g = Frame(t)
  BY <1>1 DEF IInv, HasFrame
<1>3. g \notin accepted /\ queue' = Append(queue, g)
  BY <1>1, <1>2 DEF Fresh, Put
<1>4. Placed' = Placed \cup {g} /\ Placed = accepted /\ Fresh'
  BY <1>1, <1>2, PlacedNext
<1>5. ASSUME ~clash, NEW f \in Frames
      PROVE  /\ aborted \subseteq Placed
             /\ Num(f)' = IF f \in (Placed \cup {g}) \ aborted THEN 1 ELSE 0
  <2>1. aborted \subseteq Placed /\ Num(f) = IF f \in Placed \ aborted THEN 1 ELSE 0
    BY <1>5 DEF OnlyOnce
  <2>2. /\ Occ(queue, f)' = Occ(queue, f) + (IF g = f THEN 1 ELSE 0)
        /\ Occ(Boxed, f)' = Occ(Boxed, f) /\ Occ(out, f)' = Occ(out, f)
        /\ Occ(queue, f) \in Nat /\ Occ(Boxed, f) \in Nat /\ Occ(out, f) \in Nat
    <3>1. Occ(Boxed, f)' = Occ(Boxed, f) /\ Occ(out, f)' = Occ(out, f)
      BY <1>1 DEF Occ, Boxed
    <3>2. Occ(queue, f)' = Occ(queue, f) + (IF g = f THEN 1 ELSE 0)
      BY <1>3, Nums
    <3> QED
      BY <3>1, <3>2, Nums
  <2>3. Num(f)' = Num(f) + (IF g = f THEN 1 ELSE 0) /\ Num(f) \in Nat
    BY <2>2 DEF Num
  <2> QED
    BY <1>3, <1>4, <2>1, <2>3
<1> QED
  BY <1>1, <1>4, <1>5 DEF OnlyOnce

\* A mail goes to the hardware.
LEMMA MailMoves ==
  ASSUME IInv, OnlyOnce, queue # <<>>, queue' = Tail(queue), NEW p \in BOOLEAN,
         NEW g \in Frames, HwWr(g, p), p = (Head(queue) # g),
         out' = out, aborted' = aborted, Placed' = Placed
  PROVE  OnlyOnce'
<1>1. clash \in BOOLEAN
  BY DEF IInv, TypeOK
<1>2. ASSUME ~clash', NEW f \in Frames
      PROVE  ~clash /\ Num(f)' = Num(f)
  <2>1. ~clash /\ ~p /\ \E m \in Mails : m.frame = g /\ boxes' = Append(boxes, m)
    BY <1>1, <1>2, HwWrPuts
  <2>2. /\ Occ(queue, f) = Occ(queue, f)' + (IF g = f THEN 1 ELSE 0)
        /\ Occ(Boxed, f)' = Occ(Boxed, f) + (IF g = f THEN 1 ELSE 0)
        /\ Occ(queue, f)' \in Nat /\ Occ(Boxed, f) \in Nat /\ Occ(out, f) \in Nat
        /\ Occ(out, f)' = Occ(out, f)
    <3>1. Occ(out, f)' = Occ(out, f)
      BY DEF Occ
    <3>2. Occ(Boxed, f)' = Occ(Boxed, f) + (IF g = f THEN 1 ELSE 0)
      BY <2>1, Nums
    <3>3. Occ(queue, f) = Occ(queue, f)' + (IF g = f THEN 1 ELSE 0)
      BY <2>1, Nums
    <3> QED
      BY <3>1, <3>2, <3>3, Nums
  <2> QED
    BY <2>1, <2>2 DEF Num
<1>3. ASSUME ~clash', ~clash PROVE OnlyOnce'
  BY <1>2, <1>3 DEF OnlyOnce
<1>4. ASSUME ~clash', clash PROVE Frames = {}
  BY <1>2, <1>4
<1> QED
  BY <1>3, <1>4 DEF OnlyOnce

LEMMA AgainOnce ==
  ASSUME IInv, Fresh, OnlyOnce, NEW t \in Senders, Again(t)
  PROVE  Fresh' /\ OnlyOnce'
<1>1. /\ pc[t] = "again" /\ count' = count /\ out' = out /\ aborted' = aborted
      /\ accepted' = accepted \cup {Frame(t)} /\ Leave(t)
  BY DEF Again, Accept
<1>2. PICK g \in Frames : g = Frame(t)
  BY <1>1 DEF IInv, HasFrame
<1>3. Placed' = Placed /\ Fresh'
  BY <1>1, <1>2, PlacedNext
<1>4. CASE ~TxEmpty
  <2>1. queue' = queue /\ boxes' = boxes /\ clash' = clash
    BY <1>4 DEF Again, hwVars
  <2> QED
    BY <1>1, <1>3, <2>1, NoneMoves
<1>5. CASE TxEmpty
  <2>1. PICK p \in BOOLEAN : p = (Head(queue) # g)
    OBVIOUS
  <2>2. HwWr(g, p) /\ queue' = Tail(queue)
    BY <1>2, <1>5, <2>1 DEF Again, HwWr
  <2>3. queue # <<>>
    BY <1>1 DEF IInv, MailIsThere, Threads
  <2> QED
    BY <1>1, <1>3, <2>1, <2>2, <2>3, MailMoves
<1> QED
  BY <1>4, <1>5

\* The steps that no frame is accepted in, and no sender is moved.
LEMMA FreshStays ==
  ASSUME Fresh, count' = count, accepted' = accepted, \A s \in Senders : pc'[s] = pc[s]
  PROVE  Fresh' /\ Placed' = Placed
  BY DEF Fresh, Placed, Frame

LEMMA PollOnce ==
  ASSUME IInv, Fresh, OnlyOnce, PollEnter \/ PollStep
  PROVE  Fresh' /\ OnlyOnce'
<1>1. \A s \in Senders : pc'[s] = pc[s]
  BY CanDriverAssumption
     DEF PollEnter, PollStep, Receive, Pull, Goto, Leave, IInv, TypeOK, Threads
<1>2. count' = count /\ accepted' = accepted /\ out' = out /\ aborted' = aborted
  BY DEF PollEnter, PollStep, Receive, Pull, history
<1>3. Fresh' /\ Placed' = Placed
  BY <1>1, <1>2, FreshStays
<1>4. CASE Receive /\ queue # <<>>
  <2>1. PICK g \in Frames : g = Head(queue)
    BY <1>4, OccTail DEF IInv, TypeOK
  <2>2. HwWr(g, FALSE) /\ queue' = Tail(queue)
    BY <1>4, <2>1 DEF Receive, HwWr
  <2> QED
    BY <1>2, <1>3, <1>4, <2>1, <2>2, MailMoves
<1>5. CASE ~(Receive /\ queue # <<>>)
  <2>1. queue' = queue /\ boxes' = boxes /\ clash' = clash
    BY <1>5 DEF PollEnter, PollStep, Receive, Pull, hwVars, history
  <2> QED
    BY <1>2, <1>3, <2>1, NoneMoves
<1> QED
  BY <1>4, <1>5

LEMMA BusOnce ==
  ASSUME IInv, Fresh, OnlyOnce, Bus
  PROVE  Fresh' /\ OnlyOnce'
<1>1. /\ pc' = pc /\ count' = count /\ queue' = queue /\ accepted' = accepted /\ clash' = clash
  BY DEF Bus, Transmitted, TxError, RxError, threadVars
<1>2. Fresh' /\ Placed' = Placed
  BY <1>1, FreshStays
<1>3. CASE Transmitted
  <2>1. PICK x : x = Head(boxes).frame
    OBVIOUS
  <2>2. /\ boxes # <<>> /\ boxes' = Tail(boxes) /\ out' = Append(out, x) /\ aborted' = aborted
    BY <1>3, <2>1 DEF Transmitted
  <2>3. \A f \in Frames : Num(f)' = Num(f)
    <3> SUFFICES ASSUME NEW f \in Frames PROVE Num(f)' = Num(f)
      OBVIOUS
    <3>1. /\ x \in Frames /\ Occ(Boxed, f)' \in Nat
          /\ Occ(Boxed, f) = Occ(Boxed, f)' + (IF x = f THEN 1 ELSE 0)
          /\ Occ(queue, f) \in Nat /\ Occ(out, f) \in Nat
      BY <2>1, <2>2, Nums
    <3>2. Occ(out, f)' = Occ(out, f) + (IF x = f THEN 1 ELSE 0)
      BY <2>2, <3>1, Nums
    <3>3. Occ(queue, f)' = Occ(queue, f)
      BY <1>1 DEF Occ
    <3> QED
      BY <3>1, <3>2, <3>3 DEF Num
  <2> QED
    BY <1>1, <1>2, <2>2, <2>3 DEF OnlyOnce
<1>4. CASE TxError
  <2>1. PICK x : x = Head(boxes).frame
    OBVIOUS
  <2>2. /\ boxes # <<>> /\ boxes' = Tail(boxes) /\ out' = out /\ aborted' = aborted \cup {x}
    BY <1>4, <2>1 DEF TxError
  <2>3. ASSUME NEW f \in Frames
        PROVE  /\ x \in Frames /\ Num(f) = Num(f)' + (IF x = f THEN 1 ELSE 0)
               /\ Num(f)' \in Nat
    <3>1. /\ x \in Frames /\ Occ(Boxed, f)' \in Nat
          /\ Occ(Boxed, f) = Occ(Boxed, f)' + (IF x = f THEN 1 ELSE 0)
          /\ Occ(queue, f) \in Nat /\ Occ(out, f) \in Nat
      BY <2>1, <2>2, Nums
    <3>2. Occ(out, f)' = Occ(out, f) /\ Occ(queue, f)' = Occ(queue, f)
      BY <1>1, <2>2 DEF Occ
    <3> QED
      BY <3>1, <3>2 DEF Num
  <2>4. ASSUME ~clash
        PROVE  /\ aborted' \subseteq Placed
               /\ \A f \in Frames : Num(f)' = IF f \in Placed \ aborted' THEN 1 ELSE 0
    <3>1. /\ aborted \subseteq Placed
          /\ \A f \in Frames : Num(f) = IF f \in Placed \ aborted THEN 1 ELSE 0
      BY <2>4 DEF OnlyOnce
    <3>2. x \in Frames
      BY <2>1, <2>2, Nums
    <3>3. x \in Placed /\ x \notin aborted
      BY <2>3, <3>1, <3>2
    <3>4. ASSUME NEW f \in Frames PROVE Num(f)' = IF f \in Placed \ aborted' THEN 1 ELSE 0
      <4>1. Num(f) = Num(f)' + (IF x = f THEN 1 ELSE 0) /\ Num(f)' \in Nat
        BY <2>3
      <4>2. Num(f) = IF f \in Placed \ aborted THEN 1 ELSE 0
        BY <3>1
      <4> QED
        BY <2>2, <3>3, <4>1, <4>2
    <3> QED
      BY <2>2, <3>1, <3>3, <3>4
  <2> QED
    BY <1>1, <1>2, <2>4 DEF OnlyOnce
<1>5. CASE RxError
  <2>1. boxes' = boxes /\ out' = out /\ aborted' = aborted
    BY <1>5 DEF RxError
  <2> QED
    BY <1>1, <1>2, <2>1, NoneMoves
<1> QED
  BY <1>3, <1>4, <1>5 DEF Bus

LEMMA EnterOnce ==
  ASSUME IInv, Fresh, OnlyOnce, NEW t \in Senders, Enter(t)
  PROVE  Fresh' /\ OnlyOnce'
<1>1. /\ pc[t] = "idle" /\ owner = Nobody /\ count' = [count EXCEPT ![t] = @ + 1]
      /\ pc' = [pc EXCEPT ![t] = "push"] /\ accepted' = accepted
      /\ UNCHANGED <<queue, boxes, out, aborted, clash>>
  BY DEF Enter, hwVars, history
<1>2. /\ pc \in [Threads -> {"idle", "push", "queue", "again", "receive", "pull"}]
      /\ count \in [Senders -> 0..MaxFrames] /\ accepted \subseteq Frames
  BY DEF IInv, TypeOK
<1>3. \A s \in Senders : pc[s] = "idle"
  BY <1>1, CanDriverAssumption DEF IInv, Mutex, Threads
<1>4. \A s \in Senders : pc'[s] = IF s = t THEN "push" ELSE "idle"
  BY <1>1, <1>2, <1>3 DEF Threads
<1>5. Placed' = Placed
  BY <1>1, <1>3, <1>4 DEF Placed
<1>6. count[t] \in Nat /\ count'[t] = count[t] + 1
  BY <1>1, <1>2
<1>7. \A f \in accepted : f[2] <= count'[f[1]]
  <2> SUFFICES ASSUME NEW f \in accepted PROVE f[2] <= count'[f[1]]
    OBVIOUS
  <2>1. PICK s, k : s = f[1] /\ k = f[2]
    OBVIOUS
  <2>2. s \in Senders /\ k \in Int /\ k <= count[s]
    BY <1>2, <2>1 DEF Fresh, Frames
  <2>3. count[s] \in Int /\ (count'[s] = count[s] \/ count'[s] = count[s] + 1)
    BY <1>1, <1>2, <2>2
  <2> QED
    BY <2>1, <2>2, <2>3
<1>8. <<t, count'[t]>> \notin accepted
  <2> SUFFICES ASSUME <<t, count'[t]>> \in accepted PROVE FALSE
    OBVIOUS
  <2>1. count'[t] <= count[t]
    BY DEF Fresh
  <2> QED
    BY <1>6, <2>1
<1>9. Fresh'
  BY <1>1, <1>4, <1>7, <1>8 DEF Fresh, Frame
<1> QED
  BY <1>1, <1>5, <1>9, NoneMoves

LEMMA OnceNext == IInv /\ Fresh /\ OnlyOnce /\ [Next]_vars => Fresh' /\ OnlyOnce'
<1> SUFFICES ASSUME IInv, Fresh, OnlyOnce, [Next]_vars PROVE Fresh' /\ OnlyOnce'
  OBVIOUS
<1>1. ASSUME NEW t \in Senders, QueueFull(t) PROVE Fresh' /\ OnlyOnce'
  <2>1. /\ pc[t] = "queue" /\ Leave(t) /\ count' = count /\ accepted' = accepted
        /\ UNCHANGED <<queue, boxes, out, aborted, clash>>
    BY <1>1 DEF QueueFull, hwVars, history
  <2>2. Placed' = Placed /\ Fresh'
    BY <2>1, PlacedNext
  <2> QED
    BY <2>1, <2>2, NoneMoves
<1>2. ASSUME Interrupt \/ UNCHANGED vars PROVE Fresh' /\ OnlyOnce'
  <2>1. /\ pc' = pc /\ count' = count /\ accepted' = accepted
        /\ UNCHANGED <<queue, boxes, out, aborted, clash>>
    BY <1>2 DEF Interrupt, TxInterrupt, RxInterrupt, threadVars, history, vars
  <2>2. Placed' = Placed /\ Fresh'
    BY <2>1, FreshStays
  <2> QED
    BY <2>1, <2>2, NoneMoves
<1>3. ASSUME NEW t \in Senders, Enter(t) \/ SendStep(t) PROVE Fresh' /\ OnlyOnce'
  BY <1>1, <1>3, EnterOnce, PushOnce, PutOnce, AgainOnce DEF SendStep
<1> QED
  BY <1>2, <1>3, PollOnce, BusOnce DEF Next

LEMMA OnceInit == Init => Fresh /\ OnlyOnce
<1> SUFFICES ASSUME Init PROVE Fresh /\ OnlyOnce
  OBVIOUS
<1>1. /\ queue = <<>> /\ boxes = <<>> /\ out = <<>> /\ accepted = {} /\ aborted = {}
      /\ \A t \in Senders : pc[t] = "idle"
  BY DEF Init, Threads
<1>2. Placed = {} /\ Fresh
  BY <1>1 DEF Placed, Fresh
<1>3. ASSUME NEW f PROVE Num(f) = 0
  <2>1. Boxed = <<>>
    BY <1>1 DEF Boxed
  <2>2. \A s : s = <<>> => Occ(s, f) = 0
    <3>1. \A s : s = <<>> => {i \in DOMAIN s : s[i] = f} = {}
      OBVIOUS
    <3> QED
      BY <3>1, FS_EmptySet DEF Occ
  <2> QED
    BY <1>1, <2>1, <2>2 DEF Num
<1> QED
  BY <1>1, <1>2, <1>3 DEF OnlyOnce

\* A frame that Send has accepted is in exactly one place, the mail queue, a
\* mailbox or the bus, or has met a bus error, for any senders, queue and
\* errors: unless the hardware refused a frame taken out of the queue, or
\* CAN_push wrote its own instead of the one it took out.
THEOREM SentExactlyOnce == Spec => []ExactlyOnce
<1>1. IInv /\ OnlyOnce => ExactlyOnce
  <2> SUFFICES ASSUME IInv, OnlyOnce, ~clash, NEW f \in accepted
               PROVE  Cardinality(InQueue(f)) + Cardinality(InBoxes(f)) + Cardinality(OnBus(f))
                        = IF f \in aborted THEN 0 ELSE 1
    BY DEF ExactlyOnce
  <2>1. f \in Frames /\ boxes \in Seq(Mails)
    BY DEF IInv, TypeOK, Mails
  <2>2. f \in Placed
    BY DEF Placed
  <2>3. Num(f) = Cardinality(InQueue(f)) + Cardinality(InBoxes(f)) + Cardinality(OnBus(f))
    BY <2>1, BoxedIs DEF Num, Occ, InQueue, OnBus
  <2> QED
    BY <2>1, <2>2, <2>3 DEF OnlyOnce
<1> QED
  BY <1>1, InitInv, NextInv, OnceInit, OnceNext, PTL DEF Spec
===============================================================================
