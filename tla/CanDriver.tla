------------------------------- MODULE CanDriver -------------------------------
(***************************************************************************)
(* How the controller's CAN driver sends a frame (Driver_CAN.c,             *)
(* CAN_STM32F40x.c and the part of stm32f4xx_hal_can.c that they use).      *)
(*   - Threads call Send under the mutex of CanEx, one frame each time.     *)
(*     CAN_push writes the frame to the hardware if the semaphore wr_sem    *)
(*     has a token and no transmission is under way, and puts it into the   *)
(*     mail queue otherwise.                                                *)
(*   - UpdateWorker calls Receive under the same mutex.  It takes one mail  *)
(*     and writes it to the hardware, or, if there is none, gives wr_sem a  *)
(*     token, every time.                                                   *)
(*   - The interrupt handler changes the HAL's State; its callback for a    *)
(*     completed transmission does nothing.                                 *)
(* HAL_CAN_Transmit_IT refuses a frame while State tells of a transmission  *)
(* or no mailbox is free, and nobody looks at its result.                   *)
(*                                                                         *)
(* A frame is known by its sender and a number.  Interrupts run between any *)
(* two steps of the threads, which the mutex keeps apart.                   *)
(***************************************************************************)
EXTENDS Integers, Sequences, FiniteSets

CONSTANTS
  Senders,      \* threads that send
  Poller,       \* UpdateWorker in CanEx::Poll
  Nobody,       \* the mutex is free
  QueueSize,    \* mails of MBX_tx_ctrl
  MaxFrames,    \* bound: frames of one sender
  MaxTokens,    \* bound: tokens of wr_sem that are counted
  MaxErrors     \* bound: errors on the bus

ASSUME CanDriverAssumption ==
  /\ Poller \notin Senders /\ Nobody \notin Senders \cup {Poller}
  /\ QueueSize \in Nat \ {0} /\ MaxFrames \in Nat
  /\ MaxTokens \in Nat \ {0} /\ MaxErrors \in Nat

VARIABLES
  owner,      \* of the mutex
  pc,         \* of each thread
  count,      \* of each sender: the frames it has begun to send
  tokens,     \* of wr_sem
  queue,      \* mails to be sent
  state,      \* hcan->State
  boxes,      \* the mailboxes in use, in the order of transmission (TXFP)
  done,       \* the mailboxes whose flags say that they were transmitted
  tme,        \* the interrupt for these flags is enabled
  accepted,   \* history: frames that Send has accepted
  out,        \* history: frames on the bus, in order
  aborted,    \* history: frames that met a bus error
  clash,      \* history: a frame was refused, or took the place of another
  errors      \* history: the number of bus errors

threadVars == <<owner, pc, count>>
hwVars == <<state, boxes, done, tme>>
history == <<accepted, out, aborted, clash, errors>>
vars == <<owner, pc, count, tokens, queue, state, boxes, done, tme,
          accepted, out, aborted, clash, errors>>

Threads == Senders \cup {Poller}
Frames == Senders \X (1..MaxFrames)
Mailboxes == 0..2

\* No mailbox is in use twice.
Apart(s) == \A i, j \in DOMAIN s : s[i].box = s[j].box => i = j

TypeOK ==
  /\ owner \in Threads \cup {Nobody}
  /\ pc \in [Threads -> {"idle", "push", "queue", "again", "receive", "pull"}]
  /\ count \in [Senders -> 0..MaxFrames]
  /\ tokens \in 0..MaxTokens
  /\ queue \in Seq(Frames) /\ Len(queue) <= QueueSize
  /\ state \in {"READY", "RX", "TX", "TX_RX"}
  /\ boxes \in Seq([box : Mailboxes, frame : Frames]) /\ Apart(boxes)
  /\ done \subseteq Mailboxes /\ tme \in BOOLEAN
  /\ accepted \subseteq Frames /\ out \in Seq(Frames) /\ aborted \subseteq Frames
  /\ clash \in BOOLEAN /\ errors \in 0..MaxErrors

\* CAN_init and CAN_hw_start: one token, and reception is on.
Init ==
  /\ owner = Nobody
  /\ pc = [t \in Threads |-> "idle"]
  /\ count = [t \in Senders |-> 0]
  /\ tokens = 1
  /\ queue = <<>>
  /\ state = "RX"
  /\ boxes = <<>> /\ done = {} /\ tme = FALSE
  /\ accepted = {} /\ out = <<>> /\ aborted = {} /\ clash = FALSE /\ errors = 0

-----------------------------------------------------------------------------
(* The hardware access that both threads use. *)

Idle == state \in {"READY", "RX"}
Occupied == {boxes[i].box : i \in DOMAIN boxes}
FreeBoxes == Mailboxes \ Occupied

Lowest(S) == CHOOSE b \in S : \A c \in S : b <= c

\* Variant for the checks: the interrupt is not enabled again.
HwWrSilent(frame, inPlace) ==
  IF Idle /\ FreeBoxes # {}
  THEN LET box == Lowest(FreeBoxes)
       IN  /\ boxes' = Append(boxes, [box |-> box, frame |-> frame])
           /\ done' = done \ {box}
           /\ tme' = tme
           /\ state' = IF state = "RX" THEN "TX_RX" ELSE "TX"
           /\ clash' = (clash \/ inPlace)
  ELSE UNCHANGED hwVars /\ clash' = TRUE

\* CAN_hw_wr: HAL_CAN_Transmit_IT takes the first free mailbox or refuses the
\* frame.  The request to transmit clears the mailbox's flags; but the interrupt
\* is enabled before that request, so flags of an earlier frame can let it
\* come at once, and State is then ready while the frame is under way.
\* inPlace: another frame was taken out of the queue for this one.
HwWr(frame, inPlace) ==
  IF Idle /\ FreeBoxes # {}
  THEN LET box == Lowest(FreeBoxes)
       IN  /\ boxes' = Append(boxes, [box |-> box, frame |-> frame])
           /\ done' = done \ {box}
           /\ \/ /\ tme' = TRUE
                 /\ state' = IF state = "RX" THEN "TX_RX" ELSE "TX"
              \/ /\ done # {}
                 /\ tme' = FALSE
                 /\ UNCHANGED state
           /\ clash' = (clash \/ inPlace)
  ELSE UNCHANGED hwVars /\ clash' = TRUE

\* CAN_hw_tx_empty: takes a token, which it puts back while State is busy.
TxEmpty == tokens > 0 /\ Idle

Release == tokens' = IF tokens < MaxTokens THEN tokens + 1 ELSE tokens

-----------------------------------------------------------------------------
(* A thread sends (CanEx::Transmit, CanEx::Sync). *)

Frame(t) == <<t, count[t]>>
Goto(t, place) == pc' = [pc EXCEPT ![t] = place] /\ UNCHANGED owner
Leave(t) == pc' = [pc EXCEPT ![t] = "idle"] /\ owner' = Nobody
Accept(t) == accepted' = accepted \cup {Frame(t)} /\ Leave(t)

Enter(t) ==
  /\ owner = Nobody /\ pc[t] = "idle" /\ count[t] < MaxFrames
  /\ owner' = t
  /\ count' = [count EXCEPT ![t] = @ + 1]
  /\ pc' = [pc EXCEPT ![t] = "push"]
  /\ UNCHANGED <<tokens, queue, hwVars, history>>

\* The hardware is free: the frame goes there.
Push(t) ==
  /\ pc[t] = "push"
  /\ IF TxEmpty
     THEN tokens' = tokens - 1 /\ HwWr(Frame(t), FALSE) /\ Accept(t)
     ELSE Goto(t, "queue") /\ UNCHANGED <<tokens, hwVars, accepted, clash>>
  /\ UNCHANGED <<count, queue, out, aborted, errors>>

\* osMailAlloc waits for room while the mutex keeps out the only thread that
\* makes room, and fails.
QueueFull(t) ==
  /\ pc[t] = "queue" /\ Len(queue) = QueueSize
  /\ Leave(t)
  /\ UNCHANGED <<count, tokens, queue, hwVars, history>>

\* Variant for the checks: the queue takes one mail too many.
PutBeyond(t) ==
  /\ pc[t] = "queue" /\ Len(queue) <= QueueSize
  /\ queue' = Append(queue, Frame(t))
  /\ Goto(t, "again")
  /\ UNCHANGED <<count, tokens, hwVars, history>>

Put(t) ==
  /\ pc[t] = "queue" /\ Len(queue) < QueueSize
  /\ queue' = Append(queue, Frame(t))
  /\ Goto(t, "again")
  /\ UNCHANGED <<count, tokens, hwVars, history>>

\* Variant for the checks: the mail is not taken out.
AgainKeepsMail(t) ==
  /\ pc[t] = "again"
  /\ IF TxEmpty
     THEN tokens' = tokens - 1 /\ UNCHANGED queue
          /\ HwWr(Frame(t), FALSE)
     ELSE UNCHANGED <<tokens, queue, hwVars, clash>>
  /\ Accept(t)
  /\ UNCHANGED <<count, out, aborted, errors>>

\* The hardware has become free: a mail is taken out and the caller's frame is
\* written.  (The queue is not empty here, since the caller's mail is in it.)
Again(t) ==
  /\ pc[t] = "again"
  /\ IF TxEmpty
     THEN tokens' = tokens - 1 /\ queue' = Tail(queue)
          /\ HwWr(Frame(t), Head(queue) # Frame(t))
     ELSE UNCHANGED <<tokens, queue, hwVars, clash>>
  /\ Accept(t)
  /\ UNCHANGED <<count, out, aborted, errors>>

-----------------------------------------------------------------------------
(* UpdateWorker polls (CanEx::Poll, CAN1_Receive). *)

PollEnter ==
  /\ owner = Nobody /\ pc[Poller] = "idle"
  /\ owner' = Poller
  /\ pc' = [pc EXCEPT ![Poller] = "receive"]
  /\ UNCHANGED <<count, tokens, queue, hwVars, history>>

Receive ==
  /\ pc[Poller] = "receive"
  /\ IF queue # <<>>
     THEN queue' = Tail(queue) /\ HwWr(Head(queue), FALSE) /\ UNCHANGED tokens
     ELSE Release /\ UNCHANGED <<queue, hwVars, clash>>
  /\ Goto(Poller, "pull")
  /\ UNCHANGED <<count, accepted, out, aborted, errors>>

\* CAN_pull waits for a received mail, for a millisecond at most.
Pull ==
  /\ pc[Poller] = "pull"
  /\ Leave(Poller)
  /\ UNCHANGED <<count, tokens, queue, hwVars, history>>

-----------------------------------------------------------------------------
(* The bus and the interrupts. *)

Transmitted ==
  /\ boxes # <<>>
  /\ out' = Append(out, Head(boxes).frame)
  /\ done' = done \cup {Head(boxes).box}
  /\ boxes' = Tail(boxes)
  /\ UNCHANGED <<threadVars, tokens, queue, state, tme,
                 accepted, aborted, clash, errors>>

\* CAN_Transmit_IT.  The flags stay set.
TxInterrupt ==
  /\ tme /\ done # {}
  /\ tme' = FALSE
  /\ state' = IF state = "TX_RX" THEN "RX" ELSE "READY"
  /\ UNCHANGED <<threadVars, tokens, queue, boxes, done, history>>

\* CAN_Receive_IT, whose callback starts reception again.
RxInterrupt ==
  /\ state \in {"READY", "TX"}
  /\ state' = "RX"
  /\ UNCHANGED <<threadVars, tokens, queue, boxes, done, tme, history>>

\* An error of the transmission under way: HAL_CAN_ErrorCallback aborts it,
\* clears all flags (TSR |= ...) and gives wr_sem a token.
TxError ==
  /\ boxes # <<>> /\ errors < MaxErrors
  /\ aborted' = aborted \cup {Head(boxes).frame}
  /\ boxes' = Tail(boxes)
  /\ done' = {} /\ tme' = FALSE /\ state' = "READY"
  /\ Release
  /\ errors' = errors + 1
  /\ UNCHANGED <<threadVars, queue, accepted, out, clash>>

\* Any other error, a frame received badly for example: State is set as if no
\* transmission were under way.
RxError ==
  /\ errors < MaxErrors
  /\ state' = "READY"
  /\ errors' = errors + 1
  /\ UNCHANGED <<threadVars, tokens, queue, boxes, done, tme,
                 accepted, out, aborted, clash>>

-----------------------------------------------------------------------------
SendStep(t) == Push(t) \/ QueueFull(t) \/ Put(t) \/ Again(t)
PollStep == Receive \/ Pull
Interrupt == TxInterrupt \/ RxInterrupt
Bus == Transmitted \/ TxError \/ RxError

Next ==
  \/ \E t \in Senders : Enter(t) \/ SendStep(t)
  \/ PollEnter \/ PollStep
  \/ Interrupt \/ Bus

Spec == Init /\ [][Next]_vars

-----------------------------------------------------------------------------
(* Properties. *)

\* While State refuses frames, the interrupt that makes it ready again is
\* enabled, and is due or will be when a mailbox has been sent: neither bus
\* errors nor an early interrupt stop sending for good (HAL_CAN_Transmit_IT,
\* CAN_Transmit_IT, HAL_CAN_ErrorCallback).
BusyIsUnderway == ~Idle => tme /\ (boxes # <<>> \/ done # {})

\* A frame that Send has accepted is in exactly one place, or has met a bus
\* error: it is neither lost nor sent twice.  That is so unless the hardware
\* refused a frame that had been taken out of the queue, or CAN_push took out
\* another thread's frame and wrote its own (CAN_push, CAN1_Receive).
InQueue(f) == {i \in DOMAIN queue : queue[i] = f}
InBoxes(f) == {i \in DOMAIN boxes : boxes[i].frame = f}
OnBus(f)   == {i \in DOMAIN out : out[i] = f}
ExactlyOnce ==
  ~clash =>
    \A f \in accepted :
      Cardinality(InQueue(f)) + Cardinality(InBoxes(f)) + Cardinality(OnBus(f))
        = IF f \in aborted THEN 0 ELSE 1
===============================================================================
