------------------------------- MODULE TcpClient -------------------------------
(***************************************************************************)
(* The controller's connection to the server (TcpClient.cpp).               *)
(*   - Any thread may call SendData, which cuts a message into segments     *)
(*     and puts each into the mail queue mailSid once it has a permit of    *)
(*     semaphoreSid.  When it gets none in time it calls AbortConnection.   *)
(*   - UpdateWorker calls TcpProcessor again and again: it connects, sends  *)
(*     one segment (TxProcessor), and handles one mail of received data     *)
(*     (DataReceiver), to which it may answer by SendData itself.           *)
(*   - The thread of net_main reports what the network does by              *)
(*     tcp_cb_func.                                                         *)
(* The library's socket is external: it refuses to send while what was sent *)
(* before is not acknowledged.  A retransmission ends with the              *)
(* acknowledgement or the loss of the connection.                           *)
(* txCount is left out, since nothing reads it, and so is the parser of     *)
(* received data: a received piece has no content here.                     *)
(***************************************************************************)
EXTENDS Integers, Sequences, FiniteSets

CONSTANTS
  Threads,      \* that call SendData, Worker among them
  Worker,       \* UpdateWorker
  Buffers,      \* TCP_BUFFER_NUM
  Sizes,        \* numbers of segments of a message
  MaxMessages,  \* bound: messages of each thread
  MaxLosses,    \* bound: losses of a connection or of the link
  MaxPieces     \* bound: pieces of received data

ASSUME TcpClientAssumption ==
  /\ Worker \in Threads /\ IsFiniteSet(Threads)
  /\ Buffers \in Nat \ {0} /\ Sizes \subseteq Nat \ {0}
  /\ MaxMessages \in [Threads -> Nat] /\ MaxLosses \in Nat /\ MaxPieces \in Nat

VARIABLES
  link,         \* LinkState
  sock,         \* the socket: "none", or what tcp_get_state tells
  unacked,      \* of the socket: sent data is not acknowledged
  conn, ack,    \* of the client
  tokens,       \* of semaphoreSid
  alloc,        \* blocks of mailSid in use
  mails,        \* segments in mailSid
  rxTokens, rxCount, rxAlloc, rxMails,  \* the same for received data
  pc,           \* of each thread
  job,          \* of each thread: the segment that SendData is at
  seen,         \* the state that Worker read of the socket
  hand,         \* the segment that Worker is sending, as a sequence
  callback,     \* tcp_cb_func has a permit and no block yet
  stream,       \* history: segments given to the network, in order
  messages,     \* history: of each thread
  losses,       \* history: of the connection or the link
  pieces,       \* history: pieces received
  mixed,        \* history: two threads were in SendData at once
  dropped,      \* history: a segment was dropped
  stranded      \* history: the connection went while Worker waited to send

netVars == <<link, sock, unacked>>
txVars == <<tokens, alloc, mails>>
rxVars == <<rxTokens, rxCount, rxAlloc, rxMails, callback, pieces>>
workVars == <<seen, hand>>
vars == <<link, sock, unacked, conn, ack, tokens, alloc, mails, rxTokens, rxCount,
          rxAlloc, rxMails, pc, job, seen, hand, callback, stream, messages, losses,
          pieces, mixed, dropped, stranded>>

States == {"none", "closed", "connecting", "up"}
Segments == [from : Threads, msg : Nat, seg : Nat, of : Nat]
SendPlaces == {"wait", "alloc", "put"}
AbortPlaces == {"drain", "release", "abort"}
WorkPlaces == {"look", "act", "tx", "get", "txRelease", "size", "send", "sending",
               "rx", "reply", "rxFree", "rxRelease", "rxCount"}

TypeOK ==
  /\ link \in BOOLEAN /\ sock \in States /\ unacked \in BOOLEAN
  /\ conn \in BOOLEAN /\ ack \in BOOLEAN
  /\ tokens \in 0..Buffers /\ alloc \in 0..Buffers
  /\ mails \in Seq(Segments) /\ Len(mails) <= Buffers
  /\ rxTokens \in 0..Buffers /\ rxCount \in 0..Buffers
  /\ rxAlloc \in 0..Buffers /\ rxMails \in 0..Buffers
  /\ pc \in [Threads -> {"idle"} \cup SendPlaces \cup AbortPlaces \cup WorkPlaces]
  /\ job \in [Threads -> Segments] /\ \A t \in Threads : job[t].seg <= job[t].of
  /\ seen \in States
  /\ hand \in Seq(Segments) /\ Len(hand) <= 1
  /\ callback \in BOOLEAN
  /\ stream \in Seq(Segments)
  /\ messages \in [Threads -> Nat] /\ \A t \in Threads : messages[t] <= MaxMessages[t]
  /\ losses \in 0..MaxLosses /\ pieces \in 0..MaxPieces
  /\ mixed \in BOOLEAN /\ dropped \in BOOLEAN /\ stranded \in BOOLEAN

Init ==
  /\ link = FALSE /\ sock = "none" /\ unacked = FALSE
  /\ conn = FALSE /\ ack = TRUE
  /\ tokens = Buffers /\ alloc = 0 /\ mails = <<>>
  /\ rxTokens = Buffers /\ rxCount = Buffers /\ rxAlloc = 0 /\ rxMails = 0
  /\ pc = [t \in Threads |-> IF t = Worker THEN "look" ELSE "idle"]
  /\ job = [t \in Threads |-> [from |-> t, msg |-> 0, seg |-> 0, of |-> 0]]
  /\ seen = "none" /\ hand = <<>> /\ callback = FALSE
  /\ stream = <<>> /\ messages = [t \in Threads |-> 0] /\ losses = 0 /\ pieces = 0
  /\ mixed = FALSE /\ dropped = FALSE /\ stranded = FALSE

-----------------------------------------------------------------------------
(* SendData. *)

Goto(t, place) == pc' = [pc EXCEPT ![t] = place]
Sending(t) == pc[t] \in SendPlaces \cup AbortPlaces

\* Begins at the first segment, if the client is connected.
BeginSend(t) ==
  /\ conn /\ messages[t] < MaxMessages[t]
  /\ pc[t] = IF t = Worker THEN "reply" ELSE "idle"
  /\ \E n \in Sizes :
       job' = [job EXCEPT ![t] = [from |-> t, msg |-> messages[t] + 1, seg |-> 1, of |-> n]]
  /\ messages' = [messages EXCEPT ![t] = @ + 1]
  /\ mixed' = (mixed \/ \E o \in Threads : Sending(o))
  /\ Goto(t, "wait")
  /\ UNCHANGED <<netVars, conn, ack, txVars, rxVars, workVars, stream, losses, dropped,
                 stranded>>

SendStep(t, from, to) ==
  /\ pc[t] = from
  /\ Goto(t, to)
  /\ UNCHANGED <<link, rxVars, workVars, ack, stream, messages, losses, mixed>>

TakePermit(t) ==
  /\ tokens > 0
  /\ SendStep(t, "wait", "alloc")
  /\ tokens' = tokens - 1
  /\ UNCHANGED <<alloc, mails, sock, unacked, conn, job, dropped, stranded>>

\* Variant for the checks: SendData waits without limit.
NoPermitPatient(t) ==
  /\ tokens = 0
  /\ SendStep(t, "wait", "wait")
  /\ UNCHANGED <<txVars, sock, unacked, conn, job, dropped, stranded>>

\* osSemaphoreWait gives up: "out of resource".
NoPermit(t) ==
  /\ tokens = 0
  /\ SendStep(t, "wait", "drain")
  /\ UNCHANGED <<txVars, sock, unacked, conn, job, dropped, stranded>>

\* osMailAlloc waits without limit.
Alloc(t) ==
  /\ alloc < Buffers
  /\ SendStep(t, "alloc", "put")
  /\ alloc' = alloc + 1
  /\ UNCHANGED <<tokens, mails, sock, unacked, conn, job, dropped, stranded>>

\* Where SendData returns to.
Home(t) == IF t = Worker THEN "rxFree" ELSE "idle"

\* Variant for the checks: the last segment of a long message is left out.
PutShort(t) ==
  LET last == job[t].seg >= job[t].of - 1
  IN  /\ SendStep(t, "put", IF last THEN Home(t) ELSE "wait")
      /\ mails' = Append(mails, job[t])
      /\ job' = [job EXCEPT ![t].seg = IF last THEN 0 ELSE @ + 1]
      /\ UNCHANGED <<tokens, alloc, sock, unacked, conn, dropped, stranded>>

Put(t) ==
  LET last == job[t].seg = job[t].of
  IN  /\ SendStep(t, "put", IF last THEN Home(t) ELSE "wait")
      /\ mails' = Append(mails, job[t])
      /\ job' = [job EXCEPT ![t].seg = IF last THEN 0 ELSE @ + 1]
      /\ UNCHANGED <<tokens, alloc, sock, unacked, conn, dropped, stranded>>

-----------------------------------------------------------------------------
(* AbortConnection, by a sender or by Worker. *)

\* Variant for the checks: the block is not freed.
DrainKeepsBlock(t) ==
  /\ mails # <<>>
  /\ SendStep(t, "drain", "release")
  /\ mails' = Tail(mails)
  /\ dropped' = TRUE
  /\ UNCHANGED <<tokens, alloc, sock, unacked, conn, job, stranded>>

\* A mail is dropped and its block freed.
Drain(t) ==
  /\ mails # <<>>
  /\ SendStep(t, "drain", "release")
  /\ mails' = Tail(mails)
  /\ alloc' = alloc - 1
  /\ dropped' = TRUE
  /\ UNCHANGED <<tokens, sock, unacked, conn, job, stranded>>

ReleaseDrained(t) ==
  /\ SendStep(t, "release", "drain")
  /\ tokens' = tokens + 1
  /\ UNCHANGED <<alloc, mails, sock, unacked, conn, job, dropped, stranded>>

Drained(t) ==
  /\ mails = <<>>
  /\ SendStep(t, "drain", "abort")
  /\ UNCHANGED <<txVars, sock, unacked, conn, job, dropped, stranded>>

\* The socket goes while Worker may be waiting for it.
Strand == stranded' = (stranded \/ (pc[Worker] = "send" /\ sock = "up"))

\* The socket is released.  SendData returns without the rest of its message;
\* TcpProcessor, which aborts when the link is down, starts again.
Abort(t) ==
  /\ SendStep(t, "abort", IF t = Worker /\ job[t].seg = 0 THEN "look" ELSE Home(t))
  /\ IF sock = "none" THEN UNCHANGED <<sock, unacked, conn>>
     ELSE sock' = "none" /\ unacked' = FALSE /\ conn' = FALSE
  /\ Strand
  /\ dropped' = (dropped \/ job[t].seg > 0)
  /\ job' = [job EXCEPT ![t].seg = 0]
  /\ UNCHANGED txVars

-----------------------------------------------------------------------------
(* TcpProcessor: the connection. *)

WorkStep(from, to) ==
  /\ pc[Worker] = from
  /\ Goto(Worker, to)
  /\ UNCHANGED <<link, job, messages, losses, pieces, callback, mixed, stranded>>

LinkIsDown ==
  /\ ~link /\ sock # "none" /\ conn
  /\ WorkStep("look", "drain")
  /\ conn' = FALSE
  /\ UNCHANGED <<sock, unacked, ack, txVars, rxTokens, rxCount, rxAlloc, rxMails,
                 workVars, stream, dropped>>

GetSocket ==
  /\ link /\ sock = "none"
  /\ WorkStep("look", "look")
  /\ sock' = "closed" /\ unacked' = FALSE /\ conn' = FALSE
  /\ UNCHANGED <<ack, txVars, rxTokens, rxCount, rxAlloc, rxMails, workVars, stream,
                 dropped>>

GetState ==
  /\ link /\ sock # "none"
  /\ WorkStep("look", "act")
  /\ seen' = sock
  /\ UNCHANGED <<sock, unacked, conn, ack, txVars, rxTokens, rxCount, rxAlloc, rxMails,
                 hand, stream, dropped>>

\* What follows rests on the state that was read, although another thread may
\* have aborted the connection since.
Act ==
  /\ WorkStep("act", IF seen = "up" /\ ~callback THEN "tx" ELSE "look")
  /\ conn' = CASE seen = "up" -> TRUE [] seen = "closed" -> FALSE [] OTHER -> conn
  /\ sock' = IF seen = "closed" /\ sock = "closed" THEN "connecting" ELSE sock
  /\ UNCHANGED <<unacked, ack, txVars, rxTokens, rxCount, rxAlloc, rxMails, workVars,
                 stream, dropped>>

-----------------------------------------------------------------------------
(* TxProcessor. *)

TxStep(from, to) ==
  /\ WorkStep(from, to)
  /\ UNCHANGED <<sock, conn, seen, rxTokens, rxCount, rxAlloc, rxMails>>

\* tcp_check_send.
CanSend == sock = "up" /\ ~unacked

TxCheck ==
  /\ TxStep("tx", IF ~ack /\ ~CanSend THEN "rx" ELSE "get")
  /\ UNCHANGED <<unacked, ack, txVars, hand, stream, dropped>>

TxNoMail ==
  /\ mails = <<>>
  /\ TxStep("get", "rx")
  /\ UNCHANGED <<unacked, ack, txVars, hand, stream, dropped>>

TxGet ==
  /\ mails # <<>>
  /\ TxStep("get", "txRelease")
  /\ hand' = <<Head(mails)>>
  /\ mails' = Tail(mails)
  /\ alloc' = alloc - 1
  /\ UNCHANGED <<unacked, ack, tokens, stream, dropped>>

TxRelease ==
  /\ TxStep("txRelease", "size")
  /\ tokens' = tokens + 1
  /\ UNCHANGED <<unacked, ack, alloc, mails, hand, stream, dropped>>

\* Variant for the checks: the size is not compared.
TxSizeIgnored ==
  /\ TxStep("size", "send")
  /\ UNCHANGED <<unacked, ack, txVars, stream, hand, dropped>>

\* Without a connection tcp_max_data_size is 0, and the segment is dropped.
TxSize ==
  /\ TxStep("size", IF sock = "up" THEN "send" ELSE "rx")
  /\ hand' = IF sock = "up" THEN hand ELSE <<>>
  /\ dropped' = (dropped \/ sock # "up")
  /\ UNCHANGED <<unacked, ack, txVars, stream>>

\* Worker waits without limit until the socket can send.
TxWait ==
  /\ CanSend
  /\ TxStep("send", "sending")
  /\ UNCHANGED <<unacked, ack, txVars, hand, stream, dropped>>

\* tcp_send fails if the connection has gone since.
TxSend ==
  /\ TxStep("sending", "rx")
  /\ IF sock = "up" THEN stream' = stream \o hand /\ UNCHANGED dropped
                    ELSE dropped' = TRUE /\ UNCHANGED stream
  /\ hand' = <<>>
  /\ unacked' = (sock = "up") /\ ack' = FALSE
  /\ UNCHANGED txVars

-----------------------------------------------------------------------------
(* DataReceiver. *)

RxStep(from, to) ==
  /\ WorkStep(from, to)
  /\ UNCHANGED <<sock, unacked, conn, ack, txVars, workVars, stream, dropped>>

RxGet ==
  /\ RxStep("rx", IF rxMails > 0 THEN "reply" ELSE "look")
  /\ rxMails' = IF rxMails > 0 THEN rxMails - 1 ELSE 0
  /\ UNCHANGED <<rxTokens, rxCount, rxAlloc>>

NoReply ==
  /\ RxStep("reply", "rxFree")
  /\ UNCHANGED <<rxTokens, rxCount, rxAlloc, rxMails>>

RxFree ==
  /\ RxStep("rxFree", "rxRelease")
  /\ rxAlloc' = rxAlloc - 1
  /\ UNCHANGED <<rxTokens, rxCount, rxMails>>

RxRelease ==
  /\ RxStep("rxRelease", "rxCount")
  /\ rxTokens' = rxTokens + 1
  /\ UNCHANGED <<rxCount, rxAlloc, rxMails>>

RxCount ==
  /\ RxStep("rxCount", "look")
  /\ rxCount' = rxCount + 1
  /\ UNCHANGED <<rxTokens, rxAlloc, rxMails>>

-----------------------------------------------------------------------------
(* The network, and tcp_cb_func in the thread of net_main. *)

NetStep == UNCHANGED <<conn, txVars, pc, job, workVars, stream, messages, mixed, dropped>>

Established ==
  /\ link /\ sock = "connecting" /\ ~callback
  /\ sock' = "up" /\ ack' = TRUE
  /\ NetStep /\ UNCHANGED <<link, unacked, rxVars, losses, stranded>>

Acknowledged ==
  /\ link /\ sock = "up" /\ unacked /\ ~callback
  /\ unacked' = FALSE /\ ack' = TRUE
  /\ NetStep /\ UNCHANGED <<link, sock, rxVars, losses, stranded>>

\* Closed by the server, or given up; ChangeServiceEndpoint does the same.
\* The mails stay in the queue.
Lose ==
  /\ sock \in {"connecting", "up"} /\ ~callback
  /\ link => losses < MaxLosses
  /\ losses' = IF link THEN losses + 1 ELSE losses
  /\ sock' = "closed" /\ unacked' = FALSE
  /\ Strand
  /\ NetStep /\ UNCHANGED <<link, ack, rxVars>>

LinkDown ==
  /\ link /\ losses < MaxLosses
  /\ link' = FALSE /\ losses' = losses + 1
  /\ NetStep /\ UNCHANGED <<sock, unacked, ack, rxVars, stranded>>

LinkUp ==
  /\ ~link
  /\ link' = TRUE
  /\ NetStep /\ UNCHANGED <<sock, unacked, ack, rxVars, losses, stranded>>

\* Data arrives: tcpEventData drops it, or takes a permit.
Data ==
  /\ link /\ sock = "up" /\ pieces < MaxPieces /\ ~callback
  /\ pieces' = pieces + 1
  /\ IF rxCount = 0 \/ rxTokens = 0
     THEN UNCHANGED <<rxTokens, rxCount, callback>>
     ELSE rxTokens' = rxTokens - 1 /\ rxCount' = rxCount - 1 /\ callback' = TRUE
  /\ NetStep /\ UNCHANGED <<netVars, ack, rxAlloc, rxMails, losses, stranded>>

\* Without a block the permit would be lost.
DataPut ==
  /\ callback
  /\ callback' = FALSE
  /\ IF rxAlloc < Buffers THEN rxAlloc' = rxAlloc + 1 /\ rxMails' = rxMails + 1
                          ELSE UNCHANGED <<rxAlloc, rxMails>>
  /\ NetStep /\ UNCHANGED <<netVars, ack, rxTokens, rxCount, pieces, losses, stranded>>

-----------------------------------------------------------------------------
SendProgress(t) ==
  TakePermit(t) \/ NoPermit(t) \/ Alloc(t) \/ Put(t)
    \/ Drain(t) \/ ReleaseDrained(t) \/ Drained(t) \/ Abort(t)
Connecting == LinkIsDown \/ GetSocket \/ GetState \/ Act
TxProcessor ==
  TxCheck \/ TxNoMail \/ TxGet \/ TxRelease \/ TxSize \/ TxWait \/ TxSend
DataReceiver == RxGet \/ NoReply \/ RxFree \/ RxRelease \/ RxCount
Network == Established \/ Acknowledged \/ Lose \/ LinkDown \/ LinkUp \/ Data \/ DataPut

Next ==
  \/ \E t \in Threads : BeginSend(t) \/ SendProgress(t)
  \/ Connecting \/ TxProcessor \/ DataReceiver
  \/ Network

\* The threads take turns; a transmission is acknowledged or given up.
Fairness ==
  /\ \A t \in Threads : WF_vars(SendProgress(t))
  /\ WF_vars(Connecting \/ TxProcessor \/ DataReceiver)
  /\ WF_vars(DataPut)
  /\ WF_vars(Acknowledged \/ Lose)

Spec == Init /\ [][Next]_vars
FairSpec == Spec /\ Fairness

-----------------------------------------------------------------------------
(* Properties. *)

Count(S) == Cardinality({t \in Threads : pc[t] \in S})

\* No permit is lost or made, and whoever has one finds a free block: neither
\* does osMailAlloc ever wait in SendData, whatever AbortConnection drains
\* meanwhile, nor does tcp_cb_func lose a permit for want of one.
PermitHasBlock ==
  /\ tokens + Len(mails) + Count({"alloc", "put", "release", "txRelease"}) = Buffers
  /\ Count({"alloc"}) > 0 => alloc < Buffers
  /\ callback => rxAlloc < Buffers

\* Types, and that permits and blocks agree.
Inv == TypeOK /\ PermitHasBlock

\* A message's segments are sent in order, one after the other and all of them,
\* also if the connection is lost in between, unless two threads were sending
\* at once or segments have been dropped (SendData, TxProcessor).
Pipeline == stream \o hand \o mails
MessagesWhole ==
  ~mixed /\ ~dropped =>
    \A i \in 1 .. Len(Pipeline) - 1 :
      LET this == Pipeline[i]  next == Pipeline[i + 1]
      IN  IF this.seg < this.of THEN next = [this EXCEPT !.seg = @ + 1] ELSE next.seg = 1

\* SendData returns, whatever has become of the connection and of UpdateWorker.
SendReturns == \A t \in Threads \ {Worker} : pc[t] # "idle" ~> pc[t] = "idle"

\* UpdateWorker, which also polls the CAN bus, gets out of TxProcessor unless
\* the connection goes between tcp_max_data_size and tcp_send.
WorkerReturns == pc[Worker] = "send" ~> pc[Worker] # "send" \/ stranded
===============================================================================
