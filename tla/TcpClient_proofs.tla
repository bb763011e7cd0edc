---------------------------- MODULE TcpClient_proofs ----------------------------
(***************************************************************************)
(* Proofs about TcpClient, for any threads, buffers and messages.           *)
(*                                                                         *)
(* Permits and blocks are counted over the threads, so the inductive        *)
(* invariant has an equation for each of them (TxBlocks, RxBlocks), and     *)
(* says which threads are in SendData (Places).  That messages are whole    *)
(* rests on the thread in SendData knowing what the pipeline ends with      *)
(* (Joined).                                                                *)
(***************************************************************************)
EXTENDS TcpClient, FiniteSetTheorems, SequenceTheorems, TLAPS

PcPlaces == {"idle"} \cup SendPlaces \cup AbortPlaces \cup WorkPlaces

\* Worker's SendData is the answer to a mail of received data.
InSend == job[Worker].seg > 0

Places ==
  /\ \A t \in Threads \ {Worker} :
       /\ pc[t] \in {"idle"} \cup SendPlaces \cup AbortPlaces
       /\ pc[t] # "idle" <=> job[t].seg > 0
  /\ pc[Worker] # "idle"
  /\ pc[Worker] \in SendPlaces => InSend
  /\ pc[Worker] \in WorkPlaces => ~InSend

Permits == {"alloc", "put", "release", "txRelease"}
NPermits == Count(Permits)
NBlocks == Count({"put"})
NAllocating == Count({"alloc"})

TxBlocks ==
  /\ tokens + Len(mails) + NPermits = Buffers
  /\ alloc = Len(mails) + NBlocks

\* Worker has a mail of received data; it gives back its permit and its count
\* after its block.
Holding == InSend \/ pc[Worker] \in {"reply", "rxFree"}
HeldBlock == IF Holding THEN 1 ELSE 0
HeldPermit == IF Holding \/ pc[Worker] = "rxRelease" THEN 1 ELSE 0
HeldCount == IF Holding \/ pc[Worker] \in {"rxRelease", "rxCount"} THEN 1 ELSE 0
Arriving == IF callback THEN 1 ELSE 0

RxBlocks ==
  /\ rxAlloc = rxMails + HeldBlock
  /\ rxTokens + Arriving + rxMails + HeldPermit = Buffers
  /\ rxCount + Arriving + rxMails + HeldCount = Buffers

HandEmpty == pc[Worker] \notin {"txRelease", "size", "send", "sending"} => hand = <<>>

\* The types, in groups.
NetTypes ==
  /\ link \in BOOLEAN /\ sock \in States /\ unacked \in BOOLEAN
  /\ conn \in BOOLEAN /\ ack \in BOOLEAN /\ callback \in BOOLEAN
  /\ seen \in States
  /\ losses \in 0..MaxLosses /\ pieces \in 0..MaxPieces
  /\ mixed \in BOOLEAN /\ dropped \in BOOLEAN /\ stranded \in BOOLEAN

SendTypes ==
  /\ pc \in [Threads -> PcPlaces]
  /\ job \in [Threads -> Segments] /\ \A t \in Threads : job[t].seg <= job[t].of
  /\ messages \in [Threads -> Nat] /\ \A t \in Threads : messages[t] <= MaxMessages[t]

SeqTypes ==
  /\ mails \in Seq(Segments)
  /\ hand \in Seq(Segments) /\ Len(hand) <= 1
  /\ stream \in Seq(Segments)

TxTypes == tokens \in 0..Buffers /\ alloc \in 0..Buffers /\ Len(mails) <= Buffers

RxTypes ==
  /\ rxTokens \in 0..Buffers /\ rxCount \in 0..Buffers
  /\ rxAlloc \in 0..Buffers /\ rxMails \in 0..Buffers

BlockInv ==
  /\ NetTypes /\ SendTypes /\ SeqTypes /\ TxTypes /\ RxTypes
  /\ Places /\ TxBlocks /\ RxBlocks /\ HandEmpty

LEMMA TypeParts == NetTypes /\ SendTypes /\ SeqTypes /\ TxTypes /\ RxTypes => TypeOK
  BY DEF NetTypes, SendTypes, SeqTypes, TxTypes, RxTypes, TypeOK, PcPlaces

-----------------------------------------------------------------------------
(* Counting threads. *)

LEMMA CountType ==
  ASSUME NEW S
  PROVE  IsFiniteSet({t \in Threads : pc[t] \in S}) /\ Count(S) \in Nat
<1>1. IsFiniteSet({t \in Threads : pc[t] \in S})
  BY FS_Subset, TcpClientAssumption
<1> QED
  BY <1>1, FS_CardinalityType DEF Count

LEMMA CountPart ==
  ASSUME NEW S, NEW T, S \cap T = {}
  PROVE  Count(S \cup T) = Count(S) + Count(T)
<1> DEFINE A == {t \in Threads : pc[t] \in S}
           B == {t \in Threads : pc[t] \in T}
<1>1. IsFiniteSet(A) /\ IsFiniteSet(B)
  BY CountType
<1>2. A \cap B = {} /\ A \cup B = {t \in Threads : pc[t] \in S \cup T}
  OBVIOUS
<1>3. Cardinality(A \cup B) = Cardinality(A) + Cardinality(B) - Cardinality({})
  BY <1>1, <1>2, FS_Union
<1> HIDE DEF A, B
<1>4. Cardinality(A) \in Nat /\ Cardinality(B) \in Nat /\ Cardinality({}) = 0
  BY <1>1, FS_CardinalityType, FS_EmptySet
<1>5. Cardinality(A \cup B) = Cardinality(A) + Cardinality(B)
  BY <1>3, <1>4
<1> QED
  BY <1>2, <1>5 DEF Count, A, B

\* One thread goes from one place to another.
LEMMA CountStep ==
  ASSUME NEW S, NEW t \in Threads, NEW place, pc \in [Threads -> PcPlaces], Goto(t, place)
  PROVE  /\ (pc[t] \in S <=> place \in S) => Count(S)' = Count(S)
         /\ pc[t] \in S /\ place \notin S => Count(S)' = Count(S) - 1
         /\ pc[t] \notin S /\ place \in S => Count(S)' = Count(S) + 1
<1> DEFINE A == {o \in Threads : pc[o] \in S}
           B == {o \in Threads : pc'[o] \in S}
<1>1. IsFiniteSet(A)
  BY CountType
<1>2. \A o \in Threads : pc'[o] = IF o = t THEN place ELSE pc[o]
  BY DEF Goto
<1>3. (pc[t] \in S <=> place \in S) => B = A
  BY <1>2
<1>4. pc[t] \in S /\ place \notin S => B = A \ {t} /\ t \in A
  BY <1>2
<1>5. pc[t] \notin S /\ place \in S => B = A \cup {t} /\ t \notin A
  BY <1>2
<1>6. Count(S) = Cardinality(A) /\ Count(S)' = Cardinality(B)
  BY DEF Count
<1> HIDE DEF A, B
<1>7. t \in A => Cardinality(A \ {t}) = Cardinality(A) - 1
  BY <1>1, FS_RemoveElement
<1>8. t \notin A => Cardinality(A \cup {t}) = Cardinality(A) + 1
  BY <1>1, FS_AddElement
<1> QED
  BY <1>3, <1>4, <1>5, <1>6, <1>7, <1>8

LEMMA CountPermits ==
  /\ NPermits \in Nat /\ NBlocks \in Nat /\ NAllocating \in Nat
  /\ NAllocating + NBlocks <= NPermits
<1>1. Count({"alloc"} \cup {"put"}) = Count({"alloc"}) + Count({"put"})
  BY CountPart
<1>2. Count({"alloc", "put"} \cup {"release", "txRelease"})
        = Count({"alloc", "put"}) + Count({"release", "txRelease"})
  BY CountPart
<1>3. {"alloc"} \cup {"put"} = {"alloc", "put"}
      /\ {"alloc", "put"} \cup {"release", "txRelease"} = Permits
  BY DEF Permits
<1>4. /\ Count({"release", "txRelease"}) \in Nat
      /\ Count(Permits) \in Nat /\ Count({"put"}) \in Nat /\ Count({"alloc"}) \in Nat
  BY CountType
<1>5. PICK n \in Nat : n = Count({"release", "txRelease"})
  BY <1>4
<1>6. NPermits = NAllocating + NBlocks + n
  BY <1>1, <1>2, <1>3, <1>5 DEF NPermits, NBlocks, NAllocating
<1>7. NPermits \in Nat /\ NBlocks \in Nat /\ NAllocating \in Nat
  BY <1>4 DEF NPermits, NBlocks, NAllocating
<1> QED
  BY <1>5, <1>6, <1>7

LEMMA CountPermitsNext ==
  ( /\ NPermits \in Nat /\ NBlocks \in Nat /\ NAllocating \in Nat
    /\ NAllocating + NBlocks <= NPermits )'
  BY CountPermits, PTL

LEMMA PermitStep ==
  ASSUME NEW t \in Threads, NEW place, pc \in [Threads -> PcPlaces], Goto(t, place)
  PROVE  /\ (pc[t] \in Permits <=> place \in Permits) => NPermits' = NPermits
         /\ pc[t] \in Permits /\ place \notin Permits => NPermits' = NPermits - 1
         /\ pc[t] \notin Permits /\ place \in Permits => NPermits' = NPermits + 1
  BY CountStep DEF NPermits

LEMMA BlockStep ==
  ASSUME NEW t \in Threads, NEW place, pc \in [Threads -> PcPlaces], Goto(t, place)
  PROVE  /\ (pc[t] = "put" <=> place = "put") => NBlocks' = NBlocks
         /\ pc[t] = "put" /\ place # "put" => NBlocks' = NBlocks - 1
         /\ pc[t] # "put" /\ place = "put" => NBlocks' = NBlocks + 1
<1> DEFINE S == {"put"}
<1>1. /\ (pc[t] \in S <=> place \in S) => Count(S)' = Count(S)
      /\ pc[t] \in S /\ place \notin S => Count(S)' = Count(S) - 1
      /\ pc[t] \notin S /\ place \in S => Count(S)' = Count(S) + 1
  BY CountStep
<1>2. \A x : x \in S <=> x = "put"
  OBVIOUS
<1>3. NBlocks = Count(S) /\ NBlocks' = Count(S)'
  BY DEF NBlocks
<1> HIDE DEF S
<1> QED
  BY <1>1, <1>2, <1>3

\* Permits and blocks after a step: tk and tk1 stand for tokens, m for the mails,
\* p for the threads with a permit and b for those with a block.
LEMMA Balance ==
  ASSUME NEW tk \in Nat, NEW m \in Nat, NEW p \in Nat, NEW al \in Nat, NEW b \in Nat,
         NEW tk1 \in Int, NEW m1 \in Nat, NEW p1 \in Nat, NEW al1 \in Int, NEW b1 \in Nat,
         NEW n \in Nat, NEW a1 \in Nat,
         tk + m + p = n, al = m + b, a1 + b1 <= p1, tk1 >= 0,
         tk1 + m1 + p1 = tk + m + p, al1 - m1 - b1 = al - m - b
  PROVE  /\ tk1 + m1 + p1 = n /\ al1 = m1 + b1
         /\ tk1 \in 0..n /\ al1 \in 0..n /\ m1 <= n
  OBVIOUS

\* A step that keeps the sums keeps the equations, and the bounds with them.
LEMMA TxMove ==
  ASSUME BlockInv, mails' \in Seq(Segments), tokens' \in Nat, alloc' \in Int,
         tokens' + Len(mails') + NPermits' = tokens + Len(mails) + NPermits,
         alloc' - Len(mails') - NBlocks' = alloc - Len(mails) - NBlocks
  PROVE  TxBlocks' /\ TxTypes'
<1>1. PICK p \in Nat, b \in Nat, p1 \in Nat, b1 \in Nat, a1 \in Nat :
        p = NPermits /\ b = NBlocks /\ p1 = NPermits' /\ b1 = NBlocks' /\ a1 = NAllocating'
  BY CountPermits, CountPermitsNext
<1>2. PICK m \in Nat, m1 \in Nat : m = Len(mails) /\ m1 = Len(mails')
  BY DEF BlockInv, SeqTypes
<1>3. a1 + b1 <= p1
  BY <1>1, CountPermitsNext
<1>4. tokens + m + p = Buffers /\ alloc = m + b
  BY <1>1, <1>2 DEF BlockInv, TxBlocks
<1>5. tokens' + m1 + p1 = tokens + m + p /\ alloc' - m1 - b1 = alloc - m - b
  BY <1>1, <1>2
<1>6. PICK tk \in Nat, al \in Nat, tk1 \in Nat, al1 \in Int, n \in Nat :
        tk = tokens /\ al = alloc /\ tk1 = tokens' /\ al1 = alloc' /\ n = Buffers
  BY TcpClientAssumption DEF BlockInv, TxTypes
<1>7. /\ tk1 + m1 + p1 = n /\ al1 = m1 + b1
      /\ tk1 \in 0..n /\ al1 \in 0..n /\ m1 <= n
  <2>1. tk + m + p = n /\ al = m + b /\ tk1 + m1 + p1 = tk + m + p /\ al1 - m1 - b1 = al - m - b
    BY <1>4, <1>5, <1>6
  <2> QED
    BY <1>3, <2>1, Balance
<1> QED
  BY <1>1, <1>2, <1>6, <1>7 DEF TxBlocks, TxTypes

\* A thread that moves without a permit or a block coming or going.
LEMMA TxKept ==
  ASSUME BlockInv, NEW t \in Threads, NEW place, Goto(t, place), UNCHANGED txVars,
         pc[t] \in Permits <=> place \in Permits, pc[t] = "put" <=> place = "put"
  PROVE  TxBlocks' /\ TxTypes'
<1>1. NPermits' = NPermits /\ NBlocks' = NBlocks
  BY PermitStep, BlockStep DEF BlockInv, SendTypes
<1>2. mails' = mails /\ tokens' = tokens /\ alloc' = alloc
  BY DEF txVars
<1>3. tokens \in Nat /\ alloc \in Int /\ mails \in Seq(Segments)
  BY TcpClientAssumption DEF BlockInv, TxTypes, SeqTypes
<1> QED
  BY <1>1, <1>2, <1>3, TxMove

LEMMA RxKept ==
  ASSUME BlockInv, UNCHANGED rxVars, Holding' <=> Holding,
         (pc[Worker] = "rxRelease")' <=> pc[Worker] = "rxRelease",
         (pc[Worker] = "rxCount")' <=> pc[Worker] = "rxCount"
  PROVE  RxBlocks' /\ RxTypes'
<1>1. HeldBlock' = HeldBlock /\ HeldPermit' = HeldPermit /\ HeldCount' = HeldCount
  BY DEF HeldBlock, HeldPermit, HeldCount
<1>2. Arriving' = Arriving
  BY DEF Arriving, rxVars
<1> QED
  BY <1>1, <1>2 DEF BlockInv, RxBlocks, RxTypes, rxVars

-----------------------------------------------------------------------------
(* SendData and AbortConnection. *)

\* Where a thread goes that leaves SendData or AbortConnection.
Leave(t) == IF t = Worker /\ job[t].seg = 0 THEN "look" ELSE Home(t)

LEMMA SendMove ==
  ASSUME BlockInv, NEW t \in Threads, NEW from \in SendPlaces \cup AbortPlaces, NEW to,
         SendStep(t, from, to), NEW x \in Nat, x <= job[t].of,
         job' = [job EXCEPT ![t].seg = x],
         \/ /\ to \in SendPlaces \cup AbortPlaces
            /\ x > 0 <=> job[t].seg > 0
            /\ to \in SendPlaces => from \in SendPlaces \/ job[t].seg > 0
         \/ to = Leave(t) /\ x = 0
  PROVE  SendTypes' /\ Places' /\ RxBlocks' /\ RxTypes' /\ HandEmpty'
<1> DEFINE Out == SendPlaces \cup AbortPlaces
<1>1. pc[t] = from /\ pc' = [pc EXCEPT ![t] = to] /\ pc \in [Threads -> PcPlaces]
      /\ job \in [Threads -> Segments] /\ Worker \in Threads
  BY TcpClientAssumption DEF SendStep, Goto, BlockInv, SendTypes
<1>2. /\ \A o \in Threads : o # t => pc'[o] = pc[o] /\ job'[o] = job[o]
      /\ pc'[t] = to /\ job'[t].seg = x /\ job'[t].of = job[t].of /\ job'[t] \in Segments
  BY <1>1 DEF Segments
<1>3. /\ Out \cap WorkPlaces = {} /\ "idle" \notin Out /\ "look" \in WorkPlaces
      /\ "rxFree" \in WorkPlaces /\ "look" \notin SendPlaces /\ "rxFree" \notin SendPlaces
      /\ "look" # "idle" /\ "rxFree" # "idle"
      /\ \A p \in Out : p \in PcPlaces
                        /\ p \notin {"reply", "rxFree", "rxRelease", "rxCount", "txRelease",
                                     "size", "send", "sending"}
      /\ {"idle", "look", "rxFree"} \subseteq PcPlaces
  BY DEF SendPlaces, AbortPlaces, WorkPlaces, PcPlaces
<1>4. to \in PcPlaces
  BY <1>3 DEF Leave, Home
<1>5. job[t].seg \in Nat /\ job[t].of \in Nat
  BY <1>1 DEF Segments
<1>6. from \in SendPlaces => job[t].seg > 0
  BY <1>1, <1>3 DEF BlockInv, Places, InSend
<1>7. t # Worker => job[t].seg > 0
  BY <1>1, <1>3 DEF BlockInv, Places
<1>8. SendTypes'
  <2>1. pc' \in [Threads -> PcPlaces] /\ job' \in [Threads -> Segments]
    BY <1>1, <1>2, <1>4
  <2>2. \A o \in Threads : (job[o].seg <= job[o].of)'
    BY <1>2 DEF BlockInv, SendTypes
  <2> QED
    BY <2>1, <2>2 DEF BlockInv, SendTypes, SendStep
<1>9. Places'
  <2>1. CASE t = Worker
    <3>1. \A o \in Threads \ {Worker} : pc'[o] = pc[o] /\ job'[o] = job[o]
      BY <1>2, <2>1
    <3>2. pc'[Worker] # "idle"
      BY <1>2, <1>3, <2>1 DEF Leave, Home
    <3>3. pc'[Worker] \in SendPlaces => job'[Worker].seg > 0
      BY <1>2, <1>3, <1>6, <2>1 DEF Leave, Home
    <3>4. pc'[Worker] \in WorkPlaces => ~(job'[Worker].seg > 0)
      BY <1>2, <1>3, <2>1 DEF Leave, Home
    <3> QED
      BY <3>1, <3>2, <3>3, <3>4 DEF BlockInv, Places, InSend
  <2>2. CASE t # Worker
    <3>1. pc'[Worker] = pc[Worker] /\ job'[Worker] = job[Worker]
      BY <1>1, <1>2, <2>2
    <3>2. pc'[t] \in {"idle"} \cup SendPlaces \cup AbortPlaces
      BY <1>2, <2>2 DEF Leave, Home
    <3>3. pc'[t] # "idle" <=> job'[t].seg > 0
      BY <1>2, <1>3, <1>7, <2>2 DEF Leave, Home
    <3>4. \A o \in Threads \ {Worker} :
            /\ pc'[o] \in {"idle"} \cup SendPlaces \cup AbortPlaces
            /\ pc'[o] # "idle" <=> job'[o].seg > 0
      BY <1>2, <3>2, <3>3 DEF BlockInv, Places
    <3> QED
      BY <3>1, <3>4 DEF BlockInv, Places, InSend
  <2> QED
    BY <2>1, <2>2
<1>10. RxBlocks' /\ RxTypes'
  <2>1. CASE t = Worker
    <3>1. pc[Worker] \notin {"reply", "rxFree", "rxRelease", "rxCount"}
      BY <1>1, <1>3, <2>1
    <3>2. pc'[Worker] \notin {"reply", "rxRelease", "rxCount"}
      BY <1>2, <1>3, <2>1 DEF Leave, Home
    <3>3. job'[Worker].seg > 0 \/ pc'[Worker] = "rxFree" <=> job[Worker].seg > 0
      BY <1>2, <1>3, <1>5, <2>1 DEF Leave, Home
    <3>4. Holding' <=> Holding
      BY <3>1, <3>2, <3>3 DEF Holding, InSend
    <3> QED
      BY <3>1, <3>2, <3>4, RxKept DEF SendStep
  <2>2. CASE t # Worker
    <3>1. pc'[Worker] = pc[Worker] /\ job'[Worker] = job[Worker]
      BY <1>1, <1>2, <2>2
    <3> QED
      BY <3>1, RxKept DEF SendStep, Holding, InSend
  <2> QED
    BY <2>1, <2>2
<1>11. HandEmpty'
  <2>1. CASE t = Worker
    BY <1>1, <1>3, <2>1 DEF BlockInv, HandEmpty, SendStep, workVars
  <2>2. CASE t # Worker
    BY <1>1, <1>2, <2>2 DEF BlockInv, HandEmpty, SendStep, workVars
  <2> QED
    BY <2>1, <2>2
<1> QED
  BY <1>8, <1>9, <1>10, <1>11

\* As above, for a step that leaves the job alone.
LEMMA SendStays ==
  ASSUME BlockInv, NEW t \in Threads, NEW from \in SendPlaces \cup AbortPlaces,
         NEW to \in SendPlaces \cup AbortPlaces, SendStep(t, from, to), UNCHANGED job,
         to \in SendPlaces => from \in SendPlaces
  PROVE  SendTypes' /\ Places' /\ RxBlocks' /\ RxTypes' /\ HandEmpty'
<1>1. job \in [Threads -> Segments] /\ job[t].seg <= job[t].of
  BY DEF BlockInv, SendTypes
<1>2. PICK x \in Nat : x = job[t].seg
  BY <1>1 DEF Segments
<1>3. job' = [job EXCEPT ![t].seg = x]
  BY <1>1, <1>2 DEF Segments
<1> QED
  BY <1>1, <1>2, <1>3, SendMove

LEMMA SendProgressBlocks ==
  ASSUME BlockInv, NEW t \in Threads, SendProgress(t)
  PROVE  BlockInv'
<1>1. /\ pc \in [Threads -> PcPlaces] /\ mails \in Seq(Segments) /\ Len(mails) <= Buffers
      /\ job \in [Threads -> Segments] /\ job[t].seg <= job[t].of
      /\ tokens \in 0..Buffers /\ alloc \in 0..Buffers /\ Buffers \in Nat
  BY TcpClientAssumption DEF BlockInv, SendTypes, SeqTypes, TxTypes
<1>2. job[t].seg \in Nat /\ job[t].of \in Nat
  BY <1>1 DEF Segments
<1>3. Len(mails) \in Nat
  BY <1>1
<1>4. TxBlocks /\ NPermits \in Nat /\ NBlocks \in Nat /\ NAllocating + NBlocks <= NPermits
      /\ NAllocating \in Nat
  BY CountPermits DEF BlockInv
<1> USE DEF SendPlaces, AbortPlaces
<1>5. CASE TakePermit(t)
  <2>1. SendTypes' /\ Places' /\ RxBlocks' /\ RxTypes' /\ HandEmpty'
    BY <1>5, SendStays DEF TakePermit
  <2>2. NetTypes' /\ SeqTypes'
    BY <1>5 DEF TakePermit, SendStep, BlockInv, NetTypes, SeqTypes, rxVars, workVars
  <2>3. NPermits' = NPermits + 1 /\ NBlocks' = NBlocks
    BY <1>1, <1>5, PermitStep, BlockStep DEF TakePermit, SendStep, Permits
  <2>4. tokens' = tokens - 1 /\ tokens > 0 /\ mails' = mails /\ alloc' = alloc
    BY <1>5 DEF TakePermit
  <2>5. TxBlocks' /\ TxTypes'
    BY <1>1, <1>3, <1>4, <2>3, <2>4, TxMove
  <2> QED
    BY <2>1, <2>2, <2>5 DEF BlockInv
<1>6. CASE NoPermit(t)
  <2>1. SendTypes' /\ Places' /\ RxBlocks' /\ RxTypes' /\ HandEmpty'
    BY <1>6, SendStays DEF NoPermit
  <2>2. NetTypes' /\ SeqTypes'
    BY <1>6 DEF NoPermit, SendStep, BlockInv, NetTypes, SeqTypes, rxVars, workVars, txVars
  <2>3. TxBlocks' /\ TxTypes'
    BY <1>6, TxKept DEF NoPermit, SendStep, Permits
  <2> QED
    BY <2>1, <2>2, <2>3 DEF BlockInv
<1>7. CASE Alloc(t)
  <2>1. SendTypes' /\ Places' /\ RxBlocks' /\ RxTypes' /\ HandEmpty'
    BY <1>7, SendStays DEF Alloc
  <2>2. NetTypes' /\ SeqTypes'
    BY <1>7 DEF Alloc, SendStep, BlockInv, NetTypes, SeqTypes, rxVars, workVars
  <2>3. NPermits' = NPermits /\ NBlocks' = NBlocks + 1
    BY <1>1, <1>7, PermitStep, BlockStep DEF Alloc, SendStep, Permits
  <2>4. tokens' = tokens /\ mails' = mails /\ alloc' = alloc + 1
    BY <1>7 DEF Alloc
  <2>5. TxBlocks' /\ TxTypes'
    BY <1>1, <1>3, <1>4, <2>3, <2>4, TxMove
  <2> QED
    BY <2>1, <2>2, <2>5 DEF BlockInv
<1>8. CASE Put(t)
  <2> DEFINE last == job[t].seg = job[t].of
             x == IF last THEN 0 ELSE job[t].seg + 1
             to == IF last THEN Home(t) ELSE "wait"
  <2>1. /\ SendStep(t, "put", to) /\ job' = [job EXCEPT ![t].seg = x]
        /\ mails' = Append(mails, job[t])
        /\ UNCHANGED <<tokens, alloc, sock, unacked, conn, dropped, stranded>>
    BY <1>1, <1>8 DEF Put, Segments
  <2>2. x \in Nat /\ x <= job[t].of
    BY <1>1, <1>2
  <2>3. job[t].seg > 0
    BY <2>1 DEF BlockInv, Places, InSend, SendStep
  <2>4. (to = "wait" /\ x > 0) \/ (to = Leave(t) /\ x = 0)
    <3>1. CASE last
      BY <1>2, <2>3, <3>1 DEF Leave
    <3>2. CASE ~last
      BY <1>2, <2>3, <3>2
    <3> QED
      BY <3>1, <3>2
  <2> HIDE DEF x, to
  <2>5. SendTypes' /\ Places' /\ RxBlocks' /\ RxTypes' /\ HandEmpty'
    BY <2>1, <2>2, <2>3, <2>4, SendMove
  <2>6. mails' \in Seq(Segments) /\ Len(mails') = Len(mails) + 1
    BY <1>1, <2>1
  <2>7. NetTypes' /\ SeqTypes'
    BY <2>1, <2>6 DEF SendStep, BlockInv, NetTypes, SeqTypes, rxVars, workVars
  <2>8. to \notin Permits /\ to # "put"
    BY <2>4 DEF Leave, Home, Permits
  <2>9. NPermits' = NPermits - 1 /\ NBlocks' = NBlocks - 1
    BY <1>1, <2>1, <2>8, PermitStep, BlockStep DEF SendStep, Permits
  <2>10. tokens' = tokens /\ alloc' = alloc
    BY <2>1
  <2>11. TxBlocks' /\ TxTypes'
    BY <1>1, <1>3, <1>4, <2>6, <2>9, <2>10, TxMove
  <2> QED
    BY <2>5, <2>7, <2>11 DEF BlockInv
<1>9. CASE Drain(t)
  <2>1. SendTypes' /\ Places' /\ RxBlocks' /\ RxTypes' /\ HandEmpty'
    BY <1>9, SendStays DEF Drain
  <2>2. mails' \in Seq(Segments) /\ Len(mails') = Len(mails) - 1
    BY <1>1, <1>9 DEF Drain
  <2>3. NetTypes' /\ SeqTypes'
    BY <1>9, <2>2 DEF Drain, SendStep, BlockInv, NetTypes, SeqTypes, rxVars, workVars
  <2>4. NPermits' = NPermits + 1 /\ NBlocks' = NBlocks
    BY <1>1, <1>9, PermitStep, BlockStep DEF Drain, SendStep, Permits
  <2>5. tokens' = tokens /\ alloc' = alloc - 1
    BY <1>9 DEF Drain
  <2>6. TxBlocks' /\ TxTypes'
    BY <1>1, <1>3, <1>4, <2>2, <2>4, <2>5, TxMove
  <2> QED
    BY <2>1, <2>3, <2>6 DEF BlockInv
<1>10. CASE ReleaseDrained(t)
  <2>1. SendTypes' /\ Places' /\ RxBlocks' /\ RxTypes' /\ HandEmpty'
    BY <1>10, SendStays DEF ReleaseDrained
  <2>2. NetTypes' /\ SeqTypes'
    BY <1>10 DEF ReleaseDrained, SendStep, BlockInv, NetTypes, SeqTypes, rxVars, workVars
  <2>3. NPermits' = NPermits - 1 /\ NBlocks' = NBlocks
    BY <1>1, <1>10, PermitStep, BlockStep DEF ReleaseDrained, SendStep, Permits
  <2>4. tokens' = tokens + 1 /\ mails' = mails /\ alloc' = alloc
    BY <1>10 DEF ReleaseDrained
  <2>5. TxBlocks' /\ TxTypes'
    BY <1>1, <1>3, <1>4, <2>3, <2>4, TxMove
  <2> QED
    BY <2>1, <2>2, <2>5 DEF BlockInv
<1>11. CASE Drained(t)
  <2>1. SendTypes' /\ Places' /\ RxBlocks' /\ RxTypes' /\ HandEmpty'
    BY <1>11, SendStays DEF Drained
  <2>2. NetTypes' /\ SeqTypes'
    BY <1>11 DEF Drained, SendStep, BlockInv, NetTypes, SeqTypes, rxVars, workVars, txVars
  <2>3. TxBlocks' /\ TxTypes'
    BY <1>11, TxKept DEF Drained, SendStep, Permits
  <2> QED
    BY <2>1, <2>2, <2>3 DEF BlockInv
<1>12. CASE Abort(t)
  <2>1. /\ SendStep(t, "abort", Leave(t)) /\ job' = [job EXCEPT ![t].seg = 0]
        /\ UNCHANGED txVars
    BY <1>12 DEF Abort, Leave
  <2>2. SendTypes' /\ Places' /\ RxBlocks' /\ RxTypes' /\ HandEmpty'
    <3>1. PICK to : to = Leave(t)
      OBVIOUS
    <3>2. 0 \in Nat /\ 0 <= job[t].of
      BY <1>2
    <3> QED
      BY <2>1, <3>1, <3>2, SendMove
  <2>3. sock' \in States /\ unacked' \in BOOLEAN /\ conn' \in BOOLEAN
    BY <1>12 DEF Abort, BlockInv, NetTypes, States
  <2>4. dropped' \in BOOLEAN /\ stranded' \in BOOLEAN
    BY <1>12, ZenonT(60) DEF Abort, Strand
  <2>5. NetTypes' /\ SeqTypes'
    BY <2>1, <2>3, <2>4 DEF SendStep, BlockInv, NetTypes, SeqTypes, rxVars, workVars, txVars
  <2>6. TxBlocks' /\ TxTypes'
    BY <2>1, TxKept DEF SendStep, Permits, Leave, Home
  <2> QED
    BY <2>2, <2>5, <2>6 DEF BlockInv
<1> QED
  BY <1>5, <1>6, <1>7, <1>8, <1>9, <1>10, <1>11, <1>12 DEF SendProgress

LEMMA BeginSendBlocks ==
  ASSUME BlockInv, NEW t \in Threads, BeginSend(t)
  PROVE  BlockInv'
<1>1. PICK n \in Sizes :
        job' = [job EXCEPT ![t] = [from |-> t, msg |-> messages[t] + 1, seg |-> 1, of |-> n]]
  BY DEF BeginSend
<1>2. n \in Nat /\ n >= 1 /\ Worker \in Threads
  BY TcpClientAssumption
<1>3. /\ pc \in [Threads -> PcPlaces] /\ pc' = [pc EXCEPT ![t] = "wait"]
      /\ pc[t] = IF t = Worker THEN "reply" ELSE "idle"
      /\ job \in [Threads -> Segments]
      /\ messages \in [Threads -> Nat] /\ messages' = [messages EXCEPT ![t] = @ + 1]
      /\ messages[t] < MaxMessages[t] /\ MaxMessages \in [Threads -> Nat]
  BY TcpClientAssumption DEF BeginSend, Goto, BlockInv, SendTypes
<1>4. /\ \A o \in Threads : o # t => pc'[o] = pc[o] /\ job'[o] = job[o]
      /\ pc'[t] = "wait" /\ job'[t].seg = 1 /\ job'[t].of = n /\ job'[t] \in Segments
  BY <1>1, <1>2, <1>3 DEF Segments
<1>5. SendTypes'
  <2>1. pc' \in [Threads -> PcPlaces]
    BY <1>3 DEF PcPlaces, SendPlaces
  <2>2. job' \in [Threads -> Segments]
    BY <1>1, <1>3, <1>4
  <2>3. \A o \in Threads : job'[o].seg <= job'[o].of
    BY <1>2, <1>4 DEF BlockInv, SendTypes
  <2>4. messages' \in [Threads -> Nat] /\ \A o \in Threads : messages'[o] <= MaxMessages[o]
    BY <1>3 DEF BlockInv, SendTypes
  <2> QED
    BY <2>1, <2>2, <2>3, <2>4 DEF SendTypes
<1>6. Places'
  <2>1. \A o \in Threads \ {Worker} :
          /\ pc'[o] \in {"idle"} \cup SendPlaces \cup AbortPlaces
          /\ pc'[o] # "idle" <=> job'[o].seg > 0
    BY <1>4 DEF BlockInv, Places, SendPlaces
  <2>2. /\ pc'[Worker] # "idle"
        /\ pc'[Worker] \in SendPlaces => job'[Worker].seg > 0
        /\ pc'[Worker] \in WorkPlaces => ~(job'[Worker].seg > 0)
    BY <1>2, <1>4 DEF BlockInv, Places, InSend, WorkPlaces
  <2> QED
    BY <2>1, <2>2 DEF Places, InSend
<1>7. RxBlocks' /\ RxTypes'
  <2>1. Holding' <=> Holding
    BY <1>2, <1>3, <1>4 DEF Holding, InSend
  <2>2. /\ pc'[Worker] = "rxRelease" <=> pc[Worker] = "rxRelease"
        /\ pc'[Worker] = "rxCount" <=> pc[Worker] = "rxCount"
    BY <1>2, <1>3, <1>4
  <2> QED
    BY <2>1, <2>2, RxKept DEF BeginSend
<1>8. HandEmpty'
  BY <1>2, <1>3, <1>4 DEF BlockInv, HandEmpty, BeginSend, workVars
<1>9. TxBlocks' /\ TxTypes'
  BY <1>3, TxKept DEF BeginSend, Permits
<1>10. mixed' \in BOOLEAN
  BY ZenonT(60) DEF BeginSend
<1>11. NetTypes' /\ SeqTypes'
  BY <1>10 DEF BeginSend, BlockInv, NetTypes, SeqTypes, netVars, txVars, rxVars, workVars
<1> QED
  BY <1>5, <1>6, <1>7, <1>8, <1>9, <1>11 DEF BlockInv

-----------------------------------------------------------------------------
(* TcpProcessor and the network. *)

LEMMA WorkMove ==
  ASSUME BlockInv, NEW from \in WorkPlaces, NEW to \in WorkPlaces \cup {"drain"},
         WorkStep(from, to)
  PROVE  /\ SendTypes' /\ Places'
         /\ Worker \in Threads /\ pc[Worker] = from /\ pc'[Worker] = to
         /\ Goto(Worker, to) /\ ~InSend /\ ~InSend'
<1>1. /\ Worker \in Threads /\ pc[Worker] = from /\ pc' = [pc EXCEPT ![Worker] = to]
      /\ pc \in [Threads -> PcPlaces] /\ job' = job /\ messages' = messages
  BY TcpClientAssumption DEF WorkStep, Goto, BlockInv, SendTypes
<1>2. pc'[Worker] = to /\ \A o \in Threads \ {Worker} : pc'[o] = pc[o]
  BY <1>1
<1>3. ~InSend /\ ~InSend'
  BY <1>1 DEF BlockInv, Places, InSend
<1>4. to \in PcPlaces /\ to # "idle" /\ to \notin SendPlaces
  BY DEF PcPlaces, WorkPlaces, AbortPlaces, SendPlaces
<1>5. SendTypes'
  BY <1>1, <1>4 DEF BlockInv, SendTypes
<1>6. Places'
  BY <1>1, <1>2, <1>3, <1>4 DEF BlockInv, Places
<1> QED
  BY <1>1, <1>2, <1>3, <1>5, <1>6 DEF Goto

RxPlaces == {"reply", "rxFree", "rxRelease", "rxCount"}

LEMMA WorkKept ==
  ASSUME BlockInv, NEW from \in WorkPlaces \ RxPlaces,
         NEW to \in (WorkPlaces \ RxPlaces) \cup {"drain"}, WorkStep(from, to),
         UNCHANGED <<rxTokens, rxCount, rxAlloc, rxMails>>
  PROVE  RxBlocks' /\ RxTypes'
<1>1. Holding' <=> Holding
  BY WorkMove DEF Holding, RxPlaces
<1>2. /\ pc'[Worker] = "rxRelease" <=> pc[Worker] = "rxRelease"
      /\ pc'[Worker] = "rxCount" <=> pc[Worker] = "rxCount"
  BY WorkMove DEF RxPlaces
<1> QED
  BY <1>1, <1>2, RxKept DEF WorkStep, rxVars

LEMMA WorkTxKept ==
  ASSUME BlockInv, NEW from \in WorkPlaces \ {"txRelease"},
         NEW to \in (WorkPlaces \ {"txRelease"}) \cup {"drain"}, WorkStep(from, to),
         UNCHANGED txVars
  PROVE  TxBlocks' /\ TxTypes'
<1>1. /\ from \notin Permits /\ from # "put" /\ to \notin Permits /\ to # "put"
  BY DEF Permits, WorkPlaces
<1> QED
  BY <1>1, WorkMove, TxKept

\* A step of Worker that leaves every queue alone.
LEMMA WorkStays ==
  ASSUME BlockInv, NEW from \in WorkPlaces \ (RxPlaces \cup {"txRelease"}),
         NEW to \in (WorkPlaces \ (RxPlaces \cup {"txRelease"})) \cup {"drain"},
         WorkStep(from, to), UNCHANGED <<txVars, rxTokens, rxCount, rxAlloc, rxMails>>,
         sock' \in States, unacked' \in BOOLEAN, conn' \in BOOLEAN, ack' \in BOOLEAN,
         seen' \in States, dropped' \in BOOLEAN,
         hand' \in Seq(Segments), Len(hand') <= 1, stream' \in Seq(Segments), HandEmpty'
  PROVE  BlockInv'
<1>1. SendTypes' /\ Places'
  BY WorkMove
<1>2. RxBlocks' /\ RxTypes'
  BY WorkKept
<1>3. TxBlocks' /\ TxTypes'
  BY WorkTxKept
<1>4. NetTypes' /\ SeqTypes'
  BY DEF WorkStep, BlockInv, NetTypes, SeqTypes, txVars
<1> QED
  BY <1>1, <1>2, <1>3, <1>4 DEF BlockInv

LEMMA ConnectStep ==
  ASSUME BlockInv, NEW from \in {"look", "act"}, NEW to \in {"look", "act", "tx", "drain"},
         WorkStep(from, to),
         UNCHANGED <<txVars, rxTokens, rxCount, rxAlloc, rxMails, hand, stream, dropped, ack>>,
         sock' \in States, unacked' \in BOOLEAN, conn' \in BOOLEAN, seen' \in States
  PROVE  BlockInv'
<1>1. /\ from \in WorkPlaces \ (RxPlaces \cup {"txRelease"})
      /\ to \in (WorkPlaces \ (RxPlaces \cup {"txRelease"})) \cup {"drain"}
  BY DEF WorkPlaces, RxPlaces
<1>2. pc[Worker] = from /\ pc'[Worker] = to
  BY <1>1, WorkMove
<1>3. HandEmpty'
  BY <1>2 DEF BlockInv, HandEmpty
<1>4. /\ ack' \in BOOLEAN /\ dropped' \in BOOLEAN
      /\ hand' \in Seq(Segments) /\ Len(hand') <= 1 /\ stream' \in Seq(Segments)
  BY DEF BlockInv, NetTypes, SeqTypes
<1> QED
  BY <1>1, <1>3, <1>4, WorkStays

LEMMA ConnectingBlocks ==
  ASSUME BlockInv, Connecting
  PROVE  BlockInv'
<1>1. /\ sock \in States /\ unacked \in BOOLEAN /\ conn \in BOOLEAN /\ seen \in States
      /\ {"closed", "connecting"} \subseteq States
  BY DEF BlockInv, NetTypes, States
<1>2. CASE LinkIsDown
  <2>1. /\ WorkStep("look", "drain") /\ conn' = FALSE
        /\ UNCHANGED <<sock, unacked, ack, txVars, rxTokens, rxCount, rxAlloc, rxMails,
                       seen, hand, stream, dropped>>
    BY <1>2 DEF LinkIsDown, workVars
  <2> QED
    BY <1>1, <2>1, ConnectStep
<1>3. CASE GetSocket
  <2>1. /\ WorkStep("look", "look") /\ sock' = "closed" /\ unacked' = FALSE /\ conn' = FALSE
        /\ UNCHANGED <<ack, txVars, rxTokens, rxCount, rxAlloc, rxMails,
                       seen, hand, stream, dropped>>
    BY <1>3 DEF GetSocket, workVars
  <2> QED
    BY <1>1, <2>1, ConnectStep
<1>4. CASE GetState
  <2>1. /\ WorkStep("look", "act") /\ seen' = sock
        /\ UNCHANGED <<sock, unacked, conn, ack, txVars, rxTokens, rxCount, rxAlloc,
                       rxMails, hand, stream, dropped>>
    BY <1>4 DEF GetState
  <2> QED
    BY <1>1, <2>1, ConnectStep
<1>5. CASE Act
  <2>1. PICK to \in {"tx", "look"} : WorkStep("act", to)
    BY <1>5 DEF Act
  <2>2. sock' \in States
    BY <1>1, <1>5 DEF Act
  <2>3. conn' \in BOOLEAN
    BY <1>1, <1>5 DEF Act
  <2>4. UNCHANGED <<unacked, ack, txVars, rxTokens, rxCount, rxAlloc, rxMails, seen, hand,
                    stream, dropped>>
    BY <1>5 DEF Act, workVars
  <2> QED
    BY <1>1, <2>1, <2>2, <2>3, <2>4, ConnectStep
<1> QED
  BY <1>2, <1>3, <1>4, <1>5 DEF Connecting

LEMMA TxProcessorBlocks ==
  ASSUME BlockInv, TxProcessor
  PROVE  BlockInv'
<1> DEFINE Here == WorkPlaces \ (RxPlaces \cup {"txRelease"})
<1>1. /\ {"tx", "get", "size", "send", "sending", "rx"} \subseteq Here
      /\ {"get", "txRelease", "size"} \subseteq WorkPlaces \ RxPlaces
  BY DEF WorkPlaces, RxPlaces
<1> HIDE DEF Here
<1>2. /\ sock \in States /\ unacked \in BOOLEAN /\ conn \in BOOLEAN /\ ack \in BOOLEAN
      /\ seen \in States /\ dropped \in BOOLEAN
      /\ hand \in Seq(Segments) /\ Len(hand) <= 1 /\ stream \in Seq(Segments)
      /\ mails \in Seq(Segments) /\ Len(mails) \in Nat
  BY DEF BlockInv, NetTypes, SeqTypes
<1>3. /\ tokens \in Nat /\ alloc \in Nat /\ pc \in [Threads -> PcPlaces]
      /\ NPermits \in Nat /\ NBlocks \in Nat /\ TxBlocks
  BY TcpClientAssumption, CountPermits DEF BlockInv, TxTypes, SendTypes
\* A step that leaves the queues alone.
<1>4. ASSUME NEW from \in Here, NEW to \in Here, TxStep(from, to), UNCHANGED txVars,
             unacked' \in BOOLEAN, ack' \in BOOLEAN, dropped' \in BOOLEAN,
             hand' \in Seq(Segments), Len(hand') <= 1, stream' \in Seq(Segments),
             to \notin {"txRelease", "size", "send", "sending"} => hand' = <<>>
      PROVE  BlockInv'
  <2>1. /\ WorkStep(from, to) /\ UNCHANGED <<sock, conn, seen, rxTokens, rxCount, rxAlloc, rxMails>>
    BY <1>4 DEF TxStep
  <2>2. from \in WorkPlaces \ (RxPlaces \cup {"txRelease"})
        /\ to \in WorkPlaces \ (RxPlaces \cup {"txRelease"})
    BY <1>4 DEF Here
  <2>3. HandEmpty'
    BY <1>4, <2>1, <2>2, WorkMove DEF HandEmpty
  <2> QED
    BY <1>2, <1>4, <2>1, <2>2, <2>3, WorkStays
<1>5. CASE TxCheck
  <2>1. PICK to \in {"rx", "get"} : TxStep("tx", to)
    BY <1>5 DEF TxCheck
  <2>2. hand = <<>>
    BY <2>1 DEF TxStep, WorkStep, BlockInv, HandEmpty
  <2>3. UNCHANGED <<unacked, ack, txVars, hand, stream, dropped>>
    BY <1>5 DEF TxCheck
  <2> QED
    BY <1>1, <1>2, <1>4, <2>1, <2>2, <2>3
<1>6. CASE TxNoMail
  <2>1. TxStep("get", "rx") /\ UNCHANGED <<unacked, ack, txVars, hand, stream, dropped>>
    BY <1>6 DEF TxNoMail
  <2>2. hand = <<>>
    BY <2>1 DEF TxStep, WorkStep, BlockInv, HandEmpty
  <2> QED
    BY <1>1, <1>2, <1>4, <2>1, <2>2
<1>7. CASE TxGet
  <2>1. /\ TxStep("get", "txRelease") /\ mails # <<>> /\ hand' = <<Head(mails)>>
        /\ mails' = Tail(mails) /\ alloc' = alloc - 1 /\ tokens' = tokens
        /\ unacked' = unacked /\ ack' = ack /\ stream' = stream /\ dropped' = dropped
    BY <1>7 DEF TxGet
  <2>2. /\ WorkStep("get", "txRelease")
        /\ UNCHANGED <<sock, conn, seen, rxTokens, rxCount, rxAlloc, rxMails>>
    BY <2>1 DEF TxStep
  <2>3. /\ SendTypes' /\ Places' /\ Worker \in Threads /\ pc[Worker] = "get"
        /\ pc'[Worker] = "txRelease" /\ Goto(Worker, "txRelease")
    BY <1>1, <2>2, WorkMove
  <2>4. RxBlocks' /\ RxTypes'
    BY <1>1, <2>2, WorkKept
  <2>5. mails' \in Seq(Segments) /\ Len(mails') = Len(mails) - 1 /\ Head(mails) \in Segments
    BY <1>2, <2>1
  <2>6. hand' \in Seq(Segments) /\ Len(hand') <= 1
    BY <2>1, <2>5
  <2>7. NPermits' = NPermits + 1 /\ NBlocks' = NBlocks
    BY <1>3, <2>3, PermitStep, BlockStep DEF Permits
  <2>8. TxBlocks' /\ TxTypes'
    BY <1>2, <1>3, <2>1, <2>5, <2>7, TxMove
  <2>9. NetTypes' /\ SeqTypes' /\ HandEmpty'
    BY <2>1, <2>2, <2>3, <2>5, <2>6 DEF WorkStep, BlockInv, NetTypes, SeqTypes, HandEmpty
  <2> QED
    BY <2>3, <2>4, <2>8, <2>9 DEF BlockInv
<1>8. CASE TxRelease
  <2>1. /\ TxStep("txRelease", "size") /\ tokens' = tokens + 1
        /\ mails' = mails /\ alloc' = alloc /\ hand' = hand
        /\ unacked' = unacked /\ ack' = ack /\ stream' = stream /\ dropped' = dropped
    BY <1>8 DEF TxRelease
  <2>2. /\ WorkStep("txRelease", "size")
        /\ UNCHANGED <<sock, conn, seen, rxTokens, rxCount, rxAlloc, rxMails>>
    BY <2>1 DEF TxStep
  <2>3. /\ SendTypes' /\ Places' /\ Worker \in Threads /\ pc[Worker] = "txRelease"
        /\ pc'[Worker] = "size" /\ Goto(Worker, "size")
    BY <1>1, <2>2, WorkMove
  <2>4. RxBlocks' /\ RxTypes'
    BY <1>1, <2>2, WorkKept
  <2>5. NPermits' = NPermits - 1 /\ NBlocks' = NBlocks
    BY <1>3, <2>3, PermitStep, BlockStep DEF Permits
  <2>6. TxBlocks' /\ TxTypes'
    BY <1>2, <1>3, <2>1, <2>5, TxMove
  <2>7. NetTypes' /\ SeqTypes' /\ HandEmpty'
    BY <2>1, <2>2, <2>3 DEF WorkStep, BlockInv, NetTypes, SeqTypes, HandEmpty
  <2> QED
    BY <2>3, <2>4, <2>6, <2>7 DEF BlockInv
<1>9. CASE TxSize
  <2>1. PICK to \in {"send", "rx"} : TxStep("size", to) /\ (to = "send" <=> sock = "up")
    BY <1>9 DEF TxSize
  <2>2. hand' \in Seq(Segments) /\ Len(hand') <= 1 /\ (to = "rx" => hand' = <<>>)
    BY <1>2, <1>9, <2>1 DEF TxSize
  <2>3. dropped' \in BOOLEAN
    BY <1>9, ZenonT(60) DEF TxSize
  <2>4. UNCHANGED <<unacked, ack, txVars, stream>>
    BY <1>9 DEF TxSize
  <2> QED
    BY <1>1, <1>2, <1>4, <2>1, <2>2, <2>3, <2>4
<1>10. CASE TxWait
  <2>1. TxStep("send", "sending") /\ UNCHANGED <<unacked, ack, txVars, hand, stream, dropped>>
    BY <1>10 DEF TxWait
  <2> QED
    BY <1>1, <1>2, <1>4, <2>1
<1>11. CASE TxSend
  <2>1. /\ TxStep("sending", "rx") /\ hand' = <<>> /\ ack' = FALSE
        /\ UNCHANGED txVars
    BY <1>11 DEF TxSend
  <2>2. unacked' \in BOOLEAN
    BY <1>11, ZenonT(60) DEF TxSend
  <2>3. stream' \in Seq(Segments) /\ dropped' \in BOOLEAN
    <3>1. stream \o hand \in Seq(Segments)
      BY <1>2
    <3>2. CASE sock = "up"
      BY <1>2, <1>11, <3>1, <3>2 DEF TxSend
    <3>3. CASE sock # "up"
      BY <1>2, <1>11, <3>3 DEF TxSend
    <3> QED
      BY <3>2, <3>3
  <2>4. hand' \in Seq(Segments) /\ Len(hand') <= 1
    BY <2>1
  <2> QED
    BY <1>1, <1>4, <2>1, <2>2, <2>3, <2>4
<1> QED
  BY <1>5, <1>6, <1>7, <1>8, <1>9, <1>10, <1>11 DEF TxProcessor

LEMMA DataReceiverBlocks ==
  ASSUME BlockInv, DataReceiver
  PROVE  BlockInv'
<1>1. {"rx", "reply", "rxFree", "rxRelease", "rxCount", "look"} \subseteq WorkPlaces \ {"txRelease"}
  BY DEF WorkPlaces
<1>2. /\ RxBlocks /\ rxTokens \in 0..Buffers /\ rxCount \in 0..Buffers
      /\ rxAlloc \in 0..Buffers /\ rxMails \in 0..Buffers /\ Buffers \in Nat
  BY TcpClientAssumption DEF BlockInv, RxTypes
\* All but the queue of received data.
<1>3. ASSUME NEW from \in {"rx", "reply", "rxFree", "rxRelease", "rxCount"},
             NEW to \in {"reply", "rxFree", "rxRelease", "rxCount", "look"}, RxStep(from, to)
      PROVE  /\ NetTypes' /\ SendTypes' /\ SeqTypes' /\ TxTypes' /\ Places' /\ TxBlocks'
             /\ HandEmpty' /\ pc[Worker] = from /\ pc'[Worker] = to /\ callback' = callback
             /\ ~InSend /\ ~InSend'
  <2>1. /\ WorkStep(from, to)
        /\ UNCHANGED <<sock, unacked, conn, ack, txVars, workVars, stream, dropped>>
    BY <1>3 DEF RxStep
  <2>2. from \in WorkPlaces \ {"txRelease"} /\ to \in WorkPlaces \ {"txRelease"}
    BY <1>1, <1>3
  <2>3. /\ SendTypes' /\ Places' /\ pc[Worker] = from /\ pc'[Worker] = to
        /\ ~InSend /\ ~InSend'
    BY <2>1, <2>2, WorkMove
  <2>4. TxTypes' /\ TxBlocks'
    BY <2>1, <2>2, WorkTxKept
  <2>5. NetTypes' /\ SeqTypes' /\ HandEmpty' /\ callback' = callback
    BY <1>3, <2>1, <2>3
    DEF WorkStep, BlockInv, NetTypes, SeqTypes, HandEmpty, workVars, txVars
  <2> QED
    BY <2>3, <2>4, <2>5
<1> USE DEF HeldBlock, HeldPermit, HeldCount, Holding, Arriving, RxBlocks, RxTypes
<1>4. CASE RxGet
  <2>1. CASE rxMails > 0
    <3>1. RxStep("rx", "reply") /\ rxMails' = rxMails - 1
          /\ UNCHANGED <<rxTokens, rxCount, rxAlloc>>
      BY <1>4, <2>1 DEF RxGet
    <3>2. pc[Worker] = "rx" /\ pc'[Worker] = "reply" /\ callback' = callback /\ ~InSend /\ ~InSend'
      BY <1>3, <3>1
    <3>3. RxBlocks' /\ RxTypes'
      BY <1>2, <2>1, <3>1, <3>2
    <3> QED
      BY <1>3, <3>1, <3>3 DEF BlockInv
  <2>2. CASE ~(rxMails > 0)
    <3>1. RxStep("rx", "look") /\ rxMails' = 0 /\ UNCHANGED <<rxTokens, rxCount, rxAlloc>>
      BY <1>4, <2>2 DEF RxGet
    <3>2. pc[Worker] = "rx" /\ pc'[Worker] = "look" /\ callback' = callback /\ ~InSend /\ ~InSend'
      BY <1>3, <3>1
    <3>3. RxBlocks' /\ RxTypes'
      BY <1>2, <2>2, <3>1, <3>2
    <3> QED
      BY <1>3, <3>1, <3>3 DEF BlockInv
  <2> QED
    BY <2>1, <2>2
<1>5. CASE NoReply
  <2>1. RxStep("reply", "rxFree") /\ UNCHANGED <<rxTokens, rxCount, rxAlloc, rxMails>>
    BY <1>5 DEF NoReply
  <2>2. /\ pc[Worker] = "reply" /\ pc'[Worker] = "rxFree" /\ callback' = callback
        /\ ~InSend /\ ~InSend'
    BY <1>3, <2>1
  <2>3. RxBlocks' /\ RxTypes'
    BY <1>2, <2>1, <2>2
  <2> QED
    BY <1>3, <2>1, <2>3 DEF BlockInv
<1>6. CASE RxFree
  <2>1. RxStep("rxFree", "rxRelease") /\ rxAlloc' = rxAlloc - 1
        /\ UNCHANGED <<rxTokens, rxCount, rxMails>>
    BY <1>6 DEF RxFree
  <2>2. /\ pc[Worker] = "rxFree" /\ pc'[Worker] = "rxRelease" /\ callback' = callback
        /\ ~InSend /\ ~InSend'
    BY <1>3, <2>1
  <2>3. RxBlocks' /\ RxTypes'
    BY <1>2, <2>1, <2>2
  <2> QED
    BY <1>3, <2>1, <2>3 DEF BlockInv
<1>7. CASE RxRelease
  <2>1. RxStep("rxRelease", "rxCount") /\ rxTokens' = rxTokens + 1
        /\ UNCHANGED <<rxCount, rxAlloc, rxMails>>
    BY <1>7 DEF RxRelease
  <2>2. /\ pc[Worker] = "rxRelease" /\ pc'[Worker] = "rxCount" /\ callback' = callback
        /\ ~InSend /\ ~InSend'
    BY <1>3, <2>1
  <2>3. RxBlocks' /\ RxTypes'
    BY <1>2, <2>1, <2>2
  <2> QED
    BY <1>3, <2>1, <2>3 DEF BlockInv
<1>8. CASE RxCount
  <2>1. RxStep("rxCount", "look") /\ rxCount' = rxCount + 1
        /\ UNCHANGED <<rxTokens, rxAlloc, rxMails>>
    BY <1>8 DEF RxCount
  <2>2. /\ pc[Worker] = "rxCount" /\ pc'[Worker] = "look" /\ callback' = callback
        /\ ~InSend /\ ~InSend'
    BY <1>3, <2>1
  <2>3. RxBlocks' /\ RxTypes'
    BY <1>2, <2>1, <2>2
  <2> QED
    BY <1>3, <2>1, <2>3 DEF BlockInv
<1> QED
  BY <1>4, <1>5, <1>6, <1>7, <1>8 DEF DataReceiver

LEMMA NetworkBlocks ==
  ASSUME BlockInv, Network
  PROVE  BlockInv'
<1>1. /\ UNCHANGED <<conn, txVars, pc, job, seen, hand, stream, messages, mixed, dropped>>
  BY DEF Network, Established, Acknowledged, Lose, LinkDown, LinkUp, Data, DataPut, NetStep, workVars
<1>2. SendTypes' /\ SeqTypes' /\ TxTypes' /\ Places' /\ TxBlocks' /\ HandEmpty'
  BY <1>1 DEF BlockInv, SendTypes, SeqTypes, TxTypes, Places, TxBlocks, HandEmpty, InSend,
              NPermits, NBlocks, Count, txVars
<1>3. /\ sock' \in States /\ unacked' \in BOOLEAN /\ link' \in BOOLEAN /\ ack' \in BOOLEAN
      /\ callback' \in BOOLEAN
  BY DEF Network, Established, Acknowledged, Lose, LinkDown, LinkUp, Data, DataPut, NetStep,
         netVars, rxVars, BlockInv, NetTypes, States
<1>4. losses' \in 0..MaxLosses
  <2>1. losses \in 0..MaxLosses /\ MaxLosses \in Nat /\ (~link => link = FALSE)
    BY TcpClientAssumption DEF BlockInv, NetTypes
  <2>2. CASE Lose
    BY <2>1, <2>2 DEF Lose
  <2>3. CASE LinkDown
    BY <2>1, <2>3 DEF LinkDown
  <2>4. CASE Established \/ Acknowledged \/ LinkUp \/ Data \/ DataPut
    BY <2>1, <2>4 DEF Established, Acknowledged, LinkUp, Data, DataPut
  <2> QED
    BY <2>2, <2>3, <2>4 DEF Network
<1>5. stranded' \in BOOLEAN
  <2>1. CASE Lose
    BY <2>1, ZenonT(60) DEF Lose, Strand
  <2>2. CASE ~Lose
    BY <2>2 DEF Network, Established, Acknowledged, LinkDown, LinkUp, Data, DataPut, BlockInv, NetTypes
  <2> QED
    BY <2>1, <2>2
<1>6. /\ RxBlocks /\ rxTokens \in 0..Buffers /\ rxCount \in 0..Buffers
      /\ rxAlloc \in 0..Buffers /\ rxMails \in 0..Buffers /\ Buffers \in Nat
      /\ callback \in BOOLEAN /\ pieces \in 0..MaxPieces /\ MaxPieces \in Nat
  BY TcpClientAssumption DEF BlockInv, RxTypes, NetTypes
<1>7. HeldBlock' = HeldBlock /\ HeldPermit' = HeldPermit /\ HeldCount' = HeldCount
  BY <1>1 DEF HeldBlock, HeldPermit, HeldCount, Holding, InSend
<1>8. HeldBlock \in {0, 1} /\ HeldPermit \in {0, 1} /\ HeldCount \in {0, 1}
      /\ HeldBlock <= HeldPermit
  BY DEF HeldBlock, HeldPermit, HeldCount
<1>9. RxBlocks' /\ RxTypes' /\ pieces' \in 0..MaxPieces
  <2>1. CASE Data
    <3>1. CASE rxCount = 0 \/ rxTokens = 0
      BY <1>6, <1>7, <2>1, <3>1 DEF Data, RxBlocks, RxTypes, Arriving
    <3>2. CASE ~(rxCount = 0 \/ rxTokens = 0)
      BY <1>6, <1>7, <1>8, <2>1, <3>2 DEF Data, RxBlocks, RxTypes, Arriving
    <3> QED
      BY <3>1, <3>2
  <2>2. CASE DataPut
    <3>1. callback /\ callback' = FALSE /\ rxTokens' = rxTokens /\ rxCount' = rxCount
          /\ pieces' = pieces
      BY <2>2 DEF DataPut
    <3>2. rxAlloc < Buffers
      BY <1>6, <1>8, <3>1 DEF RxBlocks, Arriving
    <3>3. rxAlloc' = rxAlloc + 1 /\ rxMails' = rxMails + 1
      BY <2>2, <3>2 DEF DataPut
    <3> QED
      BY <1>6, <1>7, <1>8, <3>1, <3>2, <3>3 DEF RxBlocks, RxTypes, Arriving
  <2>3. CASE Established \/ Acknowledged \/ Lose \/ LinkDown \/ LinkUp
    <3>1. UNCHANGED <<rxTokens, rxCount, rxAlloc, rxMails, callback, pieces>>
      BY <2>3 DEF Established, Acknowledged, Lose, LinkDown, LinkUp, rxVars
    <3> QED
      BY <1>6, <1>7, <3>1 DEF RxBlocks, RxTypes, Arriving
  <2> QED
    BY <2>1, <2>2, <2>3 DEF Network
<1>10. NetTypes'
  BY <1>1, <1>3, <1>4, <1>5, <1>9 DEF BlockInv, NetTypes
<1> QED
  BY <1>2, <1>9, <1>10 DEF BlockInv

LEMMA BlockInit == Init => BlockInv
<1> SUFFICES ASSUME Init PROVE BlockInv
  OBVIOUS
<1>1. /\ Worker \in Threads /\ Buffers \in Nat /\ MaxLosses \in Nat /\ MaxPieces \in Nat
      /\ MaxMessages \in [Threads -> Nat]
  BY TcpClientAssumption
<1>2. /\ pc = [t \in Threads |-> IF t = Worker THEN "look" ELSE "idle"]
      /\ job = [t \in Threads |-> [from |-> t, msg |-> 0, seg |-> 0, of |-> 0]]
      /\ messages = [t \in Threads |-> 0]
  BY DEF Init
<1>3. NetTypes
  <2>1. losses \in 0..MaxLosses /\ pieces \in 0..MaxPieces
    BY <1>1 DEF Init
  <2> QED
    BY <2>1 DEF Init, NetTypes, States
<1>4. SendTypes
  BY <1>1, <1>2 DEF SendTypes, PcPlaces, WorkPlaces, Segments
<1>5. SeqTypes /\ TxTypes /\ RxTypes
  BY <1>1 DEF Init, SeqTypes, TxTypes, RxTypes
<1>6. Places
  BY <1>1, <1>2 DEF Places, InSend, SendPlaces, WorkPlaces
<1>7. ASSUME NEW S, "look" \notin S, "idle" \notin S
      PROVE  Count(S) = 0
  <2>1. {t \in Threads : pc[t] \in S} = {}
    BY <1>2, <1>7
  <2> QED
    BY <2>1, FS_EmptySet DEF Count
<1>8. NPermits = 0 /\ NBlocks = 0
  BY <1>7 DEF NPermits, NBlocks, Permits
<1>9. TxBlocks
  BY <1>1, <1>8 DEF Init, TxBlocks
<1>10. RxBlocks
  BY <1>1, <1>2 DEF Init, RxBlocks, HeldBlock, HeldPermit, HeldCount, Holding, Arriving, InSend
<1>11. HandEmpty
  BY DEF Init, HandEmpty
<1> QED
  BY <1>3, <1>4, <1>5, <1>6, <1>9, <1>10, <1>11 DEF BlockInv

LEMMA BlockNext == BlockInv /\ [Next]_vars => BlockInv'
<1> SUFFICES ASSUME BlockInv, [Next]_vars PROVE BlockInv'
  OBVIOUS
<1>1. CASE Next
  BY <1>1, BeginSendBlocks, SendProgressBlocks, ConnectingBlocks, TxProcessorBlocks,
     DataReceiverBlocks, NetworkBlocks DEF Next
<1>2. CASE UNCHANGED vars
  BY <1>2 DEF vars, BlockInv, NetTypes, SendTypes, SeqTypes, TxTypes, RxTypes, Places,
    TxBlocks, RxBlocks, HandEmpty, InSend, NPermits, NBlocks, Count, HeldBlock, HeldPermit,
    HeldCount, Holding, Arriving
<1> QED
  BY <1>1, <1>2

LEMMA BlockInvariant == Spec => []BlockInv
  BY BlockInit, BlockNext, PTL DEF Spec

LEMMA BlocksSuffice == BlockInv => Inv
<1> SUFFICES ASSUME BlockInv PROVE Inv
  OBVIOUS
<1>1. TypeOK
  BY TypeParts DEF BlockInv
<1>2. NPermits = Count({"alloc", "put", "release", "txRelease"}) /\ NAllocating = Count({"alloc"})
  BY DEF NPermits, NAllocating, Permits
<1>3. PICK p \in Nat, b \in Nat, a \in Nat, m \in Nat :
        p = NPermits /\ b = NBlocks /\ a = NAllocating /\ m = Len(mails)
  <2>1. mails \in Seq(Segments)
    BY DEF BlockInv, SeqTypes
  <2>2. Len(mails) \in Nat
    BY <2>1
  <2> QED
    BY <2>2, CountPermits
<1>4. a + b <= p /\ tokens + m + p = Buffers /\ alloc = m + b
  BY <1>3, CountPermits DEF BlockInv, TxBlocks
<1>5. tokens \in Nat /\ Buffers \in Nat
  BY TcpClientAssumption DEF BlockInv, TxTypes
<1>6. tokens + Len(mails) + Count({"alloc", "put", "release", "txRelease"}) = Buffers
  BY <1>2, <1>3, <1>4
<1>7. a > 0 => alloc < Buffers
  BY <1>4, <1>5
<1>8. callback => rxAlloc < Buffers
  BY <1>5 DEF BlockInv, RxBlocks, RxTypes, HeldBlock, HeldPermit, Arriving
<1> QED
  BY <1>1, <1>2, <1>3, <1>6, <1>7, <1>8 DEF Inv, PermitHasBlock

(* No permit of the mail queues is lost or made, and whoever has one finds a  *)
(* free block: SendData never waits in osMailAlloc, and tcp_cb_func never     *)
(* loses a permit for want of one, whatever AbortConnection drains.           *)
THEOREM PermitsHaveBlocks == Spec => []Inv
  BY BlockInvariant, BlocksSuffice, PTL

-----------------------------------------------------------------------------
(* Messages are whole.                                                      *)

OneSender == \A t, o \in Threads : job[t].seg > 0 /\ job[o].seg > 0 => t = o

Follows(this, next) ==
  IF this.seg < this.of THEN next = [this EXCEPT !.seg = @ + 1] ELSE next.seg = 1

\* The pipeline ends with the end of a message.
Ended == Pipeline # <<>> => Pipeline[Len(Pipeline)].seg = Pipeline[Len(Pipeline)].of

\* The segment before the one that t is at is the last of the pipeline.
Tied(t) ==
  IF job[t].seg = 1 THEN Ended
  ELSE /\ Pipeline # <<>>
       /\ Pipeline[Len(Pipeline)] = [job[t] EXCEPT !.seg = @ - 1]

Joined ==
  /\ \A t \in Threads : job[t].seg > 0 => Tied(t)
  /\ (\A t \in Threads : job[t].seg = 0) => Ended

Chained == \A i \in 1 .. Len(Pipeline) - 1 : Follows(Pipeline[i], Pipeline[i + 1])

WholeInv ==
  /\ ~mixed => OneSender
  /\ ~mixed /\ ~dropped => Joined /\ Chained

LEMMA WholeSuffices == WholeInv => MessagesWhole
  BY DEF WholeInv, Chained, Follows, MessagesWhole

LEMMA WholeInit == Init => WholeInv
<1> SUFFICES ASSUME Init PROVE WholeInv
  OBVIOUS
<1>1. job = [t \in Threads |-> [from |-> t, msg |-> 0, seg |-> 0, of |-> 0]]
  BY DEF Init
<1>2. \A t \in Threads : job[t].seg = 0
  BY <1>1
<1>3. Pipeline = <<>>
  BY DEF Init, Pipeline
<1> QED
  BY <1>2, <1>3 DEF WholeInv, OneSender, Joined, Chained, Ended

\* A step that leaves the pipeline and the jobs alone, or drops a segment.
LEMMA WholeKept ==
  ASSUME WholeInv, UNCHANGED <<job, mixed>>,
         dropped' = TRUE \/ (dropped' = dropped /\ Pipeline' = Pipeline)
  PROVE  WholeInv'
<1>1. (~mixed => OneSender)'
  BY DEF WholeInv, OneSender
<1>2. CASE dropped'
  BY <1>1, <1>2 DEF WholeInv
<1>3. CASE ~dropped'
  <2>1. ~dropped /\ Pipeline' = Pipeline
    BY <1>3
  <2>2. ~mixed => Joined' /\ Chained'
    BY <2>1 DEF WholeInv, Joined, Chained, Tied, Ended
  <2> QED
    BY <1>1, <2>2 DEF WholeInv
<1> QED
  BY <1>2, <1>3

LEMMA PipelineType ==
  ASSUME BlockInv
  PROVE  /\ Pipeline \in Seq(Segments) /\ Len(Pipeline) \in Nat
         /\ \A i \in 1..Len(Pipeline) : Pipeline[i] \in Segments
<1>1. stream \in Seq(Segments) /\ hand \in Seq(Segments) /\ mails \in Seq(Segments)
  BY DEF BlockInv, SeqTypes
<1>2. stream \o hand \in Seq(Segments)
  BY <1>1
<1>3. Pipeline \in Seq(Segments)
  BY <1>1, <1>2 DEF Pipeline
<1> QED
  BY <1>3

\* Who is at a segment is in SendData.
LEMMA SendersAre ==
  ASSUME BlockInv, NEW t \in Threads, job[t].seg > 0
  PROVE  Sending(t)
  BY DEF BlockInv, SendTypes, Places, InSend, PcPlaces, Sending

LEMMA SegmentBefore ==
  ASSUME NEW j \in Segments, NEW k \in Segments
  PROVE  k = [j EXCEPT !.seg = @ - 1] <=> j = [k EXCEPT !.seg = @ + 1]
<1>1. /\ j = [from |-> j.from, msg |-> j.msg, seg |-> j.seg, of |-> j.of]
      /\ k = [from |-> k.from, msg |-> k.msg, seg |-> k.seg, of |-> k.of]
      /\ j.seg \in Nat /\ k.seg \in Nat
  BY DEF Segments
<1>2. [j EXCEPT !.seg = @ - 1] = [from |-> j.from, msg |-> j.msg, seg |-> j.seg - 1, of |-> j.of]
  BY DEF Segments
<1>3. [k EXCEPT !.seg = @ + 1] = [from |-> k.from, msg |-> k.msg, seg |-> k.seg + 1, of |-> k.of]
  BY DEF Segments
<1>4. ASSUME k = [j EXCEPT !.seg = @ - 1]
      PROVE  j = [k EXCEPT !.seg = @ + 1]
  <2>1. k.from = j.from /\ k.msg = j.msg /\ k.seg = j.seg - 1 /\ k.of = j.of
    BY <1>2, <1>4
  <2> QED
    BY <1>1, <1>3, <2>1
<1>5. ASSUME j = [k EXCEPT !.seg = @ + 1]
      PROVE  k = [j EXCEPT !.seg = @ - 1]
  <2>1. k.from = j.from /\ k.msg = j.msg /\ j.seg = k.seg + 1 /\ k.of = j.of
    BY <1>3, <1>5
  <2> QED
    BY <1>1, <1>2, <2>1
<1> QED
  BY <1>4, <1>5

LEMMA BeginSendWhole ==
  ASSUME BlockInv, WholeInv, NEW t \in Threads, BeginSend(t)
  PROVE  WholeInv'
<1>1. PICK n \in Sizes :
        job' = [job EXCEPT ![t] = [from |-> t, msg |-> messages[t] + 1, seg |-> 1, of |-> n]]
  BY DEF BeginSend
<1>2. mixed' <=> mixed \/ \E o \in Threads : Sending(o)
  BY DEF BeginSend
<1>3. Pipeline' = Pipeline /\ dropped' = dropped
  BY DEF BeginSend, Pipeline, txVars, workVars
<1>4. CASE mixed'
  BY <1>4 DEF WholeInv
<1>5. CASE ~mixed'
  <2>1. ~mixed /\ \A o \in Threads : ~(job[o].seg > 0)
    BY <1>2, <1>5, SendersAre
  <2>2. \A o \in Threads : job[o].seg \in Nat
    BY DEF BlockInv, SendTypes, Segments
  <2>3. \A o \in Threads : job[o].seg = 0
    BY <2>1, <2>2
  <2>4. /\ job'[t].seg = 1
        /\ \A o \in Threads : o # t => job'[o].seg = 0
    BY <1>1, <2>3 DEF BlockInv, SendTypes
  <2>5. OneSender'
    BY <2>4 DEF OneSender
  <2>6. ~dropped => Ended' /\ Chained'
    BY <1>3, <2>1, <2>3 DEF WholeInv, Joined, Ended, Chained
  <2>7. ~dropped => Joined'
    BY <2>4, <2>6 DEF Joined, Tied
  <2> QED
    BY <1>3, <2>5, <2>6, <2>7 DEF WholeInv
<1> QED
  BY <1>4, <1>5

LEMMA PutWhole ==
  ASSUME BlockInv, WholeInv, NEW t \in Threads, Put(t)
  PROVE  WholeInv'
<1>1. /\ job \in [Threads -> Segments] /\ job[t].seg <= job[t].of
      /\ mails \in Seq(Segments) /\ stream \in Seq(Segments) /\ hand \in Seq(Segments)
  BY DEF BlockInv, SendTypes, SeqTypes
<1>2. PICK x \in Nat : x = IF job[t].seg = job[t].of THEN 0 ELSE job[t].seg + 1
  BY <1>1 DEF Segments
<1>3. /\ job' = [job EXCEPT ![t].seg = x]
      /\ mails' = Append(mails, job[t])
      /\ mixed' = mixed /\ dropped' = dropped /\ stream' = stream /\ hand' = hand
      /\ pc[t] = "put"
  BY <1>1, <1>2 DEF Put, SendStep, workVars, Segments
<1>4. job[t] \in Segments /\ job[t].seg > 0 /\ job[t].seg \in Nat /\ job[t].of \in Nat
  BY <1>1, <1>3 DEF BlockInv, Places, InSend, SendPlaces, Segments
<1>5. /\ job'[t] = [job[t] EXCEPT !.seg = x]
      /\ \A o \in Threads : o # t => job'[o] = job[o]
  BY <1>1, <1>3 DEF Segments
<1>6. job'[t].seg = x /\ job'[t].of = job[t].of
  BY <1>4, <1>5 DEF Segments
<1>7. (~mixed => OneSender)'
  BY <1>3, <1>4, <1>5, <1>6 DEF WholeInv, OneSender
<1>8. Pipeline' = Append(Pipeline, job[t])
  <2>1. stream \o hand \in Seq(Segments)
    BY <1>1
  <2>2. PICK s \in Seq(Segments) : s = stream \o hand
    BY <2>1
  <2>3. s \o Append(mails, job[t]) = Append(s \o mails, job[t])
    BY <1>1, <1>4
  <2> QED
    BY <1>3, <2>2, <2>3 DEF Pipeline
<1>9. PICK p \in Seq(Segments), m \in Nat, j \in Segments :
        p = Pipeline /\ m = Len(p) /\ j = job[t]
  BY <1>4, PipelineType
<1>10. /\ Pipeline' = Append(p, j) /\ Len(Pipeline') = m + 1 /\ Pipeline'[m + 1] = j
       /\ \A i \in 1..m : Pipeline'[i] = p[i] /\ p[i] \in Segments
       /\ Pipeline' # <<>>
  BY <1>8, <1>9
<1>11. ASSUME ~mixed, ~dropped
       PROVE  Joined' /\ Chained'
  <2>1. Joined /\ Chained /\ Tied(t)
    BY <1>4, <1>11 DEF WholeInv, Joined
  <2>2. \A o \in Threads : o # t => job'[o].seg = 0
    <3>1. \A o \in Threads : job[o].seg > 0 => o = t
      BY <1>4, <1>11 DEF WholeInv, OneSender
    <3>2. \A o \in Threads : job[o].seg \in Nat
      BY <1>1 DEF Segments
    <3> QED
      BY <1>5, <3>1, <3>2
  <2>3. m > 0 => Follows(p[m], j)
    <3>1. SUFFICES ASSUME m > 0 PROVE Follows(p[m], j)
      OBVIOUS
    <3>2. p # <<>> /\ m \in 1..m /\ p[m] \in Segments
      BY <1>9, <1>10, <3>1
    <3>3. CASE j.seg = 1
      <4>1. p[m].seg = p[m].of
        BY <1>9, <2>1, <3>2, <3>3 DEF Tied, Ended
      <4>2. ~(p[m].seg < p[m].of)
        BY <3>2, <4>1 DEF Segments
      <4> QED
        BY <3>3, <4>2 DEF Follows
    <3>4. CASE j.seg # 1
      <4>1. p[m] = [j EXCEPT !.seg = @ - 1]
        BY <1>9, <2>1, <3>4 DEF Tied
      <4>2. p[m].seg = j.seg - 1 /\ p[m].of = j.of /\ j.seg <= j.of /\ j.seg \in Nat /\ j.of \in Nat
        BY <1>1, <1>9, <4>1 DEF Segments
      <4>3. j = [p[m] EXCEPT !.seg = @ + 1]
        <5>1. PICK k \in Segments : k = p[m]
          BY <3>2
        <5>2. k = [j EXCEPT !.seg = @ - 1]
          BY <4>1, <5>1
        <5> QED
          BY <5>1, <5>2, SegmentBefore
      <4> QED
        BY <4>2, <4>3 DEF Follows
    <3> QED
      BY <3>3, <3>4
  <2>4. Chained'
    <3>1. \A i \in 1..m - 1 : Follows(p[i], p[i + 1])
      BY <1>9, <2>1 DEF Chained
    <3>2. ASSUME NEW i \in 1..m
          PROVE  Follows(Pipeline'[i], Pipeline'[i + 1])
      <4>1. CASE i = m
        BY <1>10, <2>3, <3>2, <4>1
      <4>2. CASE i # m
        <5>1. i \in 1..m - 1 /\ i + 1 \in 1..m
          BY <1>9, <3>2, <4>2
        <5> QED
          BY <1>10, <3>1, <5>1
      <4> QED
        BY <4>1, <4>2
    <3>3. 1..(Len(Pipeline') - 1) = 1..m
      BY <1>9, <1>10
    <3> QED
      BY <3>2, <3>3 DEF Chained
  <2>5. Pipeline'[Len(Pipeline')] = j
    BY <1>10
  <2>6. CASE j.seg = j.of
    <3>1. \A o \in Threads : job'[o].seg = 0
      BY <1>2, <1>6, <1>9, <2>2, <2>6
    <3>2. Ended'
      BY <2>5, <2>6 DEF Ended
    <3> QED
      BY <2>4, <3>1, <3>2 DEF Joined
  <2>7. CASE j.seg # j.of
    <3>1. x = j.seg + 1 /\ x > 1
      BY <1>2, <1>4, <1>9, <2>7
    <3>2. job'[t] = [j EXCEPT !.seg = x] /\ j.seg \in Nat
      BY <1>4, <1>5, <1>9
    <3>3. j = [job'[t] EXCEPT !.seg = @ - 1]
      <4>1. PICK k \in Segments : k = job'[t]
        BY <3>1, <3>2, <1>9 DEF Segments
      <4>2. k = [j EXCEPT !.seg = @ + 1]
        BY <3>1, <3>2, <4>1
      <4> QED
        BY <1>9, <4>1, <4>2, SegmentBefore
    <3>4. Tied(t)'
      <4>1. job'[t].seg # 1
        BY <1>6, <3>1
      <4>2. Pipeline' # <<>> /\ Pipeline'[Len(Pipeline')] = [job'[t] EXCEPT !.seg = @ - 1]
        BY <1>10, <2>5, <3>3
      <4> QED
        BY <4>1, <4>2 DEF Tied
    <3>5. job'[t].seg # 0
      BY <1>6, <3>1
    <3> QED
      BY <2>2, <2>4, <3>4, <3>5 DEF Joined
  <2> QED
    BY <2>6, <2>7
<1> QED
  BY <1>3, <1>7, <1>11 DEF WholeInv

LEMMA SendProgressWhole ==
  ASSUME BlockInv, WholeInv, NEW t \in Threads, SendProgress(t)
  PROVE  WholeInv'
<1>1. CASE TakePermit(t) \/ NoPermit(t) \/ Alloc(t) \/ ReleaseDrained(t) \/ Drained(t)
  <2>1. UNCHANGED <<job, mixed, dropped, stream, hand, mails>>
    BY <1>1 DEF TakePermit, NoPermit, Alloc, ReleaseDrained, Drained, SendStep, workVars, txVars
  <2> QED
    BY <2>1, WholeKept DEF Pipeline
<1>2. CASE Put(t)
  BY <1>2, PutWhole
<1>3. CASE Drain(t)
  BY <1>3, WholeKept DEF Drain, SendStep
<1>4. CASE Abort(t)
  <2>1. /\ job' = [job EXCEPT ![t].seg = 0] /\ mixed' = mixed
        /\ stream' = stream /\ hand' = hand /\ mails' = mails
    BY <1>4 DEF Abort, SendStep, workVars, txVars
  <2>2. job \in [Threads -> Segments] /\ job[t].seg \in Nat
    BY DEF BlockInv, SendTypes, Segments
  <2>3. CASE job[t].seg = 0
    <3>1. dropped' = (dropped \/ FALSE)
      BY <1>4, <2>3 DEF Abort
    <3>2. CASE dropped
      BY <3>1, <3>2, <2>1, <2>2, <2>3 DEF WholeInv, OneSender, Segments
    <3>3. CASE ~dropped
      <4>1. \A o \in Threads : job'[o].seg = job[o].seg
        BY <2>1, <2>2, <2>3 DEF Segments
      <4>2. \A o \in Threads : job[o].seg > 0 => job'[o] = job[o]
        BY <2>1, <2>2, <2>3 DEF Segments
      <4>3. Pipeline' = Pipeline
        BY <2>1 DEF Pipeline
      <4>4. ~dropped'
        BY <3>1, <3>3
      <4>5. (~mixed => OneSender)'
        BY <2>1, <4>1 DEF WholeInv, OneSender
      <4>6. ~mixed => Joined' /\ Chained'
        BY <3>3, <4>1, <4>2, <4>3 DEF WholeInv, Joined, Tied, Ended, Chained
      <4> QED
        BY <2>1, <4>5, <4>6 DEF WholeInv
    <3> QED
      BY <3>2, <3>3
  <2>4. CASE job[t].seg # 0
    <3>1. dropped' = (dropped \/ TRUE)
      BY <1>4, <2>2, <2>4 DEF Abort
    <3>2. \A o \in Threads : job'[o].seg > 0 => job[o].seg > 0
      BY <2>1, <2>2 DEF Segments
    <3>3. (~mixed => OneSender)'
      BY <2>1, <3>2 DEF WholeInv, OneSender
    <3> QED
      BY <3>1, <3>3 DEF WholeInv
  <2> QED
    BY <2>3, <2>4
<1> QED
  BY <1>1, <1>2, <1>3, <1>4 DEF SendProgress

LEMMA TxProcessorWhole ==
  ASSUME BlockInv, WholeInv, TxProcessor
  PROVE  WholeInv'
<1>1. mails \in Seq(Segments) /\ stream \in Seq(Segments) /\ hand \in Seq(Segments)
  BY DEF BlockInv, SeqTypes
<1>2. UNCHANGED <<job, mixed>>
  BY DEF TxProcessor, TxCheck, TxNoMail, TxGet, TxRelease, TxSize, TxWait, TxSend, TxStep, WorkStep
<1>3. CASE TxCheck \/ TxNoMail \/ TxRelease \/ TxWait
  <2>1. UNCHANGED <<dropped, stream, hand, mails>>
    BY <1>3 DEF TxCheck, TxNoMail, TxRelease, TxWait, txVars
  <2> QED
    BY <1>2, <2>1, WholeKept DEF Pipeline
<1>4. CASE TxGet
  <2>1. /\ mails # <<>> /\ hand' = <<Head(mails)>> /\ mails' = Tail(mails)
        /\ stream' = stream /\ dropped' = dropped /\ pc[Worker] = "get"
    BY <1>4 DEF TxGet, TxStep, WorkStep
  <2>2. hand = <<>>
    BY <2>1 DEF BlockInv, HandEmpty
  <2>3. PICK h \in Segments, r \in Seq(Segments) : h = Head(mails) /\ r = Tail(mails)
    <3>1. Head(mails) \in Segments /\ Tail(mails) \in Seq(Segments)
      BY <1>1, <2>1, HeadTailProperties
    <3> QED
      BY <3>1
  <2>4. mails = <<h>> \o r
    BY <1>1, <2>1, <2>3
  <2>5. stream \o <<>> = stream
    BY <1>1
  <2>6. (stream \o <<h>>) \o r = stream \o (<<h>> \o r)
    BY <1>1, <2>3
  <2>7. Pipeline' = Pipeline
    BY <2>1, <2>2, <2>3, <2>4, <2>5, <2>6 DEF Pipeline
  <2> QED
    BY <1>2, <2>1, <2>7, WholeKept
<1>5. CASE TxSize
  <2>1. CASE sock = "up"
    <3>1. UNCHANGED <<stream, hand, mails>> /\ dropped' = (dropped \/ FALSE)
      BY <1>5, <2>1 DEF TxSize, txVars
    <3>2. dropped' = dropped
      BY <3>1 DEF BlockInv, NetTypes
    <3> QED
      BY <1>2, <3>1, <3>2, WholeKept DEF Pipeline
  <2>2. CASE sock # "up"
    <3>1. dropped' = (dropped \/ TRUE)
      BY <1>5, <2>2 DEF TxSize
    <3> QED
      BY <1>2, <3>1, WholeKept
  <2> QED
    BY <2>1, <2>2
<1>6. CASE TxSend
  <2>1. CASE sock = "up"
    <3>1. stream' = stream \o hand /\ hand' = <<>> /\ mails' = mails /\ dropped' = dropped
      BY <1>6, <2>1 DEF TxSend, txVars
    <3>2. (stream \o hand) \o <<>> = stream \o hand
      BY <1>1
    <3>3. Pipeline' = Pipeline
      BY <3>1, <3>2 DEF Pipeline
    <3> QED
      BY <1>2, <3>1, <3>3, WholeKept
  <2>2. CASE sock # "up"
    <3>1. dropped' = TRUE
      BY <1>6, <2>2 DEF TxSend
    <3> QED
      BY <1>2, <3>1, WholeKept
  <2> QED
    BY <2>1, <2>2
<1> QED
  BY <1>3, <1>4, <1>5, <1>6 DEF TxProcessor

LEMMA OthersWhole ==
  ASSUME WholeInv, Connecting \/ DataReceiver \/ Network
  PROVE  WholeInv'
<1>1. CASE Connecting
  <2>1. UNCHANGED <<job, mixed, dropped, stream, hand, mails>>
    BY <1>1 DEF Connecting, LinkIsDown, GetSocket, GetState, Act, WorkStep, workVars, txVars
  <2> QED
    BY <2>1, WholeKept DEF Pipeline
<1>2. CASE DataReceiver
  <2>1. UNCHANGED <<job, mixed, dropped, stream, hand, mails>>
    BY <1>2 DEF DataReceiver, RxGet, NoReply, RxFree, RxRelease, RxCount, RxStep, WorkStep,
                workVars, txVars
  <2> QED
    BY <2>1, WholeKept DEF Pipeline
<1>3. CASE Network
  <2>1. UNCHANGED <<job, mixed, dropped, stream, hand, mails>>
    BY <1>3 DEF Network, Established, Acknowledged, Lose, LinkDown, LinkUp, Data, DataPut,
                NetStep, workVars, txVars
  <2> QED
    BY <2>1, WholeKept DEF Pipeline
<1> QED
  BY <1>1, <1>2, <1>3

LEMMA WholeNext == BlockInv /\ WholeInv /\ [Next]_vars => WholeInv'
<1> SUFFICES ASSUME BlockInv, WholeInv, [Next]_vars PROVE WholeInv'
  OBVIOUS
<1>1. CASE Next
  BY <1>1, BeginSendWhole, SendProgressWhole, TxProcessorWhole, OthersWhole DEF Next
<1>2. CASE UNCHANGED vars
  <2>1. UNCHANGED <<job, mixed, dropped, stream, hand, mails>>
    BY <1>2 DEF vars
  <2> QED
    BY <2>1, WholeKept DEF Pipeline
<1> QED
  BY <1>1, <1>2

(* What SendData was given reaches the network whole and in order, also if    *)
(* the connection is lost in between, as long as one thread sends at a time   *)
(* and neither AbortConnection nor TxProcessor drops a segment.               *)
THEOREM MessagesAreWhole == Spec => []MessagesWhole
<1>1. Init => WholeInv
  BY WholeInit
<1>2. BlockInv /\ WholeInv /\ [Next]_vars => WholeInv'
  BY WholeNext
<1>3. WholeInv => MessagesWhole
  BY WholeSuffices
<1> QED
  BY <1>1, <1>2, <1>3, BlockInvariant, PTL DEF Spec
===============================================================================
