--------------------------- MODULE CanDevice_proofs ---------------------------
(***************************************************************************)
(* Proofs about CanDevice, for any threads, workers, keys and bounds.       *)
(*                                                                         *)
(* The inductive invariant IInv adds to TypeOK and PermitsConserved what    *)
(* ties the three actors together: a call keeps its key from the moment it  *)
(* begins and has one thread (CallsBegun); the worker a thread is about to  *)
(* record waits for that thread and no other (Handover); an entry names a   *)
(* worker of its own key (EntryOwned); and, for a key with one writer, the  *)
(* entry tells whether a worker is there (SoloEntry).                       *)
(* That a reported success was executed rests on a count over all calls of  *)
(* a key (Answers, after the steps of IInv).                                *)
(***************************************************************************)
EXTENDS CanDevice, FiniteSetTheorems, SequenceTheorems, TLAPS

\* A thread inside WriteAttribute and a worker that exists have a call that
\* has begun, and its key; a thread's call is for one of its keys, is no
\* other thread's, and is not lost before its thread failed to create.
CallsBegun ==
  /\ \A t \in Threads :
       pc[t] # "idle" => cur[t] \in 1..issued /\ keyOf[cur[t]] \in KeysOf[t]
  /\ \A t \in Threads :
       pc[t] \in {"check", "delay", "take", "create"} => cur[t] \notin lost
  /\ \A t, u \in Threads :
       pc[t] # "idle" /\ pc[u] # "idle" /\ cur[t] = cur[u] => t = u
  /\ \A w \in Workers :
       wpc[w] # "free" => job[w] \in 1..issued /\ keyOf[job[w]] \in Keys
  /\ lost \subseteq 1..issued

\* A worker about to send has tries left.
TriesLeft ==
  \A w \in Workers : wpc[w] \in {"created", "request"} => tries[w] < MaxTries

\* A worker that waits for flag 0x100 is the one its creator is about to
\* record, and only that one's.
Handover ==
  /\ \A t \in Threads :
       pc[t] = "record" /\ tid[t] \in Workers
         => wpc[tid[t]] = "created" /\ job[tid[t]] = cur[t]
  /\ \A w \in Workers :
       wpc[w] = "created" => \E t \in Threads : pc[t] = "record" /\ tid[t] = w
  /\ \A t, u \in Threads :
       pc[t] = "record" /\ pc[u] = "record" /\ tid[t] = tid[u] /\ tid[t] \in Workers
         => t = u

\* For a key with one writer: a serving worker is in the entry, and the entry
\* is free while the writer is past its search.
EntryShows(k) ==
  /\ \A w \in Workers :
       wpc[w] \in Serving /\ keyOf[job[w]] = k => SyncTable[k] = w
  /\ \A t \in Threads :
       pc[t] \in {"take", "create", "record"} /\ keyOf[cur[t]] = k
         => SyncTable[k] = NoEntry

SoloEntry == \A k \in Keys : Solo(k) => EntryShows(k)

IInv ==
  /\ TypeOK
  /\ CallsBegun
  /\ TriesLeft
  /\ Handover
  /\ EntryOwned
  /\ SoloEntry
  /\ PermitsConserved

-----------------------------------------------------------------------------
(* The counts of PermitsConserved are counts of finite sets. *)

LEMMA CountsFinite ==
  ASSUME TypeOK
  PROVE  /\ IsFiniteSet(Creating) /\ Cardinality(Creating) \in Nat
         /\ IsFiniteSet(HoldingWorkers) /\ Cardinality(HoldingWorkers) \in Nat
         /\ IsFiniteSet(lost) /\ Cardinality(lost) \in Nat
<1>1. Creating \in SUBSET Threads /\ HoldingWorkers \in SUBSET Workers
  BY DEF Creating, HoldingWorkers
<1>2. IsFiniteSet(1..MaxCalls)
  BY FS_Interval, CanDeviceAssumption
<1>3. lost \in SUBSET (1..MaxCalls)
  BY DEF TypeOK, Calls
<1>4. IsFiniteSet(Creating) /\ IsFiniteSet(HoldingWorkers) /\ IsFiniteSet(lost)
  BY <1>1, <1>2, <1>3, FS_Subset, CanDeviceAssumption
<1>5. QED
  BY <1>4, FS_CardinalityType

\* A worker that holds a permit, or a thread that creates, leaves the count
\* below its maximum.
LEMMA TokensBelow ==
  ASSUME TypeOK, PermitsConserved, HoldingWorkers # {}
  PROVE  tokens < Permits
<1>1. Cardinality(HoldingWorkers) # 0
  BY CountsFinite, FS_EmptySet
<1>2. QED
  BY <1>1, CountsFinite, CanDeviceAssumption DEF TypeOK, PermitsConserved

-----------------------------------------------------------------------------
(* The invariant holds initially. *)

LEMMA InitInv == Init => IInv
<1> SUFFICES ASSUME Init PROVE IInv
  OBVIOUS
<1> USE CanDeviceAssumption
<1>1. TypeOK
  <2>1. found \in Keys \cup {NoEntry} /\ gone \in BOOLEAN /\ stray \in SUBSET Calls
    BY DEF Init
  <2>2. QED
    BY <2>1, EmptySeq DEF Init, TypeOK, Calls, NoCall, Places, WorkerPlaces, Outcomes
<1>2. CallsBegun /\ TriesLeft /\ Handover /\ EntryOwned /\ SoloEntry
  BY DEF Init, CallsBegun, TriesLeft, Handover, EntryOwned, SoloEntry,
         EntryShows, Serving
<1>3. PermitsConserved
  <2>1. Creating = {} /\ HoldingWorkers = {} /\ lost = {} /\ tokens = Permits
    BY DEF Init, Creating, HoldingWorkers, Holding
  <2>2. QED
    BY <2>1, FS_EmptySet DEF PermitsConserved
<1>4. QED
  BY <1>1, <1>2, <1>3 DEF IInv

-----------------------------------------------------------------------------
(* Every step preserves each part of the invariant. *)

\* Every variable keeps its type.
LEMMA TypeStep == IInv /\ [Next]_vars => TypeOK'
<1> SUFFICES ASSUME IInv, [Next]_vars PROVE TypeOK'
  OBVIOUS
<1> USE CanDeviceAssumption DEF IInv, TypeOK, Calls, NoCall, Places, WorkerPlaces, Outcomes,
       threadVars, workerVars, busVars, historyVars, Return
<1>1. ASSUME NEW t \in Threads, NEW k \in KeysOf[t], Begin(t, k)
      PROVE  TypeOK'
  <2>1. issued + 1 \in 1..MaxCalls
    BY <1>1 DEF Begin
  <2>2. k \in Keys
    OBVIOUS
  <2>3. /\ pc' \in [Threads -> Places]
        /\ cur' \in [Threads -> Calls \cup {NoCall}]
        /\ checks' \in [Threads -> 0..MaxChecks]
    BY <1>1, <2>1 DEF Begin
  <2>4. issued' \in 0..MaxCalls /\ keyOf' \in [Calls -> Keys \cup {NoEntry}]
    BY <1>1, <2>1, <2>2 DEF Begin
  <2>5. QED
    BY <1>1, <2>3, <2>4 DEF Begin
<1>2. ASSUME NEW t \in Threads, CheckFree(t)
      PROVE  TypeOK'
  BY <1>2 DEF CheckFree
<1>3. ASSUME NEW t \in Threads, CheckWait(t)
      PROVE  TypeOK'
  BY <1>3 DEF CheckWait
<1>4. ASSUME NEW t \in Threads, CheckGiveUp(t)
      PROVE  TypeOK'
  <2>1. /\ pc' \in [Threads -> Places]
        /\ cur' \in [Threads -> Calls \cup {NoCall}]
        /\ checks' \in [Threads -> 0..MaxChecks]
        /\ tid' \in [Threads -> Workers \cup {NullTid}]
    BY <1>4 DEF CheckGiveUp
  <2>2. outcome' \in [Calls -> Outcomes]
    BY <1>4 DEF CheckGiveUp
  <2>3. QED
    BY <1>4, <2>1, <2>2 DEF CheckGiveUp
<1>5. ASSUME NEW t \in Threads, Delay(t)
      PROVE  TypeOK'
  BY <1>5 DEF Delay
<1>6. ASSUME NEW t \in Threads, Take(t)
      PROVE  TypeOK'
  BY <1>6 DEF Take
<1>7. ASSUME NEW t \in Threads, NEW w \in Workers, Create(t, w)
      PROVE  TypeOK'
  <2>1. /\ pc' \in [Threads -> Places]
        /\ tid' \in [Threads -> Workers \cup {NullTid}]
    BY <1>7 DEF Create
  <2>2. /\ wpc' \in [Workers -> WorkerPlaces]
        /\ job' \in [Workers -> Calls \cup {NoCall}]
        /\ tries' \in [Workers -> 0..MaxTries]
        /\ signal' \in [Workers -> BOOLEAN]
    BY <1>7 DEF Create
  <2>3. QED
    BY <1>7, <2>1, <2>2 DEF Create
<1>8. ASSUME NEW t \in Threads, CreateFails(t)
      PROVE  TypeOK'
  <2>1. cur[t] \in Calls
    BY <1>8 DEF CreateFails, CallsBegun
  <2>2. QED
    BY <1>8, <2>1 DEF CreateFails
<1>9. ASSUME NEW t \in Threads, Record(t)
      PROVE  TypeOK'
  <2>1. /\ pc' \in [Threads -> Places]
        /\ cur' \in [Threads -> Calls \cup {NoCall}]
        /\ checks' \in [Threads -> 0..MaxChecks]
        /\ tid' \in [Threads -> Workers \cup {NullTid}]
    BY <1>9 DEF Record
  <2>2. wpc' \in [Workers -> WorkerPlaces]
    BY <1>9 DEF Record
  <2>3. SyncTable' \in [Keys -> Workers \cup {NullTid, NoEntry}]
    BY ZenonT(60), <1>9 DEF Record
  <2>4. QED
    BY <1>9, <2>1, <2>2, <2>3 DEF Record
<1>10. ASSUME NEW w \in Workers, Request(w)
      PROVE  TypeOK'
  <2>1. job[w] \in Calls /\ keyOf[job[w]] \in Keys /\ tries[w] + 1 \in 0..MaxTries
    <3>1. job[w] \in Calls /\ keyOf[job[w]] \in Keys
      BY <1>10 DEF Request, CallsBegun
    <3>2. tries[w] \in 0..MaxTries /\ tries[w] < MaxTries
      BY <1>10 DEF Request, TriesLeft
    <3>3. QED
      BY <3>1, <3>2
  <2>2. Append(requests[keyOf[job[w]]], job[w]) \in Seq(Calls)
    BY <2>1, AppendProperties
  <2>3. requests' \in [Keys -> Seq(Calls)]
    BY <1>10, <2>1, <2>2 DEF Request
  <2>4. /\ wpc' \in [Workers -> WorkerPlaces]
        /\ tries' \in [Workers -> 0..MaxTries]
        /\ sent' \in [Calls -> Nat]
    BY SMTT(40), <1>10, <2>1 DEF Request
  <2>5. QED
    BY <1>10, <2>3, <2>4 DEF Request
<1>11. ASSUME NEW w \in Workers, Signalled(w)
      PROVE  TypeOK'
  BY <1>11 DEF Signalled
<1>12. ASSUME NEW w \in Workers, Timeout(w)
      PROVE  TypeOK'
  BY <1>12 DEF Timeout
<1>13. ASSUME NEW w \in Workers, Report(w)
      PROVE  TypeOK'
  BY <1>13 DEF Report
<1>14. ASSUME NEW w \in Workers, Erase(w)
      PROVE  TypeOK'
  BY <1>14 DEF Erase
<1>15. ASSUME NEW w \in Workers, Release(w)
      PROVE  TypeOK'
  <2>1. HoldingWorkers # {}
    BY <1>15 DEF Release, HoldingWorkers, Holding
  <2>2. tokens + 1 \in 0..Permits
    BY <2>1, TokensBelow DEF IInv
  <2>3. QED
    BY <1>15, <2>2 DEF Release
<1>16. ASSUME NEW w \in Workers, Exit(w)
      PROVE  TypeOK'
  BY <1>16 DEF Exit
<1>17. ASSUME NEW k \in Keys, Execute(k)
      PROVE  TypeOK'
  <2>1. /\ Head(requests[k]) \in Calls
        /\ Tail(requests[k]) \in Seq(Calls)
        /\ Append(responses[k], Head(requests[k])) \in Seq(Calls)
    BY <1>17, HeadTailProperties, AppendProperties DEF Execute
  <2>2. requests' \in [Keys -> Seq(Calls)] /\ responses' \in [Keys -> Seq(Calls)]
    BY <1>17, <2>1 DEF Execute
  <2>3. QED
    BY <1>17, <2>1, <2>2 DEF Execute
<1>18. ASSUME NEW k \in Keys, LoseRequest(k)
      PROVE  TypeOK'
  <2>1. Tail(requests[k]) \in Seq(Calls)
    BY <1>18, HeadTailProperties DEF LoseRequest
  <2>2. QED
    BY <1>18, <2>1 DEF LoseRequest
<1>19. ASSUME NEW k \in Keys, LoseResponse(k)
      PROVE  TypeOK'
  <2>1. Tail(responses[k]) \in Seq(Calls)
    BY <1>19, HeadTailProperties DEF LoseResponse
  <2>2. QED
    BY <1>19, <2>1 DEF LoseResponse
<1>20. ASSUME NEW k \in Keys, Find(k)
      PROVE  TypeOK'
  <2>1. Tail(responses[k]) \in Seq(Calls)
    BY <1>20, HeadTailProperties DEF Find
  <2>2. QED
    BY <1>20, <2>1 DEF Find
<1>21. ASSUME NEW k \in Keys, SignalFound(k)
      PROVE  TypeOK'
  <2>1. signal' \in [Workers -> BOOLEAN]
    BY <1>21 DEF SignalFound
  <2>2. \A w \in Workers : wpc[w] \in Waking => job[w] \in Calls
    BY DEF CallsBegun, Waking
  <2>3. stray' \in SUBSET Calls
    <3>1. PICK R \in SUBSET {w \in Workers : wpc[w] \in Waking} :
            stray' = stray \/ stray' = stray \cup {job[w] : w \in R}
      BY <1>21 DEF SignalFound
    <3>2. \A i \in {job[w] : w \in R} : i \in Calls
      BY <2>2
    <3>3. QED
      BY <3>1, <3>2
  <2>4. QED
    BY <1>21, <2>1, <2>3 DEF SignalFound
<1>22. CASE UNCHANGED vars
  BY <1>22 DEF vars
<1>23. QED
  BY <1>1, <1>2, <1>3, <1>4, <1>5, <1>6, <1>7, <1>8, <1>9, <1>10,
     <1>11, <1>12, <1>13, <1>14, <1>15, <1>16, <1>17, <1>18, <1>19, <1>20,
     <1>21, <1>22
  DEF Next, ThreadNext, WorkerNext, BusNext, Finished

\* Calls keep their keys and threads.
LEMMA CallsBegunStep == IInv /\ [Next]_vars => CallsBegun'
<1> SUFFICES ASSUME IInv, [Next]_vars PROVE CallsBegun'
  OBVIOUS
<1> USE CanDeviceAssumption DEF IInv, TypeOK, Calls, NoCall, Places, WorkerPlaces, Outcomes,
       CallsBegun, Handover, threadVars, workerVars, busVars, historyVars, Return
<1>1. ASSUME NEW t \in Threads, NEW k \in KeysOf[t], Begin(t, k)
      PROVE  CallsBegun'
  <2>1. issued + 1 \in Calls /\ issued' = issued + 1
    BY <1>1 DEF Begin
  <2>2. /\ keyOf'[issued + 1] = k
        /\ \A i \in 1..issued : keyOf'[i] = keyOf[i]
    BY <1>1, <2>1 DEF Begin
  <2>3. /\ wpc' = wpc /\ job' = job /\ lost' = lost
        /\ cur'[t] = issued + 1 /\ pc'[t] = "check"
    BY <1>1 DEF Begin
  <2>4. ASSUME NEW u \in Threads, u # t
        PROVE  cur'[u] = cur[u] /\ pc'[u] = pc[u]
    BY <1>1, <2>4 DEF Begin
  <2>5. ASSUME NEW u \in Threads, pc'[u] # "idle"
        PROVE  cur'[u] \in 1..issued' /\ keyOf'[cur'[u]] \in KeysOf[u]
    <3>1. CASE u = t
      BY <2>1, <2>2, <2>3, <3>1
    <3>2. CASE u # t
      <4>1. cur'[u] = cur[u] /\ pc'[u] = pc[u]
        BY <2>4, <3>2
      <4>2. cur[u] \in 1..issued /\ keyOf[cur[u]] \in KeysOf[u]
        BY <2>5, <4>1
      <4>3. QED
        BY SMTT(40), <2>1, <2>2, <4>1, <4>2
    <3>3. QED
      BY <3>1, <3>2
  <2>6. ASSUME NEW u \in Threads, pc'[u] \in {"check", "delay", "take", "create"}
        PROVE  cur'[u] \notin lost'
    <3>1. CASE u = t
      <4>1. issued + 1 \notin lost
        BY <2>1
      <4>2. QED
        BY <2>3, <3>1, <4>1
    <3>2. CASE u # t
      BY <2>3, <2>4, <2>6, <3>2
    <3>3. QED
      BY <3>1, <3>2
  <2>7. ASSUME NEW u \in Threads, NEW v \in Threads,
               pc'[u] # "idle", pc'[v] # "idle", cur'[u] = cur'[v]
        PROVE  u = v
    <3>1. ASSUME NEW x \in Threads, pc'[x] # "idle", x # t
          PROVE  cur'[x] # issued + 1
      BY SMTT(40), <2>1, <2>4, <3>1
    <3>2. CASE u = t \/ v = t
      BY <2>3, <2>7, <3>1, <3>2
    <3>3. CASE u # t /\ v # t
      <4>1. pc[u] # "idle" /\ pc[v] # "idle" /\ cur[u] = cur[v]
        BY <2>4, <2>7, <3>3
      <4>2. QED
        BY <4>1
    <3>4. QED
      BY <3>2, <3>3
  <2>8. ASSUME NEW w \in Workers, wpc'[w] # "free"
        PROVE  job'[w] \in 1..issued' /\ keyOf'[job'[w]] \in Keys
    BY SMTT(40), <2>1, <2>2, <2>3, <2>8
  <2>9. lost' \subseteq 1..issued'
    BY <2>1, <2>3
  <2>10. QED
    BY <2>5, <2>6, <2>7, <2>8, <2>9
<1>2. ASSUME NEW t \in Threads, CheckFree(t)
      PROVE  CallsBegun'
  BY <1>2 DEF CheckFree
<1>3. ASSUME NEW t \in Threads, CheckWait(t)
      PROVE  CallsBegun'
  BY <1>3 DEF CheckWait
<1>4. ASSUME NEW t \in Threads, CheckGiveUp(t)
      PROVE  CallsBegun'
  BY <1>4 DEF CheckGiveUp
<1>5. ASSUME NEW t \in Threads, Delay(t)
      PROVE  CallsBegun'
  BY <1>5 DEF Delay
<1>6. ASSUME NEW t \in Threads, Take(t)
      PROVE  CallsBegun'
  BY <1>6 DEF Take
<1>7. ASSUME NEW t \in Threads, NEW w \in Workers, Create(t, w)
      PROVE  CallsBegun'
  BY SMTT(60), <1>7 DEF Create
<1>8. ASSUME NEW t \in Threads, CreateFails(t)
      PROVE  CallsBegun'
  <2>1. /\ pc'[t] = "record"
        /\ cur' = cur /\ lost' = lost \cup {cur[t]} /\ issued' = issued
        /\ keyOf' = keyOf /\ wpc' = wpc /\ job' = job
    BY <1>8 DEF CreateFails
  <2>2. ASSUME NEW u \in Threads, u # t
        PROVE  pc'[u] = pc[u]
    BY <1>8, <2>2 DEF CreateFails
  <2>3. cur[t] \in 1..issued /\ pc[t] # "idle"
    BY <1>8 DEF CreateFails
  <2>4. ASSUME NEW u \in Threads, pc'[u] \in {"check", "delay", "take", "create"}
        PROVE  cur'[u] \notin lost'
    BY <2>1, <2>2, <2>3, <2>4
  <2>5. ASSUME NEW u \in Threads, NEW v \in Threads,
               pc'[u] # "idle", pc'[v] # "idle", cur'[u] = cur'[v]
        PROVE  u = v
    <3>1. pc[u] # "idle" /\ pc[v] # "idle" /\ cur[u] = cur[v]
      BY <2>1, <2>2, <2>3, <2>5
    <3>2. QED
      BY <3>1
  <2>6. ASSUME NEW u \in Threads, pc'[u] # "idle"
        PROVE  cur'[u] \in 1..issued' /\ keyOf'[cur'[u]] \in KeysOf[u]
    BY <2>1, <2>2, <2>3, <2>6
  <2>7. ASSUME NEW w \in Workers, wpc'[w] # "free"
        PROVE  job'[w] \in 1..issued' /\ keyOf'[job'[w]] \in Keys
    BY <2>1, <2>7
  <2>8. ASSUME NEW i \in lost'
        PROVE  i \in 1..issued'
    <3>1. lost \subseteq 1..issued
      OBVIOUS
    <3>2. i \in lost \/ i = cur[t]
      BY <2>1, <2>8
    <3>3. QED
      BY <2>1, <2>3, <3>1, <3>2
  <2>9. QED
    BY <2>4, <2>5, <2>6, <2>7, <2>8
<1>9. ASSUME NEW t \in Threads, Record(t)
      PROVE  CallsBegun'
  <2>1. /\ \A u \in Threads : pc'[u] # "idle" => u # t /\ pc'[u] = pc[u] /\ cur'[u] = cur[u]
        /\ \A w \in Workers : wpc'[w] # "free" => wpc[w] # "free"
        /\ job' = job /\ keyOf' = keyOf /\ issued' = issued /\ lost' = lost
    <3>1. /\ pc' = [pc EXCEPT ![t] = "idle"] /\ cur' = [cur EXCEPT ![t] = NoCall]
          /\ wpc' = [w \in Workers |-> IF w = tid[t] THEN "request" ELSE wpc[w]]
          /\ pc[t] = "record"
      BY <1>9 DEF Record
    <3>2. \A w \in Workers : w = tid[t] => wpc[w] = "created"
      BY <3>1
    <3> QED
      BY <1>9, <3>1, <3>2 DEF Record
  <2>2. \A u \in Threads : pc'[u] # "idle" => cur'[u] \in 1..issued' /\ keyOf'[cur'[u]] \in KeysOf[u]
    BY <2>1
  <2>3. \A u \in Threads :
          pc'[u] \in {"check", "delay", "take", "create"} => cur'[u] \notin lost'
    BY <2>1
  <2>4. \A u, v \in Threads :
          pc'[u] # "idle" /\ pc'[v] # "idle" /\ cur'[u] = cur'[v] => u = v
    BY <2>1
  <2>5. \A w \in Workers :
          wpc'[w] # "free" => job'[w] \in 1..issued' /\ keyOf'[job'[w]] \in Keys
    BY <2>1
  <2>6. lost' \subseteq 1..issued'
    BY <2>1
  <2> QED
    BY <2>2, <2>3, <2>4, <2>5, <2>6
<1>10. ASSUME NEW w \in Workers, Request(w)
      PROVE  CallsBegun'
  BY SMTT(40), <1>10 DEF Request
<1>11. ASSUME NEW w \in Workers, Signalled(w)
      PROVE  CallsBegun'
  BY <1>11 DEF Signalled
<1>12. ASSUME NEW w \in Workers, Timeout(w)
      PROVE  CallsBegun'
  BY <1>12 DEF Timeout
<1>13. ASSUME NEW w \in Workers, Report(w)
      PROVE  CallsBegun'
  BY <1>13 DEF Report
<1>14. ASSUME NEW w \in Workers, Erase(w)
      PROVE  CallsBegun'
  BY <1>14 DEF Erase
<1>15. ASSUME NEW w \in Workers, Release(w)
      PROVE  CallsBegun'
  BY <1>15 DEF Release
<1>16. ASSUME NEW w \in Workers, Exit(w)
      PROVE  CallsBegun'
  BY <1>16 DEF Exit
<1>17. ASSUME NEW k \in Keys, Execute(k)
      PROVE  CallsBegun'
  BY <1>17 DEF Execute
<1>18. ASSUME NEW k \in Keys, LoseRequest(k)
      PROVE  CallsBegun'
  BY <1>18 DEF LoseRequest
<1>19. ASSUME NEW k \in Keys, LoseResponse(k)
      PROVE  CallsBegun'
  BY <1>19 DEF LoseResponse
<1>20. ASSUME NEW k \in Keys, Find(k)
      PROVE  CallsBegun'
  BY <1>20 DEF Find
<1>21. ASSUME NEW k \in Keys, SignalFound(k)
      PROVE  CallsBegun'
  BY <1>21 DEF SignalFound
<1>22. CASE UNCHANGED vars
  BY <1>22 DEF vars
<1>23. QED
  BY <1>1, <1>2, <1>3, <1>4, <1>5, <1>6, <1>7, <1>8, <1>9, <1>10,
     <1>11, <1>12, <1>13, <1>14, <1>15, <1>16, <1>17, <1>18, <1>19, <1>20,
     <1>21, <1>22
  DEF Next, ThreadNext, WorkerNext, BusNext, Finished

\* A worker goes back to send only while tries are left.
LEMMA TriesLeftStep == IInv /\ [Next]_vars => TriesLeft'
<1> SUFFICES ASSUME IInv, [Next]_vars PROVE TriesLeft'
  OBVIOUS
<1> USE CanDeviceAssumption DEF IInv, TypeOK, WorkerPlaces, TriesLeft, Handover,
       threadVars, workerVars, busVars, historyVars, Return
<1>1. ASSUME NEW t \in Threads, NEW k \in KeysOf[t], Begin(t, k)
      PROVE  TriesLeft'
  BY <1>1 DEF Begin
<1>2. ASSUME NEW t \in Threads, CheckFree(t)
      PROVE  TriesLeft'
  BY <1>2 DEF CheckFree
<1>3. ASSUME NEW t \in Threads, CheckWait(t)
      PROVE  TriesLeft'
  BY <1>3 DEF CheckWait
<1>4. ASSUME NEW t \in Threads, CheckGiveUp(t)
      PROVE  TriesLeft'
  BY <1>4 DEF CheckGiveUp
<1>5. ASSUME NEW t \in Threads, Delay(t)
      PROVE  TriesLeft'
  BY <1>5 DEF Delay
<1>6. ASSUME NEW t \in Threads, Take(t)
      PROVE  TriesLeft'
  BY <1>6 DEF Take
<1>7. ASSUME NEW t \in Threads, NEW w \in Workers, Create(t, w)
      PROVE  TriesLeft'
  BY <1>7 DEF Create
<1>8. ASSUME NEW t \in Threads, CreateFails(t)
      PROVE  TriesLeft'
  BY <1>8 DEF CreateFails
<1>9. ASSUME NEW t \in Threads, Record(t)
      PROVE  TriesLeft'
  BY <1>9 DEF Record
<1>10. ASSUME NEW w \in Workers, Request(w)
      PROVE  TriesLeft'
  BY <1>10 DEF Request
<1>11. ASSUME NEW w \in Workers, Signalled(w)
      PROVE  TriesLeft'
  BY <1>11 DEF Signalled
<1>12. ASSUME NEW w \in Workers, Timeout(w)
      PROVE  TriesLeft'
  BY <1>12 DEF Timeout
<1>13. ASSUME NEW w \in Workers, Report(w)
      PROVE  TriesLeft'
  BY <1>13 DEF Report
<1>14. ASSUME NEW w \in Workers, Erase(w)
      PROVE  TriesLeft'
  BY <1>14 DEF Erase
<1>15. ASSUME NEW w \in Workers, Release(w)
      PROVE  TriesLeft'
  BY <1>15 DEF Release
<1>16. ASSUME NEW w \in Workers, Exit(w)
      PROVE  TriesLeft'
  BY <1>16 DEF Exit
<1>17. ASSUME NEW k \in Keys, Execute(k)
      PROVE  TriesLeft'
  BY <1>17 DEF Execute
<1>18. ASSUME NEW k \in Keys, LoseRequest(k)
      PROVE  TriesLeft'
  BY <1>18 DEF LoseRequest
<1>19. ASSUME NEW k \in Keys, LoseResponse(k)
      PROVE  TriesLeft'
  BY <1>19 DEF LoseResponse
<1>20. ASSUME NEW k \in Keys, Find(k)
      PROVE  TriesLeft'
  BY <1>20 DEF Find
<1>21. ASSUME NEW k \in Keys, SignalFound(k)
      PROVE  TriesLeft'
  BY <1>21 DEF SignalFound
<1>22. CASE UNCHANGED vars
  BY <1>22 DEF vars
<1>23. QED
  BY <1>1, <1>2, <1>3, <1>4, <1>5, <1>6, <1>7, <1>8, <1>9, <1>10,
     <1>11, <1>12, <1>13, <1>14, <1>15, <1>16, <1>17, <1>18, <1>19, <1>20,
     <1>21, <1>22
  DEF Next, ThreadNext, WorkerNext, BusNext, Finished

\* A created worker stays with its creator until it is recorded.
LEMMA HandoverStep == IInv /\ [Next]_vars => Handover'
<1> SUFFICES ASSUME IInv, [Next]_vars PROVE Handover'
  OBVIOUS
<1> USE CanDeviceAssumption DEF IInv, TypeOK, Places, WorkerPlaces, CallsBegun, Handover,
       threadVars, workerVars, busVars, historyVars, Return
<1>1. ASSUME NEW t \in Threads, NEW k \in KeysOf[t], Begin(t, k)
      PROVE  Handover'
  BY <1>1 DEF Begin
<1>2. ASSUME NEW t \in Threads, CheckFree(t)
      PROVE  Handover'
  BY <1>2 DEF CheckFree
<1>3. ASSUME NEW t \in Threads, CheckWait(t)
      PROVE  Handover'
  BY <1>3 DEF CheckWait
<1>4. ASSUME NEW t \in Threads, CheckGiveUp(t)
      PROVE  Handover'
  BY <1>4 DEF CheckGiveUp
<1>5. ASSUME NEW t \in Threads, Delay(t)
      PROVE  Handover'
  BY <1>5 DEF Delay
<1>6. ASSUME NEW t \in Threads, Take(t)
      PROVE  Handover'
  BY <1>6 DEF Take
<1>7. ASSUME NEW t \in Threads, NEW w \in Workers, Create(t, w)
      PROVE  Handover'
  BY <1>7 DEF Create
<1>8. ASSUME NEW t \in Threads, CreateFails(t)
      PROVE  Handover'
  BY <1>8 DEF CreateFails
<1>9. ASSUME NEW t \in Threads, Record(t)
      PROVE  Handover'
  BY <1>9 DEF Record
<1>10. ASSUME NEW w \in Workers, Request(w)
      PROVE  Handover'
  BY <1>10 DEF Request
<1>11. ASSUME NEW w \in Workers, Signalled(w)
      PROVE  Handover'
  BY <1>11 DEF Signalled
<1>12. ASSUME NEW w \in Workers, Timeout(w)
      PROVE  Handover'
  BY <1>12 DEF Timeout
<1>13. ASSUME NEW w \in Workers, Report(w)
      PROVE  Handover'
  BY <1>13 DEF Report
<1>14. ASSUME NEW w \in Workers, Erase(w)
      PROVE  Handover'
  BY <1>14 DEF Erase
<1>15. ASSUME NEW w \in Workers, Release(w)
      PROVE  Handover'
  BY <1>15 DEF Release
<1>16. ASSUME NEW w \in Workers, Exit(w)
      PROVE  Handover'
  BY <1>16 DEF Exit
<1>17. ASSUME NEW k \in Keys, Execute(k)
      PROVE  Handover'
  BY <1>17 DEF Execute
<1>18. ASSUME NEW k \in Keys, LoseRequest(k)
      PROVE  Handover'
  BY <1>18 DEF LoseRequest
<1>19. ASSUME NEW k \in Keys, LoseResponse(k)
      PROVE  Handover'
  BY <1>19 DEF LoseResponse
<1>20. ASSUME NEW k \in Keys, Find(k)
      PROVE  Handover'
  BY <1>20 DEF Find
<1>21. ASSUME NEW k \in Keys, SignalFound(k)
      PROVE  Handover'
  BY <1>21 DEF SignalFound
<1>22. CASE UNCHANGED vars
  BY <1>22 DEF vars
<1>23. QED
  BY <1>1, <1>2, <1>3, <1>4, <1>5, <1>6, <1>7, <1>8, <1>9, <1>10,
     <1>11, <1>12, <1>13, <1>14, <1>15, <1>16, <1>17, <1>18, <1>19, <1>20,
     <1>21, <1>22
  DEF Next, ThreadNext, WorkerNext, BusNext, Finished

\* Entries are written with, and lose, only workers of their key.
LEMMA EntryOwnedStep == IInv /\ [Next]_vars => EntryOwned'
<1> SUFFICES ASSUME IInv, [Next]_vars PROVE EntryOwned'
  OBVIOUS
<1> USE CanDeviceAssumption DEF IInv, TypeOK, Calls, NoCall, WorkerPlaces, CallsBegun, Handover,
       EntryOwned, Serving, threadVars, workerVars, busVars, historyVars, Return
<1>1. ASSUME NEW t \in Threads, NEW k \in KeysOf[t], Begin(t, k)
      PROVE  EntryOwned'
  <2>1. \A i \in 1..issued : keyOf'[i] = keyOf[i]
    BY <1>1 DEF Begin
  <2>2. wpc' = wpc /\ job' = job /\ SyncTable' = SyncTable
    BY <1>1 DEF Begin
  <2>3. \A w \in Workers : wpc[w] \in Serving => job[w] \in 1..issued
    BY DEF Serving
  <2>4. QED
    BY <2>1, <2>2, <2>3
<1>2. ASSUME NEW t \in Threads, CheckFree(t)
      PROVE  EntryOwned'
  BY <1>2 DEF CheckFree
<1>3. ASSUME NEW t \in Threads, CheckWait(t)
      PROVE  EntryOwned'
  BY <1>3 DEF CheckWait
<1>4. ASSUME NEW t \in Threads, CheckGiveUp(t)
      PROVE  EntryOwned'
  BY <1>4 DEF CheckGiveUp
<1>5. ASSUME NEW t \in Threads, Delay(t)
      PROVE  EntryOwned'
  BY <1>5 DEF Delay
<1>6. ASSUME NEW t \in Threads, Take(t)
      PROVE  EntryOwned'
  BY <1>6 DEF Take
<1>7. ASSUME NEW t \in Threads, NEW w \in Workers, Create(t, w)
      PROVE  EntryOwned'
  BY <1>7 DEF Create
<1>8. ASSUME NEW t \in Threads, CreateFails(t)
      PROVE  EntryOwned'
  BY <1>8 DEF CreateFails
<1>9. ASSUME NEW t \in Threads, Record(t)
      PROVE  EntryOwned'
  BY SMTT(40), <1>9 DEF Record
<1>10. ASSUME NEW w \in Workers, Request(w)
      PROVE  EntryOwned'
  BY <1>10 DEF Request
<1>11. ASSUME NEW w \in Workers, Signalled(w)
      PROVE  EntryOwned'
  BY <1>11 DEF Signalled
<1>12. ASSUME NEW w \in Workers, Timeout(w)
      PROVE  EntryOwned'
  BY <1>12 DEF Timeout
<1>13. ASSUME NEW w \in Workers, Report(w)
      PROVE  EntryOwned'
  BY <1>13 DEF Report
<1>14. ASSUME NEW w \in Workers, Erase(w)
      PROVE  EntryOwned'
  BY SMTT(40), <1>14 DEF Erase
<1>15. ASSUME NEW w \in Workers, Release(w)
      PROVE  EntryOwned'
  BY <1>15 DEF Release
<1>16. ASSUME NEW w \in Workers, Exit(w)
      PROVE  EntryOwned'
  BY <1>16 DEF Exit
<1>17. ASSUME NEW k \in Keys, Execute(k)
      PROVE  EntryOwned'
  BY <1>17 DEF Execute
<1>18. ASSUME NEW k \in Keys, LoseRequest(k)
      PROVE  EntryOwned'
  BY <1>18 DEF LoseRequest
<1>19. ASSUME NEW k \in Keys, LoseResponse(k)
      PROVE  EntryOwned'
  BY <1>19 DEF LoseResponse
<1>20. ASSUME NEW k \in Keys, Find(k)
      PROVE  EntryOwned'
  BY <1>20 DEF Find
<1>21. ASSUME NEW k \in Keys, SignalFound(k)
      PROVE  EntryOwned'
  BY <1>21 DEF SignalFound
<1>22. CASE UNCHANGED vars
  BY <1>22 DEF vars
<1>23. QED
  BY <1>1, <1>2, <1>3, <1>4, <1>5, <1>6, <1>7, <1>8, <1>9, <1>10,
     <1>11, <1>12, <1>13, <1>14, <1>15, <1>16, <1>17, <1>18, <1>19, <1>20,
     <1>21, <1>22
  DEF Next, ThreadNext, WorkerNext, BusNext, Finished

\* With one writer, the search of SyncTable still holds when the entry is made.
LEMMA SoloEntryStep == IInv /\ [Next]_vars => SoloEntry'
<1> SUFFICES ASSUME IInv, [Next]_vars, NEW q \in Keys, Solo(q)
             PROVE  EntryShows(q)'
  BY DEF SoloEntry, Solo
<1>a. \A t, u \in Threads : q \in KeysOf[t] /\ q \in KeysOf[u] => t = u
  BY DEF Solo
<1>b. EntryShows(q)
  BY DEF IInv, SoloEntry
<1> USE CanDeviceAssumption, <1>a, <1>b
    DEF IInv, TypeOK, Calls, NoCall, WorkerPlaces, CallsBegun, Handover,
       EntryOwned, EntryShows, Serving, threadVars, workerVars, busVars, historyVars, Return
<1>1. ASSUME NEW t \in Threads, NEW k \in KeysOf[t], Begin(t, k)
      PROVE  EntryShows(q)'
  <2>1. \A i \in 1..issued : keyOf'[i] = keyOf[i]
    BY <1>1 DEF Begin
  <2>2. /\ wpc' = wpc /\ job' = job /\ SyncTable' = SyncTable
        /\ pc'[t] = "check"
    BY <1>1 DEF Begin
  <2>3. ASSUME NEW u \in Threads, u # t
        PROVE  cur'[u] = cur[u] /\ pc'[u] = pc[u]
    BY <1>1, <2>3 DEF Begin
  <2>4. ASSUME NEW w \in Workers, wpc'[w] \in Serving, keyOf'[job'[w]] = q
        PROVE  SyncTable'[q] = w
    <3>1. wpc[w] \in Serving /\ job[w] \in 1..issued
      BY <2>2, <2>4
    <3>2. keyOf[job[w]] = q
      BY <2>1, <2>2, <2>4, <3>1
    <3>3. QED
      BY <2>2, <3>1, <3>2
  <2>5. ASSUME NEW u \in Threads, pc'[u] \in {"take", "create", "record"},
               keyOf'[cur'[u]] = q
        PROVE  SyncTable'[q] = NoEntry
    <3>1. u # t
      BY <2>2, <2>5
    <3>2. cur'[u] = cur[u] /\ pc'[u] = pc[u] /\ cur[u] \in 1..issued
      BY <2>3, <2>5, <3>1
    <3>3. keyOf[cur[u]] = q
      BY <2>1, <2>5, <3>2
    <3>4. QED
      BY <2>2, <2>5, <3>2, <3>3
  <2>6. QED
    BY <2>4, <2>5
<1>2. ASSUME NEW t \in Threads, CheckFree(t)
      PROVE  EntryShows(q)'
  BY SMTT(40), <1>2 DEF CheckFree
<1>3. ASSUME NEW t \in Threads, CheckWait(t)
      PROVE  EntryShows(q)'
  BY <1>3 DEF CheckWait
<1>4. ASSUME NEW t \in Threads, CheckGiveUp(t)
      PROVE  EntryShows(q)'
  BY <1>4 DEF CheckGiveUp
<1>5. ASSUME NEW t \in Threads, Delay(t)
      PROVE  EntryShows(q)'
  BY <1>5 DEF Delay
<1>6. ASSUME NEW t \in Threads, Take(t)
      PROVE  EntryShows(q)'
  BY <1>6 DEF Take
<1>7. ASSUME NEW t \in Threads, NEW w \in Workers, Create(t, w)
      PROVE  EntryShows(q)'
  BY <1>7 DEF Create
<1>8. ASSUME NEW t \in Threads, CreateFails(t)
      PROVE  EntryShows(q)'
  BY <1>8 DEF CreateFails
<1>9. ASSUME NEW t \in Threads, Record(t)
      PROVE  EntryShows(q)'
  <2>1. /\ pc[t] = "record" /\ pc'[t] = "idle" /\ keyOf[cur[t]] \in Keys
        /\ job' = job /\ keyOf' = keyOf
        /\ SyncTable' = [SyncTable EXCEPT ![keyOf[cur[t]]] = tid[t]]
    BY <1>9 DEF Record
  <2>2. ASSUME NEW u \in Threads, u # t
        PROVE  cur'[u] = cur[u] /\ pc'[u] = pc[u]
    BY <1>9, <2>2 DEF Record
  <2>3. ASSUME NEW w \in Workers
        PROVE  wpc'[w] = IF w = tid[t] THEN "request" ELSE wpc[w]
    BY <1>9 DEF Record
  <2>4. CASE keyOf[cur[t]] = q
    <3>1. SyncTable[q] = NoEntry /\ SyncTable'[q] = tid[t]
      BY <2>1, <2>4
    <3>2. ASSUME NEW w \in Workers, wpc'[w] \in Serving, keyOf'[job'[w]] = q
          PROVE  SyncTable'[q] = w
      BY <2>1, <2>3, <3>1, <3>2
    <3>3. ASSUME NEW u \in Threads, pc'[u] \in {"take", "create", "record"},
                 keyOf'[cur'[u]] = q
          PROVE  SyncTable'[q] = NoEntry
      <4>1. u # t
        BY <2>1, <3>3
      <4>2. cur'[u] = cur[u] /\ pc'[u] = pc[u]
        BY <2>2, <4>1
      <4>3. q \in KeysOf[t] /\ q \in KeysOf[u]
        BY <2>1, <2>4, <3>3, <4>2
      <4>4. QED
        BY <4>1, <4>3
    <3>4. QED
      BY <3>2, <3>3
  <2>5. CASE keyOf[cur[t]] # q
    <3>1. SyncTable'[q] = SyncTable[q]
      BY <2>1, <2>5
    <3>2. ASSUME NEW w \in Workers, wpc'[w] \in Serving, keyOf'[job'[w]] = q
          PROVE  SyncTable'[q] = w
      BY <2>1, <2>3, <2>5, <3>1, <3>2
    <3>3. ASSUME NEW u \in Threads, pc'[u] \in {"take", "create", "record"},
                 keyOf'[cur'[u]] = q
          PROVE  SyncTable'[q] = NoEntry
      BY <2>1, <2>2, <3>1, <3>3
    <3>4. QED
      BY <3>2, <3>3
  <2>6. QED
    BY <2>4, <2>5
<1>10. ASSUME NEW w \in Workers, Request(w)
      PROVE  EntryShows(q)'
  BY SMTT(40), <1>10 DEF Request
<1>11. ASSUME NEW w \in Workers, Signalled(w)
      PROVE  EntryShows(q)'
  BY <1>11 DEF Signalled
<1>12. ASSUME NEW w \in Workers, Timeout(w)
      PROVE  EntryShows(q)'
  BY <1>12 DEF Timeout
<1>13. ASSUME NEW w \in Workers, Report(w)
      PROVE  EntryShows(q)'
  BY <1>13 DEF Report
<1>14. ASSUME NEW w \in Workers, Erase(w)
      PROVE  EntryShows(q)'
  BY <1>14 DEF Erase
<1>15. ASSUME NEW w \in Workers, Release(w)
      PROVE  EntryShows(q)'
  BY <1>15 DEF Release
<1>16. ASSUME NEW w \in Workers, Exit(w)
      PROVE  EntryShows(q)'
  BY <1>16 DEF Exit
<1>17. ASSUME NEW k \in Keys, Execute(k)
      PROVE  EntryShows(q)'
  BY <1>17 DEF Execute
<1>18. ASSUME NEW k \in Keys, LoseRequest(k)
      PROVE  EntryShows(q)'
  BY <1>18 DEF LoseRequest
<1>19. ASSUME NEW k \in Keys, LoseResponse(k)
      PROVE  EntryShows(q)'
  BY <1>19 DEF LoseResponse
<1>20. ASSUME NEW k \in Keys, Find(k)
      PROVE  EntryShows(q)'
  BY <1>20 DEF Find
<1>21. ASSUME NEW k \in Keys, SignalFound(k)
      PROVE  EntryShows(q)'
  BY <1>21 DEF SignalFound
<1>22. CASE UNCHANGED vars
  BY <1>22 DEF vars
<1>23. QED
  BY <1>1, <1>2, <1>3, <1>4, <1>5, <1>6, <1>7, <1>8, <1>9, <1>10,
     <1>11, <1>12, <1>13, <1>14, <1>15, <1>16, <1>17, <1>18, <1>19, <1>20,
     <1>21, <1>22
  DEF Next, ThreadNext, WorkerNext, BusNext, Finished

\* A permit changes hands, and none is made or dropped.
LEMMA PermitsStep == IInv /\ [Next]_vars => PermitsConserved'
<1> SUFFICES ASSUME IInv, [Next]_vars PROVE PermitsConserved'
  OBVIOUS
<1> USE DEF threadVars, workerVars, busVars, historyVars, Return
<1>a. TypeOK /\ CallsBegun /\ Handover
  BY DEF IInv
<1>b. /\ tokens \in Int
      /\ tokens + Cardinality(Creating) + Cardinality(HoldingWorkers)
                + Cardinality(lost) = Permits
  BY CanDeviceAssumption DEF IInv, TypeOK, PermitsConserved
<1>c. /\ IsFiniteSet(Creating) /\ Cardinality(Creating) \in Int
      /\ IsFiniteSet(HoldingWorkers) /\ Cardinality(HoldingWorkers) \in Int
      /\ IsFiniteSet(lost) /\ Cardinality(lost) \in Int
  BY <1>a, CountsFinite
<1>d. pc \in [Threads -> Places] /\ wpc \in [Workers -> WorkerPlaces]
  BY <1>a DEF TypeOK
<1>1. ASSUME NEW t \in Threads, NEW k \in KeysOf[t], Begin(t, k)
      PROVE  PermitsConserved'
  <2>1. Creating' = Creating /\ HoldingWorkers' = HoldingWorkers
    BY <1>d, <1>1 DEF Begin, Creating, HoldingWorkers, Holding
  <2>2. QED
    BY <1>b, <1>c, <1>1, <2>1 DEF Begin, PermitsConserved
<1>2. ASSUME NEW t \in Threads, CheckFree(t)
      PROVE  PermitsConserved'
  <2>1. Creating' = Creating /\ HoldingWorkers' = HoldingWorkers
    BY <1>d, <1>2 DEF CheckFree, Creating, HoldingWorkers, Holding
  <2>2. QED
    BY <1>b, <1>c, <1>2, <2>1 DEF CheckFree, PermitsConserved
<1>3. ASSUME NEW t \in Threads, CheckWait(t)
      PROVE  PermitsConserved'
  <2>1. Creating' = Creating /\ HoldingWorkers' = HoldingWorkers
    BY <1>d, <1>3 DEF CheckWait, Creating, HoldingWorkers, Holding
  <2>2. QED
    BY <1>b, <1>c, <1>3, <2>1 DEF CheckWait, PermitsConserved
<1>4. ASSUME NEW t \in Threads, CheckGiveUp(t)
      PROVE  PermitsConserved'
  <2>1. Creating' = Creating /\ HoldingWorkers' = HoldingWorkers
    BY <1>d, <1>4 DEF CheckGiveUp, Creating, HoldingWorkers, Holding
  <2>2. QED
    BY <1>b, <1>c, <1>4, <2>1 DEF CheckGiveUp, PermitsConserved
<1>5. ASSUME NEW t \in Threads, Delay(t)
      PROVE  PermitsConserved'
  <2>1. Creating' = Creating /\ HoldingWorkers' = HoldingWorkers
    BY <1>d, <1>5 DEF Delay, Creating, HoldingWorkers, Holding
  <2>2. QED
    BY <1>b, <1>c, <1>5, <2>1 DEF Delay, PermitsConserved
<1>6. ASSUME NEW t \in Threads, Take(t)
      PROVE  PermitsConserved'
  <2>1. Creating' = Creating \cup {t} /\ t \notin Creating
    BY <1>d, <1>6 DEF Take, Creating, HoldingWorkers, Holding
  <2>2. HoldingWorkers' = HoldingWorkers
    BY <1>d, <1>6 DEF Take, Creating, HoldingWorkers, Holding
  <2>3. Cardinality(Creating') = Cardinality(Creating) + 1
    BY <2>1, <1>c, FS_AddElement
  <2>4. tokens' = tokens - 1 /\ lost' = lost
    BY <1>6 DEF Take
  <2>5. QED
    BY <1>b, <1>c, <2>2, <2>3, <2>4 DEF PermitsConserved
<1>7. ASSUME NEW t \in Threads, NEW w \in Workers, Create(t, w)
      PROVE  PermitsConserved'
  <2>1. Creating' = Creating \ {t} /\ t \in Creating
    BY <1>d, <1>7 DEF Create, Creating, HoldingWorkers, Holding
  <2>2. HoldingWorkers' = HoldingWorkers \cup {w} /\ w \notin HoldingWorkers
    BY <1>d, <1>7 DEF Create, Creating, HoldingWorkers, Holding
  <2>3. Cardinality(Creating') = Cardinality(Creating) - 1
    BY <2>1, <1>c, FS_RemoveElement
  <2>4. Cardinality(HoldingWorkers') = Cardinality(HoldingWorkers) + 1
    BY <2>2, <1>c, FS_AddElement
  <2>5. tokens' = tokens /\ lost' = lost
    BY <1>7 DEF Create
  <2>6. QED
    BY <1>b, <1>c, <2>3, <2>4, <2>5 DEF PermitsConserved
<1>8. ASSUME NEW t \in Threads, CreateFails(t)
      PROVE  PermitsConserved'
  <2>1. Creating' = Creating \ {t} /\ t \in Creating
    BY <1>d, <1>8 DEF CreateFails, Creating, HoldingWorkers, Holding
  <2>2. lost' = lost \cup {cur[t]} /\ cur[t] \notin lost
    BY <1>a, <1>8 DEF CreateFails, CallsBegun
  <2>3. Cardinality(Creating') = Cardinality(Creating) - 1
    BY <2>1, <1>c, FS_RemoveElement
  <2>4. Cardinality(lost') = Cardinality(lost) + 1
    BY <2>2, <1>c, FS_AddElement
  <2>5. tokens' = tokens /\ HoldingWorkers' = HoldingWorkers
    BY <1>d, <1>8 DEF CreateFails, Creating, HoldingWorkers, Holding
  <2>6. QED
    BY <1>b, <1>c, <2>3, <2>4, <2>5 DEF PermitsConserved
<1>9. ASSUME NEW t \in Threads, Record(t)
      PROVE  PermitsConserved'
  <2>1. Creating' = Creating
    BY <1>d, <1>9 DEF Record, Creating, HoldingWorkers, Holding
  <2>2. ASSUME NEW w \in Workers
        PROVE  wpc'[w] \in Holding <=> wpc[w] \in Holding
    <3>1. CASE w = tid[t]
      BY <1>a, <1>d, <1>9, <3>1 DEF Record, Handover, Holding
    <3>2. CASE w # tid[t]
      BY <1>d, <1>9, <3>2 DEF Record
    <3>3. QED
      BY <3>1, <3>2
  <2>3. HoldingWorkers' = HoldingWorkers
    BY <2>2 DEF HoldingWorkers
  <2>4. QED
    BY <1>b, <1>c, <1>9, <2>1, <2>3 DEF Record, PermitsConserved
<1>10. ASSUME NEW w \in Workers, Request(w)
      PROVE  PermitsConserved'
  <2>1. Creating' = Creating /\ HoldingWorkers' = HoldingWorkers
    BY <1>d, <1>10 DEF Request, Creating, HoldingWorkers, Holding
  <2>2. QED
    BY <1>b, <1>c, <1>10, <2>1 DEF Request, PermitsConserved
<1>11. ASSUME NEW w \in Workers, Signalled(w)
      PROVE  PermitsConserved'
  <2>1. Creating' = Creating /\ HoldingWorkers' = HoldingWorkers
    BY <1>d, <1>11 DEF Signalled, Creating, HoldingWorkers, Holding
  <2>2. QED
    BY <1>b, <1>c, <1>11, <2>1 DEF Signalled, PermitsConserved
<1>12. ASSUME NEW w \in Workers, Timeout(w)
      PROVE  PermitsConserved'
  <2>1. Creating' = Creating /\ HoldingWorkers' = HoldingWorkers
    BY <1>d, <1>12 DEF Timeout, Creating, HoldingWorkers, Holding
  <2>2. QED
    BY <1>b, <1>c, <1>12, <2>1 DEF Timeout, PermitsConserved
<1>13. ASSUME NEW w \in Workers, Report(w)
      PROVE  PermitsConserved'
  <2>1. Creating' = Creating /\ HoldingWorkers' = HoldingWorkers
    BY <1>d, <1>13 DEF Report, Creating, HoldingWorkers, Holding
  <2>2. QED
    BY <1>b, <1>c, <1>13, <2>1 DEF Report, PermitsConserved
<1>14. ASSUME NEW w \in Workers, Erase(w)
      PROVE  PermitsConserved'
  <2>1. Creating' = Creating /\ HoldingWorkers' = HoldingWorkers
    BY <1>d, <1>14 DEF Erase, Creating, HoldingWorkers, Holding
  <2>2. QED
    BY <1>b, <1>c, <1>14, <2>1 DEF Erase, PermitsConserved
<1>15. ASSUME NEW w \in Workers, Release(w)
      PROVE  PermitsConserved'
  <2>1. HoldingWorkers' = HoldingWorkers \ {w} /\ w \in HoldingWorkers
    BY <1>d, <1>15 DEF Release, Creating, HoldingWorkers, Holding
  <2>2. Creating' = Creating /\ lost' = lost /\ tokens' = tokens + 1
    BY <1>d, <1>15 DEF Release, Creating, HoldingWorkers, Holding
  <2>3. Cardinality(HoldingWorkers') = Cardinality(HoldingWorkers) - 1
    BY <2>1, <1>c, FS_RemoveElement
  <2>4. QED
    BY <1>b, <1>c, <2>2, <2>3 DEF PermitsConserved
<1>16. ASSUME NEW w \in Workers, Exit(w)
      PROVE  PermitsConserved'
  <2>1. Creating' = Creating /\ HoldingWorkers' = HoldingWorkers
    BY <1>d, <1>16 DEF Exit, Creating, HoldingWorkers, Holding
  <2>2. QED
    BY <1>b, <1>c, <1>16, <2>1 DEF Exit, PermitsConserved
<1>17. ASSUME NEW k \in Keys, Execute(k)
      PROVE  PermitsConserved'
  <2>1. Creating' = Creating /\ HoldingWorkers' = HoldingWorkers
    BY <1>d, <1>17 DEF Execute, Creating, HoldingWorkers, Holding
  <2>2. QED
    BY <1>b, <1>c, <1>17, <2>1 DEF Execute, PermitsConserved
<1>18. ASSUME NEW k \in Keys, LoseRequest(k)
      PROVE  PermitsConserved'
  <2>1. Creating' = Creating /\ HoldingWorkers' = HoldingWorkers
    BY <1>d, <1>18 DEF LoseRequest, Creating, HoldingWorkers, Holding
  <2>2. QED
    BY <1>b, <1>c, <1>18, <2>1 DEF LoseRequest, PermitsConserved
<1>19. ASSUME NEW k \in Keys, LoseResponse(k)
      PROVE  PermitsConserved'
  <2>1. Creating' = Creating /\ HoldingWorkers' = HoldingWorkers
    BY <1>d, <1>19 DEF LoseResponse, Creating, HoldingWorkers, Holding
  <2>2. QED
    BY <1>b, <1>c, <1>19, <2>1 DEF LoseResponse, PermitsConserved
<1>20. ASSUME NEW k \in Keys, Find(k)
      PROVE  PermitsConserved'
  <2>1. Creating' = Creating /\ HoldingWorkers' = HoldingWorkers
    BY <1>d, <1>20 DEF Find, Creating, HoldingWorkers, Holding
  <2>2. QED
    BY <1>b, <1>c, <1>20, <2>1 DEF Find, PermitsConserved
<1>21. ASSUME NEW k \in Keys, SignalFound(k)
      PROVE  PermitsConserved'
  <2>1. Creating' = Creating /\ HoldingWorkers' = HoldingWorkers
    BY <1>d, <1>21 DEF SignalFound, Creating, HoldingWorkers, Holding
  <2>2. QED
    BY <1>b, <1>c, <1>21, <2>1 DEF SignalFound, PermitsConserved
<1>22. CASE UNCHANGED vars
  BY <1>22, <1>b DEF vars, PermitsConserved, Creating, HoldingWorkers
<1>23. QED
  BY <1>1, <1>2, <1>3, <1>4, <1>5, <1>6, <1>7, <1>8, <1>9, <1>10,
     <1>11, <1>12, <1>13, <1>14, <1>15, <1>16, <1>17, <1>18, <1>19, <1>20,
     <1>21, <1>22
  DEF Next, ThreadNext, WorkerNext, BusNext, Finished

-----------------------------------------------------------------------------
(* The theorems. *)

LEMMA Invariance == Spec => []IInv
<1>1. IInv /\ [Next]_vars => IInv'
  BY TypeStep, CallsBegunStep, TriesLeftStep, HandoverStep, EntryOwnedStep,
     SoloEntryStep, PermitsStep
  DEF IInv
<1>2. QED
  BY InitInv, <1>1, PTL DEF Spec

\* Type correctness of every variable (CanDevice.cpp and its callers).
THEOREM TypeCorrect == Spec => []TypeOK
<1>1. IInv => TypeOK
  BY DEF IInv
<1>2. QED
  BY Invariance, <1>1, PTL

\* The semaphore's permits are conserved: a permit that is not in the count is
\* with a thread, with a worker, or lost with a call that got no thread.
THEOREM PermitsAreConserved == Spec => []PermitsConserved
<1>1. IInv => PermitsConserved
  BY DEF IInv
<1>2. QED
  BY Invariance, <1>1, PTL

\* SyncTable never names a thread that has ended, or one that works for
\* another key: CanDevice::ResponseRecievedEvent finds no stranger, and the
\* signal it sends while the entry is there reaches none.
THEOREM EntriesAreOwned == Spec => []EntryOwned
<1>1. IInv => EntryOwned
  BY DEF IInv
<1>2. QED
  BY Invariance, <1>1, PTL

\* One writer per key is enough for one worker per key, however the search of
\* SyncTable, the wait for the semaphore and the new entry interleave with
\* the other threads.
THEOREM SoloKeysAreExclusive == Spec => []SoloKeyExclusive
<1>1. IInv => SoloKeyExclusive
  <2> SUFFICES ASSUME IInv, NEW k \in Keys, Solo(k),
                      NEW v \in WorkersOn(k), NEW w \in WorkersOn(k)
               PROVE  v = w
    BY DEF SoloKeyExclusive
  <2>1. EntryShows(k)
    BY DEF IInv, SoloEntry
  <2>2. ASSUME NEW x \in WorkersOn(k), wpc[x] = "created"
        PROVE  \E t \in Threads :
                 /\ pc[t] = "record" /\ tid[t] = x
                 /\ keyOf[cur[t]] = k /\ k \in KeysOf[t]
    BY <2>2 DEF IInv, Handover, CallsBegun, WorkersOn
  <2>3. ASSUME NEW x \in WorkersOn(k), wpc[x] \in Serving
        PROVE  SyncTable[k] = x
    BY <2>1, <2>3 DEF EntryShows, WorkersOn
  <2>4. ASSUME NEW x \in WorkersOn(k), NEW y \in WorkersOn(k),
               wpc[x] = "created", wpc[y] \in Serving
        PROVE  FALSE
    <3>1. SyncTable[k] = NoEntry
      BY <2>1, <2>2, <2>4 DEF EntryShows
    <3>2. QED
      BY <2>3, <2>4, <3>1, CanDeviceAssumption DEF WorkersOn
  <2>5. CASE wpc[v] = "created" /\ wpc[w] = "created"
    BY <2>2, <2>5 DEF Solo
  <2>6. CASE wpc[v] \in Serving /\ wpc[w] \in Serving
    BY <2>3, <2>6
  <2>7. QED
    BY <2>4, <2>5, <2>6 DEF WorkersOn
<1>2. QED
  BY Invariance, <1>1, PTL

\* Permits that the semaphore has and the stack pool has no thread for are
\* lost, and after them a permit is lost for good only while another worker
\* stands between its osSemaphoreRelease and the end of its thread.
THEOREM LossIsExplained == Spec => LostBeyondSurplus
<1> DEFINE Behind  == \E w \in Workers : wpc[w] = "exit"
           Surplus == Cardinality(lost') + Cardinality(Workers) <= Permits
<1>1. ASSUME IInv, [Next]_vars, lost' # lost
      PROVE  Behind \/ Surplus
  <2>1. PICK t \in Threads : CreateFails(t)
    BY <1>1 DEF Next, ThreadNext, WorkerNext, BusNext, Finished, vars, Begin,
         CheckFree, CheckWait, CheckGiveUp, Delay, Take, Create, Record, Request,
         Signalled, Timeout, Report, Erase, Release, Exit, Execute, LoseRequest,
         LoseResponse, Find, SignalFound, historyVars
  <2>2. SUFFICES ASSUME ~Behind PROVE Surplus
    OBVIOUS
  <2>3. HoldingWorkers = Workers
    BY <1>1, <2>1, <2>2 DEF CreateFails, IInv, TypeOK, WorkerPlaces,
         HoldingWorkers, Holding
  <2>4. Creating # {} /\ lost' = lost \cup {cur[t]} /\ cur[t] \notin lost
    BY <1>1, <2>1 DEF CreateFails, Creating, IInv, CallsBegun
  <2>5. Cardinality(Creating) # 0 /\ Cardinality(lost') = Cardinality(lost) + 1
    BY <1>1, <2>4, CountsFinite, FS_EmptySet, FS_AddElement DEF IInv
  <2>6. /\ Cardinality(Creating) \in Nat /\ Cardinality(Workers) \in Nat
        /\ Cardinality(lost) \in Nat /\ tokens \in Nat /\ Permits \in Nat
        /\ tokens + Cardinality(Creating) + Cardinality(Workers) + Cardinality(lost) = Permits
    BY <1>1, <2>3, CountsFinite, CanDeviceAssumption DEF IInv, TypeOK, PermitsConserved
  <2>7. QED
    BY <2>5, <2>6
<1>2. IInv /\ [Next]_vars => [lost' # lost => Behind \/ Surplus]_vars
  BY <1>1
<1>3. QED
  BY Invariance, <1>2, PTL DEF Spec, LostBeyondSurplus
-----------------------------------------------------------------------------
(* Answers.  A reported success was paid for by an execution: while no other *)
(* call of the key was sent twice, each response on the bus, the response    *)
(* whose entry has been found, each flag 0xff that stands, each worker about *)
(* to report success and each success reported goes back to the execution of *)
(* a call of its own.  What came of a stray signal is left out.              *)

\* What was sent, executed or reported is a call that has begun, under the
\* key it began with; only what was sent is on its way or was executed.
Traces ==
  /\ \A j \in Calls : sent[j] > 0 \/ outcome[j] # "none" => j <= issued
  /\ \A j \in Calls : j <= issued => keyOf[j] \in Keys
  /\ \A j \in executed : sent[j] > 0
  /\ \A k \in Keys : \A a \in DOMAIN requests[k] :
       sent[requests[k][a]] > 0 /\ keyOf[requests[k][a]] = k

\* The request of a call that was sent once is on the bus once, or executed.
SentOnce ==
  \A k \in Keys, j \in Calls : sent[j] <= 1 =>
    /\ \A a, b \in DOMAIN requests[k] :
         requests[k][a] = j /\ requests[k][b] = j => a = b
    /\ \A a \in DOMAIN requests[k] : requests[k][a] = j => j \notin executed

OkOn(k)    == {j \in Calls : keyOf[j] = k /\ outcome[j] = "ok" /\ j \notin stray}
WokenOn(k) ==
  {w \in Workers : wpc[w] # "free" /\ keyOf[job[w]] = k /\ signal[w] /\ job[w] \notin stray}
DoneOn(k)  ==
  {w \in Workers : wpc[w] = "succeeded" /\ keyOf[job[w]] = k /\ job[w] \notin stray}

\* Responses on the bus, and the one whose entry has been found and is there.
InHand(k)   == IF found = k /\ ~gone THEN 1 ELSE 0
Incoming(k) == Len(responses[k]) + InHand(k)
ExecutedBut(k, i) == {j \in Calls \ {i} : keyOf[j] = k /\ j \in executed}

OthersSentOnce(k, i) == \A j \in Calls \ {i} : keyOf[j] = k => sent[j] <= 1

Owed(k) == Cardinality(OkOn(k)) + Cardinality(WokenOn(k)) + Cardinality(DoneOn(k))
             + Incoming(k)

Paid(k, i) ==
  OthersSentOnce(k, i) /\ i \notin executed => Owed(k) <= Cardinality(ExecutedBut(k, i))

AllPaid == \A k \in Keys, i \in Calls : Paid(k, i)

\* What is owed is a sum of four numbers, before a step and after it.
LEMMA OwedSum ==
  ASSUME NEW k, Cardinality(OkOn(k)) \in Nat, Cardinality(WokenOn(k)) \in Nat,
         Cardinality(DoneOn(k)) \in Nat, Incoming(k) \in Nat
  PROVE  \E a, b, c, d \in Nat :
           /\ a = Cardinality(OkOn(k)) /\ b = Cardinality(WokenOn(k))
           /\ c = Cardinality(DoneOn(k)) /\ d = Incoming(k)
           /\ Owed(k) = a + b + c + d
  BY DEF Owed

LEMMA OwedSumNext ==
  ASSUME NEW k, Cardinality(OkOn(k)') \in Nat, Cardinality(WokenOn(k)') \in Nat,
         Cardinality(DoneOn(k)') \in Nat, Incoming(k)' \in Nat
  PROVE  \E a, b, c, d \in Nat :
           /\ a = Cardinality(OkOn(k)') /\ b = Cardinality(WokenOn(k)')
           /\ c = Cardinality(DoneOn(k)') /\ d = Incoming(k)'
           /\ Owed(k)' = a + b + c + d
  BY DEF Owed

LEMMA IncomingNat ==
  ASSUME TypeOK, NEW k \in Keys
  PROVE  Len(responses[k]) \in Nat /\ Incoming(k) \in Nat
<1>1. Len(responses[k]) \in Nat
  BY LenProperties DEF TypeOK
<1>2. InHand(k) \in {0, 1}
  BY DEF InHand
<1> QED
  BY <1>1, <1>2 DEF Incoming

\* What has been found and has not been signalled yet may be gone meanwhile.
LEMMA IncomingFewer ==
  ASSUME TypeOK, TypeOK', NEW k \in Keys,
         responses' = responses, found' = found, gone => gone'
  PROVE  Incoming(k)' \in Nat /\ Incoming(k)' <= Incoming(k)
<1>1. Len(responses[k]) \in Nat
  BY IncomingNat
<1>2. InHand(k) \in {0, 1} /\ InHand(k)' \in {0, 1} /\ (InHand(k) = 0 => InHand(k)' = 0)
  BY DEF InHand
<1> QED
  BY <1>1, <1>2 DEF Incoming

LEMMA PaidFinite ==
  ASSUME TypeOK, NEW k \in Keys, NEW i \in Calls
  PROVE  /\ IsFiniteSet(OkOn(k)) /\ Cardinality(OkOn(k)) \in Nat
         /\ IsFiniteSet(WokenOn(k)) /\ Cardinality(WokenOn(k)) \in Nat
         /\ IsFiniteSet(DoneOn(k)) /\ Cardinality(DoneOn(k)) \in Nat
         /\ IsFiniteSet(ExecutedBut(k, i)) /\ Cardinality(ExecutedBut(k, i)) \in Nat
         /\ Incoming(k) \in Nat /\ Owed(k) \in Nat
<1>1. /\ OkOn(k) \in SUBSET Calls /\ ExecutedBut(k, i) \in SUBSET Calls
      /\ WokenOn(k) \in SUBSET Workers /\ DoneOn(k) \in SUBSET Workers
  BY DEF OkOn, ExecutedBut, WokenOn, DoneOn
<1>2. IsFiniteSet(Calls) /\ IsFiniteSet(Workers)
  BY FS_Interval, CanDeviceAssumption DEF Calls
<1>3. /\ IsFiniteSet(OkOn(k)) /\ IsFiniteSet(ExecutedBut(k, i))
      /\ IsFiniteSet(WokenOn(k)) /\ IsFiniteSet(DoneOn(k))
  BY <1>1, <1>2, FS_Subset
<1>4. Incoming(k) \in Nat
  BY IncomingNat
<1>5. /\ Cardinality(OkOn(k)) \in Nat /\ Cardinality(WokenOn(k)) \in Nat
      /\ Cardinality(DoneOn(k)) \in Nat /\ Cardinality(ExecutedBut(k, i)) \in Nat
  BY <1>3, FS_CardinalityType
<1>6. Owed(k) \in Nat
  BY <1>4, <1>5 DEF Owed
<1> QED
  BY <1>3, <1>4, <1>5, <1>6

\* Nothing is woken, done or reported without being paid for by something
\* that was there before.
LEMMA StillPaid ==
  ASSUME TypeOK, TypeOK', NEW k \in Keys, NEW i \in Calls, Paid(k, i),
         OthersSentOnce(k, i)' => OthersSentOnce(k, i),
         executed \subseteq executed',
         OkOn(k)' \subseteq OkOn(k), WokenOn(k)' \subseteq WokenOn(k),
         DoneOn(k)' \subseteq DoneOn(k), Incoming(k)' <= Incoming(k),
         ExecutedBut(k, i) = ExecutedBut(k, i)'
  PROVE  Paid(k, i)'
<1>1. /\ Cardinality(OkOn(k)') <= Cardinality(OkOn(k))
      /\ Cardinality(WokenOn(k)') <= Cardinality(WokenOn(k))
      /\ Cardinality(DoneOn(k)') <= Cardinality(DoneOn(k))
  BY PaidFinite, FS_Subset
<1>2. /\ IsFiniteSet(OkOn(k)') /\ IsFiniteSet(WokenOn(k)') /\ IsFiniteSet(DoneOn(k)')
      /\ Incoming(k)' \in Nat
  <2>1. OkOn(k)' \in SUBSET OkOn(k) /\ WokenOn(k)' \in SUBSET WokenOn(k)
        /\ DoneOn(k)' \in SUBSET DoneOn(k)
    OBVIOUS
  <2>2. Incoming(k)' \in Nat
    <3>1. Len(responses'[k]) \in Nat /\ InHand(k)' \in {0, 1}
      BY LenProperties DEF TypeOK, InHand
    <3> QED
      BY <3>1 DEF Incoming
  <2> QED
    BY <2>1, <2>2, PaidFinite, FS_Subset
<1>3. /\ Cardinality(OkOn(k)') \in Nat /\ Cardinality(WokenOn(k)') \in Nat
      /\ Cardinality(DoneOn(k)') \in Nat
  BY <1>2, FS_CardinalityType
<1>4. /\ Cardinality(OkOn(k)) \in Nat /\ Cardinality(WokenOn(k)) \in Nat
      /\ Cardinality(DoneOn(k)) \in Nat /\ Incoming(k) \in Nat
      /\ Cardinality(ExecutedBut(k, i)) \in Nat
  BY PaidFinite
<1>5. Owed(k)' \in Nat /\ Owed(k) \in Nat /\ Owed(k)' <= Owed(k)
  <2>1. PICK a \in Nat, b \in Nat, c \in Nat, d \in Nat :
          /\ a = Cardinality(OkOn(k)) /\ b = Cardinality(WokenOn(k))
          /\ c = Cardinality(DoneOn(k)) /\ d = Incoming(k)
          /\ Owed(k) = a + b + c + d
    BY <1>4, OwedSum
  <2>2. PICK a1 \in Nat, b1 \in Nat, c1 \in Nat, d1 \in Nat :
          /\ a1 = Cardinality(OkOn(k)') /\ b1 = Cardinality(WokenOn(k)')
          /\ c1 = Cardinality(DoneOn(k)') /\ d1 = Incoming(k)'
          /\ Owed(k)' = a1 + b1 + c1 + d1
    BY <1>2, <1>3, OwedSumNext
  <2>3. a1 <= a /\ b1 <= b /\ c1 <= c /\ d1 <= d
    BY <1>1, <2>1, <2>2
  <2>4. Owed(k) = a + b + c + d /\ Owed(k)' = a1 + b1 + c1 + d1
    BY <2>1, <2>2
  <2> QED
    BY <2>3, <2>4
<1>6. Cardinality(ExecutedBut(k, i)') = Cardinality(ExecutedBut(k, i))
  OBVIOUS
<1>7. ASSUME OthersSentOnce(k, i)', i \notin executed'
      PROVE  Owed(k)' <= Cardinality(ExecutedBut(k, i)')
  <2>1. Owed(k) <= Cardinality(ExecutedBut(k, i))
    BY <1>7 DEF Paid
  <2> QED
    BY <1>4, <1>5, <1>6, <2>1
<1> QED
  BY <1>7 DEF Paid

LEMMA ElementIn ==
  ASSUME NEW S, NEW s \in Seq(S), NEW a \in DOMAIN s
  PROVE  s[a] \in S
  OBVIOUS

\* The steps of a thread send nothing and report at most a refusal.
LEMMA TracesThread ==
  ASSUME IInv, Traces, SentOnce, NEW t \in Threads, ThreadNext(t)
  PROVE  Traces' /\ SentOnce'
<1> USE DEF IInv, TypeOK, Calls
<1>1. /\ requests' = requests /\ sent' = sent /\ executed' = executed
  BY DEF ThreadNext, Begin, CheckFree, CheckWait, CheckGiveUp, Delay, Take, Create,
         CreateFails, Record, busVars, historyVars
<1>2. issued \in Nat /\ issued' \in Nat /\ issued <= issued'
  BY DEF ThreadNext, Begin, CheckFree, CheckWait, CheckGiveUp, Delay, Take, Create,
         CreateFails, Record, busVars, historyVars
<1>3. \A j \in Calls : j <= issued => keyOf'[j] = keyOf[j]
  <2>1. ASSUME NEW k \in KeysOf[t], Begin(t, k)
        PROVE  \A j \in Calls : j <= issued => keyOf'[j] = keyOf[j]
    <3>1. keyOf' = [keyOf EXCEPT ![issued + 1] = k] /\ issued \in Nat
      BY <2>1 DEF Begin
    <3> QED
      BY <3>1
  <2>2. CASE keyOf' = keyOf
    BY <2>2
  <2> QED
    BY <2>1, <2>2 DEF ThreadNext, CheckFree, CheckWait, CheckGiveUp, Delay, Take, Create,
           CreateFails, Record, busVars, historyVars
<1>4. \A j \in Calls : outcome'[j] # "none" => outcome[j] # "none" \/ j <= issued
  <2>1. CASE CheckGiveUp(t)
    BY <2>1 DEF CheckGiveUp, CallsBegun
  <2>2. CASE outcome' = outcome
    BY <2>2
  <2> QED
    BY <2>1, <2>2 DEF ThreadNext, Begin, CheckFree, CheckWait, Delay, Take, Create,
           CreateFails, Record, busVars, historyVars
<1>5. ASSUME NEW k \in Keys, NEW a \in DOMAIN requests[k]
      PROVE  keyOf'[requests[k][a]] = k
  <2>1. requests[k] \in Seq(Calls)
    OBVIOUS
  <2>2. requests[k][a] \in Calls
    BY <2>1, ElementIn
  <2>3. sent[requests[k][a]] > 0 /\ keyOf[requests[k][a]] = k
    BY DEF Traces
  <2> QED
    BY <1>3, <2>2, <2>3 DEF Traces
<1>8. ASSUME NEW j \in Calls, j <= issued' PROVE keyOf'[j] \in Keys
  <2>1. CASE j <= issued
    BY <1>3, <2>1 DEF Traces
  <2>2. ASSUME NEW k \in KeysOf[t], Begin(t, k), ~(j <= issued)
        PROVE  keyOf'[j] \in Keys
    <3>1. keyOf' = [keyOf EXCEPT ![issued + 1] = k] /\ issued' = issued + 1
      BY <2>2 DEF Begin
    <3>2. j = issued + 1 /\ k \in Keys
      BY <1>2, <1>8, <2>2, <3>1, CanDeviceAssumption
    <3> QED
      BY <3>1, <3>2
  <2>3. CASE issued' = issued
    BY <1>8, <2>1, <2>3
  <2> QED
    BY <2>1, <2>2, <2>3 DEF ThreadNext, CheckFree, CheckWait, CheckGiveUp, Delay, Take,
           Create, CreateFails, Record, busVars, historyVars
<1>6. Traces'
  BY <1>1, <1>2, <1>4, <1>5, <1>8 DEF Traces
<1>7. SentOnce'
  BY <1>1 DEF SentOnce
<1> QED
  BY <1>6, <1>7

LEMMA TracesWorker ==
  ASSUME IInv, Traces, SentOnce, NEW w \in Workers, WorkerNext(w)
  PROVE  Traces' /\ SentOnce'
<1> USE DEF IInv, TypeOK, Calls
<1>1. keyOf' = keyOf /\ issued' = issued /\ executed' = executed
  BY DEF WorkerNext, Request, Signalled, Timeout, Report, Erase, Release, Exit,
         historyVars
<1>2. \A j \in Calls : outcome'[j] # "none" => outcome[j] # "none" \/ j <= issued
  <2>1. CASE Report(w)
    BY <2>1 DEF Report, CallsBegun
  <2>2. CASE outcome' = outcome
    BY <2>2
  <2> QED
    BY <2>1, <2>2 DEF WorkerNext, Request, Signalled, Timeout, Erase, Release, Exit,
         historyVars
<1>3. ASSUME requests' = requests, sent' = sent PROVE Traces' /\ SentOnce'
  BY <1>1, <1>2, <1>3 DEF Traces, SentOnce
<1>4. ASSUME Request(w) PROVE Traces' /\ SentOnce'
  <2>0. PICK c \in Calls, q \in Keys :
          c = job[w] /\ q = keyOf[c] /\ c <= issued
    <3>1. job[w] \in 1..issued /\ keyOf[job[w]] \in Keys
      BY <1>4 DEF Request, CallsBegun
    <3>2. job[w] \in Calls /\ job[w] <= issued
      <4>1. issued \in 0..MaxCalls /\ MaxCalls \in Nat
        BY CanDeviceAssumption
      <4> QED
        BY <3>1, <4>1
    <3> QED
      BY <3>1, <3>2
  <2>1. c <= issued /\ q = keyOf[c]
    BY <2>0
  <2>2. /\ sent' = [sent EXCEPT ![c] = @ + 1] /\ outcome' = outcome
        /\ requests' = [requests EXCEPT ![q] = Append(@, c)]
    BY <1>4, <2>0 DEF Request, historyVars
  <2>3. /\ \A k \in Keys : k # q => requests'[k] = requests[k]
        /\ requests'[q] = Append(requests[q], c) /\ requests[q] \in Seq(Calls)
    BY <2>1, <2>2
  <2>4. /\ DOMAIN requests'[q] = DOMAIN requests[q] \cup {Len(requests[q]) + 1}
        /\ \A a \in DOMAIN requests[q] : requests'[q][a] = requests[q][a]
        /\ requests'[q][Len(requests[q]) + 1] = c
        /\ Len(requests[q]) + 1 \notin DOMAIN requests[q]
    BY <2>3
  <2>5. /\ \A j \in Calls : sent[j] \in Nat
        /\ \A j \in Calls : sent'[j] = IF j = c THEN sent[j] + 1 ELSE sent[j]
    BY <2>1, <2>2
  <2>6. ASSUME NEW k \in Keys, NEW a \in DOMAIN requests[k]
        PROVE  requests[k][a] \in Calls /\ sent[requests[k][a]] > 0
               /\ keyOf[requests[k][a]] = k
    <3>1. requests[k] \in Seq(Calls)
      OBVIOUS
    <3>2. requests[k][a] \in Calls
      BY <3>1, ElementIn
    <3> QED
      BY <3>2 DEF Traces
  <2>7. Traces'
    <3>1. \A j \in Calls : sent'[j] > 0 \/ outcome'[j] # "none" => j <= issued'
      BY <1>1, <1>2, <2>1, <2>5 DEF Traces
    <3>4. \A j \in Calls : j <= issued' => keyOf'[j] \in Keys
      BY <1>1 DEF Traces
    <3>2. \A j \in executed' : sent'[j] > 0
      <4>1. \A j \in executed : j \in Calls /\ sent[j] > 0
        BY DEF Traces
      <4> QED
        BY <1>1, <2>5, <4>1
    <3>3. ASSUME NEW k \in Keys, NEW a \in DOMAIN requests'[k]
          PROVE  sent'[requests'[k][a]] > 0 /\ keyOf'[requests'[k][a]] = k
      <4>1. CASE k # q
        <5>1. requests'[k][a] = requests[k][a] /\ a \in DOMAIN requests[k]
          BY <2>3, <4>1
        <5>2. requests[k][a] \in Calls /\ sent[requests[k][a]] > 0
              /\ keyOf[requests[k][a]] = k
          BY <5>1, <2>6
        <5> QED
          BY <1>1, <2>5, <5>1, <5>2
      <4>2. CASE k = q /\ a \in DOMAIN requests[q]
        <5>1. requests'[k][a] = requests[k][a] /\ a \in DOMAIN requests[k]
          BY <2>4, <4>2
        <5>2. PICK j \in Calls : j = requests[k][a]
          BY <5>1, <2>6
        <5>3. sent[j] > 0 /\ keyOf[j] = k
          BY <5>1, <5>2, <2>6
        <5>4. sent'[j] > 0 /\ keyOf'[j] = k
          BY <1>1, <2>5, <5>3
        <5> QED
          BY <5>1, <5>2, <5>4
      <4>3. CASE k = q /\ a = Len(requests[q]) + 1
        BY <1>1, <2>1, <2>4, <2>5, <4>3
      <4> QED
        BY <2>4, <4>1, <4>2, <4>3
    <3> QED
      BY <3>1, <3>2, <3>3, <3>4 DEF Traces
  <2>8. ASSUME NEW k \in Keys, NEW j \in Calls, sent'[j] <= 1
        PROVE  /\ \A a, b \in DOMAIN requests'[k] :
                    requests'[k][a] = j /\ requests'[k][b] = j => a = b
               /\ \A a \in DOMAIN requests'[k] : requests'[k][a] = j => j \notin executed'
    <3>1. CASE j # c
      <4>1. sent[j] <= 1
        BY <2>5, <2>8, <3>1
      <4>2. /\ \A a, b \in DOMAIN requests[k] :
                 requests[k][a] = j /\ requests[k][b] = j => a = b
            /\ \A a \in DOMAIN requests[k] : requests[k][a] = j => j \notin executed
        BY <4>1 DEF SentOnce
      <4>3. CASE k # q
        BY <1>1, <2>3, <4>2, <4>3
      <4>4. CASE k = q
        BY <1>1, <2>4, <3>1, <4>2, <4>4
      <4> QED
        BY <4>3, <4>4
    <3>2. CASE j = c
      <4>1. sent[c] = 0
        BY <2>1, <2>5, <2>8, <3>2
      <4>2. \A x \in Keys : \A a \in DOMAIN requests[x] : requests[x][a] # c
        BY <2>6, <4>1
      <4>3. c \notin executed
        <5>1. \A e \in executed : sent[e] > 0
          BY DEF Traces
        <5> QED
          BY <4>1, <5>1
      <4>4. CASE k # q
        BY <1>1, <2>3, <3>2, <4>2, <4>4
      <4>5. CASE k = q
        <5>1. \A a \in DOMAIN requests'[q] :
                requests'[q][a] = c => a = Len(requests[q]) + 1
          BY <2>4, <4>2
        <5> QED
          BY <1>1, <3>2, <4>3, <4>5, <5>1
      <4> QED
        BY <4>4, <4>5
    <3> QED
      BY <3>1, <3>2
  <2> QED
    BY <2>7, <2>8 DEF SentOnce
<1> QED
  BY <1>3, <1>4 DEF WorkerNext, Signalled, Timeout, Report, Erase, Release, Exit,
         busVars, historyVars

\* A queue of the bus loses its head and keeps the order of the rest.
LEMMA HeadLeaves ==
  ASSUME NEW S, NEW s \in Seq(S), s # <<>>
  PROVE  /\ Head(s) \in S /\ Tail(s) \in Seq(S) /\ Len(Tail(s)) = Len(s) - 1
         /\ Len(s) \in Nat /\ 1 \in DOMAIN s /\ s[1] = Head(s)
         /\ \A a \in DOMAIN Tail(s) :
              a + 1 \in DOMAIN s /\ a + 1 # 1 /\ Tail(s)[a] = s[a + 1] /\ a \in Nat
<1>1. /\ Head(s) \in S /\ Tail(s) \in Seq(S) /\ Len(Tail(s)) = Len(s) - 1 /\ Head(s) = s[1]
      /\ Len(s) \in Nat /\ Len(s) > 0 /\ DOMAIN s = 1..Len(s)
      /\ DOMAIN Tail(s) = 1..Len(Tail(s))
  BY HeadTailProperties, LenProperties, EmptySeq
<1>2. \A a \in 1..Len(Tail(s)) : Tail(s)[a] = s[a + 1]
  BY <1>1, HeadTailProperties
<1> QED
  BY <1>1, <1>2

LEMMA TracesBus ==
  ASSUME IInv, Traces, SentOnce, NEW k \in Keys, BusNext(k)
  PROVE  Traces' /\ SentOnce'
<1> USE DEF IInv, TypeOK
<1>1. keyOf' = keyOf /\ issued' = issued /\ sent' = sent /\ outcome' = outcome
  BY DEF BusNext, Execute, LoseRequest, LoseResponse, Find, SignalFound,
         historyVars
<1>2. ASSUME requests' = requests, executed' = executed PROVE Traces' /\ SentOnce'
  BY <1>1, <1>2 DEF Traces, SentOnce
<1>3. ASSUME requests[k] # <<>>, requests' = [requests EXCEPT ![k] = Tail(@)],
             executed' = executed \/ executed' = executed \cup {Head(requests[k])}
      PROVE  Traces' /\ SentOnce'
  <2>0. requests[k] \in Seq(Calls)
    OBVIOUS
  <2>1. /\ Head(requests[k]) \in Calls /\ 1 \in DOMAIN requests[k]
        /\ requests[k][1] = Head(requests[k])
        /\ \A a \in DOMAIN Tail(requests[k]) :
              a + 1 \in DOMAIN requests[k] /\ a + 1 # 1
              /\ Tail(requests[k])[a] = requests[k][a + 1] /\ a \in Nat
    BY <1>3, <2>0, HeadLeaves
  <2>2. /\ requests'[k] = Tail(requests[k])
        /\ \A x \in Keys : x # k => requests'[x] = requests[x]
    BY <1>3
  <2>3. sent[Head(requests[k])] > 0 /\ keyOf[Head(requests[k])] = k
    BY <2>1 DEF Traces
  <2>4. Traces'
    <3>1. \A j \in executed' : sent'[j] > 0
      BY <1>1, <1>3, <2>3 DEF Traces
    <3>2. ASSUME NEW x \in Keys, NEW a \in DOMAIN requests'[x]
          PROVE  sent'[requests'[x][a]] > 0 /\ keyOf'[requests'[x][a]] = x
      <4>1. CASE x # k
        <5>1. requests'[x][a] = requests[x][a] /\ a \in DOMAIN requests[x]
          BY <2>2, <4>1
        <5> QED
          BY <1>1, <5>1 DEF Traces
      <4>2. CASE x = k
        <5>1. /\ requests'[x][a] = requests[k][a + 1]
              /\ a + 1 \in DOMAIN requests[k]
          BY <2>1, <2>2, <4>2
        <5>2. sent[requests[k][a + 1]] > 0 /\ keyOf[requests[k][a + 1]] = k
          BY <5>1 DEF Traces
        <5> QED
          BY <1>1, <4>2, <5>1, <5>2
      <4> QED
        BY <4>1, <4>2
    <3> QED
      BY <1>1, <3>1, <3>2 DEF Traces
  <2>5. ASSUME NEW x \in Keys, NEW j \in Calls, sent'[j] <= 1
        PROVE  /\ \A a, b \in DOMAIN requests'[x] :
                    requests'[x][a] = j /\ requests'[x][b] = j => a = b
               /\ \A a \in DOMAIN requests'[x] : requests'[x][a] = j => j \notin executed'
    <3>1. /\ \A a, b \in DOMAIN requests[x] :
               requests[x][a] = j /\ requests[x][b] = j => a = b
          /\ \A a \in DOMAIN requests[x] : requests[x][a] = j => j \notin executed
      BY <1>1, <2>5 DEF SentOnce
    <3>2. CASE x = k
      <4>1. ASSUME NEW a \in DOMAIN requests'[k], NEW b \in DOMAIN requests'[k],
                   requests'[k][a] = j, requests'[k][b] = j
            PROVE  a = b
        <5>1. a + 1 = b + 1 /\ a \in Nat /\ b \in Nat
          BY <2>1, <2>2, <3>1, <3>2, <4>1
        <5> QED
          BY <5>1
      <4>2. ASSUME NEW a \in DOMAIN requests'[k], requests'[k][a] = j
            PROVE  j \notin executed'
        <5>1. a + 1 \in DOMAIN requests[k] /\ requests[k][a + 1] = j /\ a + 1 # 1
          BY <2>1, <2>2, <4>2
        <5>2. Head(requests[k]) # j
          BY <2>1, <3>1, <3>2, <5>1
        <5> QED
          BY <1>3, <3>1, <3>2, <5>1, <5>2
      <4> QED
        BY <3>2, <4>1, <4>2
    <3>3. CASE x # k
      <4>1. ASSUME NEW a \in DOMAIN requests[x], requests[x][a] = j
            PROVE  j # Head(requests[k])
        BY <2>3, <3>3, <4>1 DEF Traces
      <4> QED
        BY <1>3, <2>2, <3>1, <3>3, <4>1
    <3> QED
      BY <3>2, <3>3
  <2> QED
    BY <2>4, <2>5 DEF SentOnce
<1>4. CASE Execute(k)
  BY <1>3, <1>4 DEF Execute
<1>5. CASE LoseRequest(k)
  BY <1>3, <1>5 DEF LoseRequest, historyVars
<1>6. CASE LoseResponse(k) \/ Find(k) \/ SignalFound(k)
  BY <1>2, <1>6 DEF LoseResponse, Find, SignalFound, historyVars
<1> QED
  BY <1>4, <1>5, <1>6 DEF BusNext

\* A thread's step: a call that begins has neither been sent nor reported.
LEMMA PaidThread ==
  ASSUME IInv, TypeOK', Traces, NEW k \in Keys, NEW i \in Calls, Paid(k, i),
         NEW t \in Threads, ThreadNext(t)
  PROVE  Paid(k, i)'
<1> USE DEF IInv, TypeOK, Calls
<1>1. /\ sent' = sent /\ executed' = executed /\ responses' = responses
      /\ found' = found /\ gone' = gone /\ stray' = stray
  BY DEF ThreadNext, Begin, CheckFree, CheckWait, CheckGiveUp, Delay, Take, Create,
         CreateFails, Record, busVars, historyVars
<1>2. /\ \A j \in Calls : j <= issued => keyOf'[j] = keyOf[j]
      /\ \A j \in Calls : ~(j <= issued) => sent[j] = 0 /\ j \notin executed
                                           /\ outcome[j] = "none"
  <2>1. \A j \in Calls : j <= issued => keyOf'[j] = keyOf[j]
    <3>1. ASSUME NEW x \in KeysOf[t], Begin(t, x)
          PROVE  \A j \in Calls : j <= issued => keyOf'[j] = keyOf[j]
      <4>1. keyOf' = [keyOf EXCEPT ![issued + 1] = x] /\ issued \in Nat
        BY <3>1 DEF Begin
      <4> QED
        BY <4>1
    <3>2. CASE keyOf' = keyOf
      BY <3>2
    <3> QED
      BY <3>1, <3>2 DEF ThreadNext, CheckFree, CheckWait, CheckGiveUp, Delay, Take,
             Create, CreateFails, Record, busVars, historyVars
  <2>2. \A j \in Calls : ~(j <= issued) => sent[j] = 0 /\ outcome[j] = "none"
    <3>1. \A j \in Calls : sent[j] \in Nat
      OBVIOUS
    <3>2. \A j \in Calls : sent[j] > 0 \/ outcome[j] # "none" => j <= issued
      BY DEF Traces
    <3> QED
      BY <3>1, <3>2
  <2>3. \A j \in executed : sent[j] > 0
    BY DEF Traces
  <2> QED
    BY <2>1, <2>2, <2>3
<1>3. \A j \in Calls : outcome'[j] = "ok" => outcome[j] = "ok"
  BY DEF ThreadNext, Begin, CheckFree, CheckWait, CheckGiveUp, Delay, Take, Create,
         CreateFails, Record, busVars, historyVars
<1>4. OkOn(k)' \subseteq OkOn(k)
  BY <1>1, <1>2, <1>3 DEF OkOn
<1>5. ExecutedBut(k, i)' = ExecutedBut(k, i)
  BY <1>1, <1>2 DEF ExecutedBut
<1>6. OthersSentOnce(k, i)' => OthersSentOnce(k, i)
  BY <1>1, <1>2 DEF OthersSentOnce
<1>7. ASSUME NEW w \in Workers,
             \/ wpc'[w] # "free" /\ signal'[w]
             \/ wpc'[w] = "succeeded"
      PROVE  /\ wpc[w] # "free" /\ job'[w] = job[w] /\ job[w] \in Calls
             /\ job[w] <= issued /\ (signal'[w] => signal[w])
             /\ (wpc'[w] = "succeeded" => wpc[w] = "succeeded")
  <2>1. /\ wpc[w] # "free" /\ job'[w] = job[w]
        /\ (signal'[w] => signal[w])
        /\ (wpc'[w] = "succeeded" => wpc[w] = "succeeded")
    <3>1. ASSUME NEW v \in Workers, Create(t, v)
          PROVE  /\ wpc[w] # "free" /\ job'[w] = job[w]
                 /\ (signal'[w] => signal[w])
                 /\ (wpc'[w] = "succeeded" => wpc[w] = "succeeded")
      <4>1. /\ wpc' = [wpc EXCEPT ![v] = "created"]
            /\ job' = [job EXCEPT ![v] = cur[t]]
            /\ signal' = [signal EXCEPT ![v] = FALSE]
        BY <3>1 DEF Create
      <4>2. w # v
        BY <1>7, <4>1
      <4>3. /\ wpc'[w] = wpc[w] /\ job'[w] = job[w] /\ signal'[w] = signal[w]
        BY <4>1, <4>2
      <4>4. wpc[w] # "free"
        BY <1>7, <4>3
      <4> QED
        BY <4>3, <4>4
    <3>2. CASE Record(t)
      <4>1. /\ wpc'[w] = (IF w = tid[t] THEN "request" ELSE wpc[w])
            /\ job' = job /\ signal' = signal
        BY <3>2 DEF Record
      <4>2. w = tid[t] => wpc[w] = "created"
        BY <3>2 DEF Record, Handover
      <4> QED
        BY <1>7, <4>1, <4>2
    <3>3. CASE wpc' = wpc /\ job' = job /\ signal' = signal
      BY <1>7, <3>3
    <3> QED
      BY <3>1, <3>2, <3>3 DEF ThreadNext, Begin, CheckFree, CheckWait, CheckGiveUp,
             Delay, Take, CreateFails, workerVars
  <2>2. job[w] \in 1..issued
    BY <2>1 DEF CallsBegun
  <2>3. issued \in 0..MaxCalls /\ MaxCalls \in Nat
    BY CanDeviceAssumption
  <2>4. job[w] \in Calls /\ job[w] <= issued
    BY <2>2, <2>3
  <2> QED
    BY <2>1, <2>4
<1>8. WokenOn(k)' \subseteq WokenOn(k)
  BY <1>1, <1>2, <1>7 DEF WokenOn
<1>9. DoneOn(k)' \subseteq DoneOn(k)
  BY <1>1, <1>2, <1>7 DEF DoneOn
<1>10. Incoming(k)' <= Incoming(k)
  BY <1>1, IncomingFewer
<1> QED
  BY <1>1, <1>4, <1>5, <1>6, <1>8, <1>9, <1>10, StillPaid

LEMMA OwesNoMore ==
  ASSUME TypeOK, TypeOK', NEW k \in Keys, NEW i \in Calls, Paid(k, i),
         OthersSentOnce(k, i)' => OthersSentOnce(k, i), executed \subseteq executed',
         ExecutedBut(k, i)' = ExecutedBut(k, i), Owed(k)' \in Nat, Owed(k)' <= Owed(k)
  PROVE  Paid(k, i)'
<1>1. Owed(k) \in Nat /\ Cardinality(ExecutedBut(k, i)) \in Nat
  BY PaidFinite
<1>2. ASSUME OthersSentOnce(k, i)', i \notin executed'
      PROVE  Owed(k)' <= Cardinality(ExecutedBut(k, i)')
  <2>1. Owed(k) <= Cardinality(ExecutedBut(k, i))
    BY <1>2 DEF Paid
  <2>2. Cardinality(ExecutedBut(k, i)') = Cardinality(ExecutedBut(k, i))
    OBVIOUS
  <2> QED
    BY <1>1, <2>1, <2>2
<1> QED
  BY <1>2 DEF Paid

\* One more element, or one less.
LEMMA OneMore ==
  ASSUME NEW S, NEW R, NEW x, IsFiniteSet(S), R \subseteq S \cup {x}
  PROVE  IsFiniteSet(R) /\ Cardinality(R) \in Nat /\ Cardinality(R) <= Cardinality(S) + 1
<1>1. /\ IsFiniteSet(S \cup {x}) /\ Cardinality(S) \in Nat
      /\ Cardinality(S \cup {x}) \in {Cardinality(S), Cardinality(S) + 1}
  BY FS_AddElement, FS_CardinalityType
<1>2. /\ IsFiniteSet(R) /\ Cardinality(R) <= Cardinality(S \cup {x})
  BY <1>1, FS_Subset
<1> QED
  BY <1>1, <1>2, FS_CardinalityType

LEMMA OneLess ==
  ASSUME NEW S, NEW R, NEW x, IsFiniteSet(S), R \subseteq S \ {x}, x \in S
  PROVE  IsFiniteSet(R) /\ Cardinality(R) \in Nat /\ Cardinality(R) <= Cardinality(S) - 1
<1>1. /\ IsFiniteSet(S \ {x}) /\ Cardinality(S) \in Nat
      /\ Cardinality(S \ {x}) = Cardinality(S) - 1
  BY FS_RemoveElement, FS_CardinalityType
<1>2. /\ IsFiniteSet(R) /\ Cardinality(R) <= Cardinality(S \ {x})
  BY <1>1, FS_Subset
<1> QED
  BY <1>1, <1>2, FS_CardinalityType

\* A worker's step: a flag that is taken becomes a worker about to report
\* success, and that becomes a success reported.
LEMMA PaidWorker ==
  ASSUME IInv, TypeOK', NEW k \in Keys, NEW i \in Calls, Paid(k, i),
         NEW w \in Workers, WorkerNext(w)
  PROVE  Paid(k, i)'
<1> USE DEF IInv, TypeOK
<1>1. /\ keyOf' = keyOf /\ executed' = executed /\ responses' = responses
      /\ found' = found /\ (gone => gone') /\ stray' = stray
  BY DEF WorkerNext, Request, Signalled, Timeout, Report, Erase, Release, Exit,
         busVars, historyVars
<1>2. ExecutedBut(k, i)' = ExecutedBut(k, i)
  BY <1>1 DEF ExecutedBut
<1>3. Incoming(k)' \in Nat /\ Incoming(k)' <= Incoming(k)
  BY <1>1, IncomingFewer
<1>4. OthersSentOnce(k, i)' => OthersSentOnce(k, i)
  <2>1. \A j \in Calls : sent'[j] \in Nat /\ sent[j] \in Nat /\ sent[j] <= sent'[j]
    <3>1. CASE sent' = sent
      BY <3>1
    <3>2. CASE Request(w)
      BY <3>2 DEF Request
    <3> QED
      BY <3>1, <3>2 DEF WorkerNext, Signalled, Timeout, Report, Erase, Release, Exit,
             historyVars
  <2> QED
    BY <1>1, <2>1 DEF OthersSentOnce
<1>5. CASE Signalled(w)
  <2>1. /\ wpc[w] = "wait" /\ signal[w] /\ outcome' = outcome /\ job' = job
        /\ signal' = [signal EXCEPT ![w] = FALSE]
        /\ wpc' = [wpc EXCEPT ![w] = "succeeded"]
    BY <1>5 DEF Signalled, historyVars
  <2>2. OkOn(k)' = OkOn(k)
    BY <1>1, <2>1 DEF OkOn
  <2>3. CASE keyOf[job[w]] = k /\ job[w] \notin stray
    <3>1. w \in WokenOn(k) /\ WokenOn(k)' \subseteq WokenOn(k) \ {w}
      BY <1>1, <2>1, <2>3 DEF WokenOn
    <3>2. DoneOn(k)' \subseteq DoneOn(k) \cup {w}
      BY <1>1, <2>1 DEF DoneOn
    <3>3. /\ Cardinality(WokenOn(k)') \in Nat
          /\ Cardinality(WokenOn(k)') <= Cardinality(WokenOn(k)) - 1
      BY <3>1, PaidFinite, OneLess
    <3>4. /\ Cardinality(DoneOn(k)') \in Nat
          /\ Cardinality(DoneOn(k)') <= Cardinality(DoneOn(k)) + 1
      BY <3>2, PaidFinite, OneMore
    <3>5. /\ Cardinality(OkOn(k)) \in Nat /\ Cardinality(WokenOn(k)) \in Nat
          /\ Cardinality(DoneOn(k)) \in Nat /\ Incoming(k) \in Nat
          /\ Cardinality(ExecutedBut(k, i)) \in Nat
      BY PaidFinite
    <3>6. Owed(k)' \in Nat /\ Owed(k)' <= Owed(k)
      <4>0. /\ Cardinality(OkOn(k)') = Cardinality(OkOn(k))
            /\ Incoming(k)' \in Nat /\ Incoming(k)' <= Incoming(k)
        BY <1>3, <2>2
      <4> HIDE DEF IInv, TypeOK
      <4>1. PICK a \in Nat, b \in Nat, c \in Nat, d \in Nat :
              /\ a = Cardinality(OkOn(k)) /\ b = Cardinality(WokenOn(k))
              /\ c = Cardinality(DoneOn(k)) /\ d = Incoming(k)
              /\ Owed(k) = a + b + c + d
        BY <3>5, OwedSum
      <4>2. PICK a1 \in Nat, b1 \in Nat, c1 \in Nat, d1 \in Nat :
              /\ a1 = Cardinality(OkOn(k)') /\ b1 = Cardinality(WokenOn(k)')
              /\ c1 = Cardinality(DoneOn(k)') /\ d1 = Incoming(k)'
              /\ Owed(k)' = a1 + b1 + c1 + d1
        BY <3>3, <3>4, <3>5, <4>0, OwedSumNext
      <4>3. a1 = a /\ b1 <= b - 1 /\ c1 <= c + 1 /\ d1 <= d
        BY <3>3, <3>4, <4>0, <4>1, <4>2
      <4>4. Owed(k) = a + b + c + d /\ Owed(k)' = a1 + b1 + c1 + d1
        BY <4>1, <4>2
      <4> QED
        BY <4>3, <4>4
    <3> QED
      BY <1>1, <1>2, <1>4, <3>6, OwesNoMore
  <2>4. CASE ~(keyOf[job[w]] = k /\ job[w] \notin stray)
    <3>1. WokenOn(k)' \subseteq WokenOn(k) /\ DoneOn(k)' \subseteq DoneOn(k)
      BY <1>1, <2>1, <2>4 DEF WokenOn, DoneOn
    <3> QED
      BY <1>1, <1>2, <1>3, <1>4, <2>2, <3>1, StillPaid
  <2> QED
    BY <2>3, <2>4
<1>6. CASE Report(w)
  <2>1. /\ wpc[w] \in {"succeeded", "failed"} /\ job' = job /\ signal' = signal
        /\ wpc' = [wpc EXCEPT ![w] = "erase"]
        /\ outcome' = [outcome EXCEPT ![job[w]] =
                        IF wpc[w] = "succeeded" THEN "ok" ELSE "failed"]
    BY <1>6 DEF Report
  <2>2. WokenOn(k)' \subseteq WokenOn(k) /\ DoneOn(k)' \subseteq DoneOn(k) \ {w}
    BY <1>1, <2>1 DEF WokenOn, DoneOn
  <2>3. CASE wpc[w] = "succeeded" /\ keyOf[job[w]] = k /\ job[w] \notin stray
    <3>1. w \in DoneOn(k)
      BY <2>3 DEF DoneOn
    <3>2. /\ Cardinality(DoneOn(k)') \in Nat
          /\ Cardinality(DoneOn(k)') <= Cardinality(DoneOn(k)) - 1
      BY <2>2, <3>1, PaidFinite, OneLess
    <3>3. OkOn(k)' \subseteq OkOn(k) \cup {job[w]}
      BY <1>1, <2>1 DEF OkOn
    <3>4. /\ Cardinality(OkOn(k)') \in Nat
          /\ Cardinality(OkOn(k)') <= Cardinality(OkOn(k)) + 1
      BY <3>3, PaidFinite, OneMore
    <3>5. WokenOn(k)' = WokenOn(k)
      BY <1>1, <2>1 DEF WokenOn
    <3>6. /\ Cardinality(OkOn(k)) \in Nat /\ Cardinality(WokenOn(k)) \in Nat
          /\ Cardinality(DoneOn(k)) \in Nat /\ Incoming(k) \in Nat
          /\ Cardinality(ExecutedBut(k, i)) \in Nat
      BY PaidFinite
    <3>7. Owed(k)' \in Nat /\ Owed(k)' <= Owed(k)
      <4>0. /\ Cardinality(WokenOn(k)') = Cardinality(WokenOn(k))
            /\ Incoming(k)' \in Nat /\ Incoming(k)' <= Incoming(k)
        BY <1>3, <3>5
      <4> HIDE DEF IInv, TypeOK
      <4>1. PICK a \in Nat, b \in Nat, c \in Nat, d \in Nat :
              /\ a = Cardinality(OkOn(k)) /\ b = Cardinality(WokenOn(k))
              /\ c = Cardinality(DoneOn(k)) /\ d = Incoming(k)
              /\ Owed(k) = a + b + c + d
        BY <3>6, OwedSum
      <4>2. PICK a1 \in Nat, b1 \in Nat, c1 \in Nat, d1 \in Nat :
              /\ a1 = Cardinality(OkOn(k)') /\ b1 = Cardinality(WokenOn(k)')
              /\ c1 = Cardinality(DoneOn(k)') /\ d1 = Incoming(k)'
              /\ Owed(k)' = a1 + b1 + c1 + d1
        BY <3>2, <3>4, <3>6, <4>0, OwedSumNext
      <4>3. a1 <= a + 1 /\ b1 = b /\ c1 <= c - 1 /\ d1 <= d
        BY <3>2, <3>4, <4>0, <4>1, <4>2
      <4>4. Owed(k) = a + b + c + d /\ Owed(k)' = a1 + b1 + c1 + d1
        BY <4>1, <4>2
      <4> QED
        BY <4>3, <4>4
    <3> QED
      BY <1>1, <1>2, <1>4, <3>7, OwesNoMore
  <2>4. CASE ~(wpc[w] = "succeeded" /\ keyOf[job[w]] = k /\ job[w] \notin stray)
    <3>1. OkOn(k)' \subseteq OkOn(k)
      BY <1>1, <2>1, <2>4 DEF OkOn
    <3>2. DoneOn(k)' \subseteq DoneOn(k)
      BY <2>2
    <3> QED
      BY <1>1, <1>2, <1>3, <1>4, <2>2, <3>1, <3>2, StillPaid
  <2> QED
    BY <2>3, <2>4
<1>7. ASSUME ~Signalled(w), ~Report(w) PROVE Paid(k, i)'
  <2>1. /\ outcome' = outcome
        /\ \A v \in Workers : wpc'[v] # "free" => wpc[v] # "free" /\ job'[v] = job[v]
        /\ \A v \in Workers : wpc'[v] = "succeeded" => wpc[v] = "succeeded"
        /\ \A v \in Workers : signal'[v] => signal[v]
    BY <1>7 DEF WorkerNext, Request, Timeout, Erase, Release, Exit, historyVars
  <2>2. /\ OkOn(k)' \subseteq OkOn(k) /\ WokenOn(k)' \subseteq WokenOn(k)
        /\ DoneOn(k)' \subseteq DoneOn(k)
    BY <1>1, <2>1 DEF OkOn, WokenOn, DoneOn
  <2> QED
    BY <1>1, <1>2, <1>3, <1>4, <2>2, StillPaid
<1> QED
  BY <1>5, <1>6, <1>7

\* A step of the bus or of the poller: an execution pays for the response it
\* sends, and a response for the one flag it sets in a worker of its key.
LEMMA PaidBus ==
  ASSUME IInv, TypeOK', Traces, SentOnce, NEW k \in Keys, NEW i \in Calls, Paid(k, i),
         NEW x \in Keys, BusNext(x)
  PROVE  Paid(k, i)'
<1> USE DEF IInv, TypeOK
<1>1. /\ keyOf' = keyOf /\ sent' = sent /\ outcome' = outcome
      /\ wpc' = wpc /\ job' = job
  BY DEF BusNext, Execute, LoseRequest, LoseResponse, Find, SignalFound,
         workerVars, historyVars
<1>0. /\ Len(responses[k]) \in Nat /\ Len(responses'[k]) \in Nat
      /\ InHand(k) \in {0, 1} /\ InHand(k)' \in {0, 1}
  BY LenProperties DEF InHand
<1>2. ASSUME stray' = stray PROVE OkOn(k)' = OkOn(k) /\ DoneOn(k)' = DoneOn(k)
  BY <1>1, <1>2 DEF OkOn, DoneOn
<1>3. OthersSentOnce(k, i)' = OthersSentOnce(k, i)
  BY <1>1 DEF OthersSentOnce
<1>4. CASE Execute(x)
  <2>1. /\ requests[x] # <<>> /\ signal' = signal
        /\ executed' = executed \cup {Head(requests[x])}
        /\ responses' = [responses EXCEPT ![x] = Append(@, Head(requests[x]))]
        /\ stray' = stray /\ found' = found /\ gone' = gone
    BY <1>4 DEF Execute, workerVars
  <2>2. WokenOn(k)' = WokenOn(k)
    BY <1>1, <2>1 DEF WokenOn
  <2>3. PICK h \in Calls : /\ h = Head(requests[x]) /\ 1 \in DOMAIN requests[x]
                           /\ requests[x][1] = h
    <3>1. requests[x] \in Seq(Calls)
      OBVIOUS
    <3> QED
      BY <2>1, <3>1, HeadLeaves
  <2>4. keyOf[h] = x
    BY <2>3 DEF Traces
  <2>5. CASE x # k
    <3>1. ExecutedBut(k, i)' = ExecutedBut(k, i)
      BY <1>1, <2>1, <2>3, <2>4, <2>5 DEF ExecutedBut
    <3>2. Incoming(k)' <= Incoming(k)
      <4>1. responses'[k] = responses[k]
        BY <2>1, <2>5
      <4> QED
        BY <1>0, <2>1, <4>1 DEF Incoming, InHand
    <3> QED
      BY <1>2, <1>3, <2>1, <2>2, <3>1, <3>2, StillPaid
  <2>6. CASE x = k
    <3>1. SUFFICES ASSUME OthersSentOnce(k, i), i \notin executed, h # i
                   PROVE  Paid(k, i)'
      BY <1>3, <2>1, <2>3 DEF Paid
    <3>2. sent[h] <= 1
      BY <2>4, <2>6, <3>1 DEF OthersSentOnce
    <3>3. h \notin executed
      BY <2>3, <3>2 DEF SentOnce
    <3>4. ExecutedBut(k, i)' = ExecutedBut(k, i) \cup {h} /\ h \notin ExecutedBut(k, i)
      BY <1>1, <2>1, <2>3, <2>4, <2>6, <3>1, <3>3 DEF ExecutedBut
    <3>5. Cardinality(ExecutedBut(k, i)') = Cardinality(ExecutedBut(k, i)) + 1
      <4>1. /\ IsFiniteSet(ExecutedBut(k, i) \cup {h})
            /\ Cardinality(ExecutedBut(k, i) \cup {h}) =
                 IF h \in ExecutedBut(k, i) THEN Cardinality(ExecutedBut(k, i))
                                            ELSE Cardinality(ExecutedBut(k, i)) + 1
        BY PaidFinite, FS_AddElement
      <4> QED
        BY <3>4, <4>1
    <3>6. Incoming(k)' = Incoming(k) + 1
      <4>1. responses'[k] = Append(responses[k], h) /\ responses[k] \in Seq(Calls)
        BY <2>1, <2>3, <2>6
      <4> QED
        <5>1. Len(responses'[k]) = Len(responses[k]) + 1
          BY <4>1, AppendProperties
        <5>2. InHand(k)' = InHand(k)
          BY <2>1 DEF InHand
        <5> QED
          BY <1>0, <5>1, <5>2 DEF Incoming
    <3>7. /\ Cardinality(OkOn(k)) \in Nat /\ Cardinality(WokenOn(k)) \in Nat
          /\ Cardinality(DoneOn(k)) \in Nat /\ Incoming(k) \in Nat
          /\ Cardinality(ExecutedBut(k, i)) \in Nat
      BY PaidFinite
    <3>9. Owed(k) \in Nat /\ Owed(k)' = Owed(k) + 1
      <4>0. /\ Cardinality(OkOn(k)') = Cardinality(OkOn(k))
            /\ Cardinality(DoneOn(k)') = Cardinality(DoneOn(k))
            /\ Cardinality(WokenOn(k)') = Cardinality(WokenOn(k))
            /\ Incoming(k)' \in Nat
        <5>1. Incoming(k) \in Nat
          BY IncomingNat
        <5>2. Incoming(k)' \in Nat
          <6> HIDE DEF IInv, TypeOK
          <6>1. \A n \in Nat : n + 1 \in Nat
            OBVIOUS
          <6> QED
            BY ONLY <3>6, <5>1, <6>1
        <5> QED
          BY <1>2, <2>1, <2>2, <5>2
      <4> HIDE DEF IInv, TypeOK
      <4>1. PICK a \in Nat, b \in Nat, c \in Nat, d \in Nat :
              /\ a = Cardinality(OkOn(k)) /\ b = Cardinality(WokenOn(k))
              /\ c = Cardinality(DoneOn(k)) /\ d = Incoming(k)
              /\ Owed(k) = a + b + c + d
        BY <3>7, OwedSum
      <4>2. PICK a1 \in Nat, b1 \in Nat, c1 \in Nat, d1 \in Nat :
              /\ a1 = Cardinality(OkOn(k)') /\ b1 = Cardinality(WokenOn(k)')
              /\ c1 = Cardinality(DoneOn(k)') /\ d1 = Incoming(k)'
              /\ Owed(k)' = a1 + b1 + c1 + d1
        BY <3>6, <3>7, <4>0, OwedSumNext
      <4>3. a1 = a /\ b1 = b /\ c1 = c /\ d1 = d + 1
        BY <3>6, <4>0, <4>1, <4>2
      <4>4. Owed(k) = a + b + c + d /\ Owed(k)' = a1 + b1 + c1 + d1
        BY <4>1, <4>2
      <4> QED
        BY <4>3, <4>4
    <3>8. Owed(k) <= Cardinality(ExecutedBut(k, i))
      BY <3>1 DEF Paid
    <3> QED
      BY <3>5, <3>7, <3>8, <3>9 DEF Paid
  <2> QED
    BY <2>5, <2>6
<1>5. ASSUME executed' = executed PROVE ExecutedBut(k, i)' = ExecutedBut(k, i)
  BY <1>1, <1>5 DEF ExecutedBut
<1>6. CASE LoseRequest(x)
  <2>1. /\ executed' = executed /\ signal' = signal /\ responses' = responses
        /\ stray' = stray /\ found' = found /\ gone' = gone
    BY <1>6 DEF LoseRequest, workerVars, historyVars
  <2>2. WokenOn(k)' = WokenOn(k)
    BY <1>1, <2>1 DEF WokenOn
  <2>3. Incoming(k)' <= Incoming(k)
    BY <2>1, IncomingFewer
  <2> QED
    BY <1>2, <1>3, <1>5, <2>1, <2>2, <2>3, StillPaid
<1>7. ASSUME responses[x] # <<>>, responses' = [responses EXCEPT ![x] = Tail(@)]
      PROVE  Len(responses'[k]) = Len(responses[k]) - (IF x = k THEN 1 ELSE 0)
  <2>1. responses[x] \in Seq(Calls)
    OBVIOUS
  <2>2. Len(Tail(responses[x])) = Len(responses[x]) - 1
    BY <1>7, <2>1, HeadLeaves
  <2>3. CASE x = k
    BY <1>0, <1>7, <2>2, <2>3
  <2>4. CASE x # k
    <3>1. responses'[k] = responses[k]
      BY <1>7, <2>4
    <3> QED
      BY <1>0, <2>4, <3>1
  <2> QED
    BY <2>3, <2>4
<1>8. CASE LoseResponse(x)
  <2>1. /\ executed' = executed /\ signal' = signal /\ responses[x] # <<>>
        /\ responses' = [responses EXCEPT ![x] = Tail(@)]
        /\ stray' = stray /\ found' = found /\ gone' = gone
    BY <1>8 DEF LoseResponse, workerVars, historyVars
  <2>2. WokenOn(k)' = WokenOn(k)
    BY <1>1, <2>1 DEF WokenOn
  <2>3. Len(responses'[k]) <= Len(responses[k])
    BY <1>0, <1>7, <2>1
  <2>4. Incoming(k)' <= Incoming(k)
    BY <1>0, <2>1, <2>3 DEF Incoming, InHand
  <2> QED
    BY <1>2, <1>3, <1>5, <2>1, <2>2, <2>4, StillPaid
<1>9. CASE Find(x)
  <2>1. /\ executed' = executed /\ signal' = signal /\ responses[x] # <<>>
        /\ responses' = [responses EXCEPT ![x] = Tail(@)]
        /\ stray' = stray /\ found = NoEntry /\ found' \in {x, NoEntry}
    BY <1>9 DEF Find, workerVars, historyVars
  <2>2. WokenOn(k)' = WokenOn(k)
    BY <1>1, <2>1 DEF WokenOn
  <2>3. found # k /\ (found' = k => x = k)
    BY <2>1, CanDeviceAssumption
  <2>4. Len(responses'[k]) = Len(responses[k]) - (IF x = k THEN 1 ELSE 0)
    BY <1>7, <2>1
  <2>5. Incoming(k)' <= Incoming(k)
    <3>1. InHand(k) = 0 /\ (x # k => InHand(k)' = 0)
      BY <2>3 DEF InHand
    <3> QED
      BY <1>0, <2>4, <3>1 DEF Incoming
  <2> QED
    BY <1>2, <1>3, <1>5, <2>1, <2>2, <2>5, StillPaid
<1>10. CASE SignalFound(x)
  <2>1. PICK n \in Named(x) :
          /\ signal' = [v \in Workers |->
               signal[v] \/ v \in {w \in Workers : w = n /\ wpc[w] \in Waking /\ ~signal[w]}]
          /\ stray' = IF gone
                      THEN stray \cup {job[w] : w \in {w \in Workers :
                             w = n /\ wpc[w] \in Waking /\ ~signal[w]}}
                      ELSE stray
    BY <1>10 DEF SignalFound
  <2>2. /\ executed' = executed /\ responses' = responses
        /\ found = x /\ found' = NoEntry
    BY <1>10 DEF SignalFound
  <2>3. Incoming(k)' = Len(responses[k])
    <3>1. InHand(k)' = 0
      BY <2>2, CanDeviceAssumption DEF InHand
    <3> QED
      BY <1>0, <2>2, <3>1 DEF Incoming
  <2>4. Incoming(k)' <= Incoming(k)
    BY <1>0, <2>3 DEF Incoming
  <2>5. CASE gone
    <3>1. stray \subseteq stray'
      BY <2>1, <2>5
    <3>2. OkOn(k)' \subseteq OkOn(k) /\ DoneOn(k)' \subseteq DoneOn(k)
      BY <1>1, <3>1 DEF OkOn, DoneOn
    <3>3. ASSUME NEW v \in WokenOn(k)' PROVE v \in WokenOn(k)
      <4>1. /\ v \in Workers /\ wpc[v] # "free" /\ keyOf[job[v]] = k
            /\ signal'[v] /\ job[v] \notin stray'
        BY <1>1, <3>3 DEF WokenOn
      <4>2. signal[v]
        BY <2>1, <2>5, <4>1
      <4> QED
        BY <3>1, <4>1, <4>2 DEF WokenOn
    <3> QED
      BY <1>3, <1>5, <2>2, <2>4, <3>2, <3>3, StillPaid
  <2>6. CASE ~gone
    <3>0. stray' = stray /\ n = SyncTable[x]
      BY <2>1, <2>6 DEF Named
    <3>1. CASE x = k
      <4>1. WokenOn(k)' \subseteq WokenOn(k) \cup {n}
        BY <1>1, <2>1, <3>0 DEF WokenOn
      <4>2. /\ Cardinality(WokenOn(k)') \in Nat
            /\ Cardinality(WokenOn(k)') <= Cardinality(WokenOn(k)) + 1
        BY <4>1, PaidFinite, OneMore
      <4>3. Incoming(k)' = Incoming(k) - 1 /\ Incoming(k)' \in Nat
        <5>1. InHand(k) = 1
          BY <2>2, <2>6, <3>1 DEF InHand
        <5> QED
          BY <1>0, <2>3, <5>1 DEF Incoming
      <4>4. /\ Cardinality(OkOn(k)) \in Nat /\ Cardinality(WokenOn(k)) \in Nat
            /\ Cardinality(DoneOn(k)) \in Nat /\ Incoming(k) \in Nat
            /\ Cardinality(ExecutedBut(k, i)) \in Nat
        BY PaidFinite
      <4>5. Owed(k)' \in Nat /\ Owed(k)' <= Owed(k)
        <5>0. /\ Cardinality(OkOn(k)') = Cardinality(OkOn(k))
              /\ Cardinality(DoneOn(k)') = Cardinality(DoneOn(k))
          BY <1>2, <3>0
        <5> HIDE DEF IInv, TypeOK
        <5>1. PICK a \in Nat, b \in Nat, c \in Nat, d \in Nat :
                /\ a = Cardinality(OkOn(k)) /\ b = Cardinality(WokenOn(k))
                /\ c = Cardinality(DoneOn(k)) /\ d = Incoming(k)
                /\ Owed(k) = a + b + c + d
          BY <4>4, OwedSum
        <5>2. PICK a1 \in Nat, b1 \in Nat, c1 \in Nat, d1 \in Nat :
                /\ a1 = Cardinality(OkOn(k)') /\ b1 = Cardinality(WokenOn(k)')
                /\ c1 = Cardinality(DoneOn(k)') /\ d1 = Incoming(k)'
                /\ Owed(k)' = a1 + b1 + c1 + d1
          BY <4>2, <4>3, <4>4, <5>0, OwedSumNext
        <5>3. a1 = a /\ b1 <= b + 1 /\ c1 = c /\ d1 = d - 1
          BY <4>2, <4>3, <5>0, <5>1, <5>2
        <5>4. Owed(k) = a + b + c + d /\ Owed(k)' = a1 + b1 + c1 + d1
          BY <5>1, <5>2
        <5> QED
          BY <5>3, <5>4
      <4> QED
        BY <1>3, <1>5, <2>2, <4>5, OwesNoMore
    <3>2. CASE x # k
      <4>1. ASSUME NEW v \in WokenOn(k)' PROVE v \in WokenOn(k)
        <5>1. v \in Workers /\ wpc[v] # "free" /\ keyOf[job[v]] = k /\ signal'[v]
          BY <1>1, <4>1 DEF WokenOn
        <5>2. SyncTable[x] # v
          BY <3>2, <5>1 DEF EntryOwned
        <5>3. signal[v]
          BY <2>1, <3>0, <5>1, <5>2
        <5> QED
          BY <1>1, <3>0, <4>1, <5>1, <5>3 DEF WokenOn
      <4> QED
        BY <1>2, <1>3, <1>5, <2>2, <2>4, <3>0, <4>1, StillPaid
    <3> QED
      BY <3>1, <3>2
  <2> QED
    BY <2>5, <2>6
<1> QED
  BY <1>4, <1>6, <1>8, <1>9, <1>10 DEF BusNext

\* What answers go back to, as an invariant.
Answers == Traces /\ SentOnce /\ AllPaid

LEMMA AnswersInit == Init => Answers
<1> SUFFICES ASSUME Init PROVE Answers
  OBVIOUS
<1>1. /\ \A j \in Calls : sent[j] = 0 /\ outcome[j] = "none"
      /\ executed = {} /\ \A k \in Keys : requests[k] = <<>>
  BY DEF Init
<1>0. issued = 0 /\ \A j \in Calls : ~(j <= 0)
  BY DEF Init, Calls
<1>2. Traces /\ SentOnce
  <2>1. \A k \in Keys : DOMAIN requests[k] = {}
    BY <1>1
  <2> QED
    BY <1>1, <1>0, <2>1 DEF Traces, SentOnce
<1>3. ASSUME NEW k \in Keys, NEW i \in Calls PROVE Paid(k, i)
  <2>1. OkOn(k) = {} /\ WokenOn(k) = {} /\ DoneOn(k) = {} /\ ExecutedBut(k, i) = {}
    BY <1>1 DEF Init, OkOn, WokenOn, DoneOn, ExecutedBut
  <2>2. Incoming(k) = 0
    <3>1. Len(responses[k]) = 0 /\ found = NoEntry
      BY EmptySeq DEF Init
    <3> QED
      BY <3>1, CanDeviceAssumption DEF Incoming, InHand
  <2> QED
    BY <2>1, <2>2, FS_EmptySet DEF Paid, Owed
<1> QED
  BY <1>2, <1>3 DEF Answers, AllPaid

LEMMA AnswersStep == IInv /\ IInv' /\ Answers /\ [Next]_vars => Answers'
<1> SUFFICES ASSUME IInv, TypeOK', Answers, [Next]_vars PROVE Answers'
  BY DEF IInv
<1> USE DEF Answers
<1>1. ASSUME NEW t \in Threads, ThreadNext(t) PROVE Answers'
  <2>1. \A k \in Keys, i \in Calls : Paid(k, i)'
    BY <1>1, PaidThread DEF AllPaid
  <2> QED
    BY <1>1, <2>1, TracesThread DEF AllPaid, Calls
<1>2. ASSUME NEW w \in Workers, WorkerNext(w) PROVE Answers'
  <2>1. \A k \in Keys, i \in Calls : Paid(k, i)'
    BY <1>2, PaidWorker DEF AllPaid
  <2> QED
    BY <1>2, <2>1, TracesWorker DEF AllPaid, Calls
<1>3. ASSUME NEW x \in Keys, BusNext(x) PROVE Answers'
  <2>1. \A k \in Keys, i \in Calls : Paid(k, i)'
    BY <1>3, PaidBus DEF AllPaid
  <2> QED
    BY <1>3, <2>1, TracesBus DEF AllPaid, Calls
<1>4. ASSUME UNCHANGED vars PROVE Answers'
  <2>1. /\ UNCHANGED <<wpc, job, signal, responses, found, gone>>
        /\ UNCHANGED <<issued, keyOf, sent, executed, outcome, stray, requests>>
    BY <1>4 DEF vars
  <2>2. Traces'
    BY <2>1 DEF Traces, Calls
  <2>3. SentOnce'
    BY <2>1 DEF SentOnce, Calls
  <2>4. ASSUME NEW k \in Keys, NEW i \in Calls PROVE Paid(k, i)'
    <3>1. /\ OkOn(k)' = OkOn(k) /\ WokenOn(k)' = WokenOn(k)
          /\ DoneOn(k)' = DoneOn(k) /\ ExecutedBut(k, i)' = ExecutedBut(k, i)
      BY <2>1 DEF OkOn, WokenOn, DoneOn, ExecutedBut, Calls
    <3>2. Incoming(k)' = Incoming(k)
      BY <2>1 DEF Incoming, InHand
    <3>3. Owed(k)' = Owed(k)
      BY <3>1, <3>2 DEF Owed
    <3>4. OthersSentOnce(k, i)' => OthersSentOnce(k, i)
      BY <2>1 DEF OthersSentOnce, Calls
    <3>5. Paid(k, i)
      BY DEF AllPaid
    <3> QED
      BY <2>1, <3>1, <3>3, <3>4, <3>5 DEF Paid
  <2> QED
    BY <2>2, <2>3, <2>4 DEF AllPaid, Calls
<1> QED
  BY <1>1, <1>2, <1>3, <1>4 DEF Next, Finished

\* A write is reported as done without having been executed only if another
\* write of its key was sent twice or was not answered, or if one of them was
\* signalled through an entry that was gone (CanDevice.cpp, 169 and 173): if
\* every other one was sent once and reported as done upon a signal meant for
\* its key, there are more reports than executions.
THEOREM SuccessIsExecuted == Spec => []CleanAck
<1>1. IInv /\ Answers => CleanAck
  <2> SUFFICES ASSUME IInv, Answers, NEW i \in Calls, outcome[i] = "ok", OthersClean(i),
                      i \notin stray, i \notin executed
               PROVE  FALSE
    BY DEF CleanAck
  <2>0. TypeOK /\ Traces /\ AllPaid
    BY DEF IInv, Answers
  <2>1. PICK k \in Keys : keyOf[i] = k
    <3>1. i <= issued
      BY <2>0 DEF Traces
    <3> QED
      BY <2>0, <3>1 DEF Traces
  <2>2. \A j \in Calls \ {i} : keyOf[j] = k /\ sent[j] > 0
          => sent[j] = 1 /\ outcome[j] = "ok" /\ j \notin stray
    BY <2>1 DEF OthersClean
  <2>3. OthersSentOnce(k, i)
    <3>1. \A j \in Calls : sent[j] \in Nat
      BY <2>0 DEF TypeOK
    <3> QED
      BY <2>2, <3>1 DEF OthersSentOnce
  <2>4. ExecutedBut(k, i) \subseteq OkOn(k) \ {i} /\ i \in OkOn(k)
    <3>1. \A j \in executed : sent[j] > 0
      BY <2>0 DEF Traces
    <3> QED
      BY <2>1, <2>2, <3>1 DEF ExecutedBut, OkOn
  <2>5. Cardinality(ExecutedBut(k, i)) <= Cardinality(OkOn(k)) - 1
    BY <2>0, <2>4, PaidFinite, OneLess
  <2>6. Paid(k, i)
    BY <2>0 DEF AllPaid
  <2>7. /\ Cardinality(OkOn(k)) \in Nat /\ Cardinality(WokenOn(k)) \in Nat
        /\ Cardinality(DoneOn(k)) \in Nat /\ Incoming(k) \in Nat
        /\ Cardinality(ExecutedBut(k, i)) \in Nat
    BY <2>0, PaidFinite
  <2>8. Owed(k) <= Cardinality(ExecutedBut(k, i))
    BY <2>3, <2>6 DEF Paid
  <2>9. PICK a \in Nat, b \in Nat, c \in Nat, d \in Nat :
          /\ a = Cardinality(OkOn(k)) /\ b = Cardinality(WokenOn(k))
          /\ c = Cardinality(DoneOn(k)) /\ d = Incoming(k)
          /\ Owed(k) = a + b + c + d
    BY <2>7, OwedSum
  <2> QED
    <3>1. PICK e \in Nat : e = Cardinality(ExecutedBut(k, i))
      BY <2>7
    <3>2. Owed(k) <= e /\ e <= a - 1
      BY <2>5, <2>8, <2>9, <3>1
    <3>3. Owed(k) = a + b + c + d
      BY <2>9
    <3> QED
      BY <3>2, <3>3
<1>2. IInv /\ [Next]_vars => IInv'
  BY TypeStep, CallsBegunStep, TriesLeftStep, HandoverStep, EntryOwnedStep,
     SoloEntryStep, PermitsStep
  DEF IInv
<1>3. QED
  BY InitInv, AnswersInit, AnswersStep, <1>1, <1>2, PTL DEF Spec
===============================================================================
