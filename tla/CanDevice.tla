------------------------------- MODULE CanDevice -------------------------------
(***************************************************************************)
(* The attribute writes of the controller (iLockerController/CanDevice.cpp) *)
(* Application threads call WriteAttribute; each accepted write is carried  *)
(* out by a worker thread of its own, which sends the request over CAN,     *)
(* waits for the signal that a response raises, retries on a timeout,       *)
(* reports the result and erases its entry of SyncTable.  The semaphore     *)
(* bounds the workers; the stack pool bounds the threads that exist.        *)
(*                                                                         *)
(* Responses are delivered by the thread that polls the bus (UpdateWorker   *)
(* in main.cpp).  That thread is itself a caller of WriteAttribute, so no   *)
(* response is delivered while it waits in there.  It looks a response up   *)
(* in SyncTable and then signals the worker it found, in two steps: a       *)
(* worker that erases its entry in between frees the node that the iterator *)
(* points to.  The operations of the map themselves are single steps.       *)
(*                                                                         *)
(* Time is left out: a timeout may happen whenever a worker waits, and a    *)
(* message may stay on the bus for any time or be lost.                     *)
(***************************************************************************)
EXTENDS Integers, FiniteSets, Sequences

CONSTANTS
  Threads,      \* the threads that call WriteAttribute
  Poller,       \* the one of them that polls the bus
  Keys,         \* SyncTable's keys: pairs of a device and an attribute
  KeysOf,       \* the keys each thread writes
  Workers,      \* the threads that the stack pool has room for
  Permits,      \* the semaphore's initial count, which may be larger
  MaxTries,     \* how often a worker sends its request
  MaxChecks,    \* how often WriteAttribute looks for a free entry
  MaxCalls,     \* bound of the model: calls of WriteAttribute in a behaviour
  NoEntry,      \* SyncTable has no entry, or none is found
  NullTid       \* the thread id osThreadCreate returns when it fails

ASSUME CanDeviceAssumption ==
  /\ Poller \in Threads
  /\ KeysOf \in [Threads -> SUBSET Keys]
  /\ IsFiniteSet(Threads) /\ IsFiniteSet(Workers)
  /\ Permits \in Nat \ {0}
  /\ MaxTries \in Nat \ {0}
  /\ MaxChecks \in Nat \ {0}
  /\ MaxCalls \in Nat
  /\ NoEntry \notin Workers \cup Keys /\ NullTid \notin Workers /\ NoEntry # NullTid

Calls == 1..MaxCalls       \* calls are numbered in the order they begin

VARIABLES
  pc, cur, checks, tid,            \* per thread: place in WriteAttribute, its
                                   \* call, count, and the thread id it got
  wpc, job, tries, signal,         \* per worker: place in CanWorkThread, the
                                   \* call it serves, Requests sent, flag 0xff
  SyncTable,                       \* key -> worker to wake on a response
  tokens,                          \* the semaphore's count
  requests, responses,             \* key -> calls whose message is on the bus
  found, gone,                     \* the key whose entry the poller has found
                                   \* and not signalled yet, and whether that
                                   \* entry has been erased since
  issued, keyOf,                   \* history: calls begun and their keys
  sent, executed, outcome,         \* history: Requests per call, calls that a
                                   \* unit executed, what was reported
  lost,                            \* history: calls whose thread was not created
  stray                            \* history: calls whose worker was signalled
                                   \* through an entry that was gone

threadVars  == <<pc, cur, checks, tid>>
workerVars  == <<wpc, job, tries, signal>>
busVars     == <<requests, responses, found, gone>>
historyVars == <<issued, keyOf, sent, executed, outcome, lost, stray>>
vars == <<pc, cur, checks, tid, wpc, job, tries, signal, SyncTable, tokens,
          requests, responses, found, gone, issued, keyOf, sent, executed,
          outcome, lost, stray>>

NoCall == 0
Places == {"idle", "check", "delay", "take", "create", "record"}
WorkerPlaces == {"free", "created", "request", "wait", "succeeded", "failed",
                 "erase", "release", "exit"}
Outcomes == {"none", "ok", "failed", "rejected"}

\* Workers that still owe the semaphore a release.
Holding == {"created", "request", "wait", "succeeded", "failed", "erase", "release"}
\* Workers between the moment they are recorded and the moment they erase.
Serving == {"request", "wait", "succeeded", "failed", "erase"}

\* Workers that have yet to read the flag 0xff.
Waking == {"created", "request", "wait"}

TypeOK ==
  /\ pc \in [Threads -> Places]
  /\ cur \in [Threads -> Calls \cup {NoCall}]
  /\ checks \in [Threads -> 0..MaxChecks]
  /\ tid \in [Threads -> Workers \cup {NullTid}]
  /\ wpc \in [Workers -> WorkerPlaces]
  /\ job \in [Workers -> Calls \cup {NoCall}]
  /\ tries \in [Workers -> 0..MaxTries]
  /\ signal \in [Workers -> BOOLEAN]
  /\ SyncTable \in [Keys -> Workers \cup {NullTid, NoEntry}]
  /\ tokens \in 0..Permits
  /\ requests \in [Keys -> Seq(Calls)]
  /\ responses \in [Keys -> Seq(Calls)]
  /\ issued \in 0..MaxCalls
  /\ keyOf \in [Calls -> Keys \cup {NoEntry}]
  /\ sent \in [Calls -> Nat]
  /\ executed \in SUBSET Calls
  /\ outcome \in [Calls -> Outcomes]
  /\ lost \in SUBSET Calls
  /\ found \in Keys \cup {NoEntry}
  /\ gone \in BOOLEAN
  /\ stray \in SUBSET Calls

Init ==
  /\ pc = [t \in Threads |-> "idle"]
  /\ cur = [t \in Threads |-> NoCall]
  /\ checks = [t \in Threads |-> 0]
  /\ tid = [t \in Threads |-> NullTid]
  /\ wpc = [w \in Workers |-> "free"]
  /\ job = [w \in Workers |-> NoCall]
  /\ tries = [w \in Workers |-> 0]
  /\ signal = [w \in Workers |-> FALSE]
  /\ SyncTable = [k \in Keys |-> NoEntry]
  /\ tokens = Permits
  /\ requests = [k \in Keys |-> <<>>]
  /\ responses = [k \in Keys |-> <<>>]
  /\ issued = 0
  /\ keyOf = [i \in Calls |-> NoEntry]
  /\ sent = [i \in Calls |-> 0]
  /\ executed = {}
  /\ outcome = [i \in Calls |-> "none"]
  /\ lost = {}
  /\ found = NoEntry
  /\ gone = FALSE
  /\ stray = {}

-----------------------------------------------------------------------------
(* WriteAttribute, run by a thread. *)

\* WriteAttribute returns, and its local variables are gone.
Return(t) ==
  /\ pc' = [pc EXCEPT ![t] = "idle"]
  /\ cur' = [cur EXCEPT ![t] = NoCall]
  /\ checks' = [checks EXCEPT ![t] = 0]
  /\ tid' = [tid EXCEPT ![t] = NullTid]

\* A thread calls WriteAttribute for one of its keys (count = 3).
Begin(t, k) ==
  /\ pc[t] = "idle" /\ (t = Poller => found = NoEntry)
  /\ issued < MaxCalls
  /\ issued' = issued + 1
  /\ keyOf' = [keyOf EXCEPT ![issued + 1] = k]
  /\ cur' = [cur EXCEPT ![t] = issued + 1]
  /\ checks' = [checks EXCEPT ![t] = MaxChecks]
  /\ pc' = [pc EXCEPT ![t] = "check"]
  /\ UNCHANGED <<tid, SyncTable, tokens, workerVars, busVars, sent, executed,
                 outcome, lost, stray>>

\* No entry is found: the loop ends and the write goes ahead.
CheckFree(t) ==
  /\ pc[t] = "check"
  /\ SyncTable[keyOf[cur[t]]] = NoEntry
  /\ pc' = [pc EXCEPT ![t] = "take"]
  /\ UNCHANGED <<cur, checks, tid, SyncTable, tokens, workerVars, busVars,
                 historyVars>>

\* An entry is found and the count is not used up: wait for SYNC_TIME.
CheckWait(t) ==
  /\ pc[t] = "check"
  /\ SyncTable[keyOf[cur[t]]] # NoEntry
  /\ checks[t] > 1
  /\ checks' = [checks EXCEPT ![t] = @ - 1]
  /\ pc' = [pc EXCEPT ![t] = "delay"]
  /\ UNCHANGED <<cur, tid, SyncTable, tokens, workerVars, busVars, historyVars>>

\* Variant for the checks: the write goes ahead once its count is used up.
CheckGoAhead(t) ==
  /\ pc[t] = "check"
  /\ SyncTable[keyOf[cur[t]]] # NoEntry
  /\ checks[t] <= 1
  /\ pc' = [pc EXCEPT ![t] = "take"]
  /\ UNCHANGED <<cur, checks, tid, SyncTable, tokens, workerVars, busVars,
                 historyVars>>

\* The count is used up: report failure and return.  WriteCommandResponse is
\* bound before a device becomes reachable (main.cpp, HeartbeatArrival), so it
\* is never NULL here.
CheckGiveUp(t) ==
  /\ pc[t] = "check"
  /\ SyncTable[keyOf[cur[t]]] # NoEntry
  /\ checks[t] <= 1
  /\ outcome' = [outcome EXCEPT ![cur[t]] = "rejected"]
  /\ Return(t)
  /\ UNCHANGED <<SyncTable, tokens, workerVars, busVars, issued, keyOf, sent,
                 executed, lost, stray>>

\* osDelay(SYNC_TIME) has passed.
Delay(t) ==
  /\ pc[t] = "delay"
  /\ pc' = [pc EXCEPT ![t] = "check"]
  /\ UNCHANGED <<cur, checks, tid, SyncTable, tokens, workerVars, busVars,
                 historyVars>>

\* Variant for the checks: the semaphore is not waited for.
TakeUnbounded(t) ==
  /\ pc[t] = "take"
  /\ pc' = [pc EXCEPT ![t] = "create"]
  /\ UNCHANGED <<cur, checks, tid, SyncTable, tokens, workerVars, busVars,
                 historyVars>>

\* osSemaphoreWait(semaphore, osWaitForever) returns.
Take(t) ==
  /\ pc[t] = "take"
  /\ tokens > 0
  /\ tokens' = tokens - 1
  /\ pc' = [pc EXCEPT ![t] = "create"]
  /\ UNCHANGED <<cur, checks, tid, SyncTable, workerVars, busVars, historyVars>>

\* osThreadCreate finds a stack: the new worker waits for flag 0x100.
Create(t, w) ==
  /\ pc[t] = "create"
  /\ wpc[w] = "free"
  /\ wpc' = [wpc EXCEPT ![w] = "created"]
  /\ job' = [job EXCEPT ![w] = cur[t]]
  /\ tries' = [tries EXCEPT ![w] = 0]
  /\ signal' = [signal EXCEPT ![w] = FALSE]
  /\ tid' = [tid EXCEPT ![t] = w]
  /\ pc' = [pc EXCEPT ![t] = "record"]
  /\ UNCHANGED <<cur, checks, SyncTable, tokens, busVars, historyVars>>

\* osThreadCreate finds no stack and returns NULL; the loop that would try
\* again is commented out, and nobody releases the semaphore for this call.
CreateFails(t) ==
  /\ pc[t] = "create"
  /\ \A w \in Workers : wpc[w] # "free"
  /\ lost' = lost \cup {cur[t]}
  /\ tid' = [tid EXCEPT ![t] = NullTid]
  /\ pc' = [pc EXCEPT ![t] = "record"]
  /\ UNCHANGED <<cur, checks, SyncTable, tokens, workerVars, busVars, issued,
                 keyOf, sent, executed, outcome, stray>>

\* The entry is written, whatever it held, and the worker gets flag 0x100.
Record(t) ==
  /\ pc[t] = "record"
  /\ SyncTable' = [SyncTable EXCEPT ![keyOf[cur[t]]] = tid[t]]
  /\ wpc' = [w \in Workers |-> IF w = tid[t] THEN "request" ELSE wpc[w]]
  /\ Return(t)
  /\ UNCHANGED <<job, tries, signal, tokens, busVars, historyVars>>

-----------------------------------------------------------------------------
(* CanWorkThread, run by a worker. *)

\* The request goes to the bus.  CanEx::Transmit ignores the result of the
\* send: a request that the driver drops is one that the bus loses.
Request(w) ==
  /\ wpc[w] = "request"
  /\ wpc' = [wpc EXCEPT ![w] = "wait"]
  /\ tries' = [tries EXCEPT ![w] = @ + 1]
  /\ sent' = [sent EXCEPT ![job[w]] = @ + 1]
  /\ requests' = [requests EXCEPT ![keyOf[job[w]]] = Append(@, job[w])]
  /\ UNCHANGED <<threadVars, job, signal, SyncTable, tokens, responses,
                 found, gone, issued, keyOf, executed, outcome, lost, stray>>

\* osSignalWait returns osEventSignal; the flag is cleared.
Signalled(w) ==
  /\ wpc[w] = "wait"
  /\ signal[w]
  /\ signal' = [signal EXCEPT ![w] = FALSE]
  /\ wpc' = [wpc EXCEPT ![w] = "succeeded"]
  /\ UNCHANGED <<threadVars, job, tries, SyncTable, tokens, busVars, historyVars>>

\* Variant for the checks: the last try waits for ever.
TimeoutButLast(w) ==
  /\ wpc[w] = "wait"
  /\ ~signal[w]
  /\ tries[w] < MaxTries
  /\ wpc' = [wpc EXCEPT ![w] = "request"]
  /\ UNCHANGED <<threadVars, job, tries, signal, SyncTable, tokens, busVars,
                 historyVars>>

\* Variant for the checks: the number of tries is not counted down to zero.
TimeoutOneMore(w) ==
  /\ wpc[w] = "wait"
  /\ ~signal[w]
  /\ wpc' = [wpc EXCEPT ![w] = IF tries[w] <= MaxTries THEN "request" ELSE "failed"]
  /\ UNCHANGED <<threadVars, job, tries, signal, SyncTable, tokens, busVars,
                 historyVars>>

\* osSignalWait returns osEventTimeout: the request is sent again while tries
\* are left.
Timeout(w) ==
  /\ wpc[w] = "wait"
  /\ ~signal[w]
  /\ wpc' = [wpc EXCEPT ![w] = IF tries[w] < MaxTries THEN "request" ELSE "failed"]
  /\ UNCHANGED <<threadVars, job, tries, signal, SyncTable, tokens, busVars,
                 historyVars>>

\* WriteCommandResponse gets the result.
Report(w) ==
  /\ wpc[w] \in {"succeeded", "failed"}
  /\ outcome' = [outcome EXCEPT ![job[w]] =
                   IF wpc[w] = "succeeded" THEN "ok" ELSE "failed"]
  /\ wpc' = [wpc EXCEPT ![w] = "erase"]
  /\ UNCHANGED <<threadVars, job, tries, signal, SyncTable, tokens, busVars,
                 issued, keyOf, sent, executed, lost, stray>>

\* Variant for the checks: a write that timed out leaves its entry behind.
EraseAnswered(w) ==
  /\ wpc[w] = "erase"
  /\ SyncTable' = IF outcome[job[w]] = "ok"
                  THEN [SyncTable EXCEPT ![keyOf[job[w]]] = NoEntry]
                  ELSE SyncTable
  /\ gone' = (gone \/ (outcome[job[w]] = "ok" /\ found = keyOf[job[w]]))
  /\ wpc' = [wpc EXCEPT ![w] = "release"]
  /\ UNCHANGED <<threadVars, job, tries, signal, tokens, requests, responses,
                 found, historyVars>>

\* The key's entry is erased, whichever worker it names, and whether or not
\* the poller is about to use it.
Erase(w) ==
  /\ wpc[w] = "erase"
  /\ SyncTable' = [SyncTable EXCEPT ![keyOf[job[w]]] = NoEntry]
  /\ gone' = (gone \/ found = keyOf[job[w]])
  /\ wpc' = [wpc EXCEPT ![w] = "release"]
  /\ UNCHANGED <<threadVars, job, tries, signal, tokens, requests, responses,
                 found, historyVars>>

\* Variant for the checks: a write that timed out returns early, without
\* the release.
ReleaseAnswered(w) ==
  /\ wpc[w] = "release"
  /\ tokens' = IF outcome[job[w]] = "ok" THEN tokens + 1 ELSE tokens
  /\ wpc' = [wpc EXCEPT ![w] = "exit"]
  /\ UNCHANGED <<threadVars, job, tries, signal, SyncTable, busVars, historyVars>>

\* osSemaphoreRelease, while the thread and its stack still exist.
Release(w) ==
  /\ wpc[w] = "release"
  /\ tokens' = tokens + 1
  /\ wpc' = [wpc EXCEPT ![w] = "exit"]
  /\ UNCHANGED <<threadVars, job, tries, signal, SyncTable, busVars, historyVars>>

\* The thread function returns and the stack is free again.
Exit(w) ==
  /\ wpc[w] = "exit"
  /\ wpc' = [wpc EXCEPT ![w] = "free"]
  /\ job' = [job EXCEPT ![w] = NoCall]
  /\ tries' = [tries EXCEPT ![w] = 0]
  /\ signal' = [signal EXCEPT ![w] = FALSE]
  /\ UNCHANGED <<threadVars, SyncTable, tokens, busVars, historyVars>>

-----------------------------------------------------------------------------
(* The bus and the unit at its other end. *)

\* The unit executes a request and responds (iLockerUnit, CanexReceived).
Execute(k) ==
  /\ requests[k] # <<>>
  /\ executed' = executed \cup {Head(requests[k])}
  /\ requests' = [requests EXCEPT ![k] = Tail(@)]
  /\ responses' = [responses EXCEPT ![k] = Append(@, Head(requests[k]))]
  /\ UNCHANGED <<threadVars, workerVars, SyncTable, tokens, found, gone,
                 issued, keyOf, sent, outcome, lost, stray>>

\* A request or a response is lost.
LoseRequest(k) ==
  /\ requests[k] # <<>>
  /\ requests' = [requests EXCEPT ![k] = Tail(@)]
  /\ UNCHANGED <<threadVars, workerVars, SyncTable, tokens, responses, found, gone,
                 historyVars>>

LoseResponse(k) ==
  /\ responses[k] # <<>>
  /\ responses' = [responses EXCEPT ![k] = Tail(@)]
  /\ UNCHANGED <<threadVars, workerVars, SyncTable, tokens, requests, found, gone,
                 historyVars>>

\* ResponseRecievedEvent, in the polling thread, looks for the key's entry.
\* A response carries no number that would tell which request it answers.
Find(k) ==
  /\ pc[Poller] = "idle" /\ found = NoEntry
  /\ responses[k] # <<>>
  /\ responses' = [responses EXCEPT ![k] = Tail(@)]
  /\ found' = IF SyncTable[k] = NoEntry THEN NoEntry ELSE k
  /\ gone' = FALSE
  /\ UNCHANGED <<threadVars, workerVars, SyncTable, tokens, requests, historyVars>>

\* What it->second may be when the entry of k was found: the entry's value of
\* now or, once the entry is gone, whatever the freed memory holds, such as
\* the id of a thread that has ended, of its successor or of a stranger.
Named(k) == IF gone THEN Workers \cup {NullTid} ELSE {SyncTable[k]}

\* Variant for the checks: every waiting worker is woken, whatever its key.
SignalToAll(k) ==
  /\ found = k
  /\ signal' = [w \in Workers |-> signal[w] \/ wpc[w] = "wait"]
  /\ found' = NoEntry /\ gone' = FALSE
  /\ UNCHANGED <<threadVars, wpc, job, tries, SyncTable, tokens, requests,
                 responses, historyVars>>

\* Then it signals 0xff to the worker that the entry names.  osSignalSet does
\* nothing for a thread id that is not in use, and nobody reads the flag of a
\* worker that is past its wait.
SignalFound(k) ==
  /\ found = k
  /\ \E n \in Named(k) :
       LET woken == {w \in Workers : w = n /\ wpc[w] \in Waking /\ ~signal[w]}
       IN  /\ signal' = [w \in Workers |-> signal[w] \/ w \in woken]
           /\ stray' = IF gone THEN stray \cup {job[w] : w \in woken} ELSE stray
  /\ found' = NoEntry /\ gone' = FALSE
  /\ UNCHANGED <<threadVars, wpc, job, tries, SyncTable, tokens, requests,
                 responses, issued, keyOf, sent, executed, outcome, lost>>

-----------------------------------------------------------------------------
ThreadNext(t) ==
  \/ \E k \in KeysOf[t] : Begin(t, k)
  \/ CheckFree(t) \/ CheckWait(t) \/ CheckGiveUp(t) \/ Delay(t) \/ Take(t)
  \/ \E w \in Workers : Create(t, w)
  \/ CreateFails(t) \/ Record(t)

WorkerNext(w) ==
  \/ Request(w) \/ Signalled(w) \/ Timeout(w) \/ Report(w)
  \/ Erase(w) \/ Release(w) \/ Exit(w)

BusNext(k) ==
  \/ Execute(k) \/ LoseRequest(k) \/ LoseResponse(k)
  \/ Find(k) \/ SignalFound(k)

\* Every call is over and no worker is left.
Finished ==
  /\ issued = MaxCalls
  /\ \A t \in Threads : pc[t] = "idle"
  /\ \A w \in Workers : wpc[w] = "free"
  /\ UNCHANGED vars

Next ==
  \/ \E t \in Threads : ThreadNext(t)
  \/ \E w \in Workers : WorkerNext(w)
  \/ \E k \in Keys : BusNext(k)
  \/ Finished

\* A thread that is inside WriteAttribute takes its next step.
Proceed(t) ==
  \/ CheckFree(t) \/ CheckWait(t) \/ CheckGiveUp(t) \/ Delay(t)
  \/ \E w \in Workers : Create(t, w)
  \/ CreateFails(t) \/ Record(t)

\* RTX runs its threads round robin, so a thread that can run does, and a
\* timeout that is due happens.  A semaphore's waiters are woken in order, so
\* a thread that waits is not passed over for ever.
Fairness ==
  /\ \A t \in Threads : WF_vars(Proceed(t)) /\ SF_vars(Take(t))
  /\ \A w \in Workers : WF_vars(WorkerNext(w))
  /\ \A k \in Keys : WF_vars(SignalFound(k))

Spec == Init /\ [][Next]_vars
FairSpec == Spec /\ Fairness

-----------------------------------------------------------------------------
(* Properties. *)

\* Every permit of the semaphore is in one place: in its count, with a thread
\* between the wait and the creation of its worker, with a worker that has not
\* released it, or lost for ever with a call whose worker was not created.
Creating == {t \in Threads : pc[t] = "create"}
HoldingWorkers == {w \in Workers : wpc[w] \in Holding}

PermitsConserved ==
  tokens + Cardinality(Creating) + Cardinality(HoldingWorkers)
         + Cardinality(lost) = Permits

\* A thread id in SyncTable is that of a worker that exists, serves a call of
\* that very key and has yet to erase, although entries are overwritten and
\* erased without regard to their owner: what ResponseRecievedEvent finds is
\* a worker that waits for an answer of this kind or has just had one.  When
\* it signals, an entry that is still there has this property too; one that
\* was erased since has not (see stray and CleanAck).
EntryOwned ==
  \A k \in Keys : \A w \in Workers :
    SyncTable[k] = w => /\ wpc[w] \in Serving
                        /\ job[w] # NoCall
                        /\ keyOf[job[w]] = k

\* When the semaphore admits more workers than the pool has stacks for, the
\* surplus of permits is lost by calls that find every stack taken, and then
\* the two agree for good: any further permit is lost in the window between
\* another worker's osSemaphoreRelease and the end of its thread.
LostBeyondSurplus ==
  [][lost' # lost => \/ \E w \in Workers : wpc[w] = "exit"
                     \/ Cardinality(lost') + Cardinality(Workers) <= Permits]_vars

\* A key that only one thread writes has one worker at a time: the search of
\* SyncTable and the entry made after the wait for the semaphore are not one
\* step, but no one else can come between.
Solo(k) == \A t, u \in Threads : k \in KeysOf[t] /\ k \in KeysOf[u] => t = u
WorkersOn(k) == {w \in Workers : wpc[w] \in Serving \cup {"created"} /\ keyOf[job[w]] = k}

SoloKeyExclusive ==
  \A k \in Keys : Solo(k) => \A v, w \in WorkersOn(k) : v = w

\* When one thread writes a key, the entry that ResponseRecievedEvent has found
\* is erased before it signals only after a write of that key has timed out
\* (or a signal went astray before): without a second response on the way, the
\* worker that would erase it is still waiting for this very signal.
GoneAfterTimeout ==
  gone /\ Solo(found) /\ stray = {} =>
    \E i \in Calls : keyOf[i] = found /\ (sent[i] > 1 \/ outcome[i] = "failed")

\* While every other write of a key that was started has succeeded at its
\* first try, a write reported as done has been executed by the unit, unless
\* it or one of them was signalled through an entry that was gone.
\* (A retry or an overlapping write leaves a second response on the bus,
\* which can be taken for the answer to a later write.)
OthersClean(i) ==
  \A j \in Calls \ {i} :
    keyOf[j] = keyOf[i] /\ sent[j] > 0
      => sent[j] = 1 /\ outcome[j] = "ok" /\ j \notin stray

CleanAck ==
  \A i \in Calls : outcome[i] = "ok" /\ OthersClean(i) /\ i \notin stray => i \in executed

\* The caller of every write hears of its result, unless its thread was not
\* created or every permit is lost.
EveryWriteReported ==
  \A i \in Calls :
    keyOf[i] # NoEntry ~> \/ outcome[i] # "none"
                          \/ i \in lost
                          \/ Cardinality(lost) = Permits

\* The polling thread, on which every response depends, gets out of
\* WriteAttribute again, unless every permit is lost.
PollerResumes ==
  pc[Poller] # "idle" ~> pc[Poller] = "idle" \/ Cardinality(lost) = Permits
===============================================================================
