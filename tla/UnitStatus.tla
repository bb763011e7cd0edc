------------------------------ MODULE UnitStatus ------------------------------
(***************************************************************************)
(* What the controller knows of one unit (StorageUnit.cpp) and what it does *)
(* about it.  Three threads of one priority, switched round robin, work on  *)
(* the same fields without a lock:                                          *)
(*   - UpdateWorker takes the unit's broadcasts (ProcessRecievedEvent) and  *)
(*     the server's commands (NetworkEngine.cpp);                           *)
(*   - UpdateUnits visits the unit again and again (UnitManager::Traversal) *)
(*     and reports a changed card to the server (SendRfidData);             *)
(*   - the keyboard's thread makes the LED blink (ReadKBLine).              *)
(*                                                                         *)
(* The fields are read and written one at a time; an assignment of a string *)
(* is one step.  The prescription, which goes wherever the identifier goes  *)
(* and is what the keyboard's commands are about, is left out here.         *)
(* WriteAttribute is the hand-over of an LED level; CanDevice has it in     *)
(* detail.                                                                  *)
(***************************************************************************)
EXTENDS Integers

CONSTANTS
  Cards,          \* identifiers of cards
  NoCard,         \* CardId is empty
  ServerLevels    \* the levels that the server asks for

ASSUME UnitStatusAssumption == NoCard \notin Cards /\ ServerLevels \subseteq 0..2

CardArrival == 128
CardLeft == 129
States == {0, CardArrival, CardLeft}      \* card->State

\* What a unit broadcasts: the type of what is in its field, a card's
\* identifier, and the door.
Reports == [type : {0, 1}, card : {NoCard}, door : BOOLEAN]
             \cup [type : {2}, card : Cards, door : BOOLEAN]

VARIABLES
  lastCardType, lastDoorState, blinking, cardChanged, doorChanged,
  state, cardId,              \* card: State and CardId
  led,                        \* the level last handed to WriteAttribute
  wpc, report, wlevel,        \* UpdateWorker: its place, the broadcast, and
                              \* the level of a SetNotice it is in
  upc, seen, snap, ulevel,    \* UpdateUnits: its place, result of DoorChanged,
                              \* what is serialised, and its level
  dpc,                        \* the keyboard's thread
  server,                     \* the card report that the server got last
  overlapped,                 \* history: a change of the card and a report of
                              \* it have overlapped since the last clean change
  dropped,                    \* history: the last report was not sent
  clash                       \* history: two SetNotice have overlapped since
                              \* the last one that ran alone

unitVars   == <<lastCardType, lastDoorState, doorChanged>>
cardVars   == <<cardChanged, state, cardId>>
noticeVars == <<blinking, led, clash>>
workerVars == <<wpc, report, wlevel>>
unitsVars  == <<upc, seen, snap, ulevel>>
serverVars == <<server, dropped>>
vars == <<lastCardType, lastDoorState, blinking, cardChanged, doorChanged,
          state, cardId, led, wpc, report, wlevel, upc, seen, snap,
          ulevel, dpc, server, overlapped, dropped, clash>>

MaybeCard == Cards \cup {NoCard}
Levels == 0..2
Told == [state : States, card : MaybeCard]

\* UpdateWorker is between the first and the last write of a change.
Changing == {"left", "arrived", "clear", "fill"}
\* UpdateUnits is between the first read for a report and the end of UpdateCard.
Reporting == {"ids", "changed", "forget", "erase"}

TypeOK ==
  /\ lastCardType \in 0..2
  /\ lastDoorState \in BOOLEAN /\ blinking \in BOOLEAN
  /\ cardChanged \in BOOLEAN /\ doorChanged \in BOOLEAN
  /\ state \in States /\ cardId \in MaybeCard
  /\ led \in Levels
  /\ wpc \in {"idle", "notice", "led", "door", "mark"} \cup Changing
  /\ report \in Reports /\ wlevel \in Levels
  /\ upc \in {"door", "reset", "state", "led", "card", "read", "send"} \cup Reporting
  /\ seen \in BOOLEAN /\ snap \in Told /\ ulevel \in Levels
  /\ dpc \in {"idle", "led"}
  /\ server \in Told
  /\ overlapped \in BOOLEAN /\ dropped \in BOOLEAN /\ clash \in BOOLEAN

NoReport == [type |-> 0, card |-> NoCard, door |-> FALSE]
NothingTold == [state |-> 0, card |-> NoCard]

\* The unit has just been added.
Init ==
  /\ lastCardType = 0 /\ lastDoorState = FALSE /\ blinking = FALSE
  /\ cardChanged = FALSE /\ doorChanged = FALSE
  /\ state = 0 /\ cardId = NoCard
  /\ led = 0
  /\ wpc = "idle" /\ report = NoReport /\ wlevel = 0
  /\ upc = "door" /\ seen = FALSE /\ snap = NothingTold /\ ulevel = 0
  /\ dpc = "idle"
  /\ server = NothingTold
  /\ overlapped = FALSE /\ dropped = FALSE /\ clash = FALSE

-----------------------------------------------------------------------------
(* SetNotice: the flag first, then the level. *)

NoticeInProgress == wpc = "led" \/ upc = "led" \/ dpc = "led"

\* Variant for the checks: a forced level leaves the flag alone.
StartNoticeBlind(level) ==
  /\ blinking' = (blinking \/ level >= 2)
  /\ clash' = NoticeInProgress
  /\ UNCHANGED led

\* The first half, for a level that is forced or that finds no blinking.
StartNotice(level) ==
  /\ blinking' = (level >= 2)
  /\ clash' = NoticeInProgress
  /\ UNCHANGED led

\* The second half.
FinishNotice(level) ==
  /\ led' = level
  /\ UNCHANGED <<blinking, clash>>

-----------------------------------------------------------------------------
(* UpdateWorker: ProcessRecievedEvent, and the server's commands. *)

\* A broadcast whose type is not the last one: the card is marked as changed
\* before it is.
ReceiveChange(r) ==
  /\ wpc = "idle"
  /\ lastCardType # r.type
  /\ report' = r
  /\ lastCardType' = r.type
  /\ cardChanged' = TRUE
  /\ wpc' = CASE r.type = 0 -> "left" [] r.type = 1 -> "door" [] r.type = 2 -> "arrived"
  /\ overlapped' = IF r.type = 1 THEN overlapped ELSE upc \in Reporting
  /\ UNCHANGED <<lastDoorState, doorChanged, state, cardId, noticeVars, wlevel,
                 unitsVars, dpc, serverVars>>

\* The type is the same: whichever card it is, nothing is stored.
ReceiveSame(r) ==
  /\ wpc = "idle"
  /\ lastCardType = r.type
  /\ report' = r
  /\ wpc' = "door"
  /\ UNCHANGED <<unitVars, cardVars, noticeVars, wlevel, unitsVars, dpc,
                 serverVars, overlapped>>

StoreLeft ==
  /\ wpc = "left"
  /\ state' = CardLeft
  /\ wlevel' = 0
  /\ wpc' = "notice"
  /\ UNCHANGED <<unitVars, cardChanged, cardId, noticeVars, report,
                 unitsVars, dpc, serverVars, overlapped>>

\* Variant for the checks: the type is stored where the state belongs.
StoreArrivalType ==
  /\ wpc = "arrived"
  /\ state' = report.type
  /\ wpc' = "clear"
  /\ UNCHANGED <<unitVars, cardChanged, cardId, noticeVars, report, wlevel,
                 unitsVars, dpc, serverVars, overlapped>>

StoreArrival ==
  /\ wpc = "arrived"
  /\ state' = CardArrival
  /\ wpc' = "clear"
  /\ UNCHANGED <<unitVars, cardChanged, cardId, noticeVars, report,
                 wlevel, unitsVars, dpc, serverVars, overlapped>>

ClearIds ==
  /\ wpc = "clear"
  /\ cardId' = NoCard
  /\ wpc' = "fill"
  /\ UNCHANGED <<unitVars, cardChanged, state, noticeVars, report, wlevel,
                 unitsVars, dpc, serverVars, overlapped>>

FillIds ==
  /\ wpc = "fill"
  /\ cardId' = report.card
  /\ wlevel' = 1
  /\ wpc' = "notice"
  /\ UNCHANGED <<unitVars, cardChanged, state, noticeVars, report, unitsVars,
                 dpc, serverVars, overlapped>>

\* SetNotice(0, true) for a card that left, SetNotice(1, true) for one that
\* arrived.
WorkerNotice ==
  /\ wpc = "notice"
  /\ StartNotice(wlevel)
  /\ wpc' = "led"
  /\ UNCHANGED <<unitVars, cardVars, report, wlevel, unitsVars, dpc, serverVars,
                 overlapped>>

WorkerLed ==
  /\ wpc = "led"
  /\ FinishNotice(wlevel)
  /\ wlevel' = 0
  /\ wpc' = "door"
  /\ UNCHANGED <<unitVars, cardVars, report, unitsVars, dpc, serverVars,
                 overlapped>>

\* The door is compared with what was reported before, then marked.
StoreDoor ==
  /\ wpc = "door"
  /\ lastDoorState' = report.door
  /\ report' = NoReport
  /\ wpc' = IF lastDoorState # report.door THEN "mark" ELSE "idle"
  /\ UNCHANGED <<lastCardType, doorChanged, cardVars, noticeVars, wlevel,
                 unitsVars, dpc, serverVars, overlapped>>

MarkDoor ==
  /\ wpc = "mark"
  /\ doorChanged' = TRUE
  /\ wpc' = "idle"
  /\ UNCHANGED <<lastCardType, lastDoorState, cardVars, noticeVars, report,
                 wlevel, unitsVars, dpc, serverVars, overlapped>>

\* The server asks for a level (CodeType::RfidDataCode): SetNotice, forced.
\* The report is set so that nothing more follows.
ServerNotice(level) ==
  /\ wpc = "idle"
  /\ wlevel' = level
  /\ report' = [NoReport EXCEPT !.door = lastDoorState]
  /\ wpc' = "notice"
  /\ UNCHANGED <<unitVars, cardVars, noticeVars, unitsVars, dpc, serverVars,
                 overlapped>>

\* The server asks for the card (QueryNodeId, QueryRfid) and gets the answer,
\* or the answer is not sent.
ServerQuery ==
  /\ wpc = "idle"
  /\ server' \in {server, [state |-> state, card |-> cardId]}
  /\ UNCHANGED <<unitVars, cardVars, noticeVars, workerVars, unitsVars, dpc,
                 overlapped, dropped>>

-----------------------------------------------------------------------------
(* UpdateUnits: one visit of Traversal to the unit. *)

\* DoorChanged: the flag is read, and then cleared.
ReadDoorChanged ==
  /\ upc = "door"
  /\ seen' = doorChanged
  /\ upc' = "reset"
  /\ UNCHANGED <<unitVars, cardVars, noticeVars, workerVars, snap, ulevel, dpc,
                 serverVars, overlapped>>

ResetDoorChanged ==
  /\ upc = "reset"
  /\ doorChanged' = FALSE
  /\ seen' = FALSE
  /\ upc' = IF seen THEN "state" ELSE "card"
  /\ UNCHANGED <<lastCardType, lastDoorState, cardVars, noticeVars, workerVars,
                 snap, ulevel, dpc, serverVars, overlapped>>

\* The door is closed after it was open: SetNotice, forced, with a level that
\* tells whether the unit has a prescription.
DoorIsClosed ==
  /\ upc = "state"
  /\ ~lastDoorState
  /\ ulevel' \in {0, 1}
  /\ StartNotice(ulevel')
  /\ upc' = "led"
  /\ UNCHANGED <<unitVars, cardVars, workerVars, seen, snap, dpc, serverVars,
                 overlapped>>

DoorIsOpen ==
  /\ upc = "state"
  /\ lastDoorState
  /\ upc' = "card"
  /\ UNCHANGED <<unitVars, cardVars, noticeVars, workerVars, seen, snap, ulevel,
                 dpc, serverVars, overlapped>>

UnitsLed ==
  /\ upc = "led"
  /\ FinishNotice(ulevel)
  /\ ulevel' = 0
  /\ upc' = "card"
  /\ UNCHANGED <<unitVars, cardVars, workerVars, seen, snap, dpc,
                 serverVars, overlapped>>

CardUnchanged ==
  /\ upc = "card"
  /\ ~cardChanged
  /\ upc' = "door"
  /\ UNCHANGED <<unitVars, cardVars, noticeVars, workerVars, seen, snap, ulevel,
                 dpc, serverVars, overlapped>>

\* Variant for the checks: a card that has left is not reported.
CardHasArrived ==
  /\ upc = "card"
  /\ cardChanged /\ state = CardArrival
  /\ upc' = "read"
  /\ UNCHANGED <<unitVars, cardVars, noticeVars, workerVars, seen, snap, ulevel,
                 dpc, serverVars, overlapped>>

CardHasChanged ==
  /\ upc = "card"
  /\ cardChanged
  /\ upc' = "read"
  /\ UNCHANGED <<unitVars, cardVars, noticeVars, workerVars, seen, snap, ulevel,
                 dpc, serverVars, overlapped>>

\* SendRfidData copies State, then the identifiers.
ReadState ==
  /\ upc = "read"
  /\ snap' = [snap EXCEPT !.state = state]
  /\ overlapped' = (overlapped \/ wpc \in Changing)
  /\ upc' = "ids"
  /\ UNCHANGED <<unitVars, cardVars, noticeVars, workerVars, seen, ulevel, dpc,
                 serverVars>>

ReadIds ==
  /\ upc = "ids"
  /\ snap' = [snap EXCEPT !.card = cardId]
  /\ upc' = "changed"
  /\ UNCHANGED <<unitVars, cardVars, noticeVars, workerVars, seen, ulevel, dpc,
                 serverVars, overlapped>>

\* UpdateCard: the mark is cleared.
ClearChanged ==
  /\ upc = "changed"
  /\ cardChanged' = FALSE
  /\ upc' = "forget"
  /\ UNCHANGED <<unitVars, state, cardId, noticeVars, workerVars, seen,
                 snap, ulevel, dpc, serverVars, overlapped>>

\* UpdateCard: a card that has left is forgotten.
ForgetLeft ==
  /\ upc = "forget"
  /\ upc' = IF state = CardLeft THEN "erase" ELSE "send"
  /\ UNCHANGED <<unitVars, cardVars, noticeVars, workerVars, seen, snap, ulevel,
                 dpc, serverVars, overlapped>>

EraseIds ==
  /\ upc = "erase"
  /\ cardId' = NoCard
  /\ upc' = "send"
  /\ UNCHANGED <<unitVars, cardChanged, state, noticeVars, workerVars, seen, snap,
                 ulevel, dpc, serverVars, overlapped>>

\* Variant for the checks: the mark is cleared after the report is sent.
SendAndClear ==
  /\ upc = "send"
  /\ \/ server' = snap /\ dropped' = FALSE
     \/ UNCHANGED server /\ dropped' = TRUE
  /\ cardChanged' = FALSE
  /\ snap' = NothingTold
  /\ upc' = "door"
  /\ UNCHANGED <<unitVars, state, cardId, noticeVars, workerVars, seen, ulevel,
                 dpc, overlapped>>

\* SendData, whose result is ignored: there may be no connection, or no room.
Send ==
  /\ upc = "send"
  /\ \/ server' = snap /\ dropped' = FALSE
     \/ UNCHANGED server /\ dropped' = TRUE
  /\ snap' = NothingTold
  /\ upc' = "door"
  /\ UNCHANGED <<unitVars, cardVars, noticeVars, workerVars, seen, ulevel, dpc,
                 overlapped>>

-----------------------------------------------------------------------------
(* The keyboard's thread: SetNotice(2, false) of one of its commands. *)

\* Nothing happens if the LED is thought to blink.
DeskNotice ==
  /\ dpc = "idle"
  /\ ~blinking
  /\ StartNotice(2)
  /\ dpc' = "led"
  /\ UNCHANGED <<unitVars, cardVars, workerVars, unitsVars, serverVars, overlapped>>

DeskLed ==
  /\ dpc = "led"
  /\ FinishNotice(2)
  /\ dpc' = "idle"
  /\ UNCHANGED <<unitVars, cardVars, workerVars, unitsVars, serverVars, overlapped>>

-----------------------------------------------------------------------------
WorkerStep ==
  \/ StoreLeft \/ StoreArrival \/ ClearIds \/ FillIds
  \/ WorkerNotice \/ WorkerLed \/ StoreDoor \/ MarkDoor

UnitsStep ==
  \/ ReadDoorChanged \/ ResetDoorChanged \/ DoorIsClosed \/ DoorIsOpen \/ UnitsLed
  \/ CardUnchanged \/ CardHasChanged \/ ReadState \/ ReadIds \/ ClearChanged
  \/ ForgetLeft \/ EraseIds \/ Send

DeskStep == DeskNotice \/ DeskLed

Next ==
  \/ \E r \in Reports : ReceiveChange(r) \/ ReceiveSame(r)
  \/ \E level \in ServerLevels : ServerNotice(level)
  \/ ServerQuery
  \/ WorkerStep
  \/ UnitsStep
  \/ DeskStep

\* The threads are switched round robin; those inside SetNotice come back from
\* WriteAttribute (CanDevice: EveryWriteReported).
Fairness ==
  /\ WF_vars(WorkerStep)
  /\ WF_vars(UnitsStep)
  /\ WF_vars(DeskLed)

Spec == Init /\ [][Next]_vars
FairSpec == Spec /\ Fairness

-----------------------------------------------------------------------------
(* Properties. *)

\* The server knows whether there is a card, and which.
ServerKnows ==
  /\ server.state = state
  /\ state = CardArrival => server.card = cardId

\* Once nothing is marked, in progress or under way, the server knows the
\* card, unless its last report was not sent or the card changed while it was
\* being reported.
ServerTold ==
  wpc \notin Changing /\ upc \notin Reporting \cup {"send"} /\ ~cardChanged =>
    ServerKnows \/ overlapped \/ dropped

\* A unit whose card arrived has that card's identifier, so that it is neither
\* taken for a unit without RFID nor emptied by a fetch, unless UpdateCard was
\* forgetting an earlier card meanwhile.
OccupiedKnown ==
  wpc \notin Changing /\ state = CardArrival => cardId # NoCard \/ overlapped

\* After a SetNotice that no other one overlapped, the flag that keeps the
\* keyboard's thread from asking for the blinking again tells what was asked.
NoticeAgrees ==
  ~NoticeInProgress /\ ~clash => (blinking <=> led = 2)

\* What the server does not know it is told, unless the report is not sent or
\* the card changed while it was being reported.
CardTold == ~ServerKnows ~> ServerKnows \/ dropped \/ overlapped

\* Traversal notices that the door was closed and calls SetNotice for it: the
\* mark that the door has changed is not lost before the thread that polls the
\* marks has seen it ("Prevent missing status", main.cpp).
ClosedDoorNoticed ==
  wpc = "mark" /\ ~lastDoorState ~> upc = "led" \/ lastDoorState

\* What the server does not know it is told, unless the report is not sent: no
\* change is missed ("Prevent missing status", main.cpp).
NoCardMissed == ~ServerKnows ~> ServerKnows \/ dropped
===============================================================================
