----------------------------- MODULE UnitFirmware -----------------------------
(***************************************************************************)
(* The firmware of a locker unit (iLockerUnit/main.cpp): a main loop that   *)
(* reads the card in the field and broadcasts what was captured, and        *)
(* interrupt handlers for the two timers and for CAN that preempt it.       *)
(*                                                                         *)
(* The handlers have one priority, so each runs to its end; it may run      *)
(* between any two steps of the main loop.  Both sides capture the unit's   *)
(* state into syncBuf with CanexSyncTrigger.                                *)
(*                                                                         *)
(* The main loop's reads of variables that the handlers write are taken to  *)
(* be real reads.  Copying an identifier is one step.  A card that is read  *)
(* answers or does not; the ten attempts at a block are one step.           *)
(***************************************************************************)
EXTENDS Integers

CONSTANTS
  Cards,        \* identifiers of the cards that carry the header CardInfo expects
  OtherTags,    \* identifiers of the tags that do not
  NoCard,       \* no identifier: eight zero bytes
  LockTicks,    \* LOCK_WAIT_SECONDS * 2
  LostLimit,    \* RFID_TIME_COUNT
  Leds,         \* the values that OP_LED sets LedState to
  Idle          \* LockCount = 0xff

ASSUME UnitFirmwareAssumption ==
  /\ NoCard \notin Cards \cup OtherTags
  /\ Cards \cap OtherTags = {}
  /\ LockTicks \in Nat \ {0}
  /\ LostLimit \in Nat \ {0}
  /\ Leds \subseteq {0, 1, 2} /\ 0 \in Leds
  /\ Idle \notin 0..LockTicks

VARIABLES
  doorOpen, field,             \* the world: the feedback pin, the card in reach
  locker,                      \* the coil's pin, TRUE after LOCKER_ON
  LockCount, DoorState,        \* written by the handlers
  LedState, led,               \* the state asked for and the pin
  Connected,                   \* the host knows this unit: no heartbeats
  syncTriggered, syncBuf,      \* a capture that waits, and the last capture
  pc, pin,                     \* the main loop's place; a pin it has read
  cardType, memId,             \* MemBuffer[1] and MemBuffer[0x20..0x27]
  UIDlast, presOf,             \* UIDlast; the card whose blocks cardInfo holds
  lostCount, RfidTimeup,
  sentHead,                    \* what the first frame of a broadcast carried
  torn,                        \* history: the last broadcast mixed two captures
  sinceTick, halves            \* history: a millisecond passed since the last
                               \* half second; half seconds the coil has been
                               \* on, counted to LockTicks + 1

worldVars == <<doorOpen, field>>
lockVars  == <<locker, LockCount, DoorState>>
ledVars   == <<LedState, led>>
syncVars  == <<Connected, syncTriggered, syncBuf>>
cardVars  == <<cardType, memId, UIDlast, presOf, lostCount>>
mainVars  == <<pc, pin, sentHead, torn>>
timeVars  == <<sinceTick, halves>>
vars == <<doorOpen, field, locker, LockCount, DoorState, LedState, led,
          Connected, syncTriggered, syncBuf, pc, pin, cardType, memId, UIDlast,
          presOf, lostCount, RfidTimeup, sentHead, torn, sinceTick, halves>>

Tags == Cards \cup OtherTags
MaybeTag == Tags \cup {NoCard}
CardTypes == 0..2                     \* none, other tag, card
Reports == [type : CardTypes, id : MaybeTag, pres : Cards \cup {NoCard}, door : BOOLEAN]
Reading == {"header", "data", "failed", "clear", "trigger", "latch", "store"}
Places == {"loop", "find", "timed", "poll", "head", "tail"} \cup Reading

TypeOK ==
  /\ doorOpen \in BOOLEAN /\ field \in MaybeTag
  /\ locker \in BOOLEAN /\ LockCount \in 1..LockTicks \cup {Idle}
  /\ DoorState \in BOOLEAN /\ LedState \in Leds /\ led \in BOOLEAN
  /\ Connected \in BOOLEAN /\ syncTriggered \in BOOLEAN
  /\ syncBuf \in Reports /\ sentHead \in Reports
  /\ pc \in Places /\ pin \in BOOLEAN
  /\ cardType \in CardTypes /\ memId \in MaybeTag /\ UIDlast \in MaybeTag
  /\ presOf \in Cards \cup {NoCard} /\ lostCount \in 0..LostLimit
  /\ RfidTimeup \in BOOLEAN /\ torn \in BOOLEAN
  /\ sinceTick \in BOOLEAN /\ halves \in Nat

NoReport == [type |-> 0, id |-> NoCard, pres |-> NoCard, door |-> FALSE]

\* Setup, and the initial values of the statics.
Init ==
  /\ doorOpen \in BOOLEAN /\ field \in MaybeTag
  /\ locker = FALSE /\ LockCount = Idle /\ DoorState = doorOpen
  /\ LedState = 0 /\ led = FALSE
  /\ Connected = TRUE
  /\ syncTriggered = FALSE /\ syncBuf = NoReport
  /\ pc = "loop" /\ pin = FALSE
  /\ cardType = 0 /\ memId = NoCard /\ UIDlast = NoCard /\ presOf = NoCard
  /\ lostCount = 0 /\ RfidTimeup = TRUE
  /\ sentHead = NoReport /\ torn = FALSE
  /\ sinceTick = FALSE /\ halves = 0

-----------------------------------------------------------------------------
(* CanexSyncTrigger. *)

\* What CanexSyncTrigger puts into syncBuf: the prescription of the card is
\* part of the report for a valid card only.
Capture(door) ==
  [type |-> cardType, id |-> memId,
   pres |-> IF cardType = 2 THEN presOf ELSE NoCard, door |-> door]

\* CanexSyncTrigger(SYNC_DATA, 0) in a handler: nothing happens while an
\* earlier capture waits, or while the host does not know the unit.
Trigger ==
  IF ~syncTriggered /\ Connected
  THEN syncBuf' = Capture(doorOpen) /\ syncTriggered' = TRUE
  ELSE UNCHANGED <<syncBuf, syncTriggered>>

-----------------------------------------------------------------------------
(* The handlers. *)

\* Variant for the checks: the count of the coil is not reset.
DoorOpenedStale ==
  /\ locker /\ doorOpen
  /\ locker' = FALSE
  /\ LockCount' = IF LockCount = Idle THEN LockTicks ELSE LockCount
  /\ DoorState' = TRUE
  /\ halves' = 0
  /\ Trigger
  /\ UNCHANGED LedState

\* The coil is on and the door has opened: TIMER32_0_IRQHandler switches the
\* coil off and captures.
DoorOpened ==
  /\ locker /\ doorOpen
  /\ locker' = FALSE
  /\ LockCount' = Idle
  /\ DoorState' = TRUE
  /\ halves' = 0
  /\ Trigger
  /\ UNCHANGED LedState

\* Variant for the checks: the count is not looked at before it is set.
CoilOnRestarts ==
  /\ locker /\ ~doorOpen
  /\ LockCount' = LockTicks
  /\ UNCHANGED <<locker, DoorState, LedState, halves, syncBuf, syncTriggered>>

\* The coil is on and the door is still closed: the count starts once.
CoilOn ==
  /\ locker /\ ~doorOpen
  /\ LockCount' = IF LockCount = Idle THEN LockTicks ELSE LockCount
  /\ UNCHANGED <<locker, DoorState, LedState, halves, syncBuf, syncTriggered>>

\* The coil is off and a door that the unit saw open is closed.
DoorClosed ==
  /\ ~locker /\ ~doorOpen /\ DoorState
  /\ LedState' = 0
  /\ DoorState' = FALSE
  /\ Trigger
  /\ UNCHANGED <<locker, LockCount, halves>>

NoDoorEvent ==
  /\ ~locker /\ (doorOpen \/ ~DoorState)
  /\ UNCHANGED <<locker, LockCount, DoorState, LedState, halves, syncBuf,
                 syncTriggered>>

\* TIMER32_0_IRQHandler, every millisecond.  RfidTimeup returns after
\* RFID_TIME_INTERVAL of them, at any one here.
Tick ==
  /\ DoorOpened \/ CoilOn \/ DoorClosed \/ NoDoorEvent
  /\ led' = IF LedState' = 0 THEN FALSE ELSE IF LedState' = 1 THEN TRUE ELSE led
  /\ RfidTimeup' \in {RfidTimeup, TRUE}
  /\ sinceTick' = TRUE
  /\ UNCHANGED <<worldVars, Connected, mainVars, cardVars>>

\* TIMER32_1_IRQHandler, every half second: the coil is switched off when its
\* count has run down.  The other timer has fired in between.
HalfSecond ==
  /\ sinceTick
  /\ sinceTick' = FALSE
  /\ led' = IF LedState >= 2 THEN ~led ELSE led
  /\ IF LockCount # Idle /\ locker
     THEN /\ locker' = (LockCount # 1)
          /\ LockCount' = IF LockCount = 1 THEN Idle ELSE LockCount - 1
     ELSE UNCHANGED <<locker, LockCount>>
  /\ halves' = IF ~locker' THEN 0 ELSE IF halves > LockTicks THEN halves ELSE halves + 1
  /\ UNCHANGED <<worldVars, DoorState, LedState, syncVars, mainVars, cardVars,
                 RfidTimeup>>

\* CanexReceived, OP_OPEN.  The controller only ever sends 1
\* (StorageUnit::OpenDoor).
OpOpen ==
  /\ locker' = TRUE
  /\ UNCHANGED <<worldVars, LockCount, DoorState, ledVars, syncVars, mainVars,
                 cardVars, RfidTimeup, timeVars>>

\* CanexReceived, OP_LED.
OpLed(level) ==
  /\ LedState' = level
  /\ UNCHANGED <<worldVars, lockVars, led, syncVars, mainVars, cardVars,
                 RfidTimeup, timeVars>>

\* CanexSyncTrigger(SYNC_LIVE, 0): the host turns the heartbeats on or off.
\* Ignored while a capture waits.
SyncLive ==
  /\ ~syncTriggered
  /\ Connected' = ~Connected
  /\ IF Connected'
     THEN syncBuf' = Capture(doorOpen) /\ syncTriggered' = TRUE
     ELSE UNCHANGED <<syncBuf, syncTriggered>>
  /\ UNCHANGED <<worldVars, lockVars, ledVars, mainVars, cardVars, RfidTimeup,
                 timeVars>>

-----------------------------------------------------------------------------
(* The main loop: UpdateRfid, then the broadcast of what was captured. *)

Goto(place) == pc' = place

\* Steps of the main loop leave alone what only the handlers write.
HandlersIdle == UNCHANGED <<worldVars, lockVars, ledVars, Connected, timeVars>>

Loop ==
  /\ pc = "loop"
  /\ Goto(IF RfidTimeup THEN "find" ELSE "poll")
  /\ HandlersIdle
  /\ UNCHANGED <<syncTriggered, syncBuf, pin, cardVars, RfidTimeup, sentHead, torn>>

\* Iso15693FindTag finds a tag that is not the last one.
FindNew ==
  /\ pc = "find"
  /\ field # NoCard /\ field # UIDlast
  /\ lostCount' = 0
  /\ UIDlast' = field
  /\ memId' = field
  /\ Goto("header")
  /\ HandlersIdle
  /\ UNCHANGED <<syncTriggered, syncBuf, pin, cardType, presOf, RfidTimeup,
                 sentHead, torn>>

\* It finds the last one again.  Nothing sets cardInfo's updateSignal, so
\* nothing is written to the card.
FindSame ==
  /\ pc = "find"
  /\ field # NoCard /\ field = UIDlast
  /\ lostCount' = 0
  /\ Goto("timed")
  /\ HandlersIdle
  /\ UNCHANGED <<syncTriggered, syncBuf, pin, cardType, memId, UIDlast, presOf,
                 RfidTimeup, sentHead, torn>>

\* Variant for the checks: the misses are counted on and on.
FindNoneUncapped ==
  /\ pc = "find"
  /\ lostCount' = lostCount + 1
  /\ Goto(IF lostCount >= LostLimit /\ cardType # 0 THEN "failed" ELSE "timed")
  /\ HandlersIdle
  /\ UNCHANGED <<syncTriggered, syncBuf, pin, cardType, memId, UIDlast, presOf,
                 RfidTimeup, sentHead, torn>>

\* It finds none, whether or not one is there.  After more than LostLimit
\* times the card is given up.
FindNone ==
  /\ pc = "find"
  /\ lostCount' = IF lostCount < LostLimit THEN lostCount + 1 ELSE LostLimit
  /\ Goto(IF lostCount = LostLimit /\ cardType # 0 THEN "failed" ELSE "timed")
  /\ HandlersIdle
  /\ UNCHANGED <<syncTriggered, syncBuf, pin, cardType, memId, UIDlast, presOf,
                 RfidTimeup, sentHead, torn>>

\* The header is read: it is that of a card, or not.
ReadHeader ==
  /\ pc = "header"
  /\ field = UIDlast
  /\ cardType' = IF UIDlast \in Cards THEN 2 ELSE 1
  /\ Goto(IF UIDlast \in Cards THEN "data" ELSE "trigger")
  /\ HandlersIdle
  /\ UNCHANGED <<syncTriggered, syncBuf, pin, memId, UIDlast, presOf, lostCount,
                 RfidTimeup, sentHead, torn>>

\* The data blocks are read.
ReadData ==
  /\ pc = "data"
  /\ field = UIDlast
  /\ presOf' = UIDlast
  /\ Goto("trigger")
  /\ HandlersIdle
  /\ UNCHANGED <<syncTriggered, syncBuf, pin, cardType, memId, UIDlast, lostCount,
                 RfidTimeup, sentHead, torn>>

\* Variant for the checks: what cannot be read is reported as it is.
ReadFailsUnnoticed ==
  /\ pc \in {"header", "data"}
  /\ Goto("trigger")
  /\ HandlersIdle
  /\ UNCHANGED <<syncTriggered, syncBuf, pin, cardVars, RfidTimeup, sentHead, torn>>

\* Ten attempts have failed.
ReadFails ==
  /\ pc \in {"header", "data"}
  /\ Goto("failed")
  /\ HandlersIdle
  /\ UNCHANGED <<syncTriggered, syncBuf, pin, cardVars, RfidTimeup, sentHead, torn>>

\* A card that cannot be read, or is gone, is forgotten: first its type, then
\* the identifiers.
ForgetType ==
  /\ pc = "failed"
  /\ cardType' = 0
  /\ Goto("clear")
  /\ HandlersIdle
  /\ UNCHANGED <<syncTriggered, syncBuf, pin, memId, UIDlast, presOf, lostCount,
                 RfidTimeup, sentHead, torn>>

\* Variant for the checks: the last identifier is kept.
ForgetMemory ==
  /\ pc = "clear"
  /\ memId' = NoCard
  /\ Goto("trigger")
  /\ HandlersIdle
  /\ UNCHANGED <<syncTriggered, syncBuf, pin, cardType, UIDlast, presOf,
                 lostCount, RfidTimeup, sentHead, torn>>

ForgetId ==
  /\ pc = "clear"
  /\ UIDlast' = NoCard /\ memId' = NoCard
  /\ Goto("trigger")
  /\ HandlersIdle
  /\ UNCHANGED <<syncTriggered, syncBuf, pin, cardType, presOf, lostCount,
                 RfidTimeup, sentHead, torn>>

\* CanexSyncTrigger(SYNC_DATA, 0) in the main loop, where a handler may come
\* between its test, its read of the door pin and its write of syncBuf.
MainTrigger ==
  /\ pc = "trigger"
  /\ Goto(IF ~syncTriggered /\ Connected THEN "latch" ELSE "timed")
  /\ HandlersIdle
  /\ UNCHANGED <<syncTriggered, syncBuf, pin, cardVars, RfidTimeup, sentHead, torn>>

MainLatch ==
  /\ pc = "latch"
  /\ pin' = doorOpen
  /\ Goto("store")
  /\ HandlersIdle
  /\ UNCHANGED <<syncTriggered, syncBuf, cardVars, RfidTimeup, sentHead, torn>>

MainStore ==
  /\ pc = "store"
  /\ syncBuf' = Capture(pin)
  /\ syncTriggered' = TRUE
  /\ pin' = FALSE
  /\ Goto("timed")
  /\ HandlersIdle
  /\ UNCHANGED <<cardVars, RfidTimeup, sentHead, torn>>

\* Variant for the checks: the loop starts over after UpdateRfid.
TimedContinues ==
  /\ pc = "timed"
  /\ RfidTimeup' = FALSE
  /\ Goto("loop")
  /\ HandlersIdle
  /\ UNCHANGED <<syncTriggered, syncBuf, pin, cardVars, sentHead, torn>>

\* UpdateRfid has returned.
Timed ==
  /\ pc = "timed"
  /\ RfidTimeup' = FALSE
  /\ Goto("poll")
  /\ HandlersIdle
  /\ UNCHANGED <<syncTriggered, syncBuf, pin, cardVars, sentHead, torn>>

\* The flag is tested and cleared before the broadcast.
Poll ==
  /\ pc = "poll"
  /\ Goto(IF syncTriggered THEN "head" ELSE "loop")
  /\ syncTriggered' = FALSE
  /\ HandlersIdle
  /\ UNCHANGED <<syncBuf, pin, cardVars, RfidTimeup, sentHead, torn>>

\* Variant for the checks: the flag is cleared after the broadcast instead.
SendTailClears ==
  /\ pc = "tail"
  /\ torn' = (sentHead # syncBuf)
  /\ sentHead' = NoReport
  /\ syncTriggered' = FALSE
  /\ Goto("loop")
  /\ HandlersIdle
  /\ UNCHANGED <<syncBuf, pin, cardVars, RfidTimeup>>

\* CANTransmit sends syncBuf itself, frame by frame: here a first frame and
\* the rest, with room for a handler between them.
SendHead ==
  /\ pc = "head"
  /\ sentHead' = syncBuf
  /\ Goto("tail")
  /\ HandlersIdle
  /\ UNCHANGED <<syncTriggered, syncBuf, pin, cardVars, RfidTimeup, torn>>

SendTail ==
  /\ pc = "tail"
  /\ torn' = (sentHead # syncBuf)
  /\ sentHead' = NoReport
  /\ Goto("loop")
  /\ HandlersIdle
  /\ UNCHANGED <<syncTriggered, syncBuf, pin, cardVars, RfidTimeup>>

-----------------------------------------------------------------------------
\* The door is opened or closed, by the coil's release or by force, and cards
\* come and go.
World ==
  /\ \/ doorOpen' = ~doorOpen /\ UNCHANGED field
     \/ field' \in MaybeTag \ {field} /\ UNCHANGED doorOpen
  /\ UNCHANGED <<lockVars, ledVars, syncVars, mainVars, cardVars, RfidTimeup,
                 timeVars>>

Handlers ==
  \/ Tick \/ HalfSecond
  \/ OpOpen \/ SyncLive \/ \E level \in Leds : OpLed(level)

MainStep ==
  \/ Loop \/ FindNew \/ FindSame \/ FindNone
  \/ ReadHeader \/ ReadData \/ ReadFails \/ ForgetType \/ ForgetId
  \/ MainTrigger \/ MainLatch \/ MainStore \/ Timed
  \/ Poll \/ SendHead \/ SendTail

Next == World \/ Handlers \/ MainStep

\* The timers keep firing and the main loop is never blocked: the handlers
\* return, and a frame that cannot be sent is dropped.
Fairness == WF_vars(Tick) /\ WF_vars(HalfSecond) /\ WF_vars(MainStep)

Spec == Init /\ [][Next]_vars
FairSpec == Spec /\ Fairness

-----------------------------------------------------------------------------
(* Properties. *)

\* However often OP_OPEN is repeated, and whenever it comes between the two
\* timers, the coil is never on for more than one half second beyond
\* LOCK_WAIT_SECONDS; and its count is idle while it is off, so that the next
\* opening gets its whole time.
CoilBounded == IF locker THEN halves <= LockTicks ELSE LockCount = Idle

\* The coil lets go only because the door has opened or because its time is
\* over: nobody finds the locker shut again early.
WindowKept ==
  [][locker /\ ~locker' => doorOpen \/ halves >= LockTicks - 1]_vars

\* A broadcast whose frames come from two captures, because a handler has
\* written syncBuf while CANTransmit was sending it, is always followed by a
\* broadcast of the later capture.
TornIsRepeated == torn => syncTriggered \/ pc \in {"head", "tail"}

\* Outside UpdateRfid the unit's memory tells of one card: type, identifier
\* and prescription belong together, and a card that could not be read has
\* been forgotten, so that it is tried again.
CardSettled ==
  pc \notin Reading =>
    /\ memId = UIDlast
    /\ (cardType = 0) <=> (UIDlast = NoCard)
    /\ (cardType = 1) <=> (UIDlast \in OtherTags)
    /\ cardType = 2 => presOf = UIDlast

\* A report that puts one card's identifier next to another one's type or
\* prescription is captured only by a handler, and only while UpdateRfid is
\* between two of its writes.
Coherent(report) ==
  /\ (report.type = 0) <=> (report.id = NoCard)
  /\ (report.type = 1) <=> (report.id \in OtherTags)
  /\ report.type = 2 => report.pres = report.id

IncoherentOnlyInside ==
  [][syncBuf' # syncBuf =>
       Coherent(syncBuf') \/ pc \in {"header", "data", "failed", "clear"}]_vars

\* The coil, once on, goes off.
CoilReleased == locker ~> ~locker

\* A capture is sent, although UpdateRfid and the handlers may come first.
CaptureSent == syncTriggered ~> pc = "tail"
===============================================================================
