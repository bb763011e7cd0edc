-------------------------- MODULE UnitFirmware_proofs --------------------------
(***************************************************************************)
(* Proofs about UnitFirmware, for any cards, tags and limits.               *)
(*                                                                         *)
(* The inductive invariant IInv adds to TypeOK the relation between the     *)
(* coil's count and the half seconds it has been on (CoilTimed), what the   *)
(* unit's memory holds at each place of UpdateRfid (CardKnown), and that a  *)
(* main loop which sends has cleared the flag that a handler sets when it   *)
(* writes syncBuf (SendWatched).                                            *)
(***************************************************************************)
EXTENDS UnitFirmware, TLAPS

\* The count and the half seconds add up; before the count has started there
\* has been one half second at most, with no millisecond after it.
CoilTimed ==
  /\ ~locker => LockCount = Idle /\ halves = 0
  /\ locker /\ LockCount = Idle => halves = 0 \/ (halves = 1 /\ ~sinceTick)
  /\ locker /\ LockCount # Idle =>
       halves + LockCount = LockTicks \/ halves + LockCount = LockTicks + 1

\* Type, identifier and prescription are those of one card.
OneCard ==
  /\ (cardType = 0) <=> (UIDlast = NoCard)
  /\ (cardType = 1) <=> (UIDlast \in OtherTags)
  /\ cardType = 2 => presOf = UIDlast

\* What the memory holds at each place of UpdateRfid.
CardKnown ==
  /\ memId = UIDlast
  /\ pc = "header" => UIDlast # NoCard
  /\ pc = "data" => UIDlast \in Cards /\ cardType = 2
  /\ pc = "clear" => cardType = 0
  /\ pc \notin {"header", "data", "failed", "clear"} => OneCard

\* While it is being sent, syncBuf changes only together with the flag.
SendWatched ==
  /\ pc = "tail" /\ sentHead # syncBuf => syncTriggered
  /\ torn => syncTriggered \/ pc \in {"head", "tail"}

IInv ==
  /\ TypeOK
  /\ CoilTimed
  /\ CardKnown
  /\ SendWatched

-----------------------------------------------------------------------------
(* The invariant holds initially. *)

LEMMA InitInv == Init => IInv
<1> SUFFICES ASSUME Init PROVE IInv
  OBVIOUS
<1>1. TypeOK
  <2>1. NoReport \in Reports
    BY DEF NoReport, Reports, CardTypes, MaybeTag
  <2>2. DoorState \in BOOLEAN /\ Idle \in 1..LockTicks \cup {Idle}
    BY DEF Init
  <2>3. 0 \in 0..LostLimit /\ 0 \in Leds /\ NoCard \in MaybeTag
    BY UnitFirmwareAssumption DEF MaybeTag
  <2>4. /\ doorOpen \in BOOLEAN /\ field \in MaybeTag
        /\ locker \in BOOLEAN /\ LockCount \in 1..LockTicks \cup {Idle}
        /\ DoorState \in BOOLEAN /\ LedState \in Leds /\ led \in BOOLEAN
    BY <2>2, <2>3 DEF Init
  <2>5. /\ Connected \in BOOLEAN /\ syncTriggered \in BOOLEAN
        /\ syncBuf \in Reports /\ sentHead \in Reports
        /\ pc \in Places /\ pin \in BOOLEAN
    BY <2>1 DEF Init, Places
  <2>6. /\ cardType \in CardTypes /\ memId \in MaybeTag /\ UIDlast \in MaybeTag
        /\ presOf \in Cards \cup {NoCard}
    BY <2>3 DEF Init, CardTypes
  <2>7. lostCount \in 0..LostLimit /\ halves \in Nat
    BY <2>3 DEF Init
  <2>8. RfidTimeup \in BOOLEAN /\ torn \in BOOLEAN /\ sinceTick \in BOOLEAN
    BY DEF Init
  <2>9. QED
    BY <2>4, <2>5, <2>6, <2>7, <2>8 DEF TypeOK
<1>2. CoilTimed /\ SendWatched
  BY DEF Init, CoilTimed, SendWatched
<1>3. CardKnown
  BY UnitFirmwareAssumption DEF Init, CardKnown, OneCard
<1>4. QED
  BY <1>1, <1>2, <1>3 DEF IInv

-----------------------------------------------------------------------------
(* Every step preserves each part of the invariant. *)

\* A capture is a report.
LEMMA CaptureType ==
  ASSUME TypeOK, NEW door \in BOOLEAN
  PROVE  Capture(door) \in Reports
BY DEF TypeOK, Capture, Reports, CardTypes

\* Every variable keeps its type.
LEMMA TypeStep == IInv /\ [Next]_vars => TypeOK'
<1> SUFFICES ASSUME IInv, [Next]_vars PROVE TypeOK'
  OBVIOUS
<1> USE UnitFirmwareAssumption DEF IInv, TypeOK, Places, Reading,
       worldVars, lockVars, ledVars, syncVars,
       cardVars, mainVars, timeVars, HandlersIdle, Goto
<1>1. CASE World
  <2>1. doorOpen' \in BOOLEAN /\ field' \in MaybeTag
    BY <1>1 DEF World
  <2>2. QED
    BY <1>1, <2>1 DEF World
<1>2. CASE Tick /\ DoorOpened
  BY ZenonT(60), <1>2, CaptureType DEF Tick, DoorOpened, Trigger
<1>3. CASE Tick /\ CoilOn
  <2>1. LockCount' \in 1..LockTicks \cup {Idle}
    BY <1>3 DEF Tick, CoilOn
  <2>2. led' \in BOOLEAN /\ RfidTimeup' \in BOOLEAN
    BY <1>3 DEF Tick, CoilOn
  <2>3. QED
    BY <1>3, <2>1, <2>2 DEF Tick, CoilOn
<1>4. CASE Tick /\ DoorClosed
  BY ZenonT(60), <1>4, CaptureType DEF Tick, DoorClosed, Trigger
<1>5. CASE Tick /\ NoDoorEvent
  <2>1. led' \in BOOLEAN /\ RfidTimeup' \in BOOLEAN
    BY <1>5 DEF Tick, NoDoorEvent
  <2>2. QED
    BY ZenonT(60), <1>5, <2>1 DEF Tick, NoDoorEvent
<1>6. CASE HalfSecond
  <2>1. locker' \in BOOLEAN /\ led' \in BOOLEAN
    BY <1>6 DEF HalfSecond
  <2>2. LockCount' \in 1..LockTicks \cup {Idle}
    <3>1. CASE LockCount # Idle /\ locker
      BY <1>6, <3>1 DEF HalfSecond
    <3>2. CASE ~(LockCount # Idle /\ locker)
      BY <1>6, <3>2 DEF HalfSecond
    <3>3. QED
      BY <3>1, <3>2
  <2>3. halves' \in Nat
    BY <1>6 DEF HalfSecond
  <2>4. QED
    BY ZenonT(60), <1>6, <2>1, <2>2, <2>3 DEF HalfSecond
<1>7. CASE OpOpen
  BY <1>7 DEF OpOpen
<1>8. CASE SyncLive
  <2>1. Connected' \in BOOLEAN /\ syncTriggered' \in BOOLEAN
    BY <1>8 DEF SyncLive
  <2>2. syncBuf' \in Reports
    BY <1>8, CaptureType DEF SyncLive
  <2>3. QED
    BY <1>8, <2>1, <2>2 DEF SyncLive
<1>9. CASE \E level \in Leds : OpLed(level)
  BY <1>9 DEF OpLed
<1>10. CASE Loop
  BY <1>10 DEF Loop
<1>11. CASE FindNew
  BY <1>11 DEF FindNew, MaybeTag
<1>12. CASE FindSame
  BY <1>12 DEF FindSame
<1>13. CASE FindNone
  BY <1>13 DEF FindNone
<1>14. CASE ReadHeader
  BY <1>14 DEF ReadHeader, CardTypes
<1>15. CASE ReadData
  BY <1>15, UnitFirmwareAssumption DEF ReadData, CardKnown
<1>16. CASE ReadFails
  BY <1>16 DEF ReadFails
<1>17. CASE ForgetType
  BY <1>17 DEF ForgetType, CardTypes
<1>18. CASE ForgetId
  BY <1>18 DEF ForgetId, MaybeTag
<1>19. CASE MainTrigger
  BY <1>19 DEF MainTrigger
<1>20. CASE MainLatch
  BY <1>20 DEF MainLatch
<1>21. CASE MainStore
  BY ZenonT(60), <1>21, CaptureType DEF MainStore
<1>22. CASE Timed
  BY ZenonT(60), <1>22 DEF Timed
<1>23. CASE Poll
  BY ZenonT(60), <1>23 DEF Poll
<1>24. CASE SendHead
  BY <1>24 DEF SendHead
<1>25. CASE SendTail
  BY <1>25 DEF SendTail, Reports, NoReport, CardTypes, MaybeTag
<1>26. CASE UNCHANGED vars
  BY <1>26 DEF vars
<1>27. QED
  BY <1>1, <1>2, <1>3, <1>4, <1>5, <1>6, <1>7, <1>8, <1>9, <1>10,
     <1>11, <1>12, <1>13, <1>14, <1>15, <1>16, <1>17, <1>18, <1>19,
     <1>20, <1>21, <1>22, <1>23, <1>24, <1>25, <1>26
  DEF Next, Handlers, MainStep, Tick

\* The coil's count keeps pace with the half seconds.
LEMMA CoilStep == IInv /\ [Next]_vars => CoilTimed'
<1> SUFFICES ASSUME IInv, [Next]_vars PROVE CoilTimed'
  OBVIOUS
<1> USE UnitFirmwareAssumption DEF IInv, TypeOK, CoilTimed, worldVars, lockVars, ledVars, syncVars,
       cardVars, mainVars, timeVars, HandlersIdle, Goto
<1>1. CASE World
  BY <1>1 DEF World
<1>2. CASE Tick /\ DoorOpened
  BY <1>2 DEF Tick, DoorOpened, Trigger
<1>3. CASE Tick /\ CoilOn
  BY <1>3 DEF Tick, CoilOn, Trigger
<1>4. CASE Tick /\ DoorClosed
  BY <1>4 DEF Tick, DoorClosed, Trigger
<1>5. CASE Tick /\ NoDoorEvent
  BY <1>5 DEF Tick, NoDoorEvent, Trigger
<1>6. CASE HalfSecond
  <2>1. CASE LockCount # Idle /\ locker /\ LockCount = 1
    BY <1>6, <2>1 DEF HalfSecond
  <2>2. CASE LockCount # Idle /\ locker /\ LockCount # 1
    <3>a. halves <= LockTicks
      BY <2>2
    <3>b. locker' /\ LockCount' = LockCount - 1
      <4>1. locker' = (LockCount # 1)
        BY <1>6, <2>2 DEF HalfSecond
      <4>2. LockCount' = IF LockCount = 1 THEN Idle ELSE LockCount - 1
        BY <1>6, <2>2 DEF HalfSecond
      <4>3. QED
        BY <2>2, <4>1, <4>2
    <3>c. halves' = halves + 1
      <4>1. halves' = IF ~locker' THEN 0
                      ELSE IF halves > LockTicks THEN halves ELSE halves + 1
        BY <1>6 DEF HalfSecond
      <4>2. QED
        BY <3>a, <3>b, <4>1
    <3>1. locker' /\ LockCount' = LockCount - 1 /\ halves' = halves + 1
      BY <3>b, <3>c
    <3>2. LockCount' # Idle
      BY <2>2, <3>1
    <3>3. QED
      BY <2>2, <3>1, <3>2
  <2>3. CASE LockCount = Idle \/ ~locker
    BY <1>6, <2>3 DEF HalfSecond
  <2>4. QED
    BY <2>1, <2>2, <2>3
<1>7. CASE OpOpen
  BY <1>7 DEF OpOpen
<1>8. CASE SyncLive
  BY <1>8 DEF SyncLive
<1>9. CASE \E level \in Leds : OpLed(level)
  BY <1>9 DEF OpLed
<1>10. CASE Loop
  BY <1>10 DEF Loop
<1>11. CASE FindNew
  BY <1>11 DEF FindNew
<1>12. CASE FindSame
  BY <1>12 DEF FindSame
<1>13. CASE FindNone
  BY <1>13 DEF FindNone
<1>14. CASE ReadHeader
  BY <1>14 DEF ReadHeader
<1>15. CASE ReadData
  BY <1>15 DEF ReadData
<1>16. CASE ReadFails
  BY <1>16 DEF ReadFails
<1>17. CASE ForgetType
  BY <1>17 DEF ForgetType
<1>18. CASE ForgetId
  BY <1>18 DEF ForgetId
<1>19. CASE MainTrigger
  BY <1>19 DEF MainTrigger
<1>20. CASE MainLatch
  BY <1>20 DEF MainLatch
<1>21. CASE MainStore
  BY <1>21 DEF MainStore
<1>22. CASE Timed
  BY <1>22 DEF Timed
<1>23. CASE Poll
  BY <1>23 DEF Poll
<1>24. CASE SendHead
  BY <1>24 DEF SendHead
<1>25. CASE SendTail
  BY <1>25 DEF SendTail
<1>26. CASE UNCHANGED vars
  BY <1>26 DEF vars
<1>27. QED
  BY <1>1, <1>2, <1>3, <1>4, <1>5, <1>6, <1>7, <1>8, <1>9, <1>10,
     <1>11, <1>12, <1>13, <1>14, <1>15, <1>16, <1>17, <1>18, <1>19,
     <1>20, <1>21, <1>22, <1>23, <1>24, <1>25, <1>26
  DEF Next, Handlers, MainStep, Tick

\* UpdateRfid leaves one card in memory.
LEMMA CardStep == IInv /\ [Next]_vars => CardKnown'
<1> SUFFICES ASSUME IInv, [Next]_vars PROVE CardKnown'
  OBVIOUS
<1> USE UnitFirmwareAssumption DEF IInv, TypeOK, CardKnown, OneCard, MaybeTag,
       Tags, CardTypes, worldVars, lockVars, ledVars, syncVars,
       cardVars, mainVars, timeVars, HandlersIdle, Goto
<1>1. CASE World
  BY <1>1 DEF World
<1>2. CASE Tick /\ DoorOpened
  BY <1>2 DEF Tick, DoorOpened, Trigger
<1>3. CASE Tick /\ CoilOn
  BY <1>3 DEF Tick, CoilOn, Trigger
<1>4. CASE Tick /\ DoorClosed
  BY <1>4 DEF Tick, DoorClosed, Trigger
<1>5. CASE Tick /\ NoDoorEvent
  BY <1>5 DEF Tick, NoDoorEvent, Trigger
<1>6. CASE HalfSecond
  BY <1>6 DEF HalfSecond
<1>7. CASE OpOpen
  BY <1>7 DEF OpOpen
<1>8. CASE SyncLive
  BY <1>8 DEF SyncLive
<1>9. CASE \E level \in Leds : OpLed(level)
  BY <1>9 DEF OpLed
<1>10. CASE Loop
  BY <1>10 DEF Loop
<1>11. CASE FindNew
  BY <1>11 DEF FindNew
<1>12. CASE FindSame
  BY <1>12 DEF FindSame
<1>13. CASE FindNone
  BY <1>13 DEF FindNone
<1>14. CASE ReadHeader
  BY <1>14 DEF ReadHeader
<1>15. CASE ReadData
  <2>1. UIDlast \in Cards /\ cardType = 2 /\ presOf' = UIDlast /\ pc' = "trigger"
    BY <1>15 DEF ReadData
  <2>2. cardType' = cardType /\ memId' = memId /\ UIDlast' = UIDlast
    BY <1>15 DEF ReadData
  <2>3. QED
    BY <2>1, <2>2
<1>16. CASE ReadFails
  BY <1>16 DEF ReadFails
<1>17. CASE ForgetType
  BY <1>17 DEF ForgetType
<1>18. CASE ForgetId
  BY <1>18 DEF ForgetId
<1>19. CASE MainTrigger
  BY <1>19 DEF MainTrigger
<1>20. CASE MainLatch
  BY <1>20 DEF MainLatch
<1>21. CASE MainStore
  BY <1>21 DEF MainStore
<1>22. CASE Timed
  BY <1>22 DEF Timed
<1>23. CASE Poll
  BY <1>23 DEF Poll
<1>24. CASE SendHead
  BY <1>24 DEF SendHead
<1>25. CASE SendTail
  BY <1>25 DEF SendTail
<1>26. CASE UNCHANGED vars
  BY <1>26 DEF vars
<1>27. QED
  BY <1>1, <1>2, <1>3, <1>4, <1>5, <1>6, <1>7, <1>8, <1>9, <1>10,
     <1>11, <1>12, <1>13, <1>14, <1>15, <1>16, <1>17, <1>18, <1>19,
     <1>20, <1>21, <1>22, <1>23, <1>24, <1>25, <1>26
  DEF Next, Handlers, MainStep, Tick

\* A write of syncBuf that a broadcast may miss sets the flag.
LEMMA SendStep == IInv /\ [Next]_vars => SendWatched'
<1> SUFFICES ASSUME IInv, [Next]_vars PROVE SendWatched'
  OBVIOUS
<1> USE DEF IInv, TypeOK, SendWatched, worldVars, lockVars, ledVars, syncVars,
       cardVars, mainVars, timeVars, HandlersIdle, Goto
<1>1. CASE World
  BY <1>1 DEF World
<1>2. CASE Tick /\ DoorOpened
  BY <1>2 DEF Tick, DoorOpened, Trigger
<1>3. CASE Tick /\ CoilOn
  BY <1>3 DEF Tick, CoilOn, Trigger
<1>4. CASE Tick /\ DoorClosed
  BY <1>4 DEF Tick, DoorClosed, Trigger
<1>5. CASE Tick /\ NoDoorEvent
  BY <1>5 DEF Tick, NoDoorEvent, Trigger
<1>6. CASE HalfSecond
  BY <1>6 DEF HalfSecond
<1>7. CASE OpOpen
  BY <1>7 DEF OpOpen
<1>8. CASE SyncLive
  BY <1>8 DEF SyncLive
<1>9. CASE \E level \in Leds : OpLed(level)
  BY <1>9 DEF OpLed
<1>10. CASE Loop
  BY <1>10 DEF Loop
<1>11. CASE FindNew
  BY <1>11 DEF FindNew
<1>12. CASE FindSame
  BY <1>12 DEF FindSame
<1>13. CASE FindNone
  BY <1>13 DEF FindNone
<1>14. CASE ReadHeader
  BY <1>14 DEF ReadHeader
<1>15. CASE ReadData
  BY <1>15 DEF ReadData
<1>16. CASE ReadFails
  BY <1>16 DEF ReadFails
<1>17. CASE ForgetType
  BY <1>17 DEF ForgetType
<1>18. CASE ForgetId
  BY <1>18 DEF ForgetId
<1>19. CASE MainTrigger
  BY <1>19 DEF MainTrigger
<1>20. CASE MainLatch
  BY <1>20 DEF MainLatch
<1>21. CASE MainStore
  BY <1>21 DEF MainStore
<1>22. CASE Timed
  BY <1>22 DEF Timed
<1>23. CASE Poll
  BY <1>23 DEF Poll
<1>24. CASE SendHead
  BY <1>24 DEF SendHead
<1>25. CASE SendTail
  BY <1>25 DEF SendTail
<1>26. CASE UNCHANGED vars
  BY <1>26 DEF vars
<1>27. QED
  BY <1>1, <1>2, <1>3, <1>4, <1>5, <1>6, <1>7, <1>8, <1>9, <1>10,
     <1>11, <1>12, <1>13, <1>14, <1>15, <1>16, <1>17, <1>18, <1>19,
     <1>20, <1>21, <1>22, <1>23, <1>24, <1>25, <1>26
  DEF Next, Handlers, MainStep, Tick

LEMMA Invariance == Spec => []IInv
<1>1. IInv /\ [Next]_vars => IInv'
  BY TypeStep, CoilStep, CardStep, SendStep DEF IInv
<1>2. QED
  BY InitInv, <1>1, PTL DEF Spec

-----------------------------------------------------------------------------
(* The theorems. *)

\* Type correctness of every variable of the unit (iLockerUnit/main.cpp).
THEOREM TypeCorrect == Spec => []TypeOK
<1>1. IInv => TypeOK
  BY DEF IInv
<1>2. QED
  BY Invariance, <1>1, PTL

\* The coil is never on for more than one half second beyond its time, and
\* its count is idle while it is off (TIMER32_0 and TIMER32_1 handlers).
THEOREM CoilIsBounded == Spec => []CoilBounded
<1>1. IInv => CoilBounded
  BY UnitFirmwareAssumption DEF IInv, TypeOK, CoilTimed, CoilBounded
<1>2. QED
  BY Invariance, <1>1, PTL

\* A broadcast whose frames come from two captures is followed by another
\* (the main loop clears syncTriggered before CANEXBroadcast, not after).
THEOREM TornBroadcastsRepeat == Spec => []TornIsRepeated
<1>1. IInv => TornIsRepeated
  BY DEF IInv, SendWatched, TornIsRepeated
<1>2. QED
  BY Invariance, <1>1, PTL

\* UpdateRfid leaves type, identifier and prescription of one card behind,
\* whichever of its reads fail.
THEOREM CardIsSettled == Spec => []CardSettled
<1>1. IInv => CardSettled
  BY DEF IInv, CardKnown, OneCard, CardSettled, Reading
<1>2. QED
  BY Invariance, <1>1, PTL

\* The main loop and the CAN handlers never let the coil off: only the two
\* timers do, the fast one when the door opens, the slow one when time is over.
LEMMA CoilGoesOff ==
  ASSUME [Next]_vars, locker, ~locker'
  PROVE  Tick \/ HalfSecond
<1> USE DEF worldVars, lockVars, ledVars, syncVars, cardVars, mainVars, timeVars,
        HandlersIdle
<1>1. MainStep => locker' = locker
  BY DEF MainStep, Loop, FindNew, FindSame, FindNone, ReadHeader, ReadData,
     ReadFails, ForgetType, ForgetId, MainTrigger, MainLatch, MainStore, Timed,
     Poll, SendHead, SendTail
<1>2. \A level \in Leds : OpLed(level) => locker' = locker
  BY DEF OpLed
<1>3. OpOpen => locker'
  BY DEF OpOpen
<1>4. World \/ SyncLive \/ vars' = vars => locker' = locker
  BY DEF World, SyncLive, vars
<1> QED
  BY <1>1, <1>2, <1>3, <1>4 DEF Next, Handlers

\* The coil goes off only because the door is open or its time is over.
THEOREM WindowIsKept == Spec => WindowKept
<1>1. ASSUME IInv, HalfSecond, locker, ~locker'
      PROVE  halves >= LockTicks - 1
  <2>1. LockCount # Idle /\ LockCount = 1
    BY <1>1 DEF HalfSecond, lockVars
  <2> QED
    BY <1>1, <2>1, UnitFirmwareAssumption DEF IInv, TypeOK, CoilTimed
<1>2. ASSUME Tick, locker, ~locker'
      PROVE  doorOpen
  BY <1>2 DEF Tick, DoorOpened, CoilOn, DoorClosed, NoDoorEvent, lockVars
<1>3. IInv /\ [Next]_vars => [locker /\ ~locker' => doorOpen \/ halves >= LockTicks - 1]_vars
  BY <1>1, <1>2, CoilGoesOff
<1> QED
  BY Invariance, <1>3, PTL DEF Spec, WindowKept

\* Only a handler that comes between two writes of UpdateRfid captures a
\* report that mixes two cards.
THEOREM IncoherentInside == Spec => IncoherentOnlyInside
<1>1. IInv /\ [Next]_vars =>
        [syncBuf' # syncBuf =>
           Coherent(syncBuf') \/ pc \in {"header", "data", "failed", "clear"}]_vars
  <2> SUFFICES ASSUME IInv, [Next]_vars, syncBuf' # syncBuf,
                      pc \notin {"header", "data", "failed", "clear"}
               PROVE  Coherent(syncBuf')
    OBVIOUS
  <2> USE DEF worldVars, lockVars, ledVars, syncVars, cardVars, mainVars, timeVars,
          HandlersIdle
  <2>1. ASSUME NEW door \in BOOLEAN
        PROVE  Coherent(Capture(door))
    BY DEF IInv, CardKnown, OneCard, Coherent, Capture
  <2>2. doorOpen \in BOOLEAN /\ pin \in BOOLEAN
    BY DEF IInv, TypeOK
  <2>3. CASE Tick
    BY <2>1, <2>2, <2>3
    DEF Tick, DoorOpened, CoilOn, DoorClosed, NoDoorEvent, Trigger
  <2>4. CASE HalfSecond \/ World \/ OpOpen \/ \E level \in Leds : OpLed(level)
    BY <2>4 DEF HalfSecond, World, OpOpen, OpLed
  <2>5. CASE SyncLive
    BY <2>1, <2>2, <2>5 DEF SyncLive
  <2>6. CASE MainStep
    BY <2>1, <2>2, <2>6
    DEF MainStep, Loop, FindNew, FindSame, FindNone, ReadHeader, ReadData,
       ReadFails, ForgetType, ForgetId, MainTrigger, MainLatch, MainStore, Timed,
       Poll, SendHead, SendTail
  <2>7. CASE UNCHANGED vars
    BY <2>7 DEF vars
  <2>8. QED
    BY <2>3, <2>4, <2>5, <2>6, <2>7 DEF Next, Handlers
<1>2. QED
  BY Invariance, <1>1, PTL DEF Spec, IncoherentOnlyInside
===============================================================================
