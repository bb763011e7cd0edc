--------------------------- MODULE UnitStatus_proofs ---------------------------
(***************************************************************************)
(* Proofs about UnitStatus, for any cards and any levels of the server.     *)
(*                                                                         *)
(* The inductive invariant IInv adds to TypeOK what holds while a report is *)
(* being made and no change of the card has overlapped it (ReportFresh),    *)
(* that the mark stands until it is cleared (MarkStands), that a card is    *)
(* stored from a broadcast with a card in it (FillsCard), and that a        *)
(* SetNotice which no other one overlaps has set the flag for its own level *)
(* (NoticeHeld).                                                            *)
(***************************************************************************)
EXTENDS UnitStatus, TLAPS

\* A report that is being made tells of the card that is stored.
Fresh(s) ==
  /\ s.state = state
  /\ state = CardArrival => s.card = cardId

\* The mark is found set, and stays set until UpdateCard clears it.
MarkStands == upc \in {"read", "ids", "changed"} => cardChanged

\* Without an overlap a report under way is fresh, and what is not marked and
\* not being changed is known to the server.
ReportFresh ==
  ~overlapped =>
    /\ ~(wpc \in Changing /\ upc \in Reporting)
    /\ wpc \in Changing => cardChanged
    /\ upc = "ids" => snap.state = state
    /\ upc \in {"changed", "forget", "erase"} => Fresh(snap)
    /\ upc = "erase" => state = CardLeft
    /\ upc = "send" /\ ~cardChanged => wpc \notin Changing /\ Fresh(snap)
    /\ ~dropped /\ ~cardChanged /\ wpc \notin Changing
         /\ upc \notin {"forget", "erase", "send"} => ServerKnows

\* Identifiers are stored from a broadcast with a card in it.
FillsCard == wpc \in {"arrived", "clear", "fill"} => report.type = 2

\* Without an overlap one SetNotice is in progress at most, and the flag is the
\* one for its level.
NoticeHeld ==
  ~clash =>
    /\ ~(wpc = "led" /\ upc = "led")
    /\ ~(wpc = "led" /\ dpc = "led")
    /\ ~(upc = "led" /\ dpc = "led")
    /\ wpc = "led" => (blinking <=> wlevel = 2)
    /\ upc = "led" => (blinking <=> ulevel = 2)
    /\ dpc = "led" => blinking
    /\ ~NoticeInProgress => (blinking <=> led = 2)

IInv ==
  /\ TypeOK
  /\ MarkStands
  /\ ReportFresh
  /\ FillsCard
  /\ OccupiedKnown
  /\ NoticeHeld

-----------------------------------------------------------------------------
(* The invariant holds initially. *)

LEMMA InitInv == Init => IInv
<1> SUFFICES ASSUME Init PROVE IInv
  OBVIOUS
<1>1. TypeOK
  <2>1. NothingTold \in Told /\ NoReport \in Reports
    BY DEF NothingTold, Told, NoReport, Reports, States, MaybeCard
  <2>2. 0 \in States /\ NoCard \in MaybeCard /\ 0 \in Levels
    BY DEF States, MaybeCard, Levels
  <2>3. /\ lastDoorState \in BOOLEAN /\ blinking \in BOOLEAN
        /\ cardChanged \in BOOLEAN
        /\ doorChanged \in BOOLEAN /\ seen \in BOOLEAN
    BY DEF Init
  <2>4. overlapped \in BOOLEAN /\ dropped \in BOOLEAN /\ clash \in BOOLEAN
    BY DEF Init
  <2>5. QED
    BY <2>1, <2>2, <2>3, <2>4 DEF Init, TypeOK
<1>2. MarkStands /\ FillsCard /\ NoticeHeld
  BY DEF Init, MarkStands, FillsCard, NoticeHeld, NoticeInProgress
<1>3. ReportFresh /\ OccupiedKnown
  BY DEF Init, ReportFresh, OccupiedKnown, ServerKnows, NothingTold, Changing,
         Reporting, CardArrival
<1>4. QED
  BY <1>1, <1>2, <1>3 DEF IInv

-----------------------------------------------------------------------------
(* Every step preserves each part of the invariant. *)

\* Every variable keeps its type.
LEMMA TypeStep == IInv /\ [Next]_vars => TypeOK'
<1> SUFFICES ASSUME IInv, [Next]_vars PROVE TypeOK'
  OBVIOUS
<1> USE UnitStatusAssumption DEF IInv, TypeOK, States, MaybeCard, Levels, Told,
       Changing, Reporting, unitVars, cardVars, noticeVars,
       workerVars, unitsVars, serverVars
<1>1. CASE \E r \in Reports : ReceiveChange(r)
  <2>1. PICK r \in Reports : ReceiveChange(r)
    BY <1>1
  <2>2. r.type \in 0..2
    BY DEF Reports
  <2>3. overlapped' \in BOOLEAN
    <3>1. CASE r.type = 1
      BY <2>1, <3>1 DEF ReceiveChange
    <3>2. CASE r.type # 1
      <4>1. overlapped' = (upc \in Reporting)
        BY <2>1, <3>2 DEF ReceiveChange
      <4>2. QED
        BY <4>1
    <3>3. QED
      BY <3>1, <3>2
  <2>4. wpc' \in {"left", "door", "arrived"}
    BY <2>1, <2>2 DEF ReceiveChange
  <2>5. QED
    BY <2>1, <2>2, <2>3, <2>4 DEF ReceiveChange
<1>2. CASE \E r \in Reports : ReceiveSame(r)
  BY <1>2 DEF ReceiveSame
<1>3. CASE \E level \in ServerLevels : ServerNotice(level)
  <2>1. PICK level \in ServerLevels : ServerNotice(level)
    BY <1>3
  <2>2. report' \in Reports
    BY <2>1 DEF ServerNotice, NoReport, Reports
  <2>3. QED
    BY <2>1, <2>2 DEF ServerNotice
<1>4. CASE ServerQuery
  BY <1>4 DEF ServerQuery
<1>5. CASE StoreLeft
  BY <1>5 DEF StoreLeft, CardLeft
<1>6. CASE StoreArrival
  BY <1>6 DEF StoreArrival, CardArrival
<1>7. CASE ClearIds
  BY <1>7 DEF ClearIds
<1>8. CASE FillIds
  <2>1. report.card \in MaybeCard
    BY DEF Reports
  <2>2. QED
    BY <1>8, <2>1 DEF FillIds
<1>9. CASE WorkerNotice
  <2>1. blinking' \in BOOLEAN /\ clash' \in BOOLEAN
    BY <1>9 DEF WorkerNotice, StartNotice, NoticeInProgress
  <2>2. QED
    BY <1>9, <2>1 DEF WorkerNotice, StartNotice
<1>10. CASE WorkerLed
  BY <1>10 DEF WorkerLed, FinishNotice
<1>11. CASE StoreDoor
  <2>1. report.door \in BOOLEAN /\ NoReport \in Reports
    BY DEF Reports, NoReport
  <2>2. QED
    BY <1>11, <2>1 DEF StoreDoor
<1>12. CASE MarkDoor
  BY <1>12 DEF MarkDoor
<1>13. CASE ReadDoorChanged
  BY <1>13 DEF ReadDoorChanged
<1>14. CASE ResetDoorChanged
  <2>1. upc' \in {"state", "card"}
    BY <1>14 DEF ResetDoorChanged
  <2>2. doorChanged' \in BOOLEAN /\ seen' \in BOOLEAN
    BY <1>14 DEF ResetDoorChanged
  <2>3. QED
    BY <1>14, <2>1, <2>2 DEF ResetDoorChanged
<1>15. CASE DoorIsClosed
  <2>1. blinking' \in BOOLEAN /\ clash' \in BOOLEAN
    BY <1>15 DEF DoorIsClosed, StartNotice, NoticeInProgress
  <2>2. QED
    BY <1>15, <2>1 DEF DoorIsClosed, StartNotice
<1>16. CASE DoorIsOpen
  BY <1>16 DEF DoorIsOpen
<1>17. CASE UnitsLed
  BY <1>17 DEF UnitsLed, FinishNotice
<1>18. CASE CardUnchanged
  BY <1>18 DEF CardUnchanged
<1>19. CASE CardHasChanged
  BY <1>19 DEF CardHasChanged
<1>20. CASE ReadState
  <2>1. overlapped' \in BOOLEAN
    BY <1>20 DEF ReadState
  <2>2. QED
    BY <1>20, <2>1 DEF ReadState
<1>21. CASE ReadIds
  BY <1>21 DEF ReadIds
<1>22. CASE ClearChanged
  <2>1. cardChanged' \in BOOLEAN
    BY <1>22 DEF ClearChanged
  <2>2. QED
    BY <1>22, <2>1 DEF ClearChanged
<1>23. CASE ForgetLeft
  BY <1>23 DEF ForgetLeft
<1>24. CASE EraseIds
  BY <1>24 DEF EraseIds
<1>25. CASE Send
  <2>1. snap' \in Told
    BY <1>25 DEF Send, NothingTold
  <2>2. server' \in Told /\ dropped' \in BOOLEAN
    BY <1>25 DEF Send
  <2>3. QED
    BY <1>25, <2>1, <2>2 DEF Send
<1>26. CASE DeskNotice
  <2>1. blinking' \in BOOLEAN /\ clash' \in BOOLEAN
    BY <1>26 DEF DeskNotice, StartNotice, NoticeInProgress
  <2>2. QED
    BY <1>26, <2>1 DEF DeskNotice, StartNotice
<1>27. CASE DeskLed
  BY <1>27 DEF DeskLed, FinishNotice
<1>28. CASE UNCHANGED vars
  BY <1>28 DEF vars
<1>29. QED
  BY <1>1, <1>2, <1>3, <1>4, <1>5, <1>6, <1>7, <1>8, <1>9, <1>10,
     <1>11, <1>12, <1>13, <1>14, <1>15, <1>16, <1>17, <1>18, <1>19,
     <1>20, <1>21, <1>22, <1>23, <1>24, <1>25, <1>26, <1>27, <1>28
  DEF Next, WorkerStep, UnitsStep, DeskStep

\* The mark: only UpdateUnits clears it.
LEMMA MarkStep == IInv /\ [Next]_vars => MarkStands'
<1> SUFFICES ASSUME IInv, [Next]_vars PROVE MarkStands'
  OBVIOUS
<1> USE DEF IInv, MarkStands, unitVars, cardVars, noticeVars, workerVars,
       unitsVars, serverVars
<1>1. CASE (\E r \in Reports : ReceiveChange(r)) \/ (\E r \in Reports :
            ReceiveSame(r)) \/ (\E level \in ServerLevels :
            ServerNotice(level)) \/ ServerQuery
  BY <1>1 DEF ReceiveChange, ReceiveSame, ServerNotice, ServerQuery
<1>2. CASE StoreLeft \/ StoreArrival \/ ClearIds \/ FillIds \/
            WorkerNotice \/ WorkerLed \/ StoreDoor \/
            MarkDoor
  BY <1>2 DEF StoreLeft, StoreArrival, ClearIds, FillIds, WorkerNotice,
     StartNotice, NoticeInProgress, WorkerLed, FinishNotice, StoreDoor,
     MarkDoor
<1>3. CASE ReadDoorChanged \/ ResetDoorChanged \/ DoorIsClosed \/
            DoorIsOpen \/ UnitsLed \/ CardUnchanged \/
            CardHasChanged \/ ReadState \/ ReadIds \/
            ClearChanged \/ ForgetLeft \/ EraseIds \/ Send
  BY <1>3 DEF ReadDoorChanged, ResetDoorChanged, DoorIsClosed,
     StartNotice, NoticeInProgress, DoorIsOpen, UnitsLed, FinishNotice,
     CardUnchanged, CardHasChanged, ReadState, ReadIds, ClearChanged,
     ForgetLeft, EraseIds, Send
<1>4. CASE DeskNotice \/ DeskLed
  BY <1>4 DEF DeskNotice, StartNotice, NoticeInProgress, DeskLed,
     FinishNotice
<1>5. CASE UNCHANGED vars
  BY <1>5 DEF vars
<1>6. QED
  BY <1>1, <1>2, <1>3, <1>4, <1>5
  DEF Next, WorkerStep, UnitsStep, DeskStep

\* A report under way.
LEMMA ReportStep == IInv /\ [Next]_vars => ReportFresh'
<1> SUFFICES ASSUME IInv, [Next]_vars PROVE ReportFresh'
  OBVIOUS
<1> USE DEF IInv, ReportFresh, MarkStands, Fresh, ServerKnows, Changing, Reporting,
       CardArrival, CardLeft, unitVars, cardVars, noticeVars, workerVars,
       unitsVars, serverVars
<1>1. CASE \E r \in Reports : ReceiveChange(r)
  <2>1. PICK r \in Reports : ReceiveChange(r)
    BY <1>1
  <2>2. r.type \in 0..2
    BY DEF Reports
  <2>3. CASE r.type = 1
    BY <2>1, <2>3 DEF ReceiveChange
  <2>4. CASE r.type # 1
    BY <2>1, <2>2, <2>4 DEF ReceiveChange
  <2>5. QED
    BY <2>3, <2>4
<1>2. CASE \E r \in Reports : ReceiveSame(r)
  BY <1>2 DEF ReceiveSame
<1>3. CASE \E level \in ServerLevels : ServerNotice(level)
  BY <1>3 DEF ServerNotice
<1>4. CASE ServerQuery
  BY <1>4 DEF ServerQuery
<1>5. CASE StoreLeft
  BY <1>5 DEF StoreLeft
<1>6. CASE StoreArrival
  BY <1>6 DEF StoreArrival
<1>7. CASE ClearIds
  BY <1>7 DEF ClearIds
<1>8. CASE FillIds
  BY <1>8 DEF FillIds
<1>9. CASE WorkerNotice
  BY <1>9 DEF WorkerNotice, StartNotice, NoticeInProgress
<1>10. CASE WorkerLed
  BY <1>10 DEF WorkerLed, FinishNotice
<1>11. CASE StoreDoor
  BY <1>11 DEF StoreDoor
<1>12. CASE MarkDoor
  BY <1>12 DEF MarkDoor
<1>13. CASE ReadDoorChanged
  BY <1>13 DEF ReadDoorChanged
<1>14. CASE ResetDoorChanged
  BY <1>14 DEF ResetDoorChanged
<1>15. CASE DoorIsClosed
  BY <1>15 DEF DoorIsClosed, StartNotice, NoticeInProgress
<1>16. CASE DoorIsOpen
  BY <1>16 DEF DoorIsOpen
<1>17. CASE UnitsLed
  BY <1>17 DEF UnitsLed, FinishNotice
<1>18. CASE CardUnchanged
  BY <1>18 DEF CardUnchanged
<1>19. CASE CardHasChanged
  BY <1>19 DEF CardHasChanged
<1>20. CASE ReadState
  <2>1. CASE wpc \in Changing
    BY <1>20, <2>1 DEF ReadState
  <2>2. CASE wpc \notin Changing
    <3>1. snap'.state = state
      BY <1>20 DEF ReadState, TypeOK, Told
    <3>2. QED
      BY <1>20, <2>2, <3>1 DEF ReadState
  <2>3. QED
    BY <2>1, <2>2
<1>21. CASE ReadIds
  BY <1>21 DEF ReadIds
<1>22. CASE ClearChanged
  BY <1>22 DEF ClearChanged
<1>23. CASE ForgetLeft
  BY <1>23 DEF ForgetLeft
<1>24. CASE EraseIds
  BY <1>24 DEF EraseIds
<1>25. CASE Send
  BY <1>25 DEF Send
<1>26. CASE DeskNotice
  BY <1>26 DEF DeskNotice, StartNotice, NoticeInProgress
<1>27. CASE DeskLed
  BY <1>27 DEF DeskLed, FinishNotice
<1>28. CASE UNCHANGED vars
  BY <1>28 DEF vars
<1>29. QED
  BY <1>1, <1>2, <1>3, <1>4, <1>5, <1>6, <1>7, <1>8, <1>9, <1>10,
     <1>11, <1>12, <1>13, <1>14, <1>15, <1>16, <1>17, <1>18, <1>19,
     <1>20, <1>21, <1>22, <1>23, <1>24, <1>25, <1>26, <1>27, <1>28
  DEF Next, WorkerStep, UnitsStep, DeskStep

\* A broadcast with a card in it.
LEMMA FillsStep == IInv /\ [Next]_vars => FillsCard'
<1> SUFFICES ASSUME IInv, [Next]_vars PROVE FillsCard'
  OBVIOUS
<1> USE DEF IInv, FillsCard, unitVars, cardVars, noticeVars, workerVars,
       unitsVars, serverVars
<1>1. CASE \E r \in Reports : ReceiveChange(r)
  <2>1. PICK r \in Reports : ReceiveChange(r)
    BY <1>1
  <2>2. r.type \in 0..2
    BY DEF Reports
  <2>3. QED
    BY <2>1, <2>2 DEF ReceiveChange
<1>2. CASE (\E r \in Reports : ReceiveSame(r)) \/ (\E level \in
            ServerLevels : ServerNotice(level)) \/
            ServerQuery
  BY <1>2 DEF ReceiveSame, ServerNotice, ServerQuery
<1>3. CASE StoreLeft \/ StoreArrival \/ ClearIds \/ FillIds \/
            WorkerNotice \/ WorkerLed \/ StoreDoor \/
            MarkDoor
  BY <1>3 DEF StoreLeft, StoreArrival, ClearIds, FillIds, WorkerNotice,
     StartNotice, NoticeInProgress, WorkerLed, FinishNotice, StoreDoor,
     MarkDoor
<1>4. CASE ReadDoorChanged \/ ResetDoorChanged \/ DoorIsClosed \/
            DoorIsOpen \/ UnitsLed \/ CardUnchanged \/
            CardHasChanged \/ ReadState \/ ReadIds \/
            ClearChanged \/ ForgetLeft \/ EraseIds \/ Send
  BY <1>4 DEF ReadDoorChanged, ResetDoorChanged, DoorIsClosed,
     StartNotice, NoticeInProgress, DoorIsOpen, UnitsLed, FinishNotice,
     CardUnchanged, CardHasChanged, ReadState, ReadIds, ClearChanged,
     ForgetLeft, EraseIds, Send
<1>5. CASE DeskNotice \/ DeskLed
  BY <1>5 DEF DeskNotice, StartNotice, NoticeInProgress, DeskLed,
     FinishNotice
<1>6. CASE UNCHANGED vars
  BY <1>6 DEF vars
<1>7. QED
  BY <1>1, <1>2, <1>3, <1>4, <1>5, <1>6
  DEF Next, WorkerStep, UnitsStep, DeskStep

\* A card that arrived has its identifier.
LEMMA OccupiedStep == IInv /\ [Next]_vars => OccupiedKnown'
<1> SUFFICES ASSUME IInv, [Next]_vars PROVE OccupiedKnown'
  OBVIOUS
<1> USE DEF IInv, OccupiedKnown, ReportFresh, Changing, Reporting, CardArrival,
       CardLeft, unitVars, cardVars, noticeVars, workerVars, unitsVars,
       serverVars
<1>1. CASE \E r \in Reports : ReceiveChange(r)
  <2>1. PICK r \in Reports : ReceiveChange(r)
    BY <1>1
  <2>2. r.type \in 0..2
    BY DEF Reports
  <2>3. QED
    BY <2>1, <2>2 DEF ReceiveChange
<1>2. CASE (\E r \in Reports : ReceiveSame(r)) \/ (\E level \in
            ServerLevels : ServerNotice(level)) \/
            ServerQuery
  BY <1>2 DEF ReceiveSame, ServerNotice, ServerQuery
<1>3. CASE StoreLeft
  BY <1>3 DEF StoreLeft
<1>4. CASE StoreArrival
  BY <1>4 DEF StoreArrival
<1>5. CASE ClearIds
  BY <1>5 DEF ClearIds
<1>6. CASE FillIds
  <2>1. report.card # NoCard
    BY <1>6, UnitStatusAssumption DEF FillIds, FillsCard, TypeOK, Reports
  <2>2. QED
    BY <1>6, <2>1 DEF FillIds
<1>7. CASE WorkerNotice
  BY <1>7 DEF WorkerNotice, StartNotice, NoticeInProgress
<1>8. CASE WorkerLed
  BY <1>8 DEF WorkerLed, FinishNotice
<1>9. CASE StoreDoor
  BY <1>9 DEF StoreDoor
<1>10. CASE MarkDoor
  BY <1>10 DEF MarkDoor
<1>11. CASE ReadDoorChanged
  BY <1>11 DEF ReadDoorChanged
<1>12. CASE ResetDoorChanged
  BY <1>12 DEF ResetDoorChanged
<1>13. CASE DoorIsClosed
  BY <1>13 DEF DoorIsClosed, StartNotice, NoticeInProgress
<1>14. CASE DoorIsOpen
  BY <1>14 DEF DoorIsOpen
<1>15. CASE UnitsLed
  BY <1>15 DEF UnitsLed, FinishNotice
<1>16. CASE CardUnchanged
  BY <1>16 DEF CardUnchanged
<1>17. CASE CardHasChanged
  BY <1>17 DEF CardHasChanged
<1>18. CASE ReadState
  BY <1>18 DEF ReadState
<1>19. CASE ReadIds
  BY <1>19 DEF ReadIds
<1>20. CASE ClearChanged
  BY <1>20 DEF ClearChanged
<1>21. CASE ForgetLeft
  BY <1>21 DEF ForgetLeft
<1>22. CASE EraseIds
  BY <1>22 DEF EraseIds
<1>23. CASE Send
  BY <1>23 DEF Send
<1>24. CASE DeskNotice \/ DeskLed
  BY <1>24 DEF DeskNotice, StartNotice, NoticeInProgress, DeskLed,
     FinishNotice
<1>25. CASE UNCHANGED vars
  BY <1>25 DEF vars
<1>26. QED
  BY <1>1, <1>2, <1>3, <1>4, <1>5, <1>6, <1>7, <1>8, <1>9, <1>10,
     <1>11, <1>12, <1>13, <1>14, <1>15, <1>16, <1>17, <1>18, <1>19,
     <1>20, <1>21, <1>22, <1>23, <1>24, <1>25
  DEF Next, WorkerStep, UnitsStep, DeskStep

\* The flag and the level.
LEMMA NoticeStep == IInv /\ [Next]_vars => NoticeHeld'
<1> SUFFICES ASSUME IInv, [Next]_vars PROVE NoticeHeld'
  OBVIOUS
<1> USE DEF IInv, NoticeHeld, NoticeInProgress, unitVars, cardVars, noticeVars,
       workerVars, unitsVars, serverVars
<1>1. CASE \E r \in Reports : ReceiveChange(r)
  <2>1. PICK r \in Reports : ReceiveChange(r)
    BY <1>1
  <2>2. r.type \in 0..2
    BY DEF Reports
  <2>3. wpc = "idle" /\ wpc' # "led"
    BY <2>1, <2>2 DEF ReceiveChange
  <2>4. QED
    BY <2>1, <2>3 DEF ReceiveChange
<1>2. CASE (\E r \in Reports : ReceiveSame(r)) \/ (\E level \in
            ServerLevels : ServerNotice(level)) \/
            ServerQuery
  BY <1>2 DEF ReceiveSame, ServerNotice, ServerQuery
<1>3. CASE StoreLeft \/ StoreArrival \/ ClearIds \/ FillIds
  BY <1>3 DEF StoreLeft, StoreArrival, ClearIds, FillIds
<1>4. CASE WorkerNotice
  <2>1. wlevel >= 2 <=> wlevel = 2
    BY DEF TypeOK, Levels
  <2>2. blinking' <=> wlevel = 2
    BY <1>4, <2>1 DEF WorkerNotice, StartNotice
  <2>3. QED
    BY <1>4, <2>2 DEF WorkerNotice, StartNotice
<1>5. CASE WorkerLed
  BY <1>5 DEF WorkerLed, FinishNotice
<1>6. CASE StoreDoor \/ MarkDoor
  BY <1>6 DEF StoreDoor, MarkDoor
<1>7. CASE ReadDoorChanged \/ ResetDoorChanged
  BY <1>7 DEF ReadDoorChanged, ResetDoorChanged
<1>8. CASE DoorIsClosed
  <2>1. blinking' = (ulevel' >= 2) /\ ulevel' \in {0, 1}
    BY <1>8 DEF DoorIsClosed, StartNotice
  <2>2. ~(ulevel' >= 2) /\ ulevel' # 2
    BY <2>1
  <2>3. ~blinking'
    BY <2>1, <2>2
  <2>4. QED
    BY <1>8, <2>2, <2>3 DEF DoorIsClosed, StartNotice
<1>9. CASE DoorIsOpen \/ CardUnchanged \/ CardHasChanged \/ ReadState
            \/ ReadIds \/ ClearChanged \/ ForgetLeft \/
            EraseIds \/ Send
  BY <1>9 DEF DoorIsOpen, CardUnchanged, CardHasChanged, ReadState,
     ReadIds, ClearChanged, ForgetLeft, EraseIds, Send
<1>10. CASE UnitsLed
  BY <1>10 DEF UnitsLed, FinishNotice
<1>11. CASE DeskNotice
  <2>1. blinking'
    <3>1. blinking' = (2 >= 2)
      BY <1>11 DEF DeskNotice, StartNotice
    <3>2. 2 >= 2
      OBVIOUS
    <3>3. QED
      BY <3>1, <3>2
  <2>2. QED
    BY <1>11, <2>1 DEF DeskNotice, StartNotice
<1>12. CASE DeskLed
  BY <1>12 DEF DeskLed, FinishNotice
<1>13. CASE UNCHANGED vars
  BY <1>13 DEF vars
<1>14. QED
  BY <1>1, <1>2, <1>3, <1>4, <1>5, <1>6, <1>7, <1>8, <1>9, <1>10,
     <1>11, <1>12, <1>13
  DEF Next, WorkerStep, UnitsStep, DeskStep

-----------------------------------------------------------------------------
(* Theorems. *)

\* The inductive invariant is an invariant of the specification.
THEOREM Invariance == Spec => []IInv
<1>1. IInv /\ [Next]_vars => IInv'
  BY TypeStep, MarkStep, ReportStep, FillsStep, OccupiedStep, NoticeStep DEF IInv
<1>2. QED
  BY InitInv, <1>1, PTL DEF Spec

\* What the controller keeps of a unit, and what each thread holds of it, keeps
\* its type under every interleaving.
THEOREM TypeCorrect == Spec => []TypeOK
<1>1. IInv => TypeOK
  BY DEF IInv
<1>2. QED
  BY Invariance, <1>1, PTL

\* The server knows the card once nothing is marked or under way, unless a
\* report was not sent or overlapped a change.
THEOREM ServerIsTold == Spec => []ServerTold
<1>1. IInv => ServerTold
  BY DEF IInv, ReportFresh, ServerTold, Reporting
<1>2. QED
  BY Invariance, <1>1, PTL

\* A card that arrived has its identifier, unless UpdateCard overlapped.
THEOREM OccupiedIsKnown == Spec => []OccupiedKnown
<1>1. IInv => OccupiedKnown
  BY DEF IInv
<1>2. QED
  BY Invariance, <1>1, PTL

\* The flag that suppresses blinking agrees with the level handed over, unless
\* two calls of SetNotice overlapped.
THEOREM NoticesAgree == Spec => []NoticeAgrees
<1>1. IInv => NoticeAgrees
  BY DEF IInv, NoticeHeld, NoticeAgrees
<1>2. QED
  BY Invariance, <1>1, PTL
===============================================================================
