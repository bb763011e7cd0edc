------------------------------ MODULE LockerDesk ------------------------------
(***************************************************************************)
(* Which prescription is in which unit: the commands that are scanned or    *)
(* come from the server (ReadKBLine in main.cpp), UnitManager's searches,   *)
(* SetPresId with its copy in flash, NoticeFromMemory after a restart, and  *)
(* the cards and tags that fill and empty units by themselves.              *)
(*                                                                         *)
(* Three threads: the keyboard's runs commands; UpdateWorker runs the       *)
(* server's, takes the units' broadcasts and registers units; UpdateUnits   *)
(* forgets what a card that left had brought (UpdateCard).  There is no     *)
(* lock.                                                                    *)
(*                                                                         *)
(* A search of the units is one step, and so is a loop that programs the    *)
(* bytes of a prescription; prescriptions have one length.  Whether the     *)
(* player is busy, which only turns commands away, and CommandState, which  *)
(* decides whether a scan is a deposit or a fetch, are left out: a command  *)
(* may begin at any time.  UnitStatus has the flags and the LED, CanDevice  *)
(* the writes that open a door.  PrepareWriteFlash is one step here and     *)
(* touches its own unit's page only.                                        *)
(***************************************************************************)
EXTENDS Integers, Sequences, FiniteSetsExt

CONSTANTS
  Units,          \* numbers of the units, in the order of UnitManager's map
  CardUnits,      \* the units that cards and tags come to
  Prescriptions,
  Worker,         \* UpdateWorker
  Keyboard,       \* KeyRead_Thread
  Blank,          \* erased bytes of flash
  Junk,           \* bytes that are no prescription
  WorkerGoals,    \* bound of the model: what the server commands
  MaxRestarts     \* bound of the model: restarts in a behaviour

ASSUME LockerDeskAssumption ==
  /\ Units \subseteq Nat /\ CardUnits \subseteq Units
  /\ Worker # Keyboard
  /\ Blank \notin Prescriptions /\ Junk \notin Prescriptions /\ Blank # Junk
  /\ WorkerGoals \subseteq {"deposit", "fetch", "clear"}
  /\ MaxRestarts \in Nat

Threads == {Worker, Keyboard}

VARIABLES
  known,            \* the units in UnitManager's map
  PresId,           \* card->PresId
  IsRfid,           \* card->CardId is not empty
  left,             \* card->State is CardLeft
  lastType,         \* lastCardType
  changed,          \* cardChanged
  length, bytes,    \* flash: the first byte of a unit's page, and the others
  pc,               \* per thread: its place
  goal, pres,       \* per thread: what its command is, and for which prescription
  todo,             \* per thread: the units it still has to open
  upc, visited,     \* UpdateUnits: its place and the unit
  restarts,
  stale,            \* history, per thread: another thread has changed which
                    \* unit has what since this one began
  clash             \* history, per unit: two threads were about its page at once

unitVars    == <<PresId, IsRfid, left, lastType, changed>>
flashVars   == <<length, bytes>>
commandVars == <<goal, pres, todo>>
unitsVars   == <<upc, visited>>
vars == <<known, PresId, IsRfid, left, lastType, changed, length, bytes, pc, goal,
          pres, todo, upc, visited, restarts, stale, clash>>

Nothing == Blank                       \* no prescription in a thread's hands
Writing == {"prepare", "length", "bytes"}
Places == {"idle", "find", "empty", "open", "rfid", "store", "fill", "notice"} \cup Writing
Goals == {"none", "deposit", "fetch", "clear"}

TypeOK ==
  /\ known \in SUBSET Units
  /\ PresId \in [Units -> Seq(Prescriptions \cup {Junk})]
  /\ IsRfid \in [Units -> BOOLEAN] /\ left \in [Units -> BOOLEAN]
  /\ lastType \in [Units -> 0..2] /\ changed \in [Units -> BOOLEAN]
  /\ length \in [Units -> {"blank", "zero", "some"}]
  /\ bytes \in [Units -> Prescriptions \cup {Blank, Junk}]
  /\ pc \in [Threads -> Places] /\ goal \in [Threads -> Goals]
  /\ pres \in [Threads -> Prescriptions \cup {Nothing}]
  /\ todo \in [Threads -> SUBSET Units]
  /\ upc \in {"idle", "check", "ids", "pres"} /\ visited \in SUBSET Units
  /\ restarts \in 0..MaxRestarts
  /\ stale \in [Threads -> BOOLEAN] /\ clash \in [Units -> BOOLEAN]

\* The units, and nothing in their pages.
Start ==
  /\ known = {}
  /\ PresId = [u \in Units |-> <<>>]
  /\ IsRfid = [u \in Units |-> FALSE] /\ left = [u \in Units |-> FALSE]
  /\ lastType = [u \in Units |-> 0] /\ changed = [u \in Units |-> FALSE]
  /\ pc = [t \in Threads |-> "idle"] /\ goal = [t \in Threads |-> "none"]
  /\ pres = [t \in Threads |-> Nothing] /\ todo = [t \in Threads |-> {}]
  /\ upc = "idle" /\ visited = {}
  /\ stale = [t \in Threads |-> FALSE]

Init ==
  /\ Start
  /\ length = [u \in Units |-> "blank"] /\ bytes = [u \in Units |-> Blank]
  /\ restarts = 0 /\ clash = [u \in Units |-> FALSE]

-----------------------------------------------------------------------------
(* Helpers. *)

\* The searches go through the map in the order of the units' numbers.
Holders(p) == {u \in known : PresId[u] = <<p>>}
Empties == {u \in known : PresId[u] = <<>>}

\* The unit whose turn it is.
Turn(t) == Min(todo[t])

\* What a unit has changes while the other threads are about their commands.
Disturb(t) == stale' = [s \in Threads |-> pc'[s] # "idle" /\ (stale[s] \/ s # t)]

\* It stays the same.
Calm == stale' = [s \in Threads |-> pc'[s] # "idle" /\ stale[s]]

\* A thread is about to change what a unit has, or is changing it.
About(t, u) ==
  /\ pc[t] \in {"store", "notice", "fill"} \cup Writing
  /\ todo[t] # {} /\ Turn(t) = u

Crossing(t, u) == \E s \in Threads \ {t} : About(s, u)

\* The thread is done with its command.
Done(t) ==
  /\ pc' = [pc EXCEPT ![t] = "idle"]
  /\ goal' = [goal EXCEPT ![t] = "none"]
  /\ pres' = [pres EXCEPT ![t] = Nothing]
  /\ todo' = [todo EXCEPT ![t] = {}]

Goto(t, place) ==
  /\ pc' = [pc EXCEPT ![t] = place]
  /\ UNCHANGED commandVars

\* The thread turns to a unit that its search has found.
TurnTo(t, u, place) ==
  /\ pc' = [pc EXCEPT ![t] = place]
  /\ todo' = [todo EXCEPT ![t] = {u}]
  /\ UNCHANGED <<goal, pres>>

\* Open one, open all: on to the next unit, or done.
NextUnit(t) ==
  IF todo[t] = {Turn(t)}
  THEN Done(t)
  ELSE /\ pc' = [pc EXCEPT ![t] = "open"]
       /\ todo' = [todo EXCEPT ![t] = @ \ {Turn(t)}]
       /\ UNCHANGED <<goal, pres>>

-----------------------------------------------------------------------------
(* ReadKBLine. *)

\* MAN PUTID, or a scan after MAN PUT; or a scan alone.
Begin(t, g, p) ==
  /\ pc[t] = "idle"
  /\ pc' = [pc EXCEPT ![t] = "find"]
  /\ goal' = [goal EXCEPT ![t] = g]
  /\ pres' = [pres EXCEPT ![t] = p]
  /\ UNCHANGED <<known, unitVars, flashVars, todo, unitsVars, restarts, stale, clash>>

\* MAN OPEN with a number, and MAN OPEN ALL, which works on a copy of the map.
BeginOpen(t, units) ==
  /\ pc[t] = "idle"
  /\ units # {}
  /\ pc' = [pc EXCEPT ![t] = "open"]
  /\ goal' = [goal EXCEPT ![t] = "clear"]
  /\ todo' = [todo EXCEPT ![t] = units]
  /\ UNCHANGED <<known, unitVars, flashVars, pres, unitsVars, restarts, stale, clash>>

\* Variant for the checks: a deposit looks for an empty unit only.
FindHolderBlind(t) ==
  /\ pc[t] = "find"
  /\ IF goal[t] = "deposit"
     THEN Goto(t, "empty")
     ELSE IF Holders(pres[t]) = {}
          THEN Done(t)
          ELSE TurnTo(t, Min(Holders(pres[t])), "open")
  /\ Calm
  /\ UNCHANGED <<known, unitVars, flashVars, unitsVars, restarts, clash>>

\* Variant for the checks: a fetch takes any unit that is not empty.
FindHolderAny(t) ==
  /\ pc[t] = "find"
  /\ IF goal[t] = "deposit"
     THEN IF Holders(pres[t]) = {} THEN Goto(t, "empty") ELSE Done(t)
     ELSE IF known = Empties
          THEN Done(t)
          ELSE TurnTo(t, Min(known \ Empties), "open")
  /\ Calm
  /\ UNCHANGED <<known, unitVars, flashVars, unitsVars, restarts, clash>>

\* FindUnit: a prescription that is there already is not deposited again; one
\* that is nowhere cannot be fetched.
FindHolder(t) ==
  /\ pc[t] = "find"
  /\ IF goal[t] = "deposit"
     THEN IF Holders(pres[t]) = {} THEN Goto(t, "empty") ELSE Done(t)
     ELSE IF Holders(pres[t]) = {}
          THEN Done(t)
          ELSE TurnTo(t, Min(Holders(pres[t])), "open")
  /\ Calm
  /\ UNCHANGED <<known, unitVars, flashVars, unitsVars, restarts, clash>>

\* FindEmptyUnit.
FindEmpty(t) ==
  /\ pc[t] = "empty"
  /\ IF Empties = {}
     THEN Done(t) /\ UNCHANGED clash
     ELSE LET u == Min(Empties)
          IN  /\ TurnTo(t, u, "store")
              /\ clash' = [clash EXCEPT ![u] = @ \/ Crossing(t, u)]
  /\ Calm
  /\ UNCHANGED <<known, unitVars, flashVars, unitsVars, restarts>>

\* SetNotice and OpenDoor; the last thing a deposit does.
Open(t) ==
  /\ pc[t] = "open"
  /\ IF goal[t] = "deposit" THEN Done(t) ELSE Goto(t, "rfid")
  /\ Calm
  /\ UNCHANGED <<known, unitVars, flashVars, unitsVars, restarts, clash>>

\* A unit without a card is emptied.
CheckRfid(t) ==
  /\ pc[t] = "rfid"
  /\ IF IsRfid[Turn(t)]
     THEN NextUnit(t) /\ UNCHANGED clash
     ELSE /\ Goto(t, "store")
          /\ clash' = [clash EXCEPT ![Turn(t)] = @ \/ Crossing(t, Turn(t))]
  /\ Calm
  /\ UNCHANGED <<known, unitVars, flashVars, unitsVars, restarts>>

-----------------------------------------------------------------------------
(* SetPresId: memory first, then flash. *)

Store(t) ==
  /\ pc[t] = "store"
  /\ PresId' = [PresId EXCEPT ![Turn(t)] =
                  IF goal[t] = "deposit" THEN <<pres[t]>> ELSE <<>>]
  /\ Goto(t, "prepare")
  /\ Disturb(t)
  /\ UNCHANGED <<known, IsRfid, left, lastType, changed, flashVars, unitsVars,
                 restarts, clash>>

\* Variant for the checks: the page is not erased.
PrepareNothing(t) ==
  /\ pc[t] = "prepare"
  /\ UNCHANGED flashVars
  /\ Goto(t, "length")
  /\ UNCHANGED <<known, unitVars, unitsVars, restarts, stale, clash>>

\* PrepareWriteFlash, unless the page is erased.
Prepare(t) ==
  /\ pc[t] = "prepare"
  /\ IF length[Turn(t)] = "blank"
     THEN UNCHANGED flashVars
     ELSE /\ length' = [length EXCEPT ![Turn(t)] = "blank"]
          /\ bytes' = [bytes EXCEPT ![Turn(t)] = Blank]
  /\ Goto(t, "length")
  /\ UNCHANGED <<known, unitVars, unitsVars, restarts, stale, clash>>

\* Programming clears bits only.
ProgramLength(t) ==
  /\ pc[t] = "length"
  /\ length' = [length EXCEPT ![Turn(t)] =
                  IF goal[t] = "deposit" /\ @ # "zero" THEN "some" ELSE "zero"]
  /\ IF goal[t] = "deposit" THEN Goto(t, "bytes") ELSE NextUnit(t)
  /\ Calm
  /\ UNCHANGED <<known, unitVars, bytes, unitsVars, restarts, clash>>

ProgramBytes(t) ==
  /\ pc[t] = "bytes"
  /\ bytes' = [bytes EXCEPT ![Turn(t)] = IF @ \in {Blank, pres[t]} THEN pres[t] ELSE Junk]
  /\ Goto(t, "open")
  /\ UNCHANGED <<known, unitVars, length, unitsVars, restarts, stale, clash>>

-----------------------------------------------------------------------------
(* UpdateWorker: new units, and the cards and tags that a unit reports. *)

\* Variant for the checks: an erased page is read as well.
MemoryErased(u) ==
  IF length[u] = "zero" THEN <<>> ELSE <<bytes[u]>>

\* What NoticeFromMemory reads.
Memory(u) ==
  IF length[u] # "some" THEN <<>>
  ELSE IF bytes[u] \in Prescriptions THEN <<bytes[u]>> ELSE <<Junk>>

\* UpdateWorker is about the unit next.
Attend(u, place) ==
  /\ pc[Worker] = "idle"
  /\ pc' = [pc EXCEPT ![Worker] = place]
  /\ todo' = [todo EXCEPT ![Worker] = {u}]
  /\ clash' = [clash EXCEPT ![u] = @ \/ Crossing(Worker, u)]
  /\ UNCHANGED goal

\* HeartbeatArrival: the unit can be found before its memory has been read.
Register(u) ==
  /\ u \notin known
  /\ known' = known \cup {u}
  /\ Attend(u, "notice")
  /\ Disturb(Worker)
  /\ UNCHANGED <<unitVars, flashVars, pres, unitsVars, restarts>>

NoticeFromMemory ==
  /\ pc[Worker] = "notice"
  /\ PresId' = [PresId EXCEPT ![Turn(Worker)] = @ \o Memory(Turn(Worker))]
  /\ Done(Worker)
  /\ Disturb(Worker)
  /\ UNCHANGED <<known, IsRfid, left, lastType, changed, flashVars, unitsVars,
                 restarts, clash>>

\* Variant for the checks: what the unit had is not cleared before.
CardArrivesUncleared(u, p) ==
  /\ u \in known /\ lastType[u] # 2
  /\ Attend(u, "fill")
  /\ lastType' = [lastType EXCEPT ![u] = 2]
  /\ changed' = [changed EXCEPT ![u] = TRUE]
  /\ left' = [left EXCEPT ![u] = FALSE]
  /\ IsRfid' = [IsRfid EXCEPT ![u] = FALSE]
  /\ UNCHANGED PresId
  /\ pres' = [pres EXCEPT ![Worker] = p]
  /\ Disturb(Worker)
  /\ UNCHANGED <<known, flashVars, unitsVars, restarts>>

\* ProcessRecievedEvent: the identifiers of the last card go, then those of
\* the new one are stored.
CardArrives(u, p) ==
  /\ u \in known /\ lastType[u] # 2
  /\ Attend(u, "fill")
  /\ lastType' = [lastType EXCEPT ![u] = 2]
  /\ changed' = [changed EXCEPT ![u] = TRUE]
  /\ left' = [left EXCEPT ![u] = FALSE]
  /\ IsRfid' = [IsRfid EXCEPT ![u] = FALSE]
  /\ PresId' = [PresId EXCEPT ![u] = <<>>]
  /\ pres' = [pres EXCEPT ![Worker] = p]
  /\ Disturb(Worker)
  /\ UNCHANGED <<known, flashVars, unitsVars, restarts>>

Fill ==
  /\ pc[Worker] = "fill"
  /\ IsRfid' = [IsRfid EXCEPT ![Turn(Worker)] = TRUE]
  /\ PresId' = [PresId EXCEPT ![Turn(Worker)] = Append(@, pres[Worker])]
  /\ Done(Worker)
  /\ Disturb(Worker)
  /\ UNCHANGED <<known, left, lastType, changed, flashVars, unitsVars, restarts,
                 clash>>

\* A card or a tag has left; or a tag without a prescription has come.
CardLeaves(u) ==
  /\ pc[Worker] = "idle"
  /\ u \in known /\ lastType[u] # 0
  /\ lastType' = [lastType EXCEPT ![u] = 0]
  /\ changed' = [changed EXCEPT ![u] = TRUE]
  /\ left' = [left EXCEPT ![u] = TRUE]
  /\ UNCHANGED <<known, PresId, IsRfid, flashVars, pc, commandVars, unitsVars,
                 restarts, stale, clash>>

TagArrives(u) ==
  /\ pc[Worker] = "idle"
  /\ u \in known /\ lastType[u] # 1
  /\ lastType' = [lastType EXCEPT ![u] = 1]
  /\ changed' = [changed EXCEPT ![u] = TRUE]
  /\ UNCHANGED <<known, PresId, IsRfid, left, flashVars, pc, commandVars,
                 unitsVars, restarts, stale, clash>>

-----------------------------------------------------------------------------
(* UpdateUnits: UpdateCard, at the end of a report. *)

Visit(u) ==
  /\ upc = "idle"
  /\ u \in known /\ changed[u]
  /\ changed' = [changed EXCEPT ![u] = FALSE]
  /\ upc' = "check" /\ visited' = {u}
  /\ UNCHANGED <<known, PresId, IsRfid, left, lastType, flashVars, pc, commandVars,
                 restarts, stale, clash>>

StillThere(u) ==
  /\ upc = "check" /\ visited = {u}
  /\ ~left[u]
  /\ upc' = "idle" /\ visited' = {}
  /\ UNCHANGED <<known, unitVars, flashVars, pc, commandVars, restarts, stale, clash>>

ForgetCard(u) ==
  /\ upc = "check" /\ visited = {u}
  /\ left[u]
  /\ upc' = "ids"
  /\ UNCHANGED <<known, unitVars, flashVars, pc, commandVars, visited, restarts,
                 stale, clash>>

ForgetCardId(u) ==
  /\ upc = "ids" /\ visited = {u}
  /\ IsRfid' = [IsRfid EXCEPT ![u] = FALSE]
  /\ upc' = "pres"
  /\ UNCHANGED <<known, PresId, left, lastType, changed, flashVars, pc, commandVars,
                 visited, restarts, stale, clash>>

ForgetPresId(u) ==
  /\ upc = "pres" /\ visited = {u}
  /\ PresId' = [PresId EXCEPT ![u] = <<>>]
  /\ upc' = "idle" /\ visited' = {}
  /\ stale' = [t \in Threads |-> stale[t] \/ pc[t] # "idle"]
  /\ UNCHANGED <<known, IsRfid, left, lastType, changed, flashVars, pc, commandVars,
                 restarts, clash>>

-----------------------------------------------------------------------------
\* Power is lost at any time; flash stays as it is.
Restart ==
  /\ restarts < MaxRestarts
  /\ restarts' = restarts + 1
  /\ known' = {}
  /\ PresId' = [u \in Units |-> <<>>]
  /\ IsRfid' = [u \in Units |-> FALSE] /\ left' = [u \in Units |-> FALSE]
  /\ lastType' = [u \in Units |-> 0] /\ changed' = [u \in Units |-> FALSE]
  /\ pc' = [t \in Threads |-> "idle"] /\ goal' = [t \in Threads |-> "none"]
  /\ pres' = [t \in Threads |-> Nothing] /\ todo' = [t \in Threads |-> {}]
  /\ upc' = "idle" /\ visited' = {}
  /\ stale' = [t \in Threads |-> FALSE]
  /\ UNCHANGED <<flashVars, clash>>

Command(t) ==
  \/ /\ t = Worker => "deposit" \in WorkerGoals
     /\ \E p \in Prescriptions : Begin(t, "deposit", p)
  \/ /\ t = Worker => "fetch" \in WorkerGoals
     /\ \E p \in Prescriptions : Begin(t, "fetch", p)
  \/ /\ t = Worker => "clear" \in WorkerGoals
     /\ (BeginOpen(t, known) \/ \E u \in known : BeginOpen(t, {u}))
  \/ FindHolder(t) \/ FindEmpty(t) \/ Open(t) \/ CheckRfid(t)
  \/ Store(t) \/ Prepare(t) \/ ProgramLength(t) \/ ProgramBytes(t)

Next ==
  \/ \E t \in Threads : Command(t)
  \/ \E u \in Units : Register(u)
  \/ NoticeFromMemory
  \/ \E u \in CardUnits :
       \/ \E p \in Prescriptions : CardArrives(u, p)
       \/ CardLeaves(u) \/ TagArrives(u)
       \/ Visit(u) \/ StillThere(u)
       \/ ForgetCard(u) \/ ForgetCardId(u) \/ ForgetPresId(u)
  \/ Fill
  \/ Restart

Spec == Init /\ [][Next]_vars

-----------------------------------------------------------------------------
(* Properties. *)

\* No card and no tag has been in the unit since the start.
Untouched(u) == lastType[u] = 0 /\ ~left[u]

\* What a restart would find is what the unit has: SetPresId's two stores
\* agree whenever nobody is about the unit, unless two threads were at once, or
\* a card or a tag came, of which flash is not told.
MemoryAgrees ==
  \A u \in known :
    Memory(u) = PresId[u] \/ clash[u] \/ ~Untouched(u) \/ \E t \in Threads : About(t, u)

\* Although NoticeFromMemory and ProcessRecievedEvent append, a unit has one
\* prescription at most, unless two threads were about it at once.
OnePrescription == \A u \in known : Len(PresId[u]) <= 1 \/ clash[u]

\* A deposit goes into an empty unit, and its prescription is nowhere else,
\* unless something has changed since it looked.
DepositSafe ==
  [][\A t \in Threads :
       pc[t] = "store" /\ pc'[t] # "store" /\ goal[t] = "deposit" =>
         stale[t] \/ known' = {} \/ (Turn(t) \in Empties /\ Holders(pres[t]) = {})]_vars

\* The door that a deposit or a fetch opens is that of the unit with the
\* prescription, unless something has changed since it looked.
RightDoor ==
  [][\A t \in Threads :
       pc[t] = "open" /\ pc'[t] # "open" /\ goal[t] \in {"deposit", "fetch"} =>
         stale[t] \/ known' = {} \/ Turn(t) \in Holders(pres[t])]_vars

\* The same where cards and tags come too: what they bring and what commands
\* store do not mix, flash agrees where no card or tag has been, and deposits
\* and doors are right (ReadKBLine, ProcessRecievedEvent, UpdateCard).
CardsSafe ==
  /\ [](OnePrescription /\ MemoryAgrees)
  /\ DepositSafe
  /\ RightDoor
===============================================================================
