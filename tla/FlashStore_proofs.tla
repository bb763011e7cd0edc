--------------------------- MODULE FlashStore_proofs ---------------------------
(***************************************************************************)
(* Proofs about FlashStore, for any number of units, any values and any     *)
(* number of changes and losses of power.                                   *)
(*                                                                         *)
(* The properties look at whole sectors, so the inductive invariant has to  *)
(* say of every cell where its value is at each place of a change (Held),   *)
(* and that a page whose length is erased has no bytes (Ordered), since     *)
(* SetPresId looks at the length only before it programs both.              *)
(***************************************************************************)
EXTENDS FlashStore, TLAPS

Rest(t) == Cells \ Part(job[t].part)
Same(s, r) == \A c \in Cells : s[c] = r[c]
Clean(s) == \A c \in Cells : s[c] # Junk
Ordered(s) == \A u \in Units : s[PagePart(u)] = Blank => s[PagePart(u) + 1] = Blank

Quiet == boot # "up" => \A t \in Threads : ~Active(t)
AtFirst == \A t \in Threads : pc[t] \notin CopyPlaces => pos[t] = 1

Solo == \A t, o \in Threads : Active(t) /\ Active(o) => t = o

\* The first use: what is still to be programmed is blank.
SettingUp ==
  /\ boot \notin {"read", "up"} => ~locked
  /\ boot = "identify" => user[1] = Blank
  /\ boot \in {"identify", "mac"} => user[2] = Blank
  /\ boot \in {"identify", "mac", "ip"} => user[IpPart + 1] = Blank
  /\ boot \in {"identify", "mac", "ip", "endpoint"} => user[IpPart] = Blank

Settled == boot # "read" /\ (\A t \in Threads : ~Active(t)) => Same(user, want)

\* What thread t is about, and where the values of the cells are meanwhile.
HeldJob(t) ==
  /\ ~locked
  /\ want[job[t].part] = job[t].values[1] /\ want[job[t].part + 1] = job[t].values[2]
  /\ job[t].values[1] # Junk /\ job[t].values[2] # Junk
  /\ job[t].part # IpPart => job[t].values[1] # Blank

HeldCells(t) ==
  /\ pc[t] \in {"clear", "out", "erase", "first", "second"} =>
       \A c \in Rest(t) : user[c] = want[c]
  /\ pc[t] = "out" =>
       \A c \in Cells : back[c] = IF c < pos[t] /\ c \in Rest(t) THEN user[c] ELSE Blank
  /\ pc[t] \in {"erase", "back"} =>
       \A c \in Cells : back[c] = IF c \in Rest(t) THEN want[c] ELSE Blank
  /\ pc[t] = "back" =>
       \A c \in Cells : user[c] = IF c < pos[t] THEN back[c] ELSE Blank
  /\ pc[t] = "first" => user[job[t].part] = Blank
  /\ pc[t] \in {"first", "second"} => user[job[t].part + 1] = Blank
  /\ pc[t] = "second" => user[job[t].part] = want[job[t].part]
  /\ pc[t] = "lock" => Same(user, want)

Held(t) == HeldJob(t) /\ HeldCells(t)

Sound ==
  /\ Solo /\ SettingUp /\ Settled
  /\ Ordered(user) /\ Ordered(want)
  /\ Clean(user) /\ Clean(back) /\ ram[1] # Junk /\ ram[2] # Junk
  /\ boot = "read" => \A c \in Cells \ hurt : user[c] = want[c]
  /\ \A t \in Threads : Active(t) => Held(t)

IInv == TypeOK /\ Quiet /\ AtFirst /\ (~overlapped => Sound)

-----------------------------------------------------------------------------
(* Cells, parts and programming. *)

LEMMA ProgrammedFacts ==
  ASSUME NEW old \in Values, NEW new \in Values
  PROVE  /\ Programmed(old, new) \in Values
         /\ old = Blank => Programmed(old, new) = new
         /\ new = Blank => Programmed(old, new) = old
         /\ old = new => Programmed(old, new) = new
<1>1. CASE old = Blank
  BY <1>1 DEF Programmed
<1>2. CASE old # Blank /\ new \in {old, Blank}
  BY <1>2 DEF Programmed
<1>3. CASE old # Blank /\ new \notin {old, Blank}
  BY <1>3 DEF Programmed, Values
<1> QED
  BY <1>1, <1>2, <1>3

LEMMA CellFacts ==
  /\ LastCell \in Nat /\ LastCell >= 4
  /\ 1 \in Cells /\ 2 \in Cells /\ IpPart \in Cells /\ IpPart + 1 \in Cells
  /\ \A u \in Units : PagePart(u) \in Cells /\ PagePart(u) + 1 \in Cells
  /\ \A u \in Units : PagePart(u) \notin 1..4 /\ PagePart(u) + 1 \notin 1..4
  BY FlashStoreAssumption DEF LastCell, Cells, IpPart, PagePart, Units

LEMMA PartFacts ==
  ASSUME NEW j \in Jobs
  PROVE  /\ j.part \in Cells /\ j.part + 1 \in Cells /\ j.part \in Nat
         /\ Part(j.part) = {j.part, j.part + 1}
         /\ j.values[1] \in Values /\ j.values[2] \in Values
<1>1. j.part = IpPart \/ \E u \in Units : j.part = PagePart(u)
  BY DEF Jobs
<1>2. j.part \in Cells /\ j.part + 1 \in Cells
  BY <1>1, CellFacts
<1>3. j.values \in Values \X Values
  BY DEF Jobs
<1> QED
  BY <1>2, <1>3 DEF Part, Cells

\* Both cells of a page are in a part, or neither is.
LEMMA PagesApart ==
  ASSUME NEW j \in Jobs, NEW u \in Units
  PROVE  /\ PagePart(u) \in Part(j.part) <=> PagePart(u) + 1 \in Part(j.part)
         /\ PagePart(u) \in Part(j.part) => j.part = PagePart(u) /\ j.part # IpPart
<1>1. j.part = 3 \/ \E v \in Units : j.part = 3 + 2 * v
  BY DEF Jobs, IpPart, PagePart
<1>2. Units \subseteq Nat \ {0}
  BY FlashStoreAssumption DEF Units
<1> QED
  BY <1>1, <1>2 DEF Part, PagePart, IpPart

LEMMA SettingsAreValues ==
  /\ Blank \in Values /\ Junk \in Values /\ Identifier \in Values /\ Mac \in Values
  /\ Some \in Values /\ Zero \in Values
  /\ Settings \subseteq Values /\ Prescriptions \subseteq Values
  /\ DefaultSetting \in Values
  /\ Blank # Junk /\ Identifier # Junk /\ Mac # Junk /\ DefaultSetting # Junk
  /\ Some \notin {Blank, Junk} /\ Zero \notin {Blank, Junk}
  /\ Junk \notin Settings /\ Junk \notin Prescriptions
  BY FlashStoreAssumption DEF Values

LEMMA EmptyFacts == Empty \in Sectors /\ \A c \in Cells : Empty[c] = Blank
  BY SettingsAreValues DEF Empty, Sectors

LEMMA InitInv == Init => IInv
<1> SUFFICES ASSUME Init PROVE IInv
  OBVIOUS
<1>1. NoJob \in Jobs
  BY SettingsAreValues DEF NoJob, Jobs
<1>2. 1 \in Cells
  BY CellFacts
<1>3. TypeOK
  <2>1. user \in Sectors /\ back \in Sectors /\ want \in Sectors /\ ram \in Values \X Values
    BY EmptyFacts, SettingsAreValues DEF Init
  <2>2. job \in [Threads -> Jobs] /\ pos \in [Threads -> Cells]
    BY <1>1, <1>2 DEF Init
  <2>3. writes \in [Threads -> Nat] /\ \A t \in Threads : writes[t] <= MaxWrites[t]
    BY FlashStoreAssumption DEF Init, Threads
  <2>4. restarts \in 0..MaxRestarts
    BY FlashStoreAssumption DEF Init
  <2>5. pc \in [Threads -> {"idle", "clear", "erase", "first", "second", "lock"} \cup CopyPlaces]
    BY DEF Init
  <2>6. /\ locked \in BOOLEAN /\ overlapped \in BOOLEAN /\ hurt \subseteq Cells
        /\ boot \in {"read", "erase", "identify", "mac", "ip", "endpoint", "lock", "up"}
    BY DEF Init
  <2> QED
    BY <2>1, <2>2, <2>3, <2>4, <2>5, <2>6 DEF TypeOK
<1>4. Quiet /\ AtFirst
  BY DEF Init, Quiet, AtFirst, Active
<1>5. Ordered(user) /\ Ordered(want) /\ Clean(user) /\ Clean(back)
  BY EmptyFacts, SettingsAreValues, CellFacts DEF Init, Ordered, Clean
<1>6. Solo /\ SettingUp /\ Settled
  BY DEF Init, Solo, SettingUp, Settled, Active
<1>7. ram[1] # Junk /\ ram[2] # Junk
  BY SettingsAreValues DEF Init
<1>8. (\A c \in Cells \ hurt : user[c] = want[c]) /\ \A t \in Threads : ~Active(t)
  BY DEF Init, Active
<1> QED
  BY <1>3, <1>4, <1>5, <1>6, <1>7, <1>8 DEF IInv, Sound

-----------------------------------------------------------------------------
(* Types. *)

LEMMA ProgramUserFacts ==
  ASSUME user \in Sectors, NEW c \in Cells, NEW v \in Values, ProgramUser(c, v)
  PROVE  /\ user' \in Sectors
         /\ ~locked => /\ user'[c] = Programmed(user[c], v)
                       /\ \A d \in Cells \ {c} : user'[d] = user[d]
<1>1. user[c] \in Values
  BY DEF Sectors
<1>2. Programmed(user[c], v) \in Values
  BY <1>1, ProgrammedFacts
<1> QED
  BY <1>2 DEF ProgramUser, Sectors

LEMMA EraseUserFacts ==
  ASSUME user \in Sectors, EraseUser
  PROVE  user' \in Sectors /\ (~locked => \A d \in Cells : user'[d] = Blank)
  BY EmptyFacts DEF EraseUser

LEMMA BootTypes ==
  ASSUME TypeOK, BootRead \/ BootErase \/ BootSetUp \/ BootLock
  PROVE  TypeOK'
<1>1. CASE BootRead
  <2>1. ram' \in Values \X Values
    BY <1>1, CellFacts DEF BootRead, TypeOK, Sectors
  <2>2. boot' \in {"up", "erase"} /\ locked' \in BOOLEAN
    BY <1>1 DEF BootRead, BootStep, TypeOK
  <2> QED
    BY <1>1, <2>1, <2>2 DEF BootRead, BootStep, TypeOK, threadVars
<1>2. CASE BootErase
  BY <1>2, EraseUserFacts, EmptyFacts DEF BootErase, BootStep, TypeOK, threadVars
<1>3. ASSUME NEW from, NEW to \in {"mac", "ip", "endpoint", "lock"},
             NEW c \in Cells, NEW v \in Values, BootProgram(from, to, c, v)
      PROVE  TypeOK'
  <2>1. user' \in Sectors
    BY <1>3, ProgramUserFacts DEF BootProgram, TypeOK
  <2>2. want' \in Sectors
    BY <1>3 DEF BootProgram, TypeOK, Sectors
  <2> QED
    BY <1>3, <2>1, <2>2 DEF BootProgram, BootStep, TypeOK, threadVars
<1>4. CASE BootSetUp
  BY <1>3, <1>4, CellFacts, SettingsAreValues DEF BootSetUp
<1>5. CASE BootLock
  <2>1. ram' \in Values \X Values
    BY <1>5, SettingsAreValues DEF BootLock
  <2> QED
    BY <1>5, <2>1 DEF BootLock, BootStep, TypeOK, threadVars, history
<1> QED
  BY <1>1, <1>2, <1>4, <1>5

LEMMA BeginTypes ==
  ASSUME TypeOK, NEW t \in Threads, NEW j \in Jobs, NEW b \in BOOLEAN, Begin(t, j, b),
         ram' \in Values \X Values
  PROVE  TypeOK'
<1>1. want' \in Sectors
  BY PartFacts DEF Begin, TypeOK, Sectors
<1>2. pc' \in [Threads -> {"idle", "clear", "erase", "first", "second", "lock"} \cup CopyPlaces]
  BY DEF Begin, Goto, TypeOK
<1>3. writes' \in [Threads -> Nat] /\ \A o \in Threads : writes'[o] <= MaxWrites[o]
  BY FlashStoreAssumption DEF Begin, TypeOK, Threads
<1>4. job' \in [Threads -> Jobs] /\ overlapped' \in BOOLEAN /\ locked' \in BOOLEAN
  BY DEF Begin, TypeOK
<1> QED
  BY <1>1, <1>2, <1>3, <1>4 DEF Begin, TypeOK, flash

LEMMA ConfigJob ==
  ASSUME TypeOK, NEW i \in 1..2, NEW value \in Settings, SetIpConfig(i, value)
  PROVE  /\ ram' \in Values \X Values
         /\ ram'[i] = value /\ \A k \in 1..2 : k # i => ram'[k] = ram[k]
         /\ [part |-> IpPart, values |-> ram'] \in Jobs
<1>1. value \in Values
  BY SettingsAreValues
<1>2. PICK a \in Values, b \in Values : ram = <<a, b>>
  BY DEF TypeOK
<1>3. CASE i = 1
  <2>1. ram' = <<value, b>>
    BY <1>2, <1>3 DEF SetIpConfig
  <2> QED
    BY <1>1, <1>2, <1>3, <2>1 DEF Jobs
<1>4. CASE i = 2
  <2>1. ram' = <<a, value>>
    BY <1>2, <1>4 DEF SetIpConfig
  <2> QED
    BY <1>1, <1>2, <1>4, <2>1 DEF Jobs
<1> QED
  BY <1>3, <1>4

LEMMA DeskJob ==
  ASSUME NEW u \in Units, NEW v \in Values \X Values
  PROVE  [part |-> PagePart(u), values |-> v] \in Jobs
  BY DEF Jobs

LEMMA ChangeTypes ==
  ASSUME TypeOK, Change
  PROVE  TypeOK'
<1>1. ASSUME NEW i \in 1..2, NEW value \in Settings, SetIpConfig(i, value)
      PROVE  TypeOK'
  <2>1. PICK j \in Jobs : j = [part |-> IpPart, values |-> ram']
    BY <1>1, ConfigJob
  <2>2. Begin(Config, j, TRUE) /\ ram' \in Values \X Values
    BY <1>1, <2>1, ConfigJob DEF SetIpConfig
  <2> QED
    BY <2>2, BeginTypes DEF Threads
<1>2. ASSUME NEW u \in Units, NEW v \in Values \X Values, SetPresId(u, v)
      PROVE  TypeOK'
  <2>1. PICK b \in BOOLEAN : b = (user[PagePart(u)] # Blank)
    OBVIOUS
  <2>2. Begin(Desk, [part |-> PagePart(u), values |-> v], b) /\ ram' \in Values \X Values
    BY <1>2, <2>1 DEF SetPresId, TypeOK
  <2> QED
    BY <2>2, BeginTypes, DeskJob DEF Threads
<1> QED
  BY <1>1, <1>2, SettingsAreValues DEF Change

LEMMA WriteTypes ==
  ASSUME TypeOK, NEW t \in Threads, Write(t)
  PROVE  TypeOK'
<1> DEFINE Place == {"idle", "clear", "erase", "first", "second", "lock"} \cup CopyPlaces
<1>1. PICK j \in Jobs, p \in Cells : j = job[t] /\ p = pos[t]
  BY DEF TypeOK
<1>2. job[t] \in Jobs /\ pos[t] \in Cells /\ user[p] \in Values /\ back[p] \in Values
  BY <1>1 DEF TypeOK, Sectors
<1>3. pc' \in [Threads -> Place]
  BY DEF Write, EraseBackup, CopyOut, EraseCurrent, CopyBack, Program, Lock, NextCell,
         Step, Goto, TypeOK, CopyPlaces
<1>4. pos' \in [Threads -> Cells]
  <2>1. UNCHANGED pos \/ \E q \in Cells : pos' = [pos EXCEPT ![t] = q]
    <3>1. UNCHANGED pos \/ pos' = [pos EXCEPT ![t] = IF p = LastCell THEN 1 ELSE p + 1]
      BY <1>1 DEF Write, EraseBackup, CopyOut, EraseCurrent, CopyBack, Program, Lock, NextCell
    <3>2. (IF p = LastCell THEN 1 ELSE p + 1) \in Cells
      BY CellFacts DEF Cells
    <3> QED
      BY <3>1, <3>2
  <2> QED
    BY <2>1 DEF TypeOK
<1>5. user' \in Sectors
  <2>1. CASE CopyBack(t)
    BY <1>1, <1>2, <2>1, ProgramUserFacts DEF CopyBack, TypeOK
  <2>2. CASE Program(t)
    <3>1. PICK c \in Cells, v \in Values : ProgramUser(c, v)
      BY <1>1, <2>2, PartFacts DEF Program
    <3> QED
      BY <3>1, ProgramUserFacts DEF TypeOK
  <2>3. CASE EraseCurrent(t)
    BY <2>3, EraseUserFacts DEF EraseCurrent, TypeOK
  <2> QED
    BY <2>1, <2>2, <2>3 DEF Write, EraseBackup, CopyOut, Lock, flash, TypeOK
<1>6. back' \in Sectors
  <2>1. CASE CopyOut(t)
    <3>1. Programmed(back[p], user[p]) \in Values
      BY <1>2, ProgrammedFacts
    <3> QED
      BY <1>1, <2>1, <3>1 DEF CopyOut, TypeOK, Sectors
  <2> QED
    BY <2>1, EmptyFacts
       DEF Write, EraseBackup, EraseCurrent, CopyBack, Program, Lock, flash, TypeOK
<1>7. job' \in [Threads -> Jobs]
  <2>1. NoJob \in Jobs
    BY SettingsAreValues DEF NoJob, Jobs
  <2> QED
    BY <2>1 DEF Write, EraseBackup, CopyOut, EraseCurrent, CopyBack, Program, Lock, NextCell,
                Step, TypeOK
<1>8. locked' \in BOOLEAN
  BY DEF Write, EraseBackup, CopyOut, EraseCurrent, CopyBack, Program, Lock, TypeOK
<1>9. UNCHANGED <<ram, boot, history>>
  BY DEF Write, EraseBackup, CopyOut, EraseCurrent, CopyBack, Program, Lock, NextCell, Step
<1> QED
  BY <1>3, <1>4, <1>5, <1>6, <1>7, <1>8, <1>9 DEF TypeOK, history

LEMMA RestartTypes ==
  ASSUME TypeOK, Restart
  PROVE  TypeOK'
<1>1. \A t \in Threads : AtRisk(t) \subseteq Cells
  <2> SUFFICES ASSUME NEW t \in Threads PROVE AtRisk(t) \subseteq Cells
    OBVIOUS
  <2>1. Part(job[t].part) \subseteq Cells
    BY PartFacts DEF TypeOK
  <2> QED
    BY <2>1 DEF AtRisk
<1>2. hurt' \subseteq Cells
  BY <1>1 DEF Restart, TypeOK
<1>3. restarts' \in 0..MaxRestarts
  BY FlashStoreAssumption DEF Restart, TypeOK
<1>4. ram' \in Values \X Values /\ NoJob \in Jobs /\ 1 \in Cells
  BY SettingsAreValues, CellFacts DEF Restart, NoJob, Jobs
<1>5. pc' \in [Threads -> {"idle", "clear", "erase", "first", "second", "lock"} \cup CopyPlaces]
  BY DEF Restart
<1>6. pos' \in [Threads -> Cells] /\ job' \in [Threads -> Jobs]
  BY <1>4 DEF Restart
<1> QED
  BY <1>2, <1>3, <1>4, <1>5, <1>6 DEF Restart, TypeOK, flash

-----------------------------------------------------------------------------
(* Which threads are active, and their positions. *)

LEMMA QuietStep ==
  ASSUME TypeOK, Quiet, AtFirst, [Next]_vars
  PROVE  Quiet' /\ AtFirst'
<1>1. CASE BootRead \/ BootErase \/ BootSetUp \/ BootLock
  <2>1. boot # "up" /\ UNCHANGED threadVars
    BY <1>1 DEF BootRead, BootErase, BootSetUp, BootProgram, BootLock, BootStep
  <2> QED
    BY <2>1 DEF Quiet, AtFirst, Active, threadVars
<1>2. CASE Change
  <2>1. PICK t \in Threads, place \in {"clear", "first"} :
          Goto(t, place) /\ ~Active(t) /\ boot = "up" /\ UNCHANGED <<boot, pos>>
    BY <1>2 DEF Change, SetIpConfig, SetPresId, Begin, Threads
  <2> QED
    BY <2>1 DEF Quiet, AtFirst, Active, Goto, TypeOK, CopyPlaces
<1>3. ASSUME NEW t \in Threads, Write(t) PROVE Quiet' /\ AtFirst'
  <2>1. boot = "up" /\ UNCHANGED boot
    BY <1>3 DEF Write, EraseBackup, CopyOut, EraseCurrent, CopyBack, Program, Lock, NextCell,
                Step, Quiet, Active
  <2>2. \A o \in Threads \ {t} : pc'[o] = pc[o] /\ pos'[o] = pos[o]
    BY <1>3 DEF Write, EraseBackup, CopyOut, EraseCurrent, CopyBack, Program, Lock, NextCell,
                Step, Goto, TypeOK
  <2>3. pc'[t] \notin CopyPlaces => pos'[t] = 1
    BY <1>3 DEF Write, EraseBackup, CopyOut, EraseCurrent, CopyBack, Program, Lock, NextCell,
                Step, Goto, TypeOK, CopyPlaces, AtFirst
  <2> QED
    BY <2>1, <2>2, <2>3 DEF Quiet, AtFirst
<1>4. CASE Restart
  BY <1>4 DEF Restart, Quiet, AtFirst, Active
<1>5. CASE UNCHANGED vars
  BY <1>5 DEF vars, Quiet, AtFirst, Active
<1> QED
  BY <1>1, <1>2, <1>3, <1>4, <1>5 DEF Next

-----------------------------------------------------------------------------
(* Where the values of the cells are: the start of the controller. *)

LEMMA BootReadSound ==
  ASSUME IInv, ~overlapped, BootRead
  PROVE  Sound'
<1>1. (\A t \in Threads : ~Active(t)) /\ UNCHANGED <<user, back, threadVars>>
  BY DEF BootRead, BootStep, IInv, Quiet
<1>2. want' = user /\ hurt' = {}
  BY DEF BootRead
<1>3. ram'[1] # Junk /\ ram'[2] # Junk
  BY CellFacts DEF BootRead, IInv, Sound, Clean, IpPart
<1>4. SettingUp'
  BY DEF BootRead, BootStep, SettingUp
<1> QED
  BY <1>1, <1>2, <1>3, <1>4
     DEF Sound, IInv, Solo, Settled, Same, Ordered, Clean, Active, threadVars

LEMMA BootEraseSound ==
  ASSUME IInv, ~overlapped, BootErase
  PROVE  Sound'
<1>1. (\A t \in Threads : ~Active(t)) /\ UNCHANGED <<back, ram, threadVars>> /\ boot' = "identify"
  BY DEF BootErase, BootStep, IInv, Quiet
<1>2. ~locked /\ UNCHANGED locked
  BY DEF BootErase, BootStep, IInv, Sound, SettingUp
<1>3. user' = Empty /\ want' = Empty
  BY <1>2 DEF BootErase, EraseUser
<1>4. SettingUp'
  BY <1>1, <1>2, <1>3, EmptyFacts, CellFacts DEF SettingUp
<1>5. Ordered(user') /\ Clean(user') /\ Same(user', want')
  BY <1>3, EmptyFacts, CellFacts, SettingsAreValues DEF Ordered, Clean, Same
<1> QED
  BY <1>1, <1>3, <1>4, <1>5
     DEF Sound, IInv, Solo, Settled, Same, Ordered, Clean, Active, threadVars

LEMMA BootProgramSound ==
  ASSUME IInv, ~overlapped, NEW from \in {"identify", "mac", "ip", "endpoint"},
         NEW to \in {"mac", "ip", "endpoint", "lock"},
         NEW c \in 1..4, NEW v \in Values \ {Junk}, BootProgram(from, to, c, v),
         user[c] = Blank
  PROVE  /\ user'[c] = v /\ \A d \in Cells \ {c} : user'[d] = user[d]
         /\ boot' = to /\ ~locked'
         /\ SettingUp' => Sound'
<1>1. (\A t \in Threads : ~Active(t)) /\ UNCHANGED <<back, ram, threadVars>>
      /\ boot = from /\ boot' = to
  BY DEF BootProgram, BootStep, IInv, Quiet
<1>2. ~locked /\ UNCHANGED locked
  BY <1>1 DEF BootProgram, IInv, Sound, SettingUp
<1>3. c \in Cells /\ user \in Sectors /\ want \in Sectors /\ v \in Values
  BY CellFacts DEF IInv, TypeOK, Cells
<1>4. user'[c] = v /\ \A d \in Cells \ {c} : user'[d] = user[d]
  <2>1. ProgramUser(c, v)
    BY DEF BootProgram
  <2>2. Programmed(user[c], v) = v
    BY <1>3, SettingsAreValues, ProgrammedFacts
  <2> QED
    BY <1>2, <1>3, <2>1, <2>2, ProgramUserFacts
<1>5. want'[c] = v /\ \A d \in Cells \ {c} : want'[d] = want[d]
  BY <1>3 DEF BootProgram, Sectors
<1>6. Same(user, want)
  BY <1>1 DEF IInv, Sound, Settled
<1>7. Same(user', want') /\ Clean(user')
  BY <1>4, <1>5, <1>6 DEF Same, IInv, Sound, Clean
<1>8. Ordered(user') /\ Ordered(want')
  BY <1>4, <1>5, CellFacts DEF IInv, Sound, Ordered
<1>9. SettingUp' => Sound'
  BY <1>1, <1>7, <1>8 DEF Sound, IInv, Solo, Settled, Same, Ordered, Clean, Active, threadVars
<1> QED
  BY <1>1, <1>2, <1>4, <1>9

LEMMA BootSetUpSound ==
  ASSUME IInv, ~overlapped, BootSetUp
  PROVE  Sound'
<1>1. Identifier \in Values \ {Junk} /\ Mac \in Values \ {Junk}
      /\ DefaultSetting \in Values \ {Junk}
  BY SettingsAreValues
<1>2. SettingUp /\ 1 \in Cells /\ 2 \in Cells /\ 3 \in Cells /\ 4 \in Cells
  BY CellFacts DEF IInv, Sound, IpPart
<1>3. CASE BootProgram("identify", "mac", 1, Identifier)
  <2>1. user[1] = Blank
    BY <1>2, <1>3 DEF SettingUp, BootProgram, BootStep
  <2>2. /\ \A d \in Cells \ {1} : user'[d] = user[d]
        /\ boot' = "mac" /\ ~locked' /\ (SettingUp' => Sound')
    BY <1>1, <1>3, <2>1, BootProgramSound
  <2>3. SettingUp'
    BY <1>2, <1>3, <2>2 DEF SettingUp, BootProgram, BootStep, IpPart
  <2> QED
    BY <2>2, <2>3
<1>4. CASE BootProgram("mac", "ip", 2, Mac)
  <2>1. user[2] = Blank
    BY <1>2, <1>4 DEF SettingUp, BootProgram, BootStep
  <2>2. /\ \A d \in Cells \ {2} : user'[d] = user[d]
        /\ boot' = "ip" /\ ~locked' /\ (SettingUp' => Sound')
    BY <1>1, <1>4, <2>1, BootProgramSound
  <2>3. SettingUp'
    BY <1>2, <1>4, <2>2 DEF SettingUp, BootProgram, BootStep, IpPart
  <2> QED
    BY <2>2, <2>3
<1>5. CASE BootProgram("ip", "endpoint", IpPart + 1, DefaultSetting)
  <2>1. user[4] = Blank
    BY <1>2, <1>5 DEF SettingUp, BootProgram, BootStep, IpPart
  <2>2. BootProgram("ip", "endpoint", 4, DefaultSetting)
    BY <1>5 DEF IpPart
  <2>3. /\ \A d \in Cells \ {4} : user'[d] = user[d]
        /\ boot' = "endpoint" /\ ~locked' /\ (SettingUp' => Sound')
    BY <1>1, <2>1, <2>2, BootProgramSound
  <2>4. SettingUp'
    BY <1>2, <2>2, <2>3 DEF SettingUp, BootProgram, BootStep, IpPart
  <2> QED
    BY <2>3, <2>4
<1>6. CASE BootProgram("endpoint", "lock", IpPart, DefaultSetting)
  <2>1. user[3] = Blank
    BY <1>2, <1>6 DEF SettingUp, BootProgram, BootStep, IpPart
  <2>2. BootProgram("endpoint", "lock", 3, DefaultSetting)
    BY <1>6 DEF IpPart
  <2>3. boot' = "lock" /\ ~locked' /\ (SettingUp' => Sound')
    BY <1>1, <2>1, <2>2, BootProgramSound
  <2>4. SettingUp'
    BY <2>3 DEF SettingUp
  <2> QED
    BY <2>3, <2>4
<1> QED
  BY <1>3, <1>4, <1>5, <1>6 DEF BootSetUp

LEMMA BootLockSound ==
  ASSUME IInv, ~overlapped, BootLock
  PROVE  Sound'
<1>1. (\A t \in Threads : ~Active(t)) /\ UNCHANGED <<user, back, want, threadVars>>
      /\ boot = "lock" /\ boot' = "up"
  BY DEF BootLock, BootStep, IInv, Quiet, history
<1>2. ram'[1] # Junk /\ ram'[2] # Junk
  BY SettingsAreValues DEF BootLock
<1>3. SettingUp'
  BY <1>1 DEF SettingUp
<1> QED
  BY <1>1, <1>2, <1>3
     DEF Sound, IInv, Solo, Settled, Same, Ordered, Clean, Active, threadVars

-----------------------------------------------------------------------------
(* A thread begins a change. *)

LEMMA BeginSound ==
  ASSUME IInv, ~overlapped', NEW t \in Threads, NEW j \in Jobs, NEW b \in BOOLEAN,
         Begin(t, j, b),
         j.values[1] # Junk, j.values[2] # Junk, ram'[1] # Junk, ram'[2] # Junk,
         j.part = IpPart => b,
         j.part # IpPart => j.values[1] # Blank /\ (b <=> user[j.part] # Blank)
  PROVE  Sound'
<1>1. ~overlapped /\ (\A o \in Threads : ~Active(o)) /\ Sound
  BY DEF Begin, IInv, TypeOK
<1>2. boot = "up" /\ UNCHANGED <<user, back, boot, pos>> /\ ~locked'
  BY DEF Begin, flash
<1>3. Same(user, want)
  BY <1>1, <1>2 DEF Sound, Settled
<1>4. /\ pc'[t] = IF b THEN "clear" ELSE "first"
      /\ \A o \in Threads \ {t} : pc'[o] = pc[o]
      /\ job'[t] = j
  BY DEF Begin, Goto, IInv, TypeOK
<1>5. \A o \in Threads \ {t} : pc'[o] = "idle"
  BY <1>1, <1>4 DEF Active
<1>6. /\ want'[j.part] = j.values[1] /\ want'[j.part + 1] = j.values[2]
      /\ \A c \in Cells \ Part(j.part) : want'[c] = want[c]
  <2>1. /\ want \in Sectors /\ j.part \in Cells /\ j.part + 1 \in Cells
        /\ Part(j.part) = {j.part, j.part + 1} /\ j.part \in Nat
    BY PartFacts DEF IInv, TypeOK
  <2>2. j.part # j.part + 1
    BY <2>1
  <2> QED
    BY <2>1, <2>2 DEF Begin, Sectors
<1>7. HeldJob(t)'
  BY <1>2, <1>4, <1>6 DEF HeldJob
<1>8. HeldCells(t)'
  <2>1. \A c \in Cells \ Part(j.part) : user'[c] = want'[c]
    BY <1>2, <1>3, <1>6 DEF Same
  <2>2. ~b => user[j.part] = Blank /\ user[j.part + 1] = Blank
    <3>1. ASSUME ~b PROVE user[j.part] = Blank /\ \E u \in Units : j.part = PagePart(u)
      BY <3>1 DEF Jobs
    <3> QED
      BY <1>1, <3>1 DEF Sound, Ordered
  <2> QED
    BY <1>2, <1>4, <2>1, <2>2 DEF HeldCells, Rest
<1>9. Ordered(want')
  <2> SUFFICES ASSUME NEW u \in Units, want'[PagePart(u)] = Blank
               PROVE  want'[PagePart(u) + 1] = Blank
    BY DEF Ordered
  <2>1. PagePart(u) \notin Part(j.part)
    BY <1>6, PagesApart
  <2>2. PagePart(u) \in Cells \ Part(j.part) /\ PagePart(u) + 1 \in Cells \ Part(j.part)
    BY <2>1, PagesApart, CellFacts
  <2> QED
    BY <1>1, <1>6, <2>2 DEF Sound, Ordered
<1>10. Solo' /\ SettingUp' /\ Settled'
  BY <1>2, <1>4, <1>5 DEF Solo, SettingUp, Settled, Active
<1>11. \A o \in Threads : Active(o)' => Held(o)'
  BY <1>5, <1>7, <1>8 DEF Active, Held
<1> QED
  BY <1>1, <1>2, <1>9, <1>10, <1>11 DEF Sound, Ordered, Clean

LEMMA ChangeSound ==
  ASSUME IInv, ~overlapped', Change
  PROVE  Sound'
<1>1. ~overlapped /\ TypeOK /\ ram[1] # Junk /\ ram[2] # Junk
  BY DEF IInv, Sound, Change, SetIpConfig, SetPresId, Begin, TypeOK
<1>2. ASSUME NEW i \in 1..2, NEW value \in Settings, SetIpConfig(i, value)
      PROVE  Sound'
  <2>1. PICK j \in Jobs : j = [part |-> IpPart, values |-> ram']
    BY <1>1, <1>2, ConfigJob
  <2>2. Begin(Config, j, TRUE)
    BY <1>2, <2>1 DEF SetIpConfig
  <2>3. ram'[i] = value /\ \A k \in 1..2 : k # i => ram'[k] = ram[k]
    BY <1>1, <1>2, ConfigJob
  <2>4. ram'[1] # Junk /\ ram'[2] # Junk
    BY <1>1, <2>3, SettingsAreValues
  <2> QED
    BY <2>1, <2>2, <2>4, BeginSound DEF Threads
<1>3. ASSUME NEW u \in Units, NEW v \in Values \X Values, SetPresId(u, v),
             v[1] \notin {Blank, Junk}, v[2] # Junk
      PROVE  Sound'
  <2>1. PICK b \in BOOLEAN : b = (user[PagePart(u)] # Blank)
    OBVIOUS
  <2>2. PICK j \in Jobs : j = [part |-> PagePart(u), values |-> v]
    BY DeskJob
  <2>3. Begin(Desk, j, b) /\ ram' = ram
    BY <1>3, <2>1, <2>2 DEF SetPresId
  <2>4. j.part # IpPart
    BY <2>2, CellFacts DEF IpPart
  <2> QED
    BY <1>1, <1>3, <2>1, <2>2, <2>3, <2>4, BeginSound DEF Threads
<1> QED
  BY <1>2, <1>3, SettingsAreValues DEF Change

-----------------------------------------------------------------------------
(* A thread goes on with its change.  The other one is idle. *)

\* What is left to show for each step.
LEMMA ThreadSound ==
  ASSUME IInv, ~overlapped, NEW t \in Threads, Active(t),
         NEW place, Goto(t, place), UNCHANGED <<ram, boot, history>>,
         Ordered(user'), Clean(user'), Clean(back'),
         place # "idle" => Held(t)',
         place = "idle" => Same(user', want')
  PROVE  Sound'
<1>1. boot = "up" /\ Sound
  BY DEF IInv, Quiet
<1>2. \A o \in Threads \ {t} : ~Active(o)
  BY <1>1 DEF Sound, Solo
<1>3. pc'[t] = place /\ \A o \in Threads \ {t} : pc'[o] = pc[o]
  BY DEF Goto, IInv, TypeOK
<1>4. \A o \in Threads \ {t} : ~Active(o)'
  BY <1>2, <1>3 DEF Active
<1>5. Solo' /\ SettingUp' /\ Settled'
  BY <1>1, <1>3, <1>4 DEF Solo, SettingUp, Settled, Active
<1>6. \A o \in Threads : Active(o)' => Held(o)'
  BY <1>3, <1>4 DEF Active
<1>7. Ordered(want') /\ ram'[1] # Junk /\ ram'[2] # Junk
  BY <1>1 DEF Sound, history, Ordered
<1> QED
  BY <1>1, <1>5, <1>6, <1>7 DEF Sound, Ordered, Clean

\* What each step may use.
LEMMA HeldFacts ==
  ASSUME IInv, ~overlapped, NEW t \in Threads, Active(t)
  PROVE  /\ Held(t) /\ ~locked /\ Ordered(user) /\ Ordered(want)
         /\ Clean(user) /\ Clean(back)
         /\ user \in Sectors /\ back \in Sectors /\ want \in Sectors
         /\ job[t] \in Jobs /\ pos[t] \in Cells
         /\ pc[t] \notin CopyPlaces => pos[t] = 1
  BY DEF IInv, Sound, Held, HeldJob, TypeOK, AtFirst

LEMMA EraseBackupSound ==
  ASSUME IInv, ~overlapped, NEW t \in Threads, EraseBackup(t)
  PROVE  Sound'
<1>1. Active(t) /\ Goto(t, "out") /\ UNCHANGED <<ram, boot, history, job, user, pos, locked>>
      /\ pc[t] = "clear"
  BY DEF EraseBackup, Step, Active
<1>2. /\ Held(t) /\ ~locked /\ Ordered(user) /\ Clean(user) /\ pos[t] = 1
  BY <1>1, HeldFacts DEF CopyPlaces
<1>3. \A c \in Cells : back'[c] = Blank
  BY <1>2, EmptyFacts DEF EraseBackup
<1>4. pc'[t] = "out"
  BY <1>1 DEF Goto, IInv, TypeOK
<1>5. HeldCells(t)'
  BY <1>1, <1>2, <1>3, <1>4 DEF Held, HeldCells, Cells, Rest, history
<1>6. HeldJob(t)'
  BY <1>1, <1>2 DEF Held, HeldJob, history
<1>7. Ordered(user') /\ Clean(user') /\ Clean(back')
  BY <1>1, <1>2, <1>3, SettingsAreValues DEF Ordered, Clean
<1> QED
  BY <1>1, <1>5, <1>6, <1>7, ThreadSound DEF Held

\* The copying of a cell, or of the last one.
LEMMA NextCellFacts ==
  ASSUME IInv, NEW t \in Threads, NEW from \in CopyPlaces, NEW to, NextCell(t, from, to)
  PROVE  /\ Active(t) /\ pc[t] = from
         /\ \E place : Goto(t, place)
         /\ UNCHANGED <<ram, boot, history, job>>
         /\ \/ /\ pos[t] = LastCell /\ pc'[t] = to /\ pos'[t] = 1
            \/ /\ pos[t] < LastCell /\ pc'[t] = from /\ pos'[t] = pos[t] + 1
<1>1. pc \in [Threads -> {"idle", "clear", "erase", "first", "second", "lock"} \cup CopyPlaces]
      /\ pos \in [Threads -> Cells]
  BY DEF IInv, TypeOK
<1>2. Active(t) /\ pc[t] = from /\ UNCHANGED <<ram, boot, history, job>>
  BY DEF NextCell, Step, Active, CopyPlaces
<1>3. Goto(t, IF pos[t] = LastCell THEN to ELSE from)
  BY DEF NextCell, Step
<1>4. pc'[t] = IF pos[t] = LastCell THEN to ELSE from
  BY <1>1, <1>3 DEF Goto
<1>5. pos'[t] = IF pos[t] = LastCell THEN 1 ELSE pos[t] + 1
  BY <1>1 DEF NextCell
<1>6. pos[t] = LastCell \/ pos[t] < LastCell
  BY <1>1, CellFacts DEF Cells
<1> QED
  BY <1>2, <1>3, <1>4, <1>5, <1>6

LEMMA CopyOutSound ==
  ASSUME IInv, ~overlapped, NEW t \in Threads, CopyOut(t)
  PROVE  Sound'
<1>1. /\ Active(t) /\ pc[t] = "out" /\ UNCHANGED <<ram, boot, history, job, user, locked>>
      /\ \/ pos[t] = LastCell /\ pc'[t] = "erase" /\ pos'[t] = 1
         \/ pos[t] < LastCell /\ pc'[t] = "out" /\ pos'[t] = pos[t] + 1
  BY NextCellFacts DEF CopyOut, CopyPlaces
<1>2. PICK place : Goto(t, place)
  BY NextCellFacts DEF CopyOut, CopyPlaces
<1>3. /\ HeldJob(t) /\ HeldCells(t) /\ ~locked /\ Ordered(user) /\ Clean(user) /\ Clean(back)
      /\ user \in Sectors /\ back \in Sectors
  BY <1>1, HeldFacts DEF Held
<1>4. PICK p \in Cells : p = pos[t]
  BY <1>1, HeldFacts
<1>5. /\ \A c \in Cells \ {p} : back'[c] = back[c]
      /\ back'[p] = IF p \in Rest(t) THEN user[p] ELSE Blank
  <2>1. back[p] = Blank
    BY <1>1, <1>3, <1>4 DEF HeldCells, Cells
  <2>2. Programmed(back[p], user[p]) = user[p]
    BY <1>3, <2>1, ProgrammedFacts DEF Sectors
  <2> QED
    BY <1>3, <1>4, <2>1, <2>2 DEF CopyOut, Rest, Sectors
<1>6. \A c \in Cells : back'[c] = IF c < p + 1 /\ c \in Rest(t) THEN user[c] ELSE Blank
  BY <1>1, <1>3, <1>4, <1>5 DEF HeldCells, Cells
<1>7. \A c \in Rest(t) : user[c] = want[c]
  BY <1>1, <1>3 DEF HeldCells
<1>8. HeldCells(t)'
  <2>1. CASE pc'[t] = "out"
    BY <1>1, <1>4, <1>6, <1>7, <2>1 DEF HeldCells, Rest, history
  <2>2. CASE pc'[t] = "erase"
    <3>1. \A c \in Cells : c < p + 1
      BY <1>1, <1>4, <2>2, CellFacts DEF Cells
    <3>2. \A c \in Cells : back'[c] = IF c \in Rest(t) THEN want[c] ELSE Blank
      BY <1>6, <1>7, <3>1
    <3> QED
      BY <1>1, <1>7, <2>2, <3>2 DEF HeldCells, Rest, history
  <2> QED
    BY <1>1, <2>1, <2>2
<1>9. HeldJob(t)'
  BY <1>1, <1>3 DEF HeldJob, history
<1>10. Ordered(user') /\ Clean(user') /\ Clean(back')
  BY <1>1, <1>3, <1>5, SettingsAreValues DEF Ordered, Clean
<1>11. place = pc'[t]
  BY <1>2 DEF Goto, IInv, TypeOK
<1> QED
  BY <1>1, <1>2, <1>8, <1>9, <1>10, <1>11, ThreadSound DEF Held

LEMMA EraseCurrentSound ==
  ASSUME IInv, ~overlapped, NEW t \in Threads, EraseCurrent(t)
  PROVE  Sound'
<1>1. Active(t) /\ Goto(t, "back") /\ UNCHANGED <<ram, boot, history, job, back, pos, locked>>
      /\ pc[t] = "erase"
  BY DEF EraseCurrent, Step, Active
<1>2. Held(t) /\ ~locked /\ Clean(back) /\ pos[t] = 1 /\ user \in Sectors
  BY <1>1, HeldFacts DEF CopyPlaces
<1>3. \A c \in Cells : user'[c] = Blank
  BY <1>2, EraseUserFacts DEF EraseCurrent
<1>4. pc'[t] = "back"
  BY <1>1 DEF Goto, IInv, TypeOK
<1>5. HeldCells(t)'
  BY <1>1, <1>2, <1>3, <1>4 DEF Held, HeldCells, Cells, Rest, history
<1>6. HeldJob(t)'
  BY <1>1, <1>2 DEF Held, HeldJob, history
<1>7. Ordered(user') /\ Clean(user') /\ Clean(back')
  BY <1>1, <1>2, <1>3, CellFacts, SettingsAreValues DEF Ordered, Clean
<1> QED
  BY <1>1, <1>5, <1>6, <1>7, ThreadSound DEF Held

LEMMA CopyBackSound ==
  ASSUME IInv, ~overlapped, NEW t \in Threads, CopyBack(t)
  PROVE  Sound'
<1>1. /\ Active(t) /\ pc[t] = "back" /\ UNCHANGED <<ram, boot, history, job, back, locked>>
      /\ \/ pos[t] = LastCell /\ pc'[t] = "first" /\ pos'[t] = 1
         \/ pos[t] < LastCell /\ pc'[t] = "back" /\ pos'[t] = pos[t] + 1
  BY NextCellFacts DEF CopyBack, CopyPlaces
<1>2. PICK place : Goto(t, place)
  BY NextCellFacts DEF CopyBack, CopyPlaces
<1>3. /\ HeldJob(t) /\ HeldCells(t) /\ ~locked /\ Ordered(want) /\ Clean(user) /\ Clean(back)
      /\ user \in Sectors /\ back \in Sectors /\ job[t] \in Jobs
  BY <1>1, HeldFacts DEF Held
<1>4. PICK p \in Cells, v \in Values, j \in Jobs : p = pos[t] /\ v = back[p] /\ j = job[t]
  BY <1>1, <1>3, HeldFacts DEF Sectors
<1>5. user'[p] = back[p] /\ \A c \in Cells \ {p} : user'[c] = user[c]
  <2>1. user[p] = Blank
    BY <1>1, <1>3, <1>4 DEF HeldCells, Cells
  <2>2. ProgramUser(p, v)
    BY <1>4 DEF CopyBack
  <2>3. user'[p] = Programmed(user[p], v) /\ \A c \in Cells \ {p} : user'[c] = user[c]
    BY <1>3, <2>2, ProgramUserFacts
  <2>4. Programmed(user[p], v) = v
    BY <1>3, <1>4, <2>1, ProgrammedFacts DEF Sectors
  <2> QED
    BY <1>4, <2>3, <2>4
<1>6. \A c \in Cells : user'[c] = IF c < p + 1 THEN back[c] ELSE Blank
  BY <1>1, <1>3, <1>4, <1>5 DEF HeldCells, Cells
<1>7. \A c \in Cells : back[c] = IF c \in Rest(t) THEN want[c] ELSE Blank
  BY <1>1, <1>3 DEF HeldCells
<1>8. HeldCells(t)'
  <2>1. CASE pc'[t] = "back"
    BY <1>1, <1>4, <1>6, <1>7, <2>1 DEF HeldCells, Rest, history
  <2>2. CASE pc'[t] = "first"
    <3>1. \A c \in Cells : c < p + 1
      BY <1>1, <1>4, <2>2, CellFacts DEF Cells
    <3>2. \A c \in Cells : user'[c] = IF c \in Rest(t) THEN want[c] ELSE Blank
      BY <1>6, <1>7, <3>1
    <3>3. user'[j.part] = Blank /\ user'[j.part + 1] = Blank
      BY <1>4, <3>2, PartFacts DEF Rest
    <3> QED
      BY <1>1, <1>4, <2>2, <3>2, <3>3 DEF HeldCells, Rest, history
  <2> QED
    BY <1>1, <2>1, <2>2
<1>9. HeldJob(t)'
  BY <1>1, <1>3 DEF HeldJob, history
<1>10. Ordered(user')
  <2> SUFFICES ASSUME NEW u \in Units, user'[PagePart(u)] = Blank
               PROVE  user'[PagePart(u) + 1] = Blank
    BY DEF Ordered
  <2>1. /\ PagePart(u) \in Cells /\ PagePart(u) + 1 \in Cells
        /\ PagePart(u) \in Part(j.part) <=> PagePart(u) + 1 \in Part(j.part)
    BY CellFacts, PagesApart
  <2>2. back[PagePart(u)] = Blank => back[PagePart(u) + 1] = Blank
    BY <1>3, <1>4, <1>7, <2>1 DEF Ordered, Rest
  <2>3. PagePart(u) + 1 < p + 1 => PagePart(u) < p + 1
    BY <2>1 DEF Cells
  <2> QED
    BY <1>6, <2>1, <2>2, <2>3
<1>11. Clean(user') /\ Clean(back')
  BY <1>1, <1>3, <1>5 DEF Clean
<1>12. place = pc'[t]
  BY <1>2 DEF Goto, IInv, TypeOK
<1> QED
  BY <1>1, <1>2, <1>8, <1>9, <1>10, <1>11, <1>12, ThreadSound DEF Held

\* A blank cell of the part gets its value.
LEMMA ProgramCell ==
  ASSUME IInv, ~overlapped, NEW t \in Threads, Active(t),
         NEW c \in Cells, user[c] = Blank, ProgramUser(c, want[c])
  PROVE  user'[c] = want[c] /\ \A d \in Cells \ {c} : user'[d] = user[d]
<1>1. ~locked /\ user \in Sectors /\ want \in Sectors
  BY HeldFacts
<1>2. PICK v \in Values : v = want[c]
  BY <1>1 DEF Sectors
<1>3. ProgramUser(c, v)
  BY <1>2
<1>4. Programmed(user[c], v) = v
  BY SettingsAreValues, ProgrammedFacts
<1> QED
  BY <1>1, <1>2, <1>3, <1>4, ProgramUserFacts

LEMMA ProgramSound ==
  ASSUME IInv, ~overlapped, NEW t \in Threads, Program(t)
  PROVE  Sound'
<1>1. Active(t) /\ UNCHANGED <<ram, boot, history, job, back, pos, locked>>
  BY DEF Program, Step, Active
<1>2. /\ HeldJob(t) /\ HeldCells(t) /\ Ordered(user) /\ Clean(user) /\ Clean(back)
      /\ job[t] \in Jobs
  BY <1>1, HeldFacts DEF Held
<1>3. PICK j \in Jobs : j = job[t]
  BY <1>2
<1>4. /\ j.part \in Cells /\ j.part + 1 \in Cells /\ j.part \in Nat
      /\ Part(j.part) = {j.part, j.part + 1} /\ j.part # j.part + 1
  BY PartFacts
<1>5. HeldJob(t)'
  BY <1>1, <1>2 DEF HeldJob, history
<1>6. want[j.part] # Junk /\ want[j.part + 1] # Junk
  BY <1>2, <1>3 DEF HeldJob
<1>7. CASE pc[t] = "first"
  <2>1. /\ Goto(t, "second") /\ ProgramUser(j.part, want[j.part])
        /\ user[j.part] = Blank /\ user[j.part + 1] = Blank
    BY <1>2, <1>3, <1>7 DEF Program, Step, HeldJob, HeldCells
  <2>2. user'[j.part] = want[j.part] /\ \A d \in Cells \ {j.part} : user'[d] = user[d]
    BY <1>1, <1>4, <2>1, ProgramCell
  <2>3. pc'[t] = "second"
    BY <2>1 DEF Goto, IInv, TypeOK
  <2>4. \A c \in Cells \ Part(j.part) : user'[c] = want[c]
    BY <1>2, <1>3, <1>4, <1>7, <2>2 DEF HeldCells, Rest
  <2>5. HeldCells(t)'
    BY <1>1, <1>3, <1>4, <2>1, <2>2, <2>3, <2>4 DEF HeldCells, Rest, history
  <2>6. Ordered(user')
    <3> SUFFICES ASSUME NEW u \in Units, user'[PagePart(u)] = Blank
                 PROVE  user'[PagePart(u) + 1] = Blank
      BY DEF Ordered
    <3>1. PagePart(u) \notin Part(j.part)
      <4>1. CASE j.part = PagePart(u) /\ j.part # IpPart
        BY <1>2, <1>3, <2>2, <4>1 DEF HeldJob
      <4> QED
        BY <4>1, PagesApart
    <3>2. PagePart(u) \in Cells \ Part(j.part) /\ PagePart(u) + 1 \in Cells \ Part(j.part)
      BY <3>1, PagesApart, CellFacts
    <3> QED
      BY <1>2, <1>4, <2>2, <3>2 DEF Ordered
  <2>7. Clean(user') /\ Clean(back')
    BY <1>1, <1>2, <1>6, <2>2 DEF Clean
  <2> QED
    BY <1>1, <1>5, <2>1, <2>5, <2>6, <2>7, ThreadSound DEF Held
<1>8. CASE pc[t] = "second"
  <2>1. /\ Goto(t, "lock") /\ ProgramUser(j.part + 1, want[j.part + 1])
        /\ user[j.part] = want[j.part] /\ user[j.part + 1] = Blank
    BY <1>2, <1>3, <1>8 DEF Program, Step, HeldJob, HeldCells
  <2>2. /\ user'[j.part + 1] = want[j.part + 1]
        /\ \A d \in Cells \ {j.part + 1} : user'[d] = user[d]
    BY <1>1, <1>4, <2>1, ProgramCell
  <2>3. pc'[t] = "lock"
    BY <2>1 DEF Goto, IInv, TypeOK
  <2>4. \A c \in Cells \ Part(j.part) : user[c] = want[c]
    BY <1>2, <1>3, <1>8 DEF HeldCells, Rest
  <2>5. Same(user', want)
    BY <1>4, <2>1, <2>2, <2>4 DEF Same
  <2>6. HeldCells(t)'
    BY <1>1, <2>3, <2>5 DEF HeldCells, Same, history
  <2>7. Ordered(user')
    BY <1>1, <2>5, HeldFacts, CellFacts DEF Ordered, Same
  <2>8. Clean(user') /\ Clean(back')
    BY <1>1, <1>2, <1>6, <2>2 DEF Clean
  <2> QED
    BY <1>1, <1>5, <2>1, <2>6, <2>7, <2>8, ThreadSound DEF Held
<1> QED
  BY <1>7, <1>8 DEF Program, Step

LEMMA LockSound ==
  ASSUME IInv, ~overlapped, NEW t \in Threads, Lock(t)
  PROVE  Sound'
<1>1. Active(t) /\ Goto(t, "idle") /\ UNCHANGED <<ram, boot, history, user, back>>
  BY DEF Lock, Active, flash
<1>2. Ordered(user) /\ Clean(user) /\ Clean(back) /\ Same(user, want)
  BY <1>1, HeldFacts DEF Lock, Held, HeldCells
<1>3. Ordered(user') /\ Clean(user') /\ Clean(back') /\ Same(user', want')
  BY <1>1, <1>2 DEF Ordered, Clean, Same, history
<1> QED
  BY <1>1, <1>3, ThreadSound

-----------------------------------------------------------------------------
(* Power fails. *)

LEMMA RestartSound ==
  ASSUME IInv, ~overlapped, Restart
  PROVE  Sound'
<1>1. UNCHANGED <<user, back, want, overlapped>> /\ boot' = "read"
      /\ \A t \in Threads : ~Active(t)'
  BY DEF Restart, flash, Active
<1>2. ASSUME NEW c \in Cells \ hurt' PROVE user[c] = want[c]
  <2>1. c \in Cells \ hurt /\ \A t \in Threads : c \notin AtRisk(t)
    BY <1>2 DEF Restart
  <2>2. CASE boot = "read"
    BY <2>1, <2>2 DEF IInv, Sound
  <2>3. CASE boot # "read" /\ \A t \in Threads : ~Active(t)
    BY <2>3 DEF IInv, Sound, Settled, Same
  <2>4. ASSUME NEW t \in Threads, Active(t) PROVE user[c] = want[c]
    <3>1. HeldCells(t) /\ pc[t] # "idle" /\ c \notin AtRisk(t)
      BY <2>1, <2>4, HeldFacts DEF Held, Active
    <3>2. CASE pc[t] \in {"clear", "out", "erase", "first", "second"}
      BY <3>1, <3>2 DEF HeldCells, AtRisk, Rest
    <3>3. CASE pc[t] = "lock"
      BY <3>1, <3>3 DEF HeldCells, Same
    <3>4. pc[t] # "back"
      BY <3>1 DEF AtRisk
    <3> QED
      BY <3>1, <3>2, <3>3, <3>4 DEF IInv, TypeOK, CopyPlaces
  <2> QED
    BY <2>2, <2>3, <2>4
<1>3. ram'[1] # Junk /\ ram'[2] # Junk
  BY SettingsAreValues DEF Restart
<1>4. Solo' /\ SettingUp' /\ Settled'
  BY <1>1 DEF Solo, SettingUp, Settled
<1> QED
  BY <1>1, <1>2, <1>3, <1>4 DEF Sound, IInv, Ordered, Clean

-----------------------------------------------------------------------------
(* The invariant, and what it implies. *)

LEMMA NextInv == IInv /\ [Next]_vars => IInv'
<1> SUFFICES ASSUME IInv, [Next]_vars PROVE IInv'
  OBVIOUS
<1>1. Quiet' /\ AtFirst'
  BY QuietStep DEF IInv
<1>2. TypeOK'
  <2>1. TypeOK
    BY DEF IInv
  <2>2. UNCHANGED vars => TypeOK'
    BY <2>1 DEF TypeOK, vars
  <2> QED
    BY <2>1, <2>2, BootTypes, ChangeTypes, WriteTypes, RestartTypes DEF Next
<1>3. ASSUME ~overlapped' PROVE Sound'
  <2>1. CASE Change
    BY <1>3, <2>1, ChangeSound
  <2>2. ASSUME ~Change PROVE ~overlapped
    BY <1>3, <2>2
       DEF Next, vars, BootRead, BootErase, BootSetUp, BootProgram, BootLock, Write,
           EraseBackup, CopyOut, EraseCurrent, CopyBack, Program, Lock, NextCell, Step,
           Restart, history
  <2>3. CASE BootRead \/ BootErase \/ BootSetUp \/ BootLock
    BY <1>3, <2>1, <2>2, <2>3, BootReadSound, BootEraseSound, BootSetUpSound, BootLockSound
  <2>4. ASSUME NEW t \in Threads, Write(t), ~overlapped PROVE Sound'
    BY <2>4, EraseBackupSound, CopyOutSound, EraseCurrentSound, CopyBackSound,
       ProgramSound, LockSound DEF Write
  <2>5. CASE Restart
    BY <2>1, <2>2, <2>5, RestartSound
  <2>6. CASE UNCHANGED vars /\ ~overlapped
    BY <2>6 DEF vars, IInv, Sound, Solo, SettingUp, Settled, Same, Ordered, Clean, Active,
                Held, HeldJob, HeldCells, Rest
  <2> QED
    BY <2>1, <2>2, <2>3, <2>4, <2>5, <2>6 DEF Next
<1> QED
  BY <1>1, <1>2, <1>3 DEF IInv

\* What is in flash was stored there once or is blank, and has its type: no cell
\* is ever programmed over another value, whatever earlier losses of power have
\* left (SetPresId, SetIpConfig, PrepareWriteFlash).
THEOREM NothingIsMixed == Spec => []Inv
<1>1. IInv => Inv
  BY DEF IInv, Inv, NothingMixed, Sound, Clean
<1> QED
  BY <1>1, InitInv, NextInv, PTL DEF Spec

\* Each cell that nobody is changing has its value in one of the two sectors, at
\* each step of PrepareWriteFlash.
THEOREM BackupIsComplete == Spec => []BackupComplete
<1>1. IInv => BackupComplete
  <2> SUFFICES ASSUME IInv, ~overlapped, boot = "up", NEW c \in Cells
               PROVE  \/ user[c] = want[c] \/ back[c] = want[c]
                      \/ \E t \in Threads : Active(t) /\ c \in Part(job[t].part)
    BY DEF BackupComplete
  <2>1. CASE \A t \in Threads : ~Active(t)
    BY <2>1 DEF IInv, Sound, Settled, Same
  <2>2. ASSUME NEW t \in Threads, Active(t), c \in Rest(t)
        PROVE  user[c] = want[c] \/ back[c] = want[c]
    <3>1. HeldCells(t)
      BY <2>2, HeldFacts DEF Held
    <3> QED
      BY <2>2, <3>1 DEF HeldCells, Same, Active, CopyPlaces, IInv, TypeOK
  <2> QED
    BY <2>1, <2>2 DEF Rest
<1> QED
  BY <1>1, InitInv, NextInv, PTL DEF Spec

\* A restart finds every cell as it was left, but for the part under change and,
\* during the copying back, everything (PrepareWriteFlash, NetworkConfig::Init).
THEOREM LossIsBounded == Spec => []LossBounded
<1>1. IInv => LossBounded
  BY DEF IInv, LossBounded, Sound
<1> QED
  BY <1>1, InitInv, NextInv, PTL DEF Spec
===============================================================================
