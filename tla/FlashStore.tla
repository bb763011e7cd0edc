------------------------------- MODULE FlashStore -------------------------------
(***************************************************************************)
(* The controller's settings and prescriptions in the microcontroller's     *)
(* flash (System.c, NetworkConfig.cpp, StorageUnit.cpp).  Both are in one   *)
(* sector.  Whoever changes a part of it                                    *)
(*   - unlocks the flash;                                                   *)
(*   - calls PrepareWriteFlash, which erases the backup sector, copies the  *)
(*     current one to it without the part, erases the current sector and    *)
(*     copies everything back;                                              *)
(*   - programs the part, and locks the flash.                              *)
(* Two threads do this without a lock of their own: the configuration port  *)
(* (SetIpConfig) and the desk (SetPresId).  Power may fail at any step.     *)
(* Nothing reads the backup sector at the start.                            *)
(*                                                                         *)
(* A sector is a row of cells, in the order of their addresses; a cell is   *)
(* read or programmed in one step, and a sector is erased in one step (the  *)
(* processor stands still, since its code is in the same flash).  A part    *)
(* has two cells.  The port receives no command while the controller        *)
(* starts.                                                                  *)
(***************************************************************************)
EXTENDS Integers, FiniteSets

CONSTANTS
  NumUnits,       \* units that have a page
  Settings,       \* values of the endpoint and of the IP configuration
  DefaultSetting, \* what the first use programs
  Prescriptions,
  Identifier,     \* the four bytes that say that the sector is in use
  Mac,
  Some, Zero,     \* lengths of a prescription and of none
  Blank,          \* erased
  Junk,           \* programmed twice, with different values
  Config, Desk,   \* the threads
  MaxWrites,      \* bound: changes of each thread
  MaxRestarts     \* bound: losses of power

ASSUME FlashStoreAssumption ==
  /\ NumUnits \in Nat /\ MaxWrites \in [{Config, Desk} -> Nat] /\ MaxRestarts \in Nat
  /\ Config # Desk /\ DefaultSetting \in Settings
  /\ Blank \notin Settings \cup Prescriptions \cup {Identifier, Mac, Some, Zero, Junk}
  /\ Junk \notin Settings \cup Prescriptions \cup {Identifier, Mac, Some, Zero}

VARIABLES
  user,       \* the current sector, USER_ADDR
  back,       \* the backup sector, BACK_ADDR
  locked,     \* the flash refuses to be erased or programmed
  ram,        \* localm and serviceEndpoint
  pc,         \* of each thread
  pos,        \* of each thread: the cell that it copies or programs next
  job,        \* of each thread: the part it changes and what it programs
  boot,       \* the step of NetworkConfig::Init, or "up"
  want,       \* history: what the current sector should have
  hurt,       \* history: cells that the last loss of power may have hurt
  overlapped, \* history: two threads were changing flash at once
  writes,     \* history: the changes of each thread
  restarts    \* history: the losses of power

flash == <<user, back>>
threadVars == <<pc, pos, job>>
history == <<want, hurt, overlapped, writes, restarts>>
vars == <<user, back, locked, ram, pc, pos, job, boot, want, hurt, overlapped,
          writes, restarts>>

Threads == {Config, Desk}
Units == 1..NumUnits

\* identifiers, MAC address, endpoint, IP configuration, then of each unit the
\* length and the bytes of its prescription.
LastCell == 4 + 2 * NumUnits
Cells == 1..LastCell
Part(first) == {first, first + 1}
IpPart == 3
PagePart(u) == 3 + 2 * u

Values == Settings \cup Prescriptions \cup {Identifier, Mac, Some, Zero, Blank, Junk}
Sectors == [Cells -> Values]
Empty == [c \in Cells |-> Blank]
Jobs == [part : {IpPart} \cup {PagePart(u) : u \in Units}, values : Values \X Values]
NoJob == [part |-> IpPart, values |-> <<Blank, Blank>>]
CopyPlaces == {"out", "back"}

TypeOK ==
  /\ user \in Sectors /\ back \in Sectors /\ locked \in BOOLEAN
  /\ ram \in Values \X Values
  /\ pc \in [Threads -> {"idle", "clear", "erase", "first", "second", "lock"} \cup CopyPlaces]
  /\ pos \in [Threads -> Cells]
  /\ job \in [Threads -> Jobs]
  /\ boot \in {"read", "erase", "identify", "mac", "ip", "endpoint", "lock", "up"}
  /\ want \in Sectors /\ hurt \subseteq Cells /\ overlapped \in BOOLEAN
  /\ writes \in [Threads -> Nat] /\ \A t \in Threads : writes[t] <= MaxWrites[t]
  /\ restarts \in 0..MaxRestarts

\* The controller starts for the first time.
Init ==
  /\ user = Empty /\ back = Empty /\ locked = TRUE
  /\ ram = <<Blank, Blank>>
  /\ pc = [t \in Threads |-> "idle"]
  /\ pos = [t \in Threads |-> 1]
  /\ job = [t \in Threads |-> NoJob]
  /\ boot = "read"
  /\ want = Empty /\ hurt = {} /\ overlapped = FALSE
  /\ writes = [t \in Threads |-> 0] /\ restarts = 0

-----------------------------------------------------------------------------
(* Programming clears bits and sets none. *)

Programmed(old, new) ==
  CASE old = Blank -> new
    [] old # Blank /\ new \in {old, Blank} -> old
    [] OTHER -> Junk

ProgramUser(c, value) ==
  user' = IF locked THEN user ELSE [user EXCEPT ![c] = Programmed(@, value)]
EraseUser == user' = IF locked THEN user ELSE Empty

-----------------------------------------------------------------------------
(* NetworkConfig::Init. *)

BootStep(from, to) == boot = from /\ boot' = to /\ UNCHANGED <<back, threadVars>>

\* The sector is in use: the settings are read.  Otherwise this is the first
\* use, and the sector is set up.
BootRead ==
  /\ IF user[1] = Identifier
     THEN /\ BootStep("read", "up")
          /\ ram' = <<user[IpPart], user[IpPart + 1]>>
          /\ UNCHANGED locked
     ELSE /\ BootStep("read", "erase")
          /\ locked' = FALSE
          /\ UNCHANGED ram
  /\ want' = user
  /\ hurt' = {}
  /\ UNCHANGED <<user, overlapped, writes, restarts>>

BootErase ==
  /\ BootStep("erase", "identify")
  /\ EraseUser
  /\ want' = Empty
  /\ UNCHANGED <<locked, ram, hurt, overlapped, writes, restarts>>

BootProgram(from, to, c, value) ==
  /\ BootStep(from, to)
  /\ ProgramUser(c, value)
  /\ want' = [want EXCEPT ![c] = value]
  /\ UNCHANGED <<locked, ram, hurt, overlapped, writes, restarts>>

BootSetUp ==
  \/ BootProgram("identify", "mac", 1, Identifier)
  \/ BootProgram("mac", "ip", 2, Mac)
  \/ BootProgram("ip", "endpoint", IpPart + 1, DefaultSetting)
  \/ BootProgram("endpoint", "lock", IpPart, DefaultSetting)

BootLock ==
  /\ BootStep("lock", "up")
  /\ locked' = TRUE
  /\ ram' = <<DefaultSetting, DefaultSetting>>
  /\ UNCHANGED <<user, history>>

-----------------------------------------------------------------------------
(* A thread changes a part. *)

Active(t) == pc[t] # "idle"
Goto(t, place) == pc' = [pc EXCEPT ![t] = place]

Begin(t, j, prepare) ==
  /\ boot = "up" /\ ~Active(t) /\ writes[t] < MaxWrites[t]
  /\ locked' = FALSE
  /\ job' = [job EXCEPT ![t] = j]
  /\ Goto(t, IF prepare THEN "clear" ELSE "first")
  /\ want' = [want EXCEPT ![j.part] = j.values[1], ![j.part + 1] = j.values[2]]
  /\ overlapped' = (overlapped \/ \E o \in Threads : Active(o))
  /\ writes' = [writes EXCEPT ![t] = @ + 1]
  /\ UNCHANGED <<flash, pos, boot, hurt, restarts>>

\* SetIpConfig returns if the item has the value already; it programs both.
SetIpConfig(i, value) ==
  /\ ram[i] # value
  /\ ram' = [ram EXCEPT ![i] = value]
  /\ Begin(Config, [part |-> IpPart, values |-> ram'], TRUE)

\* SetPresId prepares the page unless its first byte is blank.
SetPresId(u, value) ==
  /\ Begin(Desk, [part |-> PagePart(u), values |-> value], user[PagePart(u)] # Blank)
  /\ UNCHANGED ram

Step(t, from, to) ==
  /\ pc[t] = from
  /\ Goto(t, to)
  /\ UNCHANGED <<job, ram, boot, history>>

\* Variant for the checks: the cell after the last one is copied too.
NextCellBeyond(t, from, to) ==
  /\ Step(t, from, IF pos[t] > LastCell THEN to ELSE from)
  /\ pos' = [pos EXCEPT ![t] = IF @ > LastCell THEN 1 ELSE @ + 1]

\* The copying goes on to the next cell.
NextCell(t, from, to) ==
  /\ Step(t, from, IF pos[t] = LastCell THEN to ELSE from)
  /\ pos' = [pos EXCEPT ![t] = IF @ = LastCell THEN 1 ELSE @ + 1]

\* Variant for the checks: the wrong sector is erased first.
EraseBackupWrong(t) ==
  /\ Step(t, "clear", "out")
  /\ EraseUser
  /\ UNCHANGED <<back, locked, pos>>

EraseBackup(t) ==
  /\ Step(t, "clear", "out")
  /\ back' = IF locked THEN back ELSE Empty
  /\ UNCHANGED <<user, locked, pos>>

\* Variant for the checks: the part is copied with the rest.
CopyOutAll(t) ==
  /\ NextCell(t, "out", "erase")
  /\ back' = IF locked THEN back
             ELSE [back EXCEPT ![pos[t]] = Programmed(@, user[pos[t]])]
  /\ UNCHANGED <<user, locked>>

\* The cells before the part and those after it.
CopyOut(t) ==
  /\ NextCell(t, "out", "erase")
  /\ back' = IF locked \/ pos[t] \in Part(job[t].part) THEN back
             ELSE [back EXCEPT ![pos[t]] = Programmed(@, user[pos[t]])]
  /\ UNCHANGED <<user, locked>>

EraseCurrent(t) ==
  /\ Step(t, "erase", "back")
  /\ EraseUser
  /\ UNCHANGED <<back, locked, pos>>

CopyBack(t) ==
  /\ NextCell(t, "back", "first")
  /\ ProgramUser(pos[t], back[pos[t]])
  /\ UNCHANGED <<back, locked>>

Program(t) ==
  \/ /\ Step(t, "first", "second")
     /\ ProgramUser(job[t].part, job[t].values[1])
     /\ UNCHANGED <<back, locked, pos>>
  \/ /\ Step(t, "second", "lock")
     /\ ProgramUser(job[t].part + 1, job[t].values[2])
     /\ UNCHANGED <<back, locked, pos>>

Lock(t) ==
  /\ pc[t] = "lock"
  /\ Goto(t, "idle")
  /\ locked' = TRUE
  /\ job' = [job EXCEPT ![t] = NoJob]
  /\ UNCHANGED <<flash, pos, ram, boot, history>>

-----------------------------------------------------------------------------
(* Power fails. *)

\* What the flash may have lost: nothing but the part while it is copied to the
\* backup; everything from the erasure of the current sector on.
AtRisk(t) ==
  CASE pc[t] \in {"idle", "lock"} -> {}
    [] pc[t] \in {"clear", "out", "erase"} -> Part(job[t].part)
    [] pc[t] \in {"first", "second"} -> Part(job[t].part)
    [] OTHER -> Cells

Restart ==
  /\ restarts < MaxRestarts
  /\ restarts' = restarts + 1
  /\ hurt' = hurt \cup UNION {AtRisk(t) : t \in Threads}
  /\ locked' = TRUE
  /\ ram' = <<Blank, Blank>>
  /\ pc' = [t \in Threads |-> "idle"]
  /\ pos' = [t \in Threads |-> 1]
  /\ job' = [t \in Threads |-> NoJob]
  /\ boot' = "read"
  /\ UNCHANGED <<flash, want, overlapped, writes>>

-----------------------------------------------------------------------------
Write(t) ==
  EraseBackup(t) \/ CopyOut(t) \/ EraseCurrent(t) \/ CopyBack(t) \/ Program(t) \/ Lock(t)

Change ==
  \/ \E i \in 1..2, value \in Settings : SetIpConfig(i, value)
  \/ \E u \in Units : SetPresId(u, <<Zero, Blank>>)
  \/ \E u \in Units, p \in Prescriptions : SetPresId(u, <<Some, p>>)

Next ==
  \/ BootRead \/ BootErase \/ BootSetUp \/ BootLock
  \/ Change
  \/ \E t \in Threads : Write(t)
  \/ Restart

Spec == Init /\ [][Next]_vars

-----------------------------------------------------------------------------
(* Properties.  Two threads that change flash at once break each of them,    *)
(* which the code does nothing to prevent; so all are about behaviours in    *)
(* which that has not happened.                                              *)

\* At every step each cell that nobody is changing has its value in one of the
\* two sectors: after a loss of power the backup could restore it
\* (PrepareWriteFlash).
BackupComplete ==
  ~overlapped /\ boot = "up" =>
    \A c \in Cells :
      \/ user[c] = want[c] \/ back[c] = want[c]
      \/ \E t \in Threads : Active(t) /\ c \in Part(job[t].part)

\* A restart finds every cell as it was left, unless power failed while that
\* cell's part was being changed or while everything was being copied back
\* (PrepareWriteFlash, NetworkConfig::Init).
LossBounded ==
  ~overlapped /\ boot = "read" => \A c \in Cells \ hurt : user[c] = want[c]

\* No cell is programmed over another value, whatever an earlier loss of power
\* has left in either sector: what is in flash is what was stored there once,
\* or blank (SetPresId, SetIpConfig, PrepareWriteFlash, NetworkConfig::Init).
NothingMixed ==
  ~overlapped => \A c \in Cells : user[c] # Junk /\ back[c] # Junk

\* Types, and that nothing is mixed.
Inv == TypeOK /\ NothingMixed
===============================================================================
