# iStorageLocker: models, checks and proofs

A storage locker is a set of *units*, each with a door, a lock coil, an LED and
an RFID antenna, on one CAN bus with a *controller*. The controller has a
keyboard (a scanner), an audio player, and a TCP connection to a server. A
prescription is put into a unit by scanning it or by leaving a card that carries
it, and fetched by scanning it again. These modules model the two programs,
`src/iLockerController` (STM32F4, CMSIS-RTOS RTX) and `src/iLockerUnit`
(LPC11C14, no operating system).

## 1. The system

| Component | State it keeps | Operations | Talks to |
|---|---|---|---|
| Attribute writes (`CanDevice.cpp`) | `SyncTable`, a semaphore, worker threads | `WriteAttribute`, `CanWorkThread`, `ResponseRecievedEvent` | CAN transport below, every caller of `SetNotice` and `OpenDoor` above |
| CAN transport (`CanEx.cpp`, `canonchip.c`) | `rxTable`, devices | `Transmit`, `MessageReceivedEvent`, `Poll`, `Sync` | driver below; devices and units above |
| CAN driver (`Driver_CAN.c`, `CAN_STM32F40x.c`) | mail queues, mailbox flags | `CAN_push`, `CAN_pull`, interrupts | hardware |
| Unit's firmware (`iLockerUnit/main.cpp`) | coil and its count, door, LED, `MemBuffer`, `syncBuf` | two timer handlers, CAN handler, `UpdateRfid`, main loop | the bus |
| RFID front end (`trf796x.c`, `iso15693.c`, `CardInfo.cpp`) | registers, the card's blocks | find, read, write | the unit's main loop |
| A unit's status (`StorageUnit.cpp`, `UnitManager.cpp`) | card, door, `blinking`, two marks | `ProcessRecievedEvent`, `SetNotice`, `UpdateCard`, `Traversal` | broadcasts, server, LED |
| Desk commands (`main.cpp`, `ReadKBLine`) | `CommandState`, prescriptions in memory and flash | put, fetch, open | units, player |
| Handshake (`HeartbeatArrival`, `SYNC_LIVE`) | the map of units, the unit's `Connected` | register, toggle | both programs |
| Player and command timeout (`vs10xx.cpp`, `Audio.cpp`) | `busy`, the timer's count | `Play`, `PlayLoop`, `CommandTimeoutDetector` | desk commands |
| TCP client (`TcpClient.cpp`, `NetworkEngine.cpp`) | queues, parser, connection | `TxProcessor`, `SendData`, `AbortConnection` | server |
| Flash (`System.c`, `NetworkConfig.cpp`) | one sector and its backup | `PrepareWriteFlash` | `SetPresId`, configuration |
| Voice files (`SimpleFS.cpp`, `s25fl064.cpp`) | directory, sectors | format, create, write, erase | player, configuration port |
| Configuration port (`ConfigComm.cpp`, `UartComm.cpp`) | parser, ring | one parser per port | settings, voice files |

**Threads of the controller.** `UpdateWorker` polls CAN and the connection,
and so runs the handlers of broadcasts, heartbeats, responses and server
commands; `UpdateUnits` runs `Traversal`; the keyboard's thread runs
`ReadKBLine`; every attribute write has a worker thread; the player has a thread;
the RTOS timer's thread has a higher priority. All others are switched round
robin, and none of the data they share is protected by a lock. **In a unit** the
timer and CAN interrupts have one priority and preempt the main loop only.

**What is hard.** Check-then-act on shared fields with a context switch between;
the thread that must deliver a response waiting for that response; retries that
leave a late answer behind; interrupts between two writes of one report; marks
cleared after the data they stand for was copied; flash that lags behind memory
when power fails; and queues that drop. `PROJECT.json` lists these as hazards, at
their lines.

**What makes each component correct.** Attribute writes: no permit and no stack
is lost unless the configuration admits more workers than it has stacks, a response
wakes a worker of its key unless the entry it found was erased since, a reported
success was executed, every caller is answered. Unit: the coil is on for its time and no
longer, a broadcast tells of one card and one moment, or is repeated. Status:
what the server knows and what the LED shows agree with the unit in the end.
Desk: a prescription is in one unit, its door is the one that opens, and flash
agrees with memory. Transport: an entry is delivered as it was sent or not at
all. Flash and voice files: nothing is lost in a crash that was not being
written, no sector has two owners. TCP: messages stay whole and the loop that
polls CAN never stops.

## 2. Modules

### CanDevice — `CanDevice.cpp`

One action per place between which another thread can run. A caller searches
`SyncTable` (`CheckFree`, `CheckWait`, `CheckGiveUp`, `Delay`), waits for the
semaphore (`Take`), creates a worker (`Create`, `CreateFails`) and records it
(`Record`). The worker waits for flag 0x100 and sends (`Request`), waits for flag
0xff (`Signalled`, `Timeout`), reports (`Report`), erases its entry (`Erase`),
releases (`Release`) and ends (`Exit`), which frees its stack one step later than
its permit. On the bus a request is executed by the unit or lost, a response is
delivered or lost, each after any time. `ResponseRecievedEvent` is run by the
polling thread, so that it needs that thread to be outside `WriteAttribute`, and is
in two steps, between which any other thread may run: `Find` looks the key up, and
`SignalFound` signals the thread that the iterator points to. If the worker erased
its entry in between (`gone`), the node is freed memory, and the id read from it may
be any worker's or nobody's (`Named`): the history `stray` has the calls whose
worker was woken like that. Calls have numbers, so that the histories `sent`,
`executed` and `outcome` can tell which call a late response belongs to; the code
has no such numbers. `Workers` are the threads that the stack pool has room for, and
`Permits` the semaphore's count, which may be larger: in the code there are four
permits, and the pool of 4096 words (`RTX_Conf_CM.c:79`) holds the stacks of the USB
host's two threads besides those of 4096 bytes of the workers, so that three fit.

### UnitFirmware — `iLockerUnit/main.cpp`, `CANTransmit`

A handler is one step (`Tick`, `HalfSecond`, `OpOpen`, `OpLed`, `SyncLive`); the
main loop is cut wherever a handler matters: at every write of type, identifier
and card data in `UpdateRfid`, between testing, setting and filling in
`CanexSyncTrigger` (`MainTrigger`, `MainLatch`, `MainStore`), and between the two
frames of a broadcast (`SendHead`, `SendTail`), which are built from `syncBuf`
itself. The world opens and closes the door and changes the card at any time.

### UnitStatus — `StorageUnit.cpp`, `UnitManager::Traversal`, `NetworkEngine.cpp`

One unit, three threads, every field read or written in a step of its own.
`ReceiveChange` to `MarkDoor` are `ProcessRecievedEvent` in the order of the
code; `ReadDoorChanged` to `Send` are one visit of `Traversal` with
`SendRfidData` inside; `DeskNotice` and `DeskLed` are the keyboard's
`SetNotice(2, false)`. `SetNotice` is in two steps, the flag and the hand-over.

### LockerDesk — `ReadKBLine`, `SetPresId`, `NoticeFromMemory`

Which prescription is in which unit. Commands run in the keyboard's thread and in
`UpdateWorker`: search, store in memory, erase the page, program the length,
program the bytes, open. `Register` puts a unit into the map before
`NoticeFromMemory` reads its page. Cards and tags fill and empty units through
`CardArrives`, `Fill`, `CardLeaves`, `TagArrives` and through `UpdateCard`
(`Visit` to `ForgetPresId`). `Restart` loses everything but flash. Flash is
modelled as it works: programming only clears bits, so a page that was not erased
becomes `Junk` or a length of zero.

### CanTransport and CanChannel — `CanEx.cpp`, `canonchip.c`

Each unit broadcasts entries of several lengths. `CANTransmit` cuts one into a
first frame with four bytes and segments of seven; `SendFrame`, `HoldFrame` and
`LoseFrame` are what `CANSend` does with a frame: out it goes, it waits in the
next message object because the first one is busy (and may be overtaken:
`ReleaseFrame` comes later), or the bus is in error and the frame is dropped. A
frame that finds no mail left in the controller is dropped too (`Arrive`). `Poll`
takes one mail to `MessageReceiver`: `ReceiveFirst` makes an entry in `rxTable`
unless there is one, `ReceiveSegment` puts a segment in and hands a complete
entry over.

A broadcast is read from `syncEntry` while it is being sent, and the main loop has
cleared `syncTriggered` before, so that a handler may capture into it (`Capture`).
At most one does, since that sets `syncTriggered` again until the broadcast is over;
`UnitFirmware` has the repetition that follows. The capture tears the content, and
its length: the first frame announces what `canonchip.c` reads at line 331, while the
number of segments and the size of the last one are read again at lines 344 and 345.
`sent` has the announced lengths, `cut` the two that the segments are cut for, and
`Recut` what these can be after a capture: before the first segment each reading may
see the old length or the new one, in the order of the code; later none changes. A
segment that does not fit into the announced length is ignored (`Fits`), one that is
missing leaves the entry behind, and such an entry turns the first frame of the
repeated broadcast away.

A byte is known by the number of the broadcast it came from, so that the histories
`faulty` (the broadcast of each frame that was lost or overtaken and of each capture)
and `mixed` (each entry delivered with parts of two broadcasts or of two captures)
can be kept.

`CanChannel` is the promise in four actions: broadcasts arrive in order and once;
none is skipped while there was no fault; and there are no more mixed entries
than faults. A capture in the middle of a broadcast counts as a fault, and the
promise says what it can do at worst, not that it does nothing. `ImplementsChannel` is
the refinement, with `sent`, `faults` and `garbled` mapped to the numbers of
broadcasts begun, of faults and of mixed entries.

### CanDriver — `Driver_CAN.c`, `CAN_STM32F40x.c`, `stm32f4xx_hal_can.c`

`Enter` to `Again` are `CAN_push`, under the mutex of `CanEx`; `PollEnter`,
`Receive` and `Pull` are `CanEx::Poll`, which takes a mail to the hardware or
gives the semaphore a token. `HwWr` is `HAL_CAN_Transmit_IT`, with its refusal,
which nobody looks at, and with the interrupt that can come between enabling it
and requesting the transmission. `TxInterrupt`, `RxInterrupt`, `TxError` and
`RxError` change the HAL's `State` as its handlers do: an interrupt for reception
while `State` is `BUSY_TX`, and any error, make it ready although a frame is under
way. `Transmitted` is the hardware.

### FlashStore — `System.c`, `NetworkConfig.cpp`, `SetPresId`

The sector in use and its backup as cells: identifiers, MAC address, endpoint, IP
configuration, and two per unit, which are the length and the bytes of its page.
`BootRead` to `BootLock` are `NetworkConfig::Init`; `SetIpConfig` begins a
change in the configuration port's thread (`Config`), `SetPresId` in the thread
that runs a desk command (`Desk`; two desk commands at once are one more overlap,
which is exempted anyhow); `EraseBackup`, `CopyOut`, `EraseCurrent`, `CopyBack`,
`Program` and `Lock` are the rest, cell by cell. `Restart` is possible at every
step. Programming clears bits and sets none; `HAL_FLASH_Lock` by the thread that
ends first makes the other's programming do nothing.

### TcpClient — `TcpClient.cpp`

`BeginSend` to `Put` are `SendData`, a permit, a block and a mail for each
segment; `Drain` to `Abort` are `AbortConnection`, which a sender calls when it
waited for a permit in vain, and `TcpProcessor` when the link is down.
`LinkIsDown` to `Act` are the connection's part of `TcpProcessor`, `TxCheck` to
`TxSend` the sending of one segment, `RxGet` to `RxCount` the handling of one piece
of received data, to which the handler may answer by `SendData` itself.
`Established` to `DataPut` are the callbacks of the library, which is external.

### How they fit together

`UnitFirmware` produces the broadcasts that `UnitStatus` and `LockerDesk` take;
`UnitStatus` and `LockerDesk` hand LED levels and doors to `CanDevice`.
`UnitStatus` has the identifier and the flags of a unit and leaves out the
prescription; `LockerDesk` has the prescription and leaves out the LED and the
door. In the code both are fields of one `StorageUnit`, and `UpdateCard` clears
both, which is why both modules have it.

`CanTransport` carries the broadcasts, and its `Arrive` is where `CanDevice` loses
a response; `CanDriver` is below `CanEx::Transmit`, whose result nobody looks at,
which is `LoseRequest` of `CanDevice`. `FlashStore` is below `SetPresId`:
`LockerDesk` has one unit's page and its programming, `FlashStore` the copying of
all pages around it. `TcpClient` is below `SendRfidData` of `UnitStatus`, which
drops a report without a connection.

### Abstractions

* A string is assigned in one step. A copy of a `std::string` that is interrupted
  is undefined behaviour and would need the library's source.
* The searches of the map of units, and the loop that programs a prescription,
  are one step each. Prescriptions have one length.
* Time is left out: a timeout that can happen may happen at once; the coil's time
  is counted in the half seconds of the code's own timer.
* The door's pin is read once per handler and is stable while it runs. Variables
  that handlers write are re-read by the main loop as the source writes it.
* `DoorClosedEvent` is set and never read; the count of heartbeats decides only
  when one is sent: both are left out. `MAN OPEN` without a number opens an empty
  unit and stores nothing: left out of `LockerDesk`.
* The LED and the door of `UnitStatus` and `LockerDesk` are handed to
  `WriteAttribute` in one step. `CanDevice` has what happens then.
* In `CanTransport` a frame waits in one message object at a time, and what a unit
  sends is a broadcast: its responses fit into one frame. A bus is one queue.
* In `CanDriver` what another CAN node sends is only the interrupt it causes.
* In `FlashStore` erasing a sector is one step, and copying goes cell by cell in
  the order of addresses, where the code copies words.
* In `TcpClient` a segment has no content; the parser of what is received is left
  out, and so is `txCount`, which nothing reads.
* `CommandState` and whether the player is busy only turn commands away;
  `LockerDesk` lets a command begin at any time.

## 3. Runs

`CanDevice`: two callers (the polling thread writes the LED, the keyboard's
thread the LED and the door), so that one key has two writers and one has a
single writer; two workers and three permits, as the code has three and four, so that
the surplus permit and a permit released before its thread has ended meet a failing
`osThreadCreate`; two tries, so that a late first answer exists; three calls, so that a
late answer can meet a later write. The code looks for a free entry three times and
waits twice between; in `candevice` a writer looks once (`MaxChecks`) and gives up as
the code does after its last look. `candevice_live` has the code's three looks, one
key that both threads write, so that they wait for each other's entry, one stack and
two permits, so that one permit is lost to the surplus and, after that, one behind a
worker that is ending.

| Run | Shows |
|---|---|
| `candevice` | Entries name living workers of their key, a key with one writer has one worker, a reported success was executed if nothing overlapped, an entry that was found is erased before the signal only after a timeout |
| `candevice_live` | With one stack and two permits: permits are conserved or lost with a thread that was not created, to the surplus of permits over stacks and from then on only behind a thread that is ending; every write is reported or was given no thread, and the poller comes out of `WriteAttribute`, or all permits are lost |
| `unit` | A card and a foreign tag: coil, captures, broadcasts, card memory; the coil goes off, a capture is sent |
| `unit_status` | A card that comes and goes: server, flags, LED; the server is told in the end |
| `desk` | Two units without cards, commands from both threads, one restart |
| `desk_cards` | Two units, cards and tags in one of them, the keyboard's commands, one restart |
| `can_transport` | The transport implements `CanChannel`; an entry left by a fault or by a capture ends; a broadcast that met neither arrives |
| `can_driver` | While frames are refused an interrupt is due; a frame is in one place only, unless one was refused or exchanged |
| `flash_store` | What a loss of power can hurt, what the backup still has, nothing is programmed over |
| `tcp_client` | Permits and blocks agree, messages stay whole, `SendData` returns, `UpdateWorker` comes out of the wait or the connection went under it |
| `door_missed` | **violated**: a closed door is not noticed |
| `card_missed` | **violated**: a change of the card is never reported |

Bounds. One card, or a card and a foreign tag, that come and go any number of
times: safety is proved for any cards (section 4), as it is for any value of the other
constants, and liveness needs a card that comes back. Two prescriptions tell the right one from another; two units
tell the first empty one from the right one. `LockTicks = 2` leaves a half second
before and after the count's middle (the history `halves` stops counting one beyond
it, where `CoilBounded` would already be false); `LostLimit = 1` has one failed attempt to
find a card that is there. `MaxRestarts = 1` lets a crash hit every step of
`SetPresId` and lets all commands follow it. `WorkerGoals` is what the server
commands: everything in `desk`, nothing in `desk_cards`, where `UpdateWorker` has
the cards to attend to instead. `Finished` in `CanDevice` stutters when all calls
are made; `candevice_live` turns the deadlock check off, since with all permits
lost the model stops, as the code does.

`can_transport`: two lengths, with one segment and with two full ones, which is a unit
without and with a prescription; one unit sends three broadcasts with two faults, so
that an entry left by a fault or by a capture meets one of another length and one of
its own; the other unit's frames come between and meet no fault; two mails, so that
they run out. `can_driver`: two senders with two frames each, a queue of two and
three mailboxes, so that queue and mailboxes fill; two errors; tokens are counted
up to three: one more or less decides only whether a frame goes to the hardware or
to the queue, and both happen. `flash_store`: two
pages and the settings, one change of these and two of pages, two losses of power,
so that the second one hits what the first has left. `tcp_client`: two buffers and
messages of one and three segments, so that a message does not fit; one loss of
the connection or of the link, one received piece. These counts bound histories;
`flash_store` and `tcp_client` do without the deadlock check, since the changes
run out, and `UpdateWorker` of `TcpClient` may really wait for ever.

`desk_cards` states its four promises as one property, `CardsSafe`.

No run that checks liveness uses symmetry.

**Fairness.** `CanDevice`: weak fairness for a thread's next step and for a
worker's and for the signal after an entry was found, which RTX's round robin gives,
a timeout included, since it is an RTOS
timer's; strong fairness for taking the semaphore, whose waiters are queued. No
fairness for the bus: a message may always be lost. `UnitFirmware`: the timers
keep firing and the main loop is preempted but never blocked. `UnitStatus`: the
three threads go on; a broadcast, a command and a key are never promised.
`CanTransport`: the unit's main loop and the controller's polling go on, and a frame
that waits is sent at last; captures are never promised. `TcpClient`: threads go on by round robin, a wait with a
time limit ends, and what was sent is acknowledged or the connection is given up,
which the library's retransmission limit sees to; connecting, data and the link
are never promised. `CanDriver` and `FlashStore` check safety only.

**What the exemptions mean.** Several properties carry a history variable:
`overlapped`, `dropped`, `clash`, `stale`, `lost`, `stray`. Each says exactly when the
code does *not* keep the promise: the two violated runs show two of them biting
(a mark lost between a read and a clear). `stale` and `clash` in `LockerDesk`
name the race of two commands for one unit: nothing in the code prevents two
deposits from choosing the same empty unit, and both doors' LEDs would blink for
one unit whose flash is then a mix of both.

`stray` of `CanDevice`: the polling thread found an entry, the worker timed out for the
last time, erased it and perhaps ended, and the signal went to whatever thread the
freed node named. `CleanAck` exempts the call that was woken so, since it reports
success without an answer; `GoneAfterTimeout` says that for a key with one writer
this takes a timeout of that key first, so that it does not befall writes that are all
answered in time. `lost`: a permit that went with
a thread that could not be created. With four permits and three stacks that needs no
race: four writes at once are enough, and the semaphore has three for the rest of the
session (`LostBeyondSurplus`); every further loss needs a worker between its
`osSemaphoreRelease` and its end.

The other histories are as sharp. `clash` of `CanDriver`: the HAL refused a frame
that had been taken out of the queue, or `CAN_push` took out another thread's
frame and wrote its own. Both happen within a few steps: `CAN1_Receive` takes a
mail while a transmission is under way, `HAL_CAN_Transmit_IT` returns `HAL_BUSY`,
and the mail is freed. `overlapped` of `FlashStore`: two threads changed flash at
once, and then nothing holds, since both erase and copy through one backup and the
first to end locks the flash for the other. `mixed` and `dropped` of `TcpClient`:
two threads interleave their segments, and `AbortConnection` drops whatever is
queued. `stranded`: the connection went between `tcp_max_data_size` and
`tcp_send`; then `TxProcessor` waits for ever for a socket that only its own thread
would connect again, and the CAN bus is polled no more.

`BusyIsUnderway` speaks of the HAL's `State` and not of the bus: a controller that is
bus-off (automatic recovery is disabled) raises no interrupt that would be due, and is
outside the model.

`SetIpConfig` has `PrepareWriteFlash` leave out two bytes less than it then programs
(`NetworkConfig.cpp:141` against 145 and 146). The model has the settings as one cell:
the two bytes are the end of the second DNS server, which is copied back and then
programmed with the value it has.

Seen while modelling `FlashStore`, too: `NetworkConfig::Init` programs the
identifiers first, so that a loss of power after that leaves a sector without MAC
address and settings which is never set up again. `LossBounded` holds, since a
restart finds what was programmed.

Seen while modelling and left out of the findings, since no text of the
repository says otherwise: a foreign tag that comes and goes in a unit whose
prescription was deposited by hand makes `UpdateCard` forget it in memory, while
flash keeps it until the next deposit there (`MemoryAgrees` exempts units that a
card or a tag has been in); and a card exchanged for another within one interval
of broadcasts has the same type, so that `ProcessRecievedEvent` keeps the first
one's identifier (`ReceiveSame`).

## 4. Proofs

Every safety invariant but `GoneAfterTimeout`, every action property and the refinement
that a run checks is a theorem of its specification, for every value of the constants
that satisfies the module's assumption. Each `_proofs` module holds an inductive invariant, a lemma
for what each action does to each of its parts, and the theorems read off it. Each
invariant was checked by TLC on the instances above before it was proved.

**CanDevice_proofs**, for any threads, keys, workers, permits and limits that
satisfy `CanDeviceAssumption`: `TypeCorrect`, `PermitsAreConserved`,
`EntriesAreOwned`, `SoloKeysAreExclusive`, `LossIsExplained`, `SuccessIsExecuted`. None of the checked
invariants is inductive alone. `EntryOwned` needs that the worker a thread
is about to record still waits for that thread (`Handover`); exclusion of a key
with one writer needs that the entry tells whether a worker is there
(`SoloEntry`); the conservation of permits needs that a call is lost at most once
(`CallsBegun`); types need that a worker about to send has tries left
(`TriesLeft`). `LossIsExplained` is a count, and supposes nothing of the semaphore and
the pool: by `PermitsConserved` the caller in `create`, the workers that hold permits and
the permits lost are together at most `Permits`; so if all stacks are taken and no
worker is past its release, the permit lost now and those lost before are at most the
surplus `Permits - Cardinality(Workers)`.

`SuccessIsExecuted` (`CleanAck`) is about a whole history: which call an answer
belongs to is not known in the code. It is a balance for each key (`Paid`): as long as
no other call of the key was sent twice, the successes reported, the workers about to
report one, the flags 0xff that stand, the responses on the bus and the entry
in the poller's hand are together at most the executed calls, where calls in `stray`
do not count. An execution pays for one response, since the request of a
call that was sent once is on the bus once (`SentOnce`); a response pays for one entry
found, and that for one flag: of a worker of the same key as long as the entry is there
(`EntryOwned`), and otherwise of a call that is `stray` from then on. If all others were
reported as done and the call was not executed, there would be one report too many.

**UnitFirmware_proofs**, for any cards, tags and limits: `TypeCorrect`,
`CoilIsBounded`, `TornBroadcastsRepeat`, `CardIsSettled`, `WindowIsKept`,
`IncoherentInside`. The coil needs the sum of its count and the half seconds it
has been on (`CoilTimed`), with the case of a half second that passes before the
first millisecond; the card needs what the memory holds at each place of
`UpdateRfid` (`CardKnown`); a torn broadcast needs that whoever writes `syncBuf`
during a broadcast sets the flag again (`SendWatched`). `WindowIsKept` needs only two
cases, since no other step than those of the two timers lets the coil off
(`CoilGoesOff`).

**UnitStatus_proofs**, for any cards and any levels of the server: `TypeCorrect`,
`ServerIsTold`, `OccupiedIsKnown`, `NoticesAgree`. `ServerTold` looks at one
state, but whether it holds there was decided steps earlier: `ReportFresh` carries
what an undisturbed report has copied through each place, and `MarkStands` that
the mark survives until `UpdateCard`; `OccupiedIsKnown` (a card that has arrived has its
identifier, unless `UpdateCard` overlapped) is proved on the way and is no property of a run; `NoticeHeld` carries which level a
`SetNotice` under way has set the flag for.

**CanDriver_proofs**, for any senders, queue and number of bus errors:
`TypeCorrect`, `BusyUnderway`, `SentExactlyOnce`. `BusyIsUnderway` is kept by each
step of the hardware alone, since the interrupt that comes early leaves `State`
ready. The types need the mutex: a sender has a frame for as long as it is in
`CAN_push` (`HasFrame`), and the mail it has put is still in the queue when it looks
at the hardware again (`MailIsThere`), because the only other thread that takes mails
out waits for the mutex (`Mutex`). `ExactlyOnce` is strengthened to all frames
(`OnlyOnce`): a frame that has been placed is counted once over queue, mailboxes and
bus, any other not at all, and a frame in the hands of a sender is a new one
(`Fresh`).

**FlashStore_proofs**, for any units, values, changes and losses of power:
`NothingIsMixed`, `BackupIsComplete`, `LossIsBounded`. The properties look at sectors,
so the invariant says of every cell what it holds in both sectors at each place of a
change (`Held`): before its copy, after it, before its part is programmed, and what a
loss of power has left behind at any of them. It needs, too, that a page whose length
is erased has no bytes (`Ordered`), because `SetPresId` looks at the length only and
then programs both: with bytes left behind an erased length they would be programmed
over.

**TcpClient_proofs**, for any finite set of threads, any queue and any lengths of
messages: `PermitsHaveBlocks`, `MessagesAreWhole`. Permits and blocks are equations
over the counts of threads at each place (`TxBlocks`, `RxBlocks`); that a permit finds
a block is their difference. That messages are whole rests on what a thread in
`SendData` knows of the end of the pipeline (`Joined`): while nobody mixes and nothing
is dropped, the last segment there is the one before that which it will put.

**LockerDesk_proofs**, for any units, prescriptions and restarts: `TypesHold`,
`StoresAgree`, `DepositsAreSafe`, `DoorsAreRight`, `CardsAreSafe`. Three ties are
needed: what a thread has in hand at its place (`Shape`); what memory and flash of a
unit hold at each step of `SetPresId` and `NoticeFromMemory` (`Page`, `Progress`); and
what a thread still knows of the units since its search (`Search`), which `stale` and
`clash` bound. That a search ends at a unit of the set it looks for is the existence
of a smallest number, from the well-foundedness of the naturals.

**CanTransport_proofs**, for any units, lengths, bounds and queue: `TypesHold`,
`StaleEntriesEnd`, `IsChannel`. The first half is order (`Order`, `Alone`,
`HeldOrder`): at most one earlier frame of a unit is still to come behind another one,
and then each that has overtaken it has met a fault. The second half is books
(`Taken`, `Entry`, `Blamed`, `Clean`): a broadcast without a fault is cut for the
length it announced (`Straight`); the first frame of a broadcast is taken once,
an entry whose broadcast met no fault has every segment that has come, and each entry
delivered with parts of two broadcasts or captures is blamed on a fault of its own
broadcast or of the next one, which then has no entry of its own, and no fault is blamed
twice. So `Garble` of the channel is
enabled whenever a mixed entry is delivered: there are fewer of them than faults, by
counting. The other steps map to `Send`, `Fault`, `Deliver` or a stutter.

**Only model-checked**: the liveness properties `EveryWriteReported`, `PollerResumes`,
`CoilReleased`, `CaptureSent`, `CardTold`, `BroadcastArrives`, `SendReturns` and
`WorkerReturns`, since the prover has neither fairness nor `ENABLED` in reach; and the
two violated properties, which are not theorems; and `GoneAfterTimeout`. Nothing of the
models is recursive.

The assumptions on constants are weak: model values differ from each other and are
not values of the data, limits are at least one, and sets of threads and workers are
finite. Nothing relates the semaphore's count to the number of stacks. TLC evaluates
them in every run.

## 5. Not modelled, and what is left to prove

Hardware the source does not determine, libraries, or parts without state of
their own: the RFID front end's protocols, the peripheral drivers, the amplifier,
BSON, vendor code but for the part of the CAN HAL in `CanDriver`, the PC tool. They
are most of the repository's lines.

* **Handshake** (`HeartbeatArrival`, `SYNC_LIVE`). The confirmation toggles the
  unit's `Connected`; whether a second heartbeat is under way by then, and meets a
  second toggle, is a race between the unit's timer and the controller's, which a
  model without time would simply allow. The search at start leaves out the
  identifiers 0 and 127.
* **Player and command timeout** (`Audio.cpp`, `vs10xx.cpp`). `Audio::Play` waits
  busily until the codec is idle; the timer's thread, which calls it on a timeout,
  has a higher priority than the player's, so that the wait does not end if a
  sound is playing then. The question is decided by priorities and by the codec.
* **Voice files** (`SimpleFS.cpp`, `s25fl064.cpp`) and the **configuration port**: used to install
  the voice files, by the tool on the PC, and to change settings, whose way into
  flash is in `FlashStore`.
* **The parser of received data** (`TcpClient::DataReciever`): its state outlives a
  connection, so that the rest of a message cut off is taken from the next one.

What is left to prove is what the prover cannot reach, the liveness properties. What
would extend the proofs is more of the code in the models: the parts above, should
their timing be modelled, and the two parsers.
