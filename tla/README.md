# Verification of the EndDevice thermostat firmware

The repository is the firmware of a ZigBee end device, a thermostat for room and floor
heating, built on TI's Z-Stack for the CC2530. It has five keys, two NTC sensors, a relay
and an LCD, and is operated by its keys and by commands of a coordinator. The
build that is verified is the end-device build `EndDeviceEB`: no `POWER_SAVING`, no
`MT_TASK`, no `HOLD_AUTO_START`, `NV_RESTORE` on, `SECURE` 0.

All lines quoted here and in the modules are lines of the files under `src/`. The
source files hold GBK text.

## 1. Inventory

| component | source | state it keeps | operations | interacts with |
|---|---|---|---|---|
| OSAL scheduler and queue | `Components/osal/common/OSAL.c` | `tasksEvents`, `osal_qHead`, message headers, `activeTaskID` | scan, snapshot and put-back of events; send, receive, find, free a message; set and clear events | every task; interrupts post events and messages |
| OSAL timers and clock | `OSAL_Timers.c`, `OSAL_Clock.c` | `timerHead` and its records, `osal_systemClock`, remainder of the tick | start, start with reload, stop, update walk | heap, events; started from tasks and interrupts |
| OSAL heap | `OSAL_Memory.c` | headers that tile the heap, `ff1` | allocate (walk, join, split), kick, free | messages, timers, every callback |
| OSAL power manager | `OSAL_PwrMgr.c` | `pwrmgr_task_state` | hold, conserve, go to sleep | main loop |
| Non-volatile memory | `osal/mcu/cc2530/OSAL_Nv.c` | flash pages, item headers and checksums; page in reserve, lost bytes, places of hot items | create, read, write, delete an item, compact a page, repair at power-up | application, network layer, ZDO; loss of power |
| Key driver | `hal/target/CC2530EB/hal_key.c` | keys held, last release, `hal_key_mode`, `double_hit`, gap | poll every 100 ms, report | `OnBoard.c` sends what it reports |
| Key reports | `ZMain/TI2530DB/OnBoard.c` | registered task | allocate and send a `KEY_CHANGE` message | heap, queue |
| Thermostat application | `EndDevice/Source/EnddeviceApp.c`, `EnddeviceVariable.c` | power, mode, set temperatures, relay, fault, token, ids, ticks | event handler: messages, network changes, three timers, start-up | all of the above |
| Key handling | `Enddevicekey.c` | the application's | act on a key message | NV memory, reports |
| Commands over the air | `EnddeviceAF.c` | the application's | act on a command, send a report | AF, NV memory |
| Heating control and faults | `TemperatureControl.c`, `EnddeviceError.c` | none | decide on the relay; find a broken sensor; open the relay | application |
| Temperature look-up | `NTC_Table.c` | none (binary search on a table) | look up, interpolate | application |
| Sampling, display | `EnddeviceSampleADC.c`, `hal_adc.c`, `EnddeviceLCD.c`, `hal_lcd.c` | samples being averaged; display memory | sample, draw | application |
| ZigBee device object | `stack/zdo/*.c` | `devState`, `devStartMode`, retry and discovery counters, start options and leave control in NV | start, discover, join, rejoin, orphan scan, leave, restart | requests to the network layer and its confirmations; `ZDO_STATE_CHANGE` to the application |
| Upgrade over the air | `stack/zcl/zcl_ota.c` | `zclOTA_ImageUpgradeStatus`, file offset, two retry counters, one delay for two waits, three timers | query, block, wait, end, countdown | server, by messages that may be lost; secondary flash |
| Binding table | `stack/nwk/BindingTable.c`, `ZDObject.c`, `ZDApp.c` | `BindingTable` and its copy in NV memory, the timer of the save | bind, unbind, device leaves, save, restore, look up who is bound | requests from the coordinator; network layer (binary library), NV memory |
| AF, ZGlobals, SAPI, other ZCL | `stack/` | endpoints, configuration | | network layer |
| MAC, lower half | `Components/mac/low_level` | `macTxActive`, `macRxActive`, `macRxOnFlag`, enable flags, sleep state, CSP registers | transmit, retransmit, receive, acknowledge, receiver on and off, sleep, their interrupts | upper half (binary library); radio and strobe processor |
| HAL drivers, MT | `Components/hal`, `Components/mt` | UART rings, LED table, frame parser | | MT is not built in |

How they interact. One main thread runs `osal_run_system` for ever: it updates the clock
and the timers, polls, and calls the first task in priority order that has an event.
Handlers never preempt one another; interrupts preempt everything outside critical
sections. The application has the lowest priority of all tasks
(`OSAL_EnddeviceApp.c:72-88`), so several messages may be waiting when it runs. Components share
global variables freely: the key driver's `double_hit` is read by the key handler one or
more messages later, and the relay is written in five places.

What is hard here: the windows between critical sections (events, queue, timer list);
messages that are handled after the state that caused them has changed; the double hit and the
shift mode sharing one variable; three timers of which two re-arm themselves; a reset that
is scheduled two seconds ahead; loss of power between the change of a value and its
storage, and between any two writes of the flash; late confirmations of a join; the end of a
transmission seen by two interrupts; a table saved record by record; timers that expire while the answer is under way; a full
heap at any moment; 8 and 16-bit arithmetic; and sensor faults that arise between two control decisions.

What makes each component correct, in short: *scheduler*: no event or message is lost, a
buffer has one owner, FIFO per task, everything is delivered; *timers*: the list stays whole, every timer
fires once, not late, not after a stop; *heap*: the headers tile the
heap, a block is its caller's own, nothing free is overlooked; *NV*: a map that changes at one moment of a
request, whatever the power does; *ZDO*: the device does not believe in a parent it lost, comes back, tells the
application; *MAC*: one true confirmation per transmission, the receiver on exactly while needed; *upgrade*: what is
started is one whole image, given up only for a reason; *bindings*: a relation, of which a request changes only what it names and a restart
finds what was saved; *key driver*: a double hit and a
shift are always closed and reported as such; *application*: off means the relay is open, a
fault stops the heating, the coordinator and the NV memory agree with the state in use;
*look-up*: terminates, stays in the table, is accurate.

## 2. Modules

| module | models | how it corresponds to the code |
|---|---|---|
| `OSAL` | `OSAL.c` | one step per critical section or unprotected read of the main thread (`pc`), one step per interrupt. `osal_qHead` is a sequence; a header is its `dest_id`. `events` is the local copy in `osal_run_system`, put back by `AddBack` with the events the handler returned. Handlers are of both kinds found in the source: `DrainTasks` loop until no message is left, the others take one message per call |
| `Mailbox` | what the queue promises | abstract specification: one FIFO per task; `OSAL!ImplementsMailbox` is the refinement |
| `OSAL_Timers` | `OSAL_Timers.c`, `osalTimeUpdate` | records linked by `next`, on a heap that may be exhausted. `TimeUpdate`, `WalkStart`, `Visit` (one record, one critical section), `Expire` (after the critical section), `WalkEnd`. Starts may come between any two of these, stops only between two walks: no interrupt of the sources calls `osal_stop_timerEx` (`hal_key.c:243` and `hal_led.c:248` are run by the HAL task). `lag` is the time since the clock was last read; `status` and `left` are history: what the user of each timer is waiting for |
| `HalKey` | `hal_key.c` | `HalKeyPoll(now)` is one call for the keys `now`; its locals are operators (`Callbacks`, `NextMode`, ...). A release is reported, a press is not, as in the source |
| `EnddeviceVariable` | the globals of the application | initial values, what a restart reloads, what a report does (`Tell`) |
| `Enddevicekey`, `EnddeviceAF` | the two handlers of the same names | one operator per branch. The last part of the key handler runs on the results of the first, so it reads primed variables, as the C code reads the updated globals |
| `TemperatureControl` | the control decision and the fault bits | pure operators, in the 16-bit arithmetic of the C expressions |
| `EnddeviceApp` | the task: inbox, timers, restarts, composed with the key driver and the handlers | `HandleMsg` is one turn of the receive loop (`draining` while it lasts: no other task runs then), `Periodic`, `ScanLcd`, `SystemReset` one event each. The order of the tests in the handler gives their guards: messages first, then PERIODIC, then SCAN_LCD, then RESET, the rest of the events returned |
| `NtcTable`, `NtcValues` | `NTC_Table.c` | one step per iteration of the loop; the two arrays of the source |
| `OSAL_Memory` | `OSAL_Memory.c` | `heap` maps the addresses of the headers to what they say (a header swallowed by a join stays in memory: the joined block ends where the code says). An allocation is `osal_mem_alloc` (where to start), `WalkOn` (one block), then `WalkFinds` or `WalkFails`; the walk, its join and the split are those of the loop. `taken` is history: what callers were given |
| `OSAL_Nv` | `OSAL_Nv.c` | one step per write to the flash (`pc` says which comes next), so that `PowerLoss` comes between any two and within an erasure (`CutErase`). `initNV` and its recursion through `initPage` are the `Boot*` and `Scan*` steps. One slot per item |
| `NvMap` | what the users of the NV memory rely on | abstract specification: a request takes effect at one moment or not at all; `OSAL_Nv!ImplementsNvMap` is the refinement, with what a power-up would find as the map |
| `ZDApp` | `ZDApp.c`, the state part of `ZDObject.c` | one action per handler, per callback of the network layer and per event, with the OSAL queue of the task (`msgs`). The network layer is a library and modelled by its interface: one request at a time, one confirmation each. A heap that is full refuses a request, drops a message or a timer |
| `MacLowLevel` | `mac_tx.c`, `mac_rx.c`, `mac_rx_onoff.c`, `mac_sleep.c`, `mac_radio.c`, `mac_csp_tx.c`, `mac_mcu.c` | `mac` is one record of memory and registers; a C function is an operator from record to record and calls are compositions, a routine of the main loop is cut (`pc`) where interrupts are enabled. The radio, the strobe processor and the air are environment |
| `ZclOTA` | `zcl_ota.c` | client and server; one action per message handler's branch and per event, in the order of the event loop. Offsets count blocks; a running timer may expire at any moment; `survived` is history |
| `BindingTable` | `BindingTable.c`, the bind and unbind requests of `ZDObject.c`, the save in `ZDApp.c` | records of the fields of the source; a list of clusters is a set, since a request names one and is only added if absent. One action per request, one step per write of a save (`saveNext`), so that the power is lost between any two; all else waits for the end of the save, as in the main loop. A device is its index in the address manager. `torn` and `saveMissed` are history |
| `Bindings` | what binding promises | abstract specification: a relation in use, one a restart finds, and whether a save is due; `BindingTable!ImplementsBindings` is the refinement |

`MC_*` modules give instances; `MC_Drivers` and `MC_Network` put components that share nothing side by side, a behaviour being one of one of
them. `*_proofs` modules hold the proofs. No module that is proved about
reaches a RECURSIVE operator.

What is abstracted. The display, the RSSI and the log output are left out: nothing reads
them back. `told` is history: the last reports handed to the radio stack while the device is
on the network; loss of a report on the air is not modelled, since the application keeps no record of
acknowledgements (`End_Ack` is written and never read). The network id is modelled by one byte:
every command and key edit writes values up to 255 into the 16-bit `_NIB.nwkPanId`. The averaged
ADC sample is one of a set of values. Start of a timer by the application always succeeds.
Network changes are free: the ZigBee device object reports a join or a leave at any time. The network id that a join sets
(`ZDApp.c:1092`) and its reset for the start of a new network (633) belong to the network layer: `EnddeviceApp` only has the id
the user and the coordinator set, and what a restart loads.
A restart clears all RAM variables; a write to NV memory is atomic there, which is what `OSAL_Nv!ImplementsNvMap` shows.

## 3. Runs

| run | question | bounds |
|---|---|---|
| `osal` | buffers have one owner, no lost wake-up, no lost event; the FIFO refinement, with the delivery of every message | 3 tasks of both kinds, 3 buffers, 5 posts. Two posts suffice for every race the code guards against (one by the main thread, one by an interrupt); three buffers allow a queue with a message for another task in front of and behind the one that is taken |
| `timers` | list intact, one record per timer, never late, no event after a stop, every timer expires | 2 timers, 2 records: a stopped timer keeps its record, so that a start may find no memory, and removals happen at the head and at the end of the list, with an interrupt appending in between. Timeout 2, up to 2 ms between updates: a timer runs out at once or in two portions. A removal between two records needs a third (254 404 states with symmetry, safety only, checked while developing) |
| `drivers` | key driver: double hits and shifts are closed; look-up: stays in the table and is accurate; heap: blocks are kept and nothing is overlooked; MAC: one true confirmation, none forgotten, the receiver follows, no assertion fails | 3 keys in every combination, the gap of the source (8); all 1549 samples of a sound sensor on the tables of the source (complete); a heap of 29 bytes, 12 of them in the part of the small blocks, and three sizes, of which with their headers two are small and one is large, allocated and freed in any order, so that blocks are split and joined in both parts; one CSMA retry, 3 parts of frames in the FIFO (a frame and the head of the next), five kinds of frames |
| `nv` | the flash is a map, reads find what is stored, pages do not overflow, repairs end, and each of their steps brings them nearer (`ComesNearer`) | 2 items (one hot, one deletable), 2 values, 2 pages of two slots and a reserve; any number of power losses. Two slots let a page hold an old copy and its new one, two pages let a compaction copy into a page whose source stays |
| `zdo` | application informed, no belief in a lost parent, a leave is for good, the device comes back | the power is lost at any moment, also between two writes of the start; three kinds of surroundings (no network, one that knows the device, one that only takes new devices) that change at any time; counters of 4 values, 2 retries; 2 messages; the heap is full once |
| `zdo_rejoin` (violated) | see section 5 | as above, the heap is never full |
| `network` | upgrade: the image is whole and given up for no reason but those the code has (`DownloadKept`), a download ends; binding table: it is, with its copy, a relation whose answers are true, no request touches what it does not name, changes are saved | 2 images, of two blocks and of one: a block may be the next, the one before, of another version; 2 answers under way; one retry of each kind; one minute. The endings of both kinds (`EndAnswers`). Bindings: 2 records of 2 clusters, 3 destinations (two end points of one device, and the group that has the number of that device), of which one is bound to up to two clusters and asked for with a third; so records and lists are full, a device leaves with two records while the group stays, and the power is lost between two records |
| `app_heat` | heating under commands, joins, samples, timers and power losses | 7 commands, with a mode of 2; the power and INC keys, whose messages may be dropped; one waiting message; samples cold, cold with a hot floor, broken. The relay is decided on every second PERIODIC call, so that a call that does not decide happens; temperatures are sampled by every display call |
| `app_set` | set temperatures are saved | 3 keys one at a time, gap 3: the least that allows a double hit at all, as press, release, press and release take four polls. Ranges of three and two values, so that both ends are reached |
| `app_edit` | ids are saved and reported | nibbles of base 2, so that the edited number has both nibbles and both wrap |
| `app_live` | faults and the control loop end a heating; a new network id restarts the device, and until the restart the timer or the event that leads to it is there (`ResetKept`) | 3 samples, 4 commands, no keys |
| `app_chord` (violated) | see section 5 | the keys that are needed, in one poll |

The ticks (`SampleTicks` 10, `SendTicks` 4 in the source), gap, set-temperature ranges and nibble base
are constants of the modules with their source values in the comments; they only count repetitions of a step, and each is
kept at the least value at which both the counting and the final case happen, except where the table says so.
`MaxInbox`, `MaxPosts`, `MaxLag`, `MaxMsgs`, `MaxFaults`, `MaxAnswers` and `FifoSize` (the radio has 128 bytes) bound what the source does not.
Deadlock is checked in every run but `drivers`, whose look-up comes to its end.

In the instances of `EnddeviceApp` the room and floor ADC values are entries of the table, so
that the look-up is the table itself (`MCLookupTemp`); `NtcTable` covers the values in between.

Every property has a mutant in the module it is about (definitions commented *Mutant*, next to the
definition they change): the run finds the property violated when the mutant takes its place. Type invariants are stated in every
module and are parts of the proved invariants; runs check only `RoomCounted`'s. `BindingTable!ReflectedOnce` and `MacLowLevel!InHand` were
checked on the instances of `network` and `drivers` while they were developed and are theorems now.

## 4. Fairness

* `OSAL!FairSpec`: weak fairness of the main thread's own steps. It is a loop with no
  blocking call. Posts by handlers and interrupts are not fair: they may but need not happen.
* `OSAL_Timers!FairSpec`: time passes; the main loop calls `osalTimeUpdate` in every pass.
  `Expires` does not hold for a timer that is restarted for ever, and says so.
* `MC_Drivers!MCSpec`: the driver is polled for ever (a reload timer of the HAL task). Fairness is on
  `QuietPoll`, a poll that finds the keys as they were, which is what remains once the user lets the keys rest. For the MAC,
  `MacLowLevel!MacFairness`: interrupts that are pending are served, the main loop goes on with the routine it is in, the
  strobe processor, a frame on the air and an acknowledgement come to their ends. Nothing makes a frame begin. The first two are
  weak fairness written out, with guards that are known, which spares TLC the ENABLED of large actions.
  `Confirmed` further asks for interrupts that are served within the time of a frame (`prompt`): section 5 has the late case.
* `OSAL_Nv!Spec`: the program runs on. Requests and losses of power are not fair; `ComesToRest` is about what follows the last loss.
* `ZDApp!FairSpec`: the OSAL runs a task that has work, timers expire, the network layer answers a request (its confirmations are
  part of `Step`). Networks come and go freely; `ComesBack` names what it needs of them.
* `ZclOTA!OtaFairSpec`: timers run on and the task is given its turns. Nothing is asked of the server and the network,
  so `DownloadEnds` holds with the server gone; a server that asks for ever to wait is its premise.
* `EnddeviceApp!FairSpec`: weak fairness of message handling (the OSAL runs a task that has work, see
  `OSAL!ImplementsMailbox`) and of the expiry of timers (`OSAL_Timers!Expires`). Timer events get
  strong fairness: the handler serves messages first, so each arrival disables them for a moment, and
  without strong fairness a stream of messages faster than the handler would starve them. A radio
  at 250 kbit/s and keys polled every 100 ms leave the task time in between.

## 5. Findings

Each is a run that TLC ends with a counterexample.

1. `app_chord`. The last part of the key handler tests the mode variables after the first part changed
   them. DEC or INC released in the same poll as FLR, PWR or AIR leaves a set temperature changed, not saved and not reported
   (`Enddevicekey.c:377`). With one key at a time `app_set` shows that all is saved.
2. `zdo_rejoin`. "Do a normal join to the network after certain times of rejoin retries" (`ZDApp.c:1501`): `retryCnt` is only
   counted while the mode is `MODE_RESUME` (1489) and the first failure sets `MODE_REJOIN` (1497), so the switch to a join (1504) is
   never reached. A device that lost its parent tries to rejoin for ever where only new devices are taken.

Observations that are no runs of their own.

*Thermostat.* A double hit that times out while the power key is held sets `hal_key_mode` to 3 over the shift mode 1
(`hal_key.c:432`), and the release of the power key is then reported as NORMAL and switches the device; `ShiftLastsUnlessDoubleHit`
shows that this is the only way to lose a shift. The release that ends a shift stores `debugnum` as the device id although the
device is on (`Enddevicekey.c:206`; compare `EnddeviceAF.c:134`). In the manual mode INC or a command closes the relay while a
sensor fault is known (`Enddevicekey.c:82`, `EnddeviceAF.c:121`): the next sample opens it (`FaultEndsHeating`), and in the
automatic mode it cannot happen (`AutoFaultSafe`, proved). A mode of 2 or more (`EnddeviceAF.c:151`) counts as automatic and is not toggled
to manual by the mode key, which changes its lowest bit.

*OSAL.* The time since the last clock reading is charged to timers started after it (`OSAL_Timers.c:428`), so that a timer
may run out early by as much as a pass of the main loop takes; `NeverLate` is the other side. A kick that finds no free block
stops at the assertion of `OSAL_Memory.c:280`; the board kicks the heap once, when all tasks are initialised. The
count of lost bytes that the last pass of `initNV` leaves is too low for a page with an old item (`OSAL_Nv.c:310-317`, 460-462): it costs
an early compaction, never an item (pages of three slots show it; `RoomCounted` is the safe side).

*ZDO.* A confirmation, an indication or a timer for which there is no memory is gone, and the ZDO waits for ever (`lost` in the
premises of the properties). If the power fails between the write of `ZDApp_LeaveCtrlReset` (`ZDApp.c:1714`) and that of the start option (673), the
device forgets that it was told to leave and comes back: `LeftStaysOut` holds over all losses of power but this one, which it names (`Forgets`).
The comments on the leave
control (601-604) have the meaning of the rejoin flag the wrong way round (code: 1761-1768). The reset delay of a leave is stored and never used.

*MAC.* If the interrupt that reads a frame is later than the end of the acknowledgement of that frame, `mac_rx.c:763` clears a flag that
is already over and a queued transmission waits for the next frame that is kept (`Prompt = {FALSE}`, `FifoSize = 2` show it);
`Confirmed` is therefore about prompt interrupts. `macTxHaltCleanup`, which the comment at `mac_rx.c:279` relies on, is never called.

*Bindings.* A save that the power interrupts after some of its records (`torn`) can leave a binding twice, in a record of the older and one of the
newer table, so that an unbind has to be repeated, or lose one whose record moved to a lower place. `ZDApp_NVUpdate` ignores the
result of `osal_start_timerEx` (`ZDApp.c:2923`, `missed`): the change is then not saved before the next one. `bindUpdateAddr` (`BindingTable.c:841`), which
nothing calls, would change groups with the number of the device, as it does not look at `dstGroupMode`. `zb_BindDevice` of the simple interface,
which this application does not use, is to "Remove local bindings for the commandId" (`sapi.c:279`) and erases whole records (283-285), with all other
commands bound to the same destination.

*Upgrade.* The event of the timer for a block is handled without a look at the state (`zcl_ota.c:543-565`). If it is pending while the last
block is handled, block requests go on in the states COMPLETE and COUNTDOWN, and after ten of them the finished download is
given up (`StrayTimer`). The timer of the wait for data is never stopped and shares `zclOTA_UpdateDelay` with the countdown, which may so lose a
minute, and so may an event `UPGRADE_WAIT` that an earlier wait left behind. An offer is taken in every state but IN_PROGRESS (1397), so an
application that asks for one while an image waits for its start loses this image. `DownloadKept` has these cases by name, each with what
it takes, and says that there are no others. If the request or the answer that
ends a download is lost, the client stays COMPLETE for ever. `zclOTA_BlockRetry` is not cleared for a new download. A
block of another version ends the download and leaves its timer running (1519-1525), and the application is not told of an image that
is invalid (1596-1605). The server keeps one `queryResponse` for all clients (1939, 2091).

## 6. Proofs

TLAPS checks the theorems below for every value of the constants that satisfies the named assumptions.

* `OSAL_proofs` (assumes `ConstAssumption`). `TypeCorrect` is inductive by itself. `OneOwnerInvariant` is
  inductive together with `TypeOK`; it rests on lemmas on the sequence that models the queue (`ExtractProps`, `Enqueue`,
  `TakeOut`). `NoLostWakeupInvariant` needs both: the receive decides from the queue, and only a queue without
  duplicates lets it conclude that no other message is left. `EventsAreConserved` is an action property; its
  strengthening says that the active task is the one the scan index names whenever the local event copy is in use.
  `QueueIsMailboxes` is the safety part of the refinement (`Mailbox!Fifo`): each step of the queue, seen through `Box`, which picks
  the messages of one task in their order, is a step of one mailbox or none. Its lemmas say what an append and an
  extraction do to a box, by induction over the length, which is had as the least counterexample of a set of numbers.
* `OSAL_Timers_proofs` (assumes `TimerAssumption`). For any number of timers and times up to 16 bits. The list is the hard part: `Inv`
  says that there is a sequence of distinct records, each pointing to the next (`IsList`), that a walk in progress stands between two of its
  neighbours, and splits it into what was visited and what was not (`Whole`). Each action has a lemma that gives the sequence of the next
  state: an append for a new timer, also during the walk, a removal in the middle for one that is freed. `ListIntact`, `NeverLate` and the
  action property `StopPrevents` follow; the last is about a stop between two walks, the only ones there are, whose record the next walk takes out.
* `EnddeviceApp_proofs` (assumes the constants' ranges). The inductive invariant `IInv` is the conjunction of the safety
  properties, the fields of the two records (`Shapes`) and that the waiting messages are well formed (`InboxOK`). The conjuncts need one
  another: `AutoFaultSafe` over a change of mode needs the relay to be opened by it, `ControlAlive` that
  only the PERIODIC handler closes the relay in the automatic mode, `IdentitySaved` that saving set temperatures keeps the other items
  (`SavedEffect`), `CoordinatorInformed` which fields a handler reports (`ReportsEffect`, `TellEffect`). One lemma per handler shows that it
  preserves them. It holds for every set of keys, commands and samples, any look-up table and any bounds. `SetTempsInvariant` assumes in addition
  that keys are released one at a time and that the heap has room for every key message (`~Chords`, `~AllocFails`): with two keys at once the
  run `app_chord` refutes it, and so does a lost message. `ResetAlwaysKept` is the safety part of
  `PanChangeRestarts`: a restart that is due stays due until it is done. The invariant of `SetTempsInvariant`, `SetOK`, follows the double hit through the queue: temperatures
  that are not stored yet have the end of their double hit still to come, in the driver or among the waiting messages.
* `MacLowLevel_proofs` (assumes `MacAssumption`). For any retries, any number of backoffs and any FIFO. `IInv` says for each stage of the
  main loop what the program of the strobe processor and its two interrupts may be doing (`Program`, `Sending`, `Listening`), and when the
  receiver may be on. The handlers are compositions of routines on one record, so the proof follows them: each routine has a lemma that says
  which parts of the invariant it keeps or restores (`Base` holds also within an interrupt, the rest at its end), and each handler combines
  its routines. The five safety properties of the run are its conjuncts or follow from them. `InHand` is the part of `Confirmed` that needs no fairness: a transmission is
  never left to nobody, with interrupts as late as they like. TLC checked it before the proof.
* `Network_proofs`. The upgrade (assumes `OtaAssumption`): for any images and any numbers of retries, minutes and answers under way, so also
  without the bounds of the run. `ImageInv` says that the first `fileOffset` blocks of a download in progress are in the flash and that the
  server only offers images it has; a step that begins, continues or ends a download has its own argument, all others leave the image alone
  (`SameImage`). `AlwaysDownloadKept` has one case for each way in which a finished download ends; it adds that a download whose timers were off
  when it was finished has only the wait for the start among its timers (`OnlyOwnTimer`), so that no other event can end it or take a minute. `AlwaysTimed` is the part of `DownloadEnds` that needs no fairness (TLC agreed on the instance of `network`); the client's calls to start a timer are taken to succeed.
  The binding table (assumes `BindingAssumption`): for any number of records, any length of the lists, any end points, destinations and clusters.
  `TableImplementsBindings` maps each step to one of `Bindings`. Its invariant `BindInv` has four parts: the types; that a record which a save has already
  written is the one of the table (`Written`), so that the last write makes the copy whole; and that no two
  records have the same end point and destination, in the table unless it is torn, and in the copy unless a save is at work in it (`TableUnique`,
  `KeptUnique`). Without the last two an unbind would leave a binding behind. `ChangesAreSaved` transfers `SavedOrDue` of the
  abstract specification. `AlwaysReflectedOnce` rests on `Numbering`: the records that match are numbered without a gap by how many lie before them.
* `Drivers_proofs`. The keys (assumes `KeyAssumption`): `KeyTypes` is inductive; with it `ShiftLastsAlways` follows from one poll: without
  a double hit the gap cannot be over and begin a new one at once, and a SHIFT is reported only for a release under the power key
  (`ShiftIsRelease`). The temperature table (assumes `TableAssumption`, `TempAssumption`, `FallingAssumption`): the inductive
  invariant adds to `Bracketed` what the loop knows at each of its program points (`Loop`): the two sides
  differ by at most one when it ends, and the byte `right` never wraps. `ReadsNeighboursInvariant` follows. `AccurateInvariant` assumes what the
  interpolation relies on (`OneWrongEntry`): that all temperatures but the wrong one at index 20 are the degrees in order, that no sample equals entry 20,
  and that differences times ten fit 16 bits. Its invariant follows where the search for a value near entry 20 goes: the halves of 86 entries
  are numbers (`Halves`), and entry 20 is read as a neighbour only on one side. `SourceAccurate` shows that the tables of
  `NTC_Table.c` satisfy the assumption (`SourceOneWrongEntry`), for every even sample of a sound sensor.
  The heap (assumes the sizes of `OSAL_Memory`: a header, the least block, the two parts), for every heap and every size: `HInv`
  adds to `Tiled` and `TakenKept` what an allocation under way knows: where its walk stands and that all it has passed is behind it
  (`WalkOK`), that a block it found is free and long enough (`FoundOK`, `LongOK`), that the kick has not moved the barrier (`KickOK`,
  `NotBarrier`), and that `ff1` is not behind the first free small block (`FirstFree`). It is inductive; each action has a lemma, and
  joins and splits have lemmas of their own on tilings. `NothingOverlooked` needs `RunInv` in addition: no run of free blocks reaches from before
  the blocks being joined up to them, and every run that ends where the walk stands is too short.
* `OSAL_Nv_proofs` (assumes `PageAssumption`, `ItemAssumption`, `CutEraseAssumption`). For any items and values, any number of pages, any page
  size and any number of losses of power. `IInv` has a part that always holds (`Base`: the types, at most two copies of an item, and those of
  one compaction, the counts of each page) and one predicate for each program point (`PagesPhase`, `ScanPhase`, `CompactPhase`, `HeaderPhase`,
  `DataPhase`, `UsePhase`, `ErasePhase`, `ZeroPhase`, `ReturnPhase`) with what the routine knows there. At every program point the flash alone is
  in one of a few shapes from which a power-up recovers (`Safe`: `Open`, `Moving`, `Moved`, `Stale`; `AlwaysSafe`), so the loss of power is one
  lemma, and an erasure that is cut short another (`CutMoved`, `CutReserve`, `CutLost`). The refinement follows the value that a restart would find
  (`Holds`): each step keeps all values (`SameValues`), or is the one moment at which a request takes effect (`Takes`): the write of the data, the
  marking of the new page when the request had to compact, the zeroing of the item that a deletion removes. `MemoryIsMap` is the whole
  refinement of `NvMap`, which has no fairness. `StepsComeNearer` and `StepsAreBounded` say that requests and repairs end: `StepsLeft` counts for
  each program point the passes, pages and items that are left at most, is smaller after every step and bounded by a number of the geometry alone; so the repair that
  starts over (`OSAL_Nv.c:302`) cannot do so for ever. What is left to TLC of `ComesToRest` is that steps are taken at all. TLC checked `IInv` first, as an invariant and one step from every state that satisfies it on two pages of two items.
* `ZDApp_proofs` (assumes `ZDAppAssumption`). For any surroundings and any numbers of retries,
  waiting messages and faults. `AppInformed` is inductive given the types (`Shapes`). `BelievesRightly` needs that at most one answer of
  the network layer waits, and none while it works on a request (`OneRequest`), and that the claim already holds for a device
  whose confirmation still waits (`Belief`). `LeftStaysOut` follows what a leave leaves behind over the restart: first the leave itself in NV,
  then either a device that holds with nothing that could start it, or a new join with the option still set (`Departure`). The loss of power may come
  at any step; the one that falls between the two writes of the start leaves neither, and the invariant keeps apart the devices it has happened to.

Every invariant and every action property of the passing runs is proved. Only model-checked is liveness under fairness, which is beyond the prover, as are
ENABLED and induction over data in general (an induction over lengths is written out with a least counterexample): the fairness of
`ImplementsMailbox`, `Expires`, `DoubleHitEnds`, `Confirmed`, `ComesToRest`, `ComesBack`, `DownloadEnds`, `FaultEndsHeating`, `HeatingEnds` and `PanChangeRestarts`.
For several of them the part that needs no fairness is a theorem: `NoLostWakeup`, `NeverLate`, `InHand`, `ComesNearer`, `Timed`, `ControlAlive`, `ResetKept`.

## 7. Not modelled

`PROJECT.json` gives the reason for each component. The stack libraries are binary. The display and the
averaging of samples change nothing the rest depends on. Of the modelled components these parts are left out: `osal_msg_push`,
`osal_msg_enqueue_max` and the isr registration; the conversion of clock ticks; the other heap modes; offsets into NV items, lengths (also the one that a deletion compares, `OSAL_Nv.c:1474`),
and flash writes that fail; the choice among several parents, the filter on their network ids (`ZDApp.c:2033-2047`: what it lets through is a surrounding) and what depends on a network id in the retries (1420, 1493, 1502), ZDP requests and the security manager (`SECURE` is 0); slotted CSMA, energy
detection, timestamps and the backoff timer of the MAC, frames of which nothing is left to be read (`mac_rx.c:1270`), the flush of an overflowed FIFO before its interrupt (1184), and a reset (`macRxHardDisable`) during a transmission; the content and signature
of an image, the callbacks to the application and the specific file query, which this client never sends, of the upgrade, which is part
of the repository's stack but not linked into the end-device build; the address manager and the match of simple descriptors for bindings. Most of the rest of the repository (`zcl_*.c`, `MT_*.c`, ZDP, the security manager,
other boards' drivers) is vendor code that this device does not run, largely conversions between messages and structures.

## 8. Plan

Done, with the proofs of all their safety properties: the scheduler, timers, heap and NV memory; the key driver, the thermostat and its look-up; the ZDO; the lower half of the MAC; the upgrade; the binding table.
Next, in this order:

1. `ZDApp` composed with `EnddeviceApp`'s `Joins`, and the failure of `osal_start_timerEx` in `EnddeviceApp`.
2. The ring of the serial port with its DMA and the MT frame parser; `hal_led`; the endpoint list of AF; `ZDNwkMgr`.
