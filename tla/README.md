# A verification project for the PdS detection system

ESP32 boards listen to Wi-Fi probe requests and report them every fifteen seconds
to a server. The server stores the reports in a database, waits until every board
has reported, and trilaterates each packet heard by enough boards. A GUI starts and
stops the server and draws the positions on a map. This directory
holds TLA+ models of that system, the TLC configurations that check them and the
TLAPS proofs about them. Paths below are relative to the root of the repository;
`TCPServer.cpp`, `PacketProcessor.cpp`, `ProbePacket.cpp` and `CoverageArea.cpp`
are in `src/PDS_Detection_System/PDS_Detection_System/`, `DataWindow.xaml.cs` and
`Home.xaml.cs` in `src/PDS_Detection_System/DetectionSystem/`, the firmware is
`src/main/wifi_sniff_main.c`.

Contents: 1 the system, 2 the modules, 3 the runs, 4 the proofs,
5 disagreements between code and comments, 6 what is left out, 7 the plan.

## 1. The system

### Parts

| Part | State it keeps | Operations |
|---|---|---|
| Firmware, counter and lock | `count`, `sniff_count`, `in1`, `in2`, `turn` | `count++` in the Wi-Fi driver's callback; copy and clear in the timer task; Peterson's algorithm around both |
| Firmware, buffer and upload | the linked list `head` … `curr`, `timer_queue` | `wifi_sniffer_packet_handler` appends; `timer_group0_isr` posts an alarm; `timer_example_evt_task` runs a round: `tcp_client_timer_version` with three attempts, `send_probe_buffer`, the read of an acknowledgement |
| Firmware, joining | `READY_PORT`, `ready` | `event_handler` on GOT_IP: `esp_initialization` (retries), `esp_is_ready` (does not), then the timer task and the sniffer start |
| Time base | `timer`, a packet's `b.timestamp`; `last_update`, `previous_update` of each device | the reload at the alarm; `update_time`, `get_previous_update_time`; `storePackets` |
| Server, start-up | `esp_list`, `threads_to_wait_for`, the READY threads, table ESP | the constructor's retry loop, `TCPS_ask_participation`, `TCPS_ready_channel` |
| Server, service | one thread per report, `esp_to_wait`, a condition variable | `TCPS_requests_loop`, `TCPS_service`, `storePackets`, `TCPS_process_packets` |
| Server, packet processing | tables Packet, Local_Packets, Devices, Local_Macs; the vectors x, y, d | `ProbePacket::storeInDB`, `PacketProcessor::process` |
| Server, coverage area | the polygon, read from table ESP | `CoverageArea::CoverageArea`, `isInside` |
| Configurations, identifiers | the server's arguments, `esp_list`, table ESP across runs | `Button_Click` (new), `Old_Config_Click` (old), joining, the lookup of a packet's device |
| GUI, launch | the server process, its redirected output, a named pipe | the window's constructor and closing, `TCPServerOutputHandler`, `PipeASyncFunction`, `TCPS_pipe_send` on the server's side |
| GUI, map | ellipses on a canvas, registered names, the request, a slider | `Update_Click`, `Animation_Click`, `Slider_ValueChanged`, `ClearMap` |
| Others | | `BlockingQueue` (only pushed to), `Triangulation` (unused), `MapWindow` (nothing opens it), charts and searches over the tables |
| dlib | | the optimiser that yields a position |

### How they interact

* A device dials the server's main port, sends INIT and its MAC address and gets
  the number of a port. It dials that port, sends READY, and waits for the READY
  the server sends once *all* devices have sent theirs.
* From then on the device's packet handler fills the list; each alarm starts a
  round that sends MAC address, count and packets over a new connection, and
  reads one packet back as an acknowledgement.
* The server gives each connection a thread. It stores the packets, takes one off
  `esp_to_wait` under a mutex, notifies the processor, and sends the
  acknowledgement. The processor waits for `esp_to_wait == 0`, sets it back to
  the number of devices and calls `process()`.
* `process()` shares the tables with the service threads; there is no transaction,
  so every SQL statement commits by itself.
* The GUI starts the server with a configuration: whether to erase, how many devices,
  and where they stand. The server greets through a named pipe, prints to an output
  the GUI shows line by line, and is killed when the window closes.
* The two share the database: positions arrive while the GUI draws them, and table ESP
  of one run is the old configuration of the next.

### What is hard about it

Two tasks on two cores share an unlocked list and a counter behind Peterson's
algorithm on plain ints. Devices reboot between any two messages of start-up.
Reads do not check their results and spin on a dead connection. The processor
tests for one exact value of a counter that other threads decrement. Rows arrive
between the statements of a round, a round can be cut short by a restart, and the
tables may or may not survive it. A packet's time is the sum of a stamp from one clock
and a moment from another, brought together by a report that may be late or repeated.
The constructor's retry loop runs the join phase a second time on the state of the
first. Three threads of the GUI meet in `Dispatcher.Invoke`. `PROJECT.json` lists these hazards one by one,
at their lines, with the properties that look at them.

### What makes each part correct

* Counter: no increment lost, none collected twice; each task gets in.
* Buffer: packets leave in order, once, never half-written; nodes are not used
  after they are freed; rounds end; nothing is stranded.
* Start-up: nobody is told READY early; each READY thread serves its own device;
  no device takes two places; start-up completes.
* Service: stored before counted before acknowledged; no lost wake-up; rounds
  happen and reports end.
* Processing: enough devices behind each position; one position per packet; rows
  neither linger nor leak from one packet into the next.
* Times: a row is dated near when its packet was heard, and not in the future.
* Area: a position is accepted when it lies within the polygon of the devices.
* Identifiers: a packet's number is in table ESP, and stands for the place of the device
  that heard it.
* GUI: closing leaves no server behind and comes to an end; a greeting finds a pipe; the
  map shows one moment of one animation.

## 2. The modules

| Module | Models | Composed from |
|---|---|---|
| `CountCell` | the counter as a user sees it: `Bump` and `Collect`, atomic | |
| `CountLock` | every load and store of the lock and the counter | refines `CountCell` |
| `UploadQueue` | what the buffer promises: a queue, `Put` and `Upload` | |
| `ProbeBuffer` | list, alarms and rounds of one device | extends `CountCell`, refines `UploadQueue` |
| `JoinReady` | start-up: devices, main thread and READY threads together | |
| `RoundLedger` | what the server promises about reports: `Store`, `Count`, `Acknowledge`, `CallRound` | |
| `ServerRounds`, `MCServerRounds` | service threads, processor thread, and each report as its device sees it | refines `RoundLedger` |
| `PacketProcessor`, `MCPacketProcessor` | the tables between `storeInDB` and `process()` | |
| `ReportTimes` | the timer, the stamps, `update_time` and the times of the rows, one device and the server together | |
| `CoverageArea` | table ESP as a polygon, `isInside` | |
| `EspNumbering` | configurations, numbers and table ESP over several runs | |
| `GuiLaunch` | the window, its two helper threads, the server process, the pipe | |
| `DetectionSystem` | windows that start, and end, servers that work on the same tables | `GuiLaunch` and `EspNumbering` |
| `DeviceMap` | the map of the GUI and the table it is drawn from | |
| `PositionProofs` | the theorems about `CoverageArea` and `DeviceMap` | |
| the other `…Proofs` | the theorems about the module they are named after | |

The two MC modules only add the symmetry of the devices. Definitions marked
"variant" are wrong versions of the operator below them; no specification uses
them. They exist so that each property can be seen to fail when the code is
changed that way.

**CountLock.** `pc[p]` is where a task is, one action per load or store:
`RaiseFlag`, `YieldTurn`, `TestFlag`, `TestTurn` are the entry (lines 177–180 and
610–613), `ReadSniffCount`/`ClearCount` and `ReadCount`/`WriteCount` the two
critical sections, `LowerFlag` the exit. The C code has a data race here, so its
outcomes are constants. `Buffered` tasks have their stores wait in a buffer `wb`
until `Commit`; `Hoisted` tasks may find that the compiler moved the loads out of
the empty loop, and then a failed test is final (`hung`). `Timers` is a set,
because every GOT_IP event creates a timer task.

**ProbeBuffer.** Nodes are numbered in the order they are linked, so the pointers
`head`, `curr` and `ptr` are numbers and `freed` says how far `free` has got.
`FillNode`, `AppendNode`, `CountPacket` are the handler (`MallocFails` its error
path); `TakeEvent` … `ReadAck` are a round; `Retry` is the `continue` of the
attempt loop. Reading a node that was freed is undefined, and the model stops
the task there (`corrupt`); an acknowledgement that comes short leaves it in the
read loop (`spin`). `mishaps` is a history variable: it notes that `count` wrapped,
that the packets of a round were given up, or that a batch broke off after some
nodes were freed. No guard reads it. The properties that these events falsify are
stated for as long as they have not happened.

**JoinReady.** `esp` is where each device is, `main` where the main thread is,
`thread[s]` the READY thread of slot `s`. A connection is a device with its boot
number, so that after `Reboot` the old one is dead (`Live`). `Throw` is what every
exception in the join loop comes to. The port is computed, written as digits and
read back as the code does (`Port`, `EncodePort`, `DecodePort`). `HeapCorrupted`
is the double `freeaddrinfo`: it may end the process from then on. The port a device is
told is that of its turn in this call, the one a READY thread opens is that of its place
in `esp_list` (`PortOf`); after an attempt that broke off with devices recorded the two
differ, and two threads may want one port (`Taken`), of which the second ends.
`should_erase_db` is chosen at the start and decides whether joining devices are
inserted in table ESP, where a second insert ends the process. `Retried` is the catch
clause of the constructor's loop. It leads to a second call of
`TCPS_ask_participation` after `accept()` failed in the service phase (`ServeFails`)
or a socket could not be opened (`OpenFails`): `base` is the length of `esp_list` when
a call begins, and `told` remembers that an earlier call answered READY. The counter
is not set again (line 40), and the READY sockets of the first call still take
connections nobody accepts (`ReadyUnheard`). A device that sniffs on sends reports
into the join phase (`Report`).

**ServerRounds.** A report is a pair of device and number. `client[r]` is how its
device sees it, `thread[r]` where its service thread is. `processor` is awake,
asleep on the condition variable, or processing. `NotifyProcessor` is one action,
as the decrement and the notification hold the mutex, and so does the test in
`TestCounter`; `SpuriousWake` is what the standard allows. `ReceiveSpins`,
`ReceiveNoCount`, `RejectStranger` and `AckReset` are the paths of connections
that break off, or come from a device that is not in `esp_list`. What all this amounts
to is `RoundLedger`: its `stored`, `counted` and `rounds` are those of `ServerRounds`,
`acked` the reports whose device has read the acknowledgement, and it knows nothing of
threads, connections or the counter.

**PacketProcessor.** A row is a device, a hash, which copy it is, and its time.
Each statement on tables Packet and Position is an action (the look-ups in table ESP
for each row gathered are part of `Gather`); between any two, rows may arrive
(`InsertPacket`), time may pass (`Tick`) or the server may be started again with
its tables (`RestartKeep`) or without (`RestartErase`). The position is data:
whether it lies inside the area is a free choice in `Locate`. `TooOld` subtracts
as `uint64_t` does.

**ReportTimes.** Whole seconds. `Tick` moves the server's clock and the device's timer
together and reloads the timer at the alarm; `StampPacket` and `CountPacket` are the
handler, between which an alarm or a whole round may fall. `SendHeader` hands the MAC
address to a service thread (`thread`); threads of attempts that broke off, of empty
reports, and the READY thread are only numbers (`late`), as they do nothing but call
`update_time`, some time. `StorePackets` dates the rows by `Base`, the moment *before*
the last. `heard` and `at` are history, and `mishaps` notes late and repeated reports.

**CoverageArea.** The operators translate `onSegment`, `orientation` (with its cast to
`int`), `doIntersect` and `isInside`. Coordinates are counted in units of `1 / Scale`,
so that positions lie between the points devices stand on and the cast has something
to round. The ray ends at `INF` and no relation between `INF` and the coordinates is
assumed, so the cast may also take a corner for level with the ray that is not
(`Level`): within 1 / (INF - x) of its height, 0.0001 in the server, where positions are
doubles. The state machine around
them is the table filling up, the processor thread reading it, and one question.
`LiesWithin` is the reference: on the boundary, or left of an odd number of half-open
sides.

**EspNumbering.** Devices are their MAC addresses and a place is named by the device
that stands there, so `place = mac` says "measured from where it stands".
`OldConfigClick` reads table ESP by its primary key and hands only the places on;
`setupDB` empties the tables for a new configuration, after the greeting;
`Join` numbers the devices in the order of the arguments; a run may end anywhere
(`Stop`), which leaves part of a table behind. Each packet keeps, as history, the
device that heard it. A server that finds its table not as it should be ends (`Fails`).

**GuiLaunch.** `ui` is where the window's thread is, `output` and `reader` the threads
behind `OutputDataReceived` and the pipe's callback. `Dispatches` is the condition of
`Dispatcher.Invoke`: the window's thread is idle. `WaitForExit` needs the process dead
*and* the output read to its end. What `Process` and the pipe do is taken from how the
code uses them.

**DetectionSystem.** A window starts its server with the click that opened it
(`OpenWindow`). A step of `GuiLaunch` with which the process ends is also the
`Stop` of `EspNumbering` (`Launching`), so a run ends wherever the window is closed or
something fails, and by nothing else. `SetUp` and `ServerWorks` need a live process that
has greeted. `NewWindow` is the GUI started again, whether or not the last window left
its server running. One that was left keeps its memory (`left_phase`, `left_list`, …),
works on the same tables (`Left` is a second instance of `EspNumbering`), and ends by
itself only. The server of the new window sets up the tables under it (`SetUp`) and then
cannot bind the port (`ServerFails`). `mixed` is history: two servers have had their
hands on the tables as they are; a new configuration set up without the other clears it.

**DeviceMap.** `frame` is the frame `Animation_Click` is at, so that the server may
insert positions between two queries (`InsertDevice`). `names` outlives `canvas`:
`ClearMap` empties the one and of the other removes "device0_t" only, a name no ellipse
has. `Named` is the loop over "device1_t", "device2_t", … up to the first gap.

## 3. The runs

Passing runs:

| Run | Checks | Question |
|---|---|---|
| `count_lock` | `MutualExclusion`, `ImplementsCell` | With stores in order, is the counter atomic, even if spin loops do not reload? |
| `count_lock_live` | `HandlerEnters`, `TimerEnters` | With loops that reload, does each task get in, even if stores land late? |
| `probe_buffer` | `SendsOnlyFilled`, `ListIsLive`, `ListLengthIsCount`, `ImplementsQueue`, `RoundEnds`, `EventuallyUploaded` | What does the buffer promise under every fault, and up to which mishap? |
| `join_ready` | `BarrierHolds`, `OneBarrier`, `OwnSlot`, `JoinsOnce`, `JoinsOrRefused` | Does start-up survive reboots, failing sockets and threads, and its own repetition? |
| `server_rounds` | `NoMissedWakeup`, `RoundIsStored`, `OverrunRunsAhead`, `ImplementsLedger` | Are reports stored, counted, acknowledged and called for rounds as the ledger says, whatever breaks off, and who can overrun the counter? |
| `server_rounds_live` | `RoundOrStall`, `EveryReportEnds` | Do rounds follow rounds and reports end beside connections that hang? |
| `packet_rounds` | `LocatedOnce`, `EnoughDevicesLocate`, `OnlyYoungRowsStay`, `ProcessEnds` | Is a packet located once and from enough devices, what stays, over rounds, time and restarts, and does a round end while rows come in? |
| `report_times` | `UnderAnIntervalAhead`, `NotAhead`, `DatedNear` | How far is a row's time from when the packet was heard? |
| `coverage_area` | `Agrees`, `BetweenHeights` | Where does `isInside` say what its comment says, and does it stay between the heights of the devices elsewhere? |
| `detection_system` | `NoOrphan`, `PipeAwaits`, `NumberIsKnown`, `MeasuredIfNumberedByMac`, `CloseEnds`, `GreetingShown` | Does the server go when the window goes, does the greeting get through, and what does the next window's server find in the tables, also beside one that was left? |
| `device_map` | `FewFrames`, `OnlyThisFrame`, `OneMap` | Is what the map shows one moment of one animation, in spite of stale names? |

Type invariants are proved, and not run again.

Runs that find a violation are in section 5. A property's comment in its module
says what it states and about which code.

### Bounds, and why they suffice

* `count_lock`: one timer task, one handler; `CountMod = 4` lets the counter wrap
  after four packets. `MaxPending` plays no role without delayed stores. In
  `count_lock_live` a task has at most `MaxPending = 4` stores in flight, more than
  one pass through the lock needs at once.
* `probe_buffer`: six packets, a counter of four values (so it wraps), a queue of
  two alarms (so it overflows), three attempts as in the firmware. Six packets are
  enough for two batches and a batch that breaks off in the middle.
* `join_ready`: two devices and two slots, so that slots can be confused and one
  device can take both; each device boots three times, so it can be lost before
  and after its confirm; two attempts of the constructor.
* `server_rounds`: two devices with two reports each, so a device can report twice
  before the other does and a full round can follow another; one device that never
  joined, with one report. `server_rounds_live` has one device with three reports:
  the round after a round, the report too many, and a thread that hangs beside one
  that does not. Liveness needs it this small because devices may not be taken as
  interchangeable there.
* `packet_rounds`: four devices, the smallest number where half of them is not all but
  a quorum; rows dated now or a second ahead, an age limit of 0 and one second to pass,
  so rows can be young, old and in the future; one restart, with or without the tables.
* `report_times`: an interval of two seconds, so that an alarm can and cannot fall
  between two steps; two packets, one for each side of a reload; two attempts, so one can
  be repeated; five seconds, two alarms and the round after the second.
* `coverage_area`: up to four devices on a 3 × 3 grid, all placings, so the polygon may be
  convex, concave, crossing itself or flat; positions at, beside and halfway between the
  devices' coordinates, in sixteenths. `INF = 10` stands for 10000: the cast then takes a
  corner for level with a ray when it is less than about 1/9 to 1/7 away in height, so at
  one sixteenth and not at half a unit, and both cases occur at every corner. The theorems
  hold for any `INF` and any `Scale`.
* `detection_system`: two devices, of which a configuration may name one or both, in
  either order: enough for numbers that differ from the order of the MAC addresses. At
  most one unread line: a buffer that can be empty and full while the thread that reads
  it holds another. One server is left behind at a time. The number of windows and runs
  is not bounded: the state space is finite.
* `device_map`: two devices, three positions, three times and three animations, so the
  animation after the animation after a refused one; at most two frames each, so that
  three are refused.
* `CHECK_DEADLOCK FALSE` is said where the program really stops: both tasks hang in
  their loops (`count_lock`), start-up ends or hangs (`join_ready`), `exit(1)`
  (`server_rounds`), an acknowledgement that never comes, and the end of the clock
  (`report_times`), one question per polygon (`coverage_area`), a window that is gone
  while its server lives on (`detection_system`).

### Fairness

* `CountLock`: a task that has raised its flag is scheduled, and stores land
  eventually. The ESP32 has two cores and the timer task is pinned to neither, so a
  spinning handler cannot starve it. Packets and alarms need not come.
* `ProbeBuffer`: handler, task and the auto-reloading hardware timer go on.
* `JoinReady`: devices are plugged in, and run; every thread of the server is
  scheduled. Reboots and failures need not happen.
* `ServerRounds`: threads are scheduled; a device that has connected sends what it
  has or breaks off. Connecting is not fair: devices may fall silent.
* `DetectionSystem`: the window's thread, the two others and the server's start-up run. Nobody
  need close the window or open another, and the server need not print, work or exit.

No fairness is put on an environment's goodwill: a connection that keeps failing is
allowed to fail for ever, and `RoundEnds` holds because attempts are counted.

## 4. The proofs

Each theorem holds for every value of the constants that satisfies the module's
`ASSUME`. TLC evaluates those assumptions in the runs above. Every proof has the same shape: an
inductive invariant `IInv`, one lemma per group of actions that it is kept, and the
property from it.

| Theorem (module) | States | Under |
|---|---|---|
| `LockTypes`, `LockExcludes`, `LockImplementsCell` (`CountLockProofs`) | `TypeOK`, `MutualExclusion`, `ImplementsCell` | `InOrder` |
| `BufferTypes`, `BufferSendsOnlyFilled`, `BufferImplementsQueue`, `BufferListIsLive`, `BufferLengthIsCount`, `BufferRoundWinds` (`ProbeBufferProofs`) | `TypeOK`, `SendsOnlyFilled`, `ImplementsQueue`, `ListIsLive`, `ListLengthIsCount`, `RoundWinds` | any faults |
| `JoinTypes`, `JoinBarrierHolds`, `JoinOneBarrier`, `JoinJoinsOnce`, `JoinOwnSlot`, `JoinHandsOver` (`JoinReadyProofs`) | `TypeOK`, `BarrierHolds`, `OneBarrier`, `JoinsOnce`, `OwnSlot`, `HandsOver` | any faults |
| `ServerTypes`, `ServerNeverMissesWakeup`, `ServerAckedIsCounted`, `ServerRoundIsStored`, `ServerOverrunRunsAhead`, `ServerImplementsLedger`, `ServerKnownOnly` (`ServerRoundsProofs`) | types, the safety properties of the run, `AckedIsCounted` and `KnownOnly` | any faults |
| `PacketTypes`, `PacketEnoughDevicesLocate`, `PacketOnlyYoungRowsStay`, `PacketLocatedOnce`, `PacketProcessEnds` (`PacketProcessorProofs`) | types and the properties of the run | any bounds |
| `TimesTypes`, `TimesUnderAnIntervalAhead`, `TimesNotAhead`, `TimesDatedNear` (`ReportTimesProofs`) | types and the properties of the run | any interval and faults |
| `CoverageTypes`, `CoverageBetweenHeights`, `CoverageAgrees` (`PositionProofs`) | `TypeOK`, `BetweenHeights`, `Agrees` | any placing, position, scale and length of the ray |
| `MapTypes`, `MapFewFrames`, `MapOnlyThisFrame`, `MapOneMap` (`PositionProofs`) | `MapTypeOK` and the properties of the run | any devices and times |
| `LaunchTypes`, `LaunchNoOrphan`, `LaunchPipeAwaits`, `TablesTypes`, `TablesNumberIsKnown`, `TablesMeasuredIfNumberedByMac`, `SystemImplementsNumbering` (`DetectionSystemProofs`) | types, the safety properties of the run, and the steps of `EspNumbering` | any number of devices, any faults |

* **Lock.** `InOrder` says there is one timer task and no delayed store. The firmware
  ensures neither; with `Buffered = {handler}` or a second timer task TLC finds both
  tasks inside. `FlagsTell` (a flag is up exactly while its task asks or is in) and
  `InsideAlone` (a task that is in has the other out, about to yield, or waiting for a
  turn that is not its own) make exclusion inductive; `ReadIsCurrent` (the value
  `count++` has read is still the counter's) gives the refinement.
* **Buffer.** `ListCovers`: the list is at least as long as the counter, the batch and
  the uncounted packet together. That is why an unlocked list is safe to walk.
  `Sending` and `FreedInList` say where `ptr` and `freed` are, and give the queue
  refinement. `LiveInv` and `ListExact` add what holds until a mishap. `RoundWinds` is
  the half of `RoundEnds` that needs no fairness: `StepsLeft`, at most
  `Tries * (CountMod + 4) + 1`, falls with each step of a round and is untouched by
  packets and alarms. A round that is neither spinning nor corrupted has some left
  (`StepsLeftBound`).
* **Start-up.** `StillWaiting` goes by the sign of the counter: above 0 it is the number
  of slots that have not heard their device, those that heard wait, and nobody was told;
  at 0 all slots have heard, or, in a later call, none has; below 0 it stays. That
  later call is why nobody is told READY twice over (`JoinOneBarrier`). `JoinedOK`:
  wherever the constructor may begin again, no thread is on its way. For
  `OwnSlot`, `PortsOwned`: while the server runs, a device's port is that of a slot
  that is, or is about to be recorded as, its own; it rests on `PortReadBack`, that
  writing and reading a port gives it back, and on `PortsListed`, that in the first call
  the ports in `esp_list` are those of their places. `HandsOver` is what the next part begins
  with: `ListFull`, and as many different devices as the list is long, if table ESP
  keeps them apart. After the first call they are the `Esp` of `ServerRounds`, and
  `esp_number` is how many.
* **Rounds.** `Accounting`: counted reports plus `esp_to_wait` are the reports all
  rounds so far, and the current one, call for. With `ThreadTells` (a thread's place
  tells whether its report is stored and counted) this bounds rounds by stored
  reports. For `ImplementsLedger`, step by step: `KnownInv` and `StoredOnce` (a stored
  report's thread is past the store) let each service step be an entry of the ledger,
  and `Accounting` says that the counter is at 0 exactly when the counted reports are
  one more per device, which is what the ledger asks of a round. `OverrunRunsAhead` from
  `Accounting` as well: if every device had at most one counted report more than there
  were rounds, their sum would leave the counter at 0 or above.
* **Processing.** `GathersEnough` (once the count was enough it stays enough, as rows
  only leave between rounds), `SnapshotAccounted` (what became of each row the round
  began with), and for `LocatedOnce` that the rows of a located packet are flagged
  or are too few: two disjoint sets of devices cannot both be a quorum. `ProcessEnds` by a
  variant: four steps for each row still to be looked at, and what the current
  one needs (gathering, with a look-up in table ESP per row, is one step). Rows that come
  in later are not among those the round began with.
* **Times.** A row's error is `Base` minus the reload its packet was stamped after. So
  `Updates` (where the two moments of the device's entry lie) and `Stamps` (after which
  reload the packets still in the list were stamped) are both measured from the last
  reload, `now - timer`; `OneDue` and `Accounted` tell which report is under way and which
  packets it carries. `UnderAnIntervalAhead` needs none of it: no update is later than now.
* **Area.** `RayMissesSide`: a side that lies above or below the ray has both ends on
  the same side of it, also after the cast unless it takes one of them for level with
  the ray; so `doIntersect` is false for it, and with no side met `isInside` is too. For `Agrees`,
  side by side: `ClearIntersects` (of `doIntersect`'s five cases a ray clear of corners
  leaves two), `BesideRising` (between the ends' heights a turn is a mean of how far
  right of the two ends a point is, weighed by its heights, so its sign tells the side the point is on),
  and with them `SideMet`: a side is met by the positions on it and on its left, no
  others. So the sides `isInside` counts are those `LiesWithin` counts, and no parity
  has to be computed; nothing is asked of the polygon, which may cross itself.
* **Map.** `ClearMapKeepsNames`: clearing unregisters nothing, as "device0" is no name an
  ellipse has.
  `NamesOK` is why that does no harm: an ellipse on the canvas is found under a name
  of its time before the first gap, so what a frame's names show of the canvas is
  what was drawn for it (`ShownIsDrawn`). `RequestOK`: after a refused request the map
  is empty, and while frames are drawn nothing can be seen yet. `FramesDrawn(k)`: the
  canvas holds the first k frames of the request, which bounds them by its length.
* **GUI.** `PipeOK` (what the pipe is, for each pair of server and callback), `KilledOK`
  (from the wait on, the server is dead).
* **Tables.** `RunsWithServer` ties the two halves together: without a process there is
  no run. `Memory` says of either server what it remembers in each phase, and `LeftOK`
  that one left behind has set up its tables, which are `mixed` since; what is said
  of the tables is said while they are not `mixed` (`TablesInv`), and regained when
  `setupDB` empties them for one server alone. `TableCounts`: the numbers in table ESP are those from 0 on, so counting rows
  shows that a device that joins under the old configuration has a number that is there.
  For `MeasuredIfNumberedByMac`, `RankByMac`: if numbers grow with the MAC addresses,
  the i-th address has number i - 1, because the rows before it are as many as the
  numbers before its own; then `Listed` and `PacketsTold` say that this run, and the
  packets earlier ones left, mean the same device by a number.
* **Composition.** `SystemImplementsNumbering`: whatever the window does, the tables go
  through steps of `EspNumbering` and no others, a killed server being its `Stop`, as
  long as no other server is left. Beside one, the steps of either change the tables of
  both, and no single run of `EspNumbering` explains them.

Only model-checked: the liveness properties (`HandlerEnters`, `TimerEnters`,
`RoundEnds`, `EventuallyUploaded`, `JoinsOrRefused`, `RoundOrStall`,
`EveryReportEnds`, `CloseEnds`, `GreetingShown`), as liveness under fairness is beyond
the provers used here. Every safety property of a passing run is proved.

## 5. Where the code and its comments disagree

`packet_carried` (`OwnRowsOnly`) is a run that TLC ends with a counterexample: x, y and
d are cleared once per round, so the second packet of a round is fitted to the
measurements of the first as well.

Of the following four a checked property tells how far the code is right, in its
condition or its second half:

* A write that fails inside a batch returns with nodes freed and `head` unmoved
  (`wifi_sniff_main.c:643`); the next attempt reads and frees them again. `ListIsLive`
  holds until such a batch. `HeadIsLive` states it without the condition: as an
  invariant of `probe_buffer` it fails.
* The port is sent before the thread that listens on it starts (`TCPServer.cpp:209`
  and 249), so a fast device is refused; it does not try again, nobody tests `ready`,
  and it sniffs untold. `JoinsOrRefused` excuses it, `SniffsWhenTold` does not.
* One report too many between the last notification and the test makes `esp_to_wait`
  negative (`TCPServer.cpp:446`), and it stays so: the ledger calls a round only when the
  counted reports are exactly one more per device. `OverrunRunsAhead` says who does it: a
  device counted two reports ahead of the rounds, never one that waits for them.
  `RoundOrStall` is what remains of liveness, and `RoundsGoOn`, without the stall, fails.
* `Old_Config_Click` reads table ESP in the order of the MAC addresses and hands only the
  places on (`Home.xaml.cs:94`). The server asks for the devices, and numbers them, in
  that order, while table ESP keeps the numbers of the earlier run: a packet's device is
  looked up by another device's number. `MeasuredIfNumberedByMac` says when it goes well;
  `MeasuredWhereItStands` in its place fails.

Smaller ones have no run of their own: the comment at `PacketProcessor.cpp:220` says
two minutes where the code compares with 30 seconds; the `UPDATE` at line 207 also
flags rows that came after the `SELECT` of line 137 and were never used; two reports
of one device stand for one report of each of two (`TCPServer.cpp:446`); a round whose
attempts all fail has already cleared `count` and strands its packets, as does a
counter that wraps (both are `mishaps`).

Of the parts modelled last:

* `isInside` counts a ray through a corner twice: the centre of a diamond is judged
  outside, and (-0.5, 1) inside the triangle (0,0), (0,2), (1,1), though the comment at
  `CoverageArea.cpp:91` promises the inside. `orientation` casts to `int`, so
  positions near the line of a side are judged by its bounding box, and a corner whose
  height is within about 0.0001 of the position's counts as level with its ray: in the
  triangle (0,0), (2,1), (0,2) the position (0.6, 1.00005) meets both sides at (2,1) and
  is judged outside; above the square (0,0), (0,2), (2,2), (2,0) the position (1, 2.00005)
  meets one side and is judged inside. `Agrees` and `BetweenHeights` except just these
  (`ThroughCorner`, `Level`); without that they fail in `coverage_area`. With two devices
  "the point is surely colinear" (line 100), but nothing makes it so, and again the
  bounding box decides.
* The comment at `wifi_sniff_main.c:566` has a packet's time count from the last
  connection; it counts from the timer's last reload. After a repeated or late report,
  rows are dated up to an interval ahead, and `PacketProcessor` subtracts unsigned: it
  takes them for very old and removes them at once.
* The second call of `TCPS_ask_participation` appends to the same `esp_list` and finds
  the counter at 0: its barrier never opens, and thread `s` greets the device of the
  first call's slot. A report in the join phase is dropped, or holds the main thread in
  `recv` (`TCPServer.cpp:190`).
* The server is started before its pipe exists (`DataWindow.xaml.cs:90`, 93), and one
  that is quick enough finds none and ends. Closing the window while a line is handed to
  it deadlocks (`Stuck`, lines 217 and 235). `ProcessName` throws for a process that has
  exited, where the comment at line 231 says "if already terminated do nothing".
  `ServerPipe` is null for a moment on another thread (lines 306–309). If the database
  does not open, the handler uses a null command and the GUI ends, with the server or
  without, though the comment at line 244 promises the kill in that case too: whether
  the handler runs after an exception nobody caught is up to the runtime.
* `ClearMap` loops from "device0", a name no ellipse has, and so unregisters nothing;
  `OnlyThisFrame` holds all the same, because `DrawFrame` registers anew. An animation's
  query joins on `MAX(dev_id)` over the whole table, so a device is seen only near its
  very last position, in any animation.
* Where the GUI ends with the server running (`aborted`), a second window's server runs
  `setupDB`, and drops the tables of the first, before its `bind` fails. The first goes
  on with numbers table ESP has no more, and `process()` ends it when it looks one up.
  `NumberIsKnown` and `MeasuredIfNumberedByMac` are stated for tables one server has
  worked on since they were set up (`~mixed`); `N!NumberIsKnown` in their place fails.

## 6. Not modelled

* dlib, which is all but a few thousand of the repository's lines: a vendored library, of
  which the server calls one optimiser. The share of the implementation these modules
  cover is small for that reason, and cannot grow: the trilateration is numerics, and a
  free choice in `PacketProcessor`.
* Packet contents: frame parsing, hashing, printing. Data.
* The second processor thread, after start-up succeeded, failed in the service phase and
  succeeded again. With the counter as it is a second success takes threads that
  failed to start; it would add a processor on the same tables.
* More than one timer task, beyond `CountLock` (`Timers` is a set there). In `ProbeBuffer`
  two would walk and free one list.
* Memory bounds: `hashCode`'s terminator, the acknowledgement of a report of no
  packets, the reallocation of `esp_list` under its readers.
* `BlockingQueue` (nothing pops), `Triangulation` (nothing calls it), `MapWindow` (an older
  copy of the map that nothing opens).
* More than two servers at once, and a new window opened while the one left behind has
  not yet set up its tables: `NewWindow` waits for that, a matter of the second between
  the greeting and the first join. `setupDB` is one action.
* `setupDB` swallows its exception; that the tables exist is assumed.
* The GUI's charts, its search for devices that change their address, layout.

## 7. The plan

Done: the counter, the buffer, start-up with its repetition, service rounds and
processing, from the sensor to the position, each with its abstract view where it has
one (`CountCell`, `UploadQueue`, `RoundLedger`); the time base; the area; the numbering of devices over
runs, under a GUI that starts and ends them; its map.

Left, in this order:

1. `Server`: `JoinReady`, `ServerRounds` and `PacketProcessor` composed, with an
   abstract specification of the server (reports in, each packet located at most once)
   and the second processor thread.
2. `esp_list` as the vector it is: storage that moves under the READY threads.
