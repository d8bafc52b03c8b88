# Verification of the ESP32 PDP-11

The firmware in `src/firmware/main` runs a PDP-11 (SIMH, cut down) on an ESP32,
with a Bluetooth keyboard, a serial terminal drawn on an LCD, disks on an SD card
and a network interface over WiFi. `src/wifid` is a 2.11BSD program that runs in
the guest and asks the firmware to scan and connect. This directory holds TLA+
models of the system, TLC configurations that check them, and proofs that TLAPS
checks.

    tlc -config MCEventQueue.cfg MCEventQueue        (any run of PROJECT.json)
    tlapm EventQueueProofs.tla                       (any module named *Proofs)

## 1. Inventory

Everything the guest sees runs on **one thread**, the simulator's: `sim_instr`
executes instructions and counts `sim_interval` down; when it reaches 0,
`sim_process_event` serves the units that are due. Device registers are functions
called from within an instruction. Around it are other tasks: the keyboard (fed by
Bluetooth), the terminal, the WiFi driver's task, the event task of ESP-IDF, and
LWIP's. They share rings, a FreeRTOS queue, a few flags, and receive buffers.

| Component | State | Operations | Meets | Hard because |
|---|---|---|---|---|
| event queue, `sim_evtq.c` | delta list `sim_clock_queue`, `time` of each unit, `sim_interval` | activate, activate_abs, notbefore, cancel, process_event | every device, CPU loop | deltas with a countdown held outside the list; routines edit the list they are run from |
| timers, `sim_timer.c` | tick lists, `cosched_interval`, `usecs_remaining`, cancel hooks, calibration of two clocks, throttle | coschedule, activate_after, cancel, tick, switch of clocks, calibrate | event queue, line clock, host clock | a unit moves between two lists and must be found by cancel in either; corrections from a clock that wraps and jumps |
| interrupts, `pdp11_io.c`, `pdp11_cpu.c` | request words, `PIRQ`, priority, `trap_req` | SET_INT, CLR_INT, calc_ints, get_vector, PIRQ and PSW writes, RESET, WAIT | all devices | the loop looks at a summary that every change must bring up to date |
| console and line clock, `pdp11_stddev.c` | KB/KL registers, CSR bits, units | register accesses, tti_svc, tto_svc, clk_svc, resets | interrupts, rings | two rings with blocking ends, requests raised and withdrawn |
| keyboard and terminal tasks, `bthid.c`, `ie15lcd.c` | two byte rings; cursor, `dispmem`, picture | send a key; receive a character, escape sequences | console | block each other through the simulator; a cursor behind the last column |
| Bluetooth stack, `components/hid_server` | links, L2CAP sockets, state of each device, command and packet queues, SDP record | HCI events and commands, packets, `hci_update`, `hid_get` | keyboard task, controller | packets of two directions cross; links, channels and records end in the middle |
| WiFi receive path, `wifi_if_esp32.c` | packet queue, buffers of the driver, copies | receive callback, read, release by LWIP | XQ, LWIP, driver | three owners of one memory |
| WiFi connection, `wifid.c` twice | retry counter, error flag, scan results; socket and process | CMD_SCAN, CMD_CONNECT, driver events, quit | driver, guest | a command sleeps while the event task works on its state |
| Ethernet controller, `pdp11_xq.c`, `sim_ether.c` | CSR, lists and turbo rings in guest memory, read queue, setup, sanity timer | register accesses, service units, resets, local frames | WiFi path, event queue, guest driver | the interrupt follows transitions; the receiver lives on a unit that resubmits itself |
| MSCP disk controller, `pdp11_rq.c` | state of initialization, rings in guest memory, packets, queues of drives, response queue, credits, timer | SA/IP accesses, rq_quesvc, rq_tmrsvc, rq_svc | event queue, guest driver, disk images | packets move between six lists; host and controller hand over ring entries |
| RX01 floppy, `pdp11_rx.c` | state of the dialogue, buffer, floppy | register accesses, rx_svc, reset | event queue, driver | one unit's event drives nine states |
| RL, RH/RP, `pdp11_rl.c`, `pdp11_rh.c`, `pdp11_rp.c` | controller registers, drives with heads | functions, seeks, transfers, attentions, resets | event queue, driver | overlapping seeks, several drives and one interrupt |
| paper tape and attached files, `pdp11_pt.c`, `scp.c`, `sim_disk.c` | files, positions, buffers, images | attach, detach, read, write | devices, operator | a file changes under a driver that waits |
| CPU and MMU, `pdp11_cpu.c` | registers and their sets, PSW, mapping registers, MMR0-3, pending traps | instructions, relocation, aborts, trap sequence | interrupts, memory | an abort leaves an instruction half done; cached modes and spaces |
| floating point and commercial instructions, `pdp11_fp.c`, `pdp11_cis.c` | accumulators, status; registers in the middle of a string | instructions | CPU, interrupts | rounding at its edges; interruptible strings |
| bus, `pdp11_io.c`, `pdp11_io_lib.c`, `pdp11_cpumod.c`, `pdp11_rom.c` | device table, dispatch tables, Unibus map, model, memory size, processor registers | configure, enable, move, build tables, block transfers | every device | configurations that are legal one by one |
| start-up, `scp.c`, `main.cpp` | | size, reset, attach, boot, throttle, call sim_instr again | all | order of the calls |

What makes each correct:

- *event queue*: units are served in the order and after the wait they were
  promised, no edit for one unit disturbs another, none starves, and the countdown
  belongs to the first.
- *timers*: a unit is on one list; no tick is missed; long waits end; some clock
  always runs, and guest time keeps pace with wall time.
- *interrupts*: the loop never executes an instruction past a request that gets
  through; a request is up only for a device with a reason.
- *console, terminal*: characters are neither lost nor doubled, the polls go on, the
  two rings never block everybody, and the picture shows what memory holds.
- *Bluetooth*: what is read comes from the interrupt channel of the present link, the
  record that is parsed is whole, and keys get through on the last link.
- *WiFi*: a buffer has one owner and goes back once; every command is answered and
  the interface ends up with the last address.
- *Ethernet*: packets reach the guest in order and whole, nothing the driver waits
  for is forgotten, the receiver goes on polling, the station answers as agreed.
- *disks and tapes*: packets and credits are conserved, a command is answered once
  and in order, no work is left without the event that does it; what is read is what
  was written; a busy controller becomes ready.
- *CPU*: an instruction restarted after an abort does what it does without one; the
  results of the instructions are those of arithmetic.
- *bus*: each device answers at its own address and with its own vector, and reaches
  the memory it asked for.

`PROJECT.json` lists the hazards at their lines with the properties that cover
them.

## 2. Plan

What was done, in this order, the most important behaviour first:

1. `DeltaList`, `EventQueue` and the abstract `TimedQueue`; `ClockCosched`.
2. `Interrupts`, `Console`; `WifiRx`, `Wifid`; `Mscp`.
3. `HidHost`; `Alu`, `Cpu`, `Fp`; `Xq`.
4. The devices that are alone with their driver, as instances of one module
   `MCDevices`: `Terminal`, `Rx`, `Rl`, `Massbus` with `Rp`, `RqTransfer`, `Attached`,
   `SdpRecord`, `XqStation`, `CisStrings`, `Bus`, `Registers`, `UnibusMap`, `Calibration`.
5. Proofs: event queue with its refinement, clock co-scheduling, console, WiFi receive
   path, disk controller, mapping state of the processor, and of the Ethernet receiver its
   polling, its calls and the order of what it delivers (section 7).

Section 7 says why the other invariants of `HidHost`, `Cpu` and `MCDevices` stay with TLC.

## 3. Modules and code

`PROJECT.json` maps every definition to its lines; a definition carries the name it
has in the code, and a helper whose lines lie inside another entry of its module is
covered by that entry. What follows is how state and steps correspond.

**Queue and clocks.** `DeltaList` holds the two loops of `sim_evtq.c` that insert and
remove a unit (`Place`, `Link`, `Unlink`); the list is the chain of `next` links.
`EventQueue` adds `time`, `sim_interval` and a `phase`: the program calls an operation
between instructions or from within the service routine that
`sim_process_event` runs. `TimedQueue` is what the queue promises: each unit has a
wait of its own; instructions count (`passed`), and a unit is served when, and only when, as
many have passed since the queue was last edited (a unit that leaves is no edit, section 6)
as it has to wait. `MCEventQueue` maps the queue on it: the waits are the sums of `time` from the head, `passed` is what has gone off
the head's countdown. An instruction counts one; string instructions that count for several
(`pdp11_cis.c:1618`) are left out. `ClockCosched` has the same queue
together with the list of units that wait for ticks, `usecs_remaining`, the hook
`cancel` and the choice of the calibrated clock; `MCClockCosched` adds `due`, the tick
each unit was promised, and `quiet`, from when on the guest leaves the units alone.
`Calibration` has the arithmetic of `sim_rtcn_calb` with both clocks, precalibration and
throttling against a host whose speed changes.

**Interrupts and console.** An instruction is one step and makes at most one register
access. `Interrupts` has the request words, `PIRQ`, the priority and every place of the
loop that samples `trap_req`; an abort in a trap sequence leaves `sim_instr`, and
the main loop calls it again. `Console` adds keyboard, transmitter and line clock, and
the two rings with the tasks at their other ends, each with a place where it blocks.
`MCConsole` has a guest whose interrupt routine reads the buffer once;
`MCConsoleLive` a guest under no obligation. `Terminal` is `ie15_task`: cursor, copy
of the screen and picture; ESC Y may name any position, and the behaviour ends (`Overrun`)
where the code would write outside `dispmem`.

**WiFi.** `WifiRx` has one action per way through `wlan_sta_rx_callback`, a read in two
steps, and the release by LWIP. `Wifid` has the guest's processes with program
counters and one socket, the command handler, the retry counter and error flag, and
as environment the driver and DHCP; `lost` remembers which answers the code did not send
or the full queue refused.

**Bluetooth.** `HidHost` keeps the host's view (`host`, `dev`), what travels in both
directions, and the controller and peer as environment: one action per event handler,
under the code's names. `SdpRecord` is the collection and parsing of one record.

**Ethernet.** In `Xq` the controller `xq`, the lists in guest memory `mem`, the network
`net` and a driver: ring of buffers, interrupt routine from reading the CSR to
relisting. The start is that of a driver that has read what an earlier one left
(`Settled`). The loops over descriptors and packets are functions of the round
(`ReceiveRounds`, `TransmitRounds`, `ReadRounds`), a pass being the value after as many
rounds as the list has entries. `XqStation` has what the station does by itself: setup, address ROM,
sanity timer, loopback, identification, fallback from turbo mode; a boot frame is for the
guest, as in the code.

**Disks and tapes.** `Mscp`: the handlers are functions from a controller state to the
next, one per function of the code, and the actions are the three service routines,
the two halves of a transfer and the register accesses; packets are records, the
packet array is reduced to the lists and the number of free ones; `io_ref` tells which
command a transfer worked for. The guest keeps credits, may abort commands and reset.
`RqTransfer` has the data of one transfer, with the image and its errors; `Rx`, `Rl`,
`Massbus`/`Rp` and `Attached` are controllers with their drivers.

**Processor.** `Alu`, `Fp` and `Cis` are pure: results and condition codes. `Cpu`
has registers, PSW, relocation, aborts and the trap sequence; one step is one
instruction with all its references in order. `MCCpu` adds an operating system that
repairs aborts with MMR1 and MMR2, and a second processor that runs without faults.
`MCAlu` is a machine of one step: an operation with its operands and result.
`CisStrings` interrupts string instructions between any two bytes.

**Bus.** `Bus` (devices, addresses, vectors, memory size, model), `Registers` (register
files of the models) and `UnibusMap` (map, block transfers).

`MCDevices` puts the modules that do not meet next to each other: `dev` says
which one this behaviour is about, the variables of the others keep one value.

## 4. Runs and bounds

| Run | Instance | Why it is enough |
|---|---|---|
| event_queue | 3 units, waits 0, 1, 3 | equal, shorter and longer than the one before; the middle of three is removed |
| clock_cosched | 2 devices and both clocks, ticks of 2 instructions, Hz 3, waits of 1 and 6 | a wait of one tick, of two, of more than a second; head and tail of the list |
| console | all four requests on three levels, rings of one, keys of up to 2 characters | a key that does not fit in the ring, each request over and under another |
| console_live | the same without `PIRQ`, two levels | interrupts on and off |
| wifi_rx | 3 buffers, queue of 2, heap for 3 | queue full of buffers, of copies, of both; heap used up with and without room |
| wifid | 2 processes, 2 retries, scans of 0, 1 or 3 access points, queue of 2, 2 drops | retry counter left over from the other's command; an empty scan and a full queue lose an answer, and the properties exempt just those by name (`lost`) |
| rq | 6 packets (5 usable), rings of 2, 4 commands, 1 reset, 2 drives of which 1 attached | two first credits as with 32 packets; one command working, one waiting, one aborted and the abort; host words for every initialization |
| hid | 1 keyboard, queues of 12 bytes, record of two parts, one drop, one report | each link, channel and answer can be lost once at any place |
| alu | bytes all, words at the edges of sign, carry and length; floating format of 4 and 8 bits | all shifts, roundings and exponents |
| cpu | 262 144 words of memory, 1 interrupt, up to two pages missing or read only | an abort at each reference of an instruction, and a second one in the restart |
| xq | 3 buffers, 3 frames of one or two segments, 1 transmission, 1 reset, queue of 2 | overflow, a packet over the end of the list, both modes |
| devices | see `MCDevices.cfg` and the definitions in `MCDevices` | ends of tracks, packs, memory, screens and strings; cursor positions up to three rows below the screen |

Invariants of `devices`: PictureKept (terminal), BusyServed (a busy controller has the
event that ends it), MediaExact (data and counts of floppy, RL, RP, MSCP, tapes,
record), StationExact, MachineExact (strings, devices, registers, DMA), TimeKept.

`CHECK_DEADLOCK FALSE` stands where the system may stop: the WiFi driver without a
buffer, all wifid processes ended, a guest that has used up its commands or its
bounds, machines of one step.

## 5. Fairness

- event_queue: the processor goes on and service routines return.
- clock_cosched: the same, and the guest is quiet from some point on; a guest that
  cancels and queues for ever can postpone a wait for ever.
- console_live: the reader of each ring goes on, half a second passes, and the queue
  serves a queued unit again and again. Strong fairness of two service routines,
  because the loop disables them for a while each time; that this is what the queue
  gives is NoStarvation of event_queue.
- wifid: processes, command handler and event task run, the driver answers.
- hid: tasks run, the controller and a keyboard that is not lost answer.

Fairness is written out (`[]<>~guard \/ []<><<A>>_vars`) where ENABLED of an action with
a functional handler would take TLC too long.

## 6. Where code and comments, or code and intention, disagree

Found while modelling; the models follow the code. No run is spent on them.

Queue and clocks:
- `sim_evtq.c:184`: time elapsed since the last reload of `sim_interval` is forgotten
  when a unit is queued, so that a unit can be served before its time (comment
  45-51). `sim_evtq.c:87`: the whole time of the unit that is served goes off `sim_interval`,
  which has counted it down already, so that the next one, unless the queue is changed
  meanwhile, is served that much too early. `TimedQueue` promises no more than that.
- `sim_timer.c:2988` says 0 ticks is the next tick and 1 the second; the tick
  decrements before it compares (2131-2135), both are the next.
- `sim_timer.c:3063-3083`: cancelling the head leaves `cosched_interval` behind.
  2508-2516 and 2545-2565: migrated units get the head's wait read again.
- `sim_gtime` is always 0, catch-up ticks are acknowledged by nobody, idling is disabled.

WiFi and Bluetooth:
- `wifi_if_esp32.c:127`: a packet dropped at a full queue loses its receive buffer; the
  driver has two (`sdkconfig:916`). 233: an old CONNECTED event turns reconnection
  on while CMD_CONNECT wants it off. A stale GOT_IP can be taken for the answer and
  unverified credentials are kept.
- `wifid_iface.h:33` promises an end to every list, but a scan without results sends
  nothing (`main/wifid.c:98-100`), and `wifid -scan` waits on. An answer that finds the queue
  full is lost too. ScanEnds, ConnectAnswered and InterfaceFollowsLink exempt these cases.
- `wifid.c:63` reads from a null pointer when memory is short.
- `hci_server.cpp:563-565` looks at marks of the device, not of the channel; inbound
  sockets never become OPEN; `l2_close` leaks; a keyboard that connects by itself while
  an inquiry runs goes dead; a late name answer of an earlier link opens services
  twice; an error response to SDP is ignored and the record waited for.

Ethernet:
- A request to unit 4 and `srr` survive the bus reset (comments 2597, 2616); in turbo mode
  nobody polls, so reception waits for a transmission; `used` is advanced before a write that
  fails; unit 3 is not cancelled by reset; an address filter is never applied.
- `scp.c:928` passes its arguments swapped, so the type is DELQA-T. A loopback frame to the
  station itself ends the emulator (`eth_write`).
- Nothing reboots the guest: `xq_boot_host` (`pdp11_xq.c:2648-2660`) returns STOP_SANITY.
  For a boot frame (comment 2046-2059) `xq_read_callback` takes that as not processed
  (2103-2107) and the guest gets the frame. When the sanity timer runs out (comment 2783),
  `xq_tmrsvc` returns before `sim_activate_after` (2806); the status ends `sim_instr`,
  `scp.c:956-958` calls it again, and the timer's unit, with it the system id, stays idle
  until a bus reset (2612).
- Turbo fallback: the sanity timer goes on below zero, so a quarter second later it
  runs out a second time, as above. Before it is started, a turbo controller answers multicast
  loopback with the address 0 (1995-1996).
- `ethq_insert_data` (`sim_ether.c:755-760`) leaves the old `oversize` pointer in a slot it
  overwrites; no frame the driver sends is as long as that.

MSCP:
- `pdp11_rq.c:2237-2261`: `io_complete` survives `rq_abo` (1733-1738) and `rq_reset`
  (3075-3086): the next transfer of the drive skips its I/O.
- 2247: a write whose buffer begins in nonexistent memory requests nothing and is
  never answered. 2629 "owned by host" against 2650.
- A write that meets nonexistent memory and fails on the host is answered NXM with a
  count of bytes that may not be on disk; the write buffer is read twice; the error
  indicator of the stream is sticky (`sim_disk_clearerr`): after one host error every
  transfer is reported failed. Reading past the end of an image that is not whole
  sectors loops (`sim_disk.c:187-208`). `sim_disk_detach` closes a null stream.

Processor and bus:
- `pdp11_cpu.c:2489`: MMR1 against the comment 2456-2461. MFPS to a nonresident page
  (2251-2262), CSM that aborts on vector 010 (1473-1490) and STCfi with an exception are
  not restartable and are excluded from RestartExact; JSR SP in kernel mode too.
- `pdp11_cpu.c:3392`: a dangling `else` makes every later reset of the processor fail,
  so `reset_all` after a change of model resets nothing else. `scp.h:93` defines the
  question as its default, so memory that holds something is never cut off.
- The display register replaces the switch register in `iodibp`; an incompatible device
  ends `auto_config` early; `ODD_MRG` clears the high byte; LMAH is not shifted, its
  write clears bit 6 instead of 22; CPUE44_BUSE is masked away; RESET resets the clock's
  settings but not JCSR; with the map off a transfer into the I/O page goes to memory.

Floating point and strings: a subtraction whose smaller operand is beyond the guard bits
is up to a quarter unit too large; MODf's fraction can round to 1.0. MOVC whose
destination ends at the top of the address space is moved in the wrong direction
(kept out of the operands).

Devices: attach opens at position 0 though `pdp11_pt.c:410` says at the end, so
punching overwrites; attach clears an error the driver has not seen. RX: a function does
not clear the request although 240-247 says so. RL: bus reset during a seek leaves SEEK.
RH: a transfer to a positioning drive clears DONE for good until a clear; a byte count
of 16 bits moves the count modulo 32 768 words. Terminal: the character of column 81 is
drawn nowhere. ESC Y takes any two bytes less 32 as row and column (`ie15lcd.c:467-468`);
a scroll brings the row up by one only (504-509), so the next letter (488-489) or ESC K
(457-460) may write outside `dispmem`. PictureKept says that nothing but ESC Y leads there.

## 7. Proofs

TLAPS checks, for every value of the constants that the assumptions allow:

| Module | Theorems | Argument |
|---|---|---|
| `DeltaListProofs` | PlaceFound, LinkKeeps, UnlinkKeeps, LinkedSums, UnlinkedSums | a place exists by the least index whose sum exceeds the wait (`SetInduction`, induction over a set of numbers); sums before and after are compared in three stretches: before, at and behind the place |
| `EventQueueProofs` | EventQueueTypes, EventQueueLinked, EventQueueCountdown, PromiseKept | one inductive invariant (types, no unit linked twice, the countdown belongs to the head, and between two service routines of one call of `sim_process_event` it is spent); PromiseKept uses the sums, and the countdown for the count, to show that a step of the queue is a step of `TimedQueue` or a stutter: a unit is served when exactly its wait has been counted |
| `ClockCoschedProofs` | OneListKept, ClocksRun, TickNeverMissed | `HInv == Tidy /\ Control /\ Rising /\ Timely` |
| `ConsoleProofs` | ConsoleTypes, NeverMissed, AlwaysJustified, AlwaysQueued, RequestNeverLost, OutputNeverDoubled | `IInv`: types, no interrupt passed over, every request has a reason, units queued, characters of the rings |
| `MscpProofs` | BooksKept, PacketsKept, WorkAlwaysScheduled, ResponseNeverLost, CreditsKept, CommandsHaveOneFate | `IInv == Running(State, host) \/ Rest(State, host)`, and `FInv` for the last; see below |
| `CpuProofs` | SpacesKept | `Fit`, the property with the fields it reads, is inductive; one lemma for each routine that relocates, loads a mapping register or PSW, traps or aborts, carries it through an instruction of any shape |
| `XqProofs` | PollingKept, NothingEverForgotten, AlwaysInOrder | `XqInv == Good(State) /\ DrvInv`, with `CallInv` for the second and `CallInv` and `OrderInv` for the third; loops by the rounds they take; see below |
| `WifiRxProofs` | BufferOwned, LostInTwoCases | `IInv`: the buffers of queue, reader, callback, LWIP and driver are disjoint, each queued once |

The invariants a run checks are not inductive, and what had to be added says why they
hold. *NoTickMissed* speaks of the units on the tick list at a tick; it needs that the
sums along the list are those the list was built from: `Tidy` (no repetitions, natural
deltas, a unit is hooked exactly while it is on the tick list), `Rising` (the ticks
promised rise along the list), `Timely` (the sum before a unit is what its promise
leaves), and `Control` (where the program is and what the clock holds there).
*NoMissedInterrupt* needs that requests and summary agree at each place of the loop,
not only where it looks. *OneOwner* needs that queue entries are distinct, which the
property does not say.

The handlers of `Mscp` are functions, and so are their lemmas: `Base(s, h, k, c)` says of a
state between two calls that its books are right while k packets, c of them commands, are
in hand; taking a packet from a list raises k, giving it to `rq_putpkt` lowers it, and what
a command leaves is `Ended`, with none in hand. *CreditsConserved* alone does not exclude
that the controller runs out of packets (PE_NSR, fatal), because error logs take packets
and no credits. What does is the order they are sent in: every log is followed by its end
packet (`Paired`), so that a queue of responses never holds more logs than end packets
(`Bare` counts the difference); a log that was the last to get into the ring has left
its end packet behind (`LastEnds`), and where logs wait, one credit at least is with the
host (`Room`), so that it has room for the log as well. It takes four packets: with
two or three, one credit, a log and its command would use up what there is; the
code has 32. Where the host reads (`Unread`) makes *NoLostResponse* inductive: the
entries behind its index are filled, up to the controller's index, and the
others are the controller's. A reset, which may come at any moment, leaves the controller
at `Rest`.

*OneFate* speaks of a command that is on its way and says nothing of the one that is
about to come, so it is not inductive: `FInv` adds where commands come from. The
command ring holds the last n commands of the host in line, the oldest where the
controller reads next (`InLine`), and they and all later ones are nowhere else
(`Ahead`); hence one that is fetched is new to every list, and later than all the
drive has. A state between two calls spares a command in hand (`Spares`), which
is nowhere until it is given to one of the four: a drive, the waiting responses,
the ring, the host. A handler is `Safe` when what it takes from a list
becomes free and what it gives was free. The drive's own queue is served before the ring, and while it
is not empty the ring is not read for it: `Sorted` then is kept by putting a command at the
tail. A reset empties drives and rings, so n is 0 again, and the numbers of the host go on.

*KeepsPolling* of `Xq` says nothing of the guest's list, and three places need it. A round
of `xq_process_rbdl` that stops with packets waiting has met the end of the list
(`ListEnds`: some descriptor of the guest is always invalid, since the driver relists
only what it has read), so that one call drains the queue or leaves RL set, in as many
rounds as `Away` counts. Packets left behind without polling have Rcv queued
(`Awaited`), whatever RE says. In turbo mode the receiver does not poll; a stop back to
normal mode must find RE clear, hence `DrvInv`: while a STOP is under way the driver
does not want the receiver enabled. The loops are functions of the number of rounds, and the
step from one round to all is the least number at which a claim fails (`Climb`).

*NothingForgotten* looks at a driver that sleeps; `CallInv` follows it through a whole
round. In normal mode the descriptors from the one the driver reads next to the
controller's are filled and the others empty, and the one before the driver's is
invalid (`Ring`); the controller stands behind the end of a packet unless the list is
used up (`Open`); a packet whose end is in the list has set RI (`Told`); and RI or XI
with interrupts enabled mean a request, except for the bits the driver has read and
is about to clear (`Called`). The hard case is a list that ends in the middle of a
packet: RL interrupts nobody. It has filled NRx - 1 buffers, more than any packet takes
up, so that another packet ended among them and its RI stands; `Mid` carries this
through the rounds: as long as no end is in the list, the packet at the head of the queue has
used as many buffers as are filled. In turbo mode the ring has no invalid
entry (`Circle`: the filled buffers run from the driver's to the controller's, or are
all), the interrupt may be put off while ICR is clear (`Coming`), and the transmit
ring is followed entry by entry (`Posting`), because a driver that is busy waits for the
interrupt at its end and the next message must start where the last one ended.
The theorem needs `DriverAssumption`: messages end with the end of a packet, and the receive
list of the driver holds the longest packet there is. Without it the driver does sleep for
good beside a used-up list: RL alone is no reason for `xq_csr_set_clr` to interrupt.

*DeliveredInOrder* speaks of what the driver has read; what it will read next lies in three
places, so that the property alone is not inductive. `OrderInv` lays them end to end
(`Streams`): the log of the driver, continued by the segments in the filled buffers
(`Got`), by the packets of the read queue, and by the frames that still wait in the network,
in the order of their numbers (`Stocked`). `Flow` relates log and queue: the log with
the buffers is in order (`InOrder`, the property of any sequence of segments);
a packet that is cut is at the head of the queue and has used what the log shows of it, or a
loss is noted that the next segment will carry (`Linked`); what waits is later than
what has arrived, of every source (`Behind`); and what the network gave and the log
does not show waits in the queue, was answered by the controller itself, or there is a loss
to tell of (`Whole`). A full queue that drops its head breaks the packet in the buffers: this is
why `Linked` has its second case, and why the note of a loss must reach the
first segment after it. The number of own packets follows the transmit list: a round sends what
the list holds in line (`Carried`), and `DriverAssumption` says that a message numbers its
packets rising. In normal mode the descriptor the controller writes next must
follow the filled ones (`Readable`, or RL is set: `Ready`); in turbo mode `Circle` says it.
A reset, of either kind, sets floor to the last numbers there were, and log, buffers
and queue are empty; the proof is the same for both (`OrderAnew`).

`Cpu` computes a whole instruction as a chain of states, and an abort may cut it
at any access. The proof follows the chain for every program, every
memory and every content of the registers: after each routine the cached mode's spaces
are those the present PSW and MMR0 and MMR3 give.

Each invariant was checked by TLC on the run of its module before it was proved.
Assumptions are those the modules name (`...Assumption`): finite or nonempty sets,
positive sizes, distinct names.

Only model-checked:

- liveness (WaitsEnd, NoStarvation, KeysArrive, OutputEnds, wifid, hid), which needs
  ENABLED;
- what recursive and folded operators compute (`Alu`, `Fp`, `Cis`, strings, bus tables), and
  the devices of `MCDevices`, which use them;
- `HidHost`: the invariants hold as long as the queues suffice. A full `_rx` drops the
  report of a disconnection, so that *NoStaleReport* is true of the sizes of the run and
  not of every size;
- *DirtyTracked*, *StackAbortKeepsProgram* and *RestartExact* of `Cpu`: true of a machine
  whose kernel stack and operands are in memory, not of one that has them in the I/O
  page, where writing them changes the mapping.

## 8. Not modelled

Characters, packet contents and register bits without influence on control are reduced to
what the properties tell apart. The note of each component in `PROJECT.json` says what is
left out; the larger ones:

- `Mscp`: errors of the ring memory once initialization succeeded, drives attached
  while the controller runs, write protection, RX33 formatting, SA's value, the F flag.
- `HidHost`: reassembly of packets (a link lost between two fragments leaves
  `_packet_pos` behind), role switches; a create for an existing link is refused by status.
- `Xq`: bad initialization blocks, receive buffers in nonexistent memory, chains to
  themselves, status words; `XqStation`: MOP blocks, the DEQNA.
- `Cpu`: cache, maintenance, breakpoints, history; operands of LDCff, LDCif, STCfi; in
  `MCCpu` no interrupt from kernel mode.
- `Wifid`: configuration file, malformed datagrams, memory exhaustion.
- `Calibration`: idling and dynamic throttling, which this build does not switch on.
- `SdpRecord`: records that are not well formed, answers longer than 512 bytes.
- Not reached on this machine, but modelled because the code is there: RL, RH/RP, the tape
  reader, commercial instructions, the Unibus map and the other processor models
  (`pdp11_defs.h:907`, `pdp11_sys.c:148-206`).
- Not code of the simulated machine: case, board, images, tools, SIMH libraries that
  nothing here calls.
