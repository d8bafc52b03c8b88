----------------------------- MODULE MCDevices -----------------------------
(***************************************************************************)
(* The devices that are alone with their driver, each for itself: dev says *)
(* which one it is, the others are not there.                              *)
(***************************************************************************)
EXTENDS Integers, Sequences, FiniteSets, TLC

CONSTANTS
    Columns, ScreenRows, TabStops, Letters, AddressRows, AddressColumns,
    RX_NUMTR, RX_NUMSC, RX_NUMBY, RxTargets, RxVersions,
    RL_NUMWD, RL_NUMSC, RlCylinders, RlAttached, RlLocked, RlJobs, RlMaxJobs, RlMaxResets,
    RhCount, RhMemory, RP_NUMWD, RpCyls, RpSurfs, RpSects, RpDrives, RpLocked, RpEmpty,
    RpJobs, RpFunctions, RpMaxFunctions, RpMaxTroubles, RpMaxJobs,
    MacLength, Bank, MacStride, SecondBank, LongSetup, SanityTime, XQ_SYSTEM_ID, XQ_HW_SANITY, HwSanity,
    Rom, Peers, Setups, InitBlocks, Requests, MaxRequests, MaxGuest,
    AddressSpace, INT_TEST, CisInstructions,
    Second, SIM_TMAX, GapTooBig, clk_tps, sim_int_clk_tps, ClkInit, ClkDelay, Speeds, Throttles,
    SleepMin, MaxTroubles, MaxSeconds,
    Installed, OffAtFirst, Sizes, Mem64, UniMem, MaxMem, IoPage, Addresses, Vectors, RomUnits, RomSizes, MaxChanges,
    RegModels, JCSR_dflt, MemBlocks, SwitchRegister, WrittenWords, Lasts, ToyTimes, MaxAccesses,
    MapPage, UniSize, Physical, MapByte, DmaMemory, IoWords, IoCpu, DmaRequests, MapWrites, MaxDma,
    RQ_NUMBY, RQ_MAXFR, DrvTab, ImageSizes, HostBytes, Plugs, RqCommands, RqMaxCommands, RqMaxMishaps,
    Files, FloppyCapac, FloppySector, MaxTape, MaxTapeEvents,
    SdpRecords, SdpAnswers

VARIABLES dev, term, dispmem, picture, rx, floppy, rxdrv, rl, rlunit, rldisk, rlmem, rldrv,
          rh, rp, rpdisk, rpmem, rpdrv, station, wire, guest,
          cis, cismem, rtc, calb, left, throt, host, kept, io, changes, regs, accs, bus, dmamem, dma,
          image, hostmem, rqunit, rqguest, tape, taper, sdp

TERM == INSTANCE Terminal
RX == INSTANCE Rx
RL == INSTANCE Rl
RP == INSTANCE Rp
STN == INSTANCE XqStation
CIS == INSTANCE CisStrings WITH Instructions <- CisInstructions
CAL == INSTANCE Calibration
BUS == INSTANCE Bus
REG == INSTANCE Registers
UBM == INSTANCE UnibusMap WITH Page <- MapPage
RQT == INSTANCE RqTransfer
ATT == INSTANCE Attached
REC == INSTANCE SdpRecord

(* A row and a column before the screen, and more behind it than dispmem   *)
(* has.                                                                    *)
MCAddressRows == -1 .. ScreenRows + 3
MCAddressColumns == -1 .. Columns + 1

(* The sectors the driver wants: on both tracks, behind the last sector,   *)
(* behind the last track and on the drive that is not there.               *)
Target(drive, track, sector) == [drive |-> drive, track |-> track, sector |-> sector]
MCRxTargets ==
    {Target(0, 0, 2), Target(0, 1, 1), Target(0, 1, 3), Target(0, 2, 1), Target(1, 0, 1)}

(* Drive 0 has two cylinders; 1 is write protected, 2 empty.               *)
MCRlCylinders == 0 :> 2 @@ 1 :> 1 @@ 2 :> 1
Job(op, drive, block, count, ie, spoiled) ==
    [op |-> op, drive |-> drive, block |-> block, count |-> count, ie |-> ie, spoiled |-> spoiled]
MCRlJobs ==
    {Job("READ", 0, 1, 6, TRUE, FALSE), Job("READ", 0, 4, 3, FALSE, FALSE), Job("RNOHDR", 0, 2, 6, TRUE, FALSE),
     Job("WRITE", 0, 3, 5, TRUE, FALSE), Job("WRITE", 0, 7, 3, FALSE, FALSE), Job("WRITE", 1, 0, 1, TRUE, FALSE),
     Job("WCHK", 0, 3, 4, TRUE, FALSE), Job("WCHK", 0, 2, 5, FALSE, TRUE),
     Job("READ", 1, 2, 2, TRUE, FALSE), Job("READ", 2, 0, 2, TRUE, FALSE)}

(* Three drives of eight sectors: 1 is write protected, 2 empty; transfers *)
(* over the end of the pack, behind it and over the end of memory.         *)
RpJob(op, drive, block, count, ie, address, spoiled) ==
    [op |-> op, drive |-> drive, block |-> block, count |-> count, ie |-> ie, address |-> address, spoiled |-> spoiled]
MCRpJobs ==
    {RpJob("READ", 0, 1, 3, TRUE, 1, FALSE), RpJob("READ", 0, 7, 3, FALSE, 1, FALSE),
     RpJob("WRITE", 0, 3, 3, TRUE, 0, FALSE), RpJob("WRITE", 0, 7, 4, FALSE, 0, FALSE),
     RpJob("WRITE", 1, 2, 2, TRUE, 0, FALSE), RpJob("WCHK", 0, 2, 3, TRUE, 1, FALSE),
     RpJob("WCHK", 0, 2, 3, FALSE, 1, TRUE), RpJob("READ", 0, 2, 4, TRUE, 4, FALSE),
     RpJob("WRITE", 0, 2, 4, FALSE, 4, FALSE), RpJob("WRITEH", 0, 0, 2, TRUE, 0, FALSE),
     RpJob("READ", 2, 0, 2, TRUE, 0, FALSE), RpJob("READ", 0, 8, 2, TRUE, 0, FALSE)}
RpFunction(fnc, drive, block) == [fnc |-> fnc, drive |-> drive, block |-> block]
MCRpFunctions ==
    {RpFunction(fnc, 1, 3) : fnc \in {"SEEK", "RECAL", "OFFSET", "RETURN", "UNLOAD", "DCLR", "PRESET", "PACK",
                                      "NOP", "ILLEGAL"}}
    \cup {RpFunction("SEEK", 1, 8), RpFunction("SEARCH", 2, 0), RpFunction("NOP", 3, 0), RpFunction("READ", 1, 0)}

(* The station's own addresses begin with 2 (of the controller), 6 and 8;  *)
(* 4 are others, 1 is a multicast address.                                 *)
Mac(a, b) == 0 :> a @@ 1 :> b
MCRom == Mac(2, 9)
MCPeers == {Mac(4, 1), Mac(4, 2)}
MCSanityTime == 0 :> 1 @@ 1 :> 2
SetupPacket(macs, len, multicast, time) ==
    [macs |-> macs, len |-> len, flags |-> [multicast |-> multicast, promiscuous |-> FALSE, time |-> time]]
MCSetups ==
    {SetupPacket(0 :> Mac(6, 1) @@ 1 :> Mac(3, 3) @@ 3 :> Mac(5, 5), 13, TRUE, 0),
     SetupPacket(0 :> Mac(6, 1) @@ 2 :> Mac(7, 7), 13, TRUE, 1),
     SetupPacket(0 :> Mac(6, 2) @@ 1 :> Mac(3, 3) @@ 3 :> Mac(5, 5), 6, FALSE, 0)}
MCBlocks ==
    "first" :> [phys |-> Mac(6, 1), hit |-> TRUE, timeout |-> 1]
    @@ "second" :> [phys |-> Mac(8, 1), hit |-> FALSE, timeout |-> 0]
To(mac) == [fn |-> "forward", to |-> mac]
ReplyTo(mac) == [fn |-> "reply", to |-> mac]
Request(proto, dst, list) ==
    [proto |-> proto, dst |-> dst, src |-> Mac(4, 1), skip |-> 0, list |-> list, by |-> <<>>]
MCRequests ==
    {Request("loop", Mac(4, 2), <<To(Mac(6, 1)), To(Mac(4, 1)), ReplyTo(Mac(4, 1))>>),
     Request("loop", Mac(2, 9), <<To(Mac(4, 2)), To(Mac(4, 1)), ReplyTo(Mac(4, 1))>>),
     Request("loop", Mac(1, 1), <<To(Mac(4, 1)), ReplyTo(Mac(4, 1))>>),
     Request("loop", Mac(6, 1), <<To(Mac(6, 1)), ReplyTo(Mac(4, 1))>>),
     Request("loop", Mac(6, 1), <<To(Mac(6, 1)), To(Mac(4, 1)), ReplyTo(Mac(4, 1))>>)}
    \cup {Request("console", Mac(6, 1), <<[fn |-> fn, to |-> Mac(4, 1)]>>) : fn \in {"request id", "boot"}}

(* Strings and tables for the instructions, with and without operands      *)
(* inline: overlapping ones in both directions, empty ones, fills.         *)
R0 == [k \in 0 .. 5 |-> 10 + k]
Arguments(l1, a1, l2, a2, fill, table) ==
    0 :> l1 @@ 1 :> a1 @@ 2 :> l2 @@ 3 :> a2 @@ 4 :> fill @@ 5 :> table
Instruction(op, args, mem) ==
    {[op |-> op, inline |-> inline, arg |-> args, r |-> IF inline THEN R0 ELSE args, mem |-> mem] :
        inline \in BOOLEAN}
Plain == [a \in 0 .. 15 |-> 100 + a]
Table == [a \in 0 .. 15 |-> IF a < 12 THEN a % 3 ELSE 100 + a]
Text  == [a \in 0 .. 15 |-> (<<1, 1, 2, 0, 1, 1, 1, 2, 1, 1, 2, 2, 0, 5, 6, 9>>)[a + 1]]
Upper == [Text EXCEPT ![4] = 200]
MCCisInstructions ==
    UNION (
        {Instruction(op, Arguments(l1, 3, l2, a2, 7 + 256, 0), Plain) :
            op \in {"MOVC", "MOVRC"}, l1, l2 \in {0, 2, 3, 5}, a2 \in {0, 1, 2, 3, 4, 5, 6, 9}}
        \cup {Instruction("MOVTC", Arguments(l1, 3, l2, a2, 7, 12), Table) :
            l1 \in {2, 3}, l2 \in {2, 4}, a2 \in {1, 4}}
        \cup {Instruction(op, Arguments(l, a, 0, 0, c, 0), Text) :
            op \in {"LOCC", "SKPC"}, l \in {0, 1, 3, 6}, a \in {0, 4}, c \in {1, 2}}
        \cup {Instruction(op, Arguments(l, a, 0, 0, c, 12), Text) :
            op \in {"SCANC", "SPANC"}, l \in {0, 1, 4}, a \in {0, 5}, c \in {1, 2, 4}}
        \cup {Instruction("CMPC", Arguments(l1, a1, l2, a2, c, 0), Upper) :
            l1, l2 \in {0, 2, 4}, a1, a2 \in {0, 4, 8}, c \in {1, 2}}
        \cup {Instruction("MATC", Arguments(l1, a1, l2, a2, 0, 0), Text) :
            l1 \in {0, 2, 6}, a1 \in {0, 3}, l2 \in {0, 1, 3}, a2 \in {0, 4, 8}})

(* Sleep 50 ms or, because the host cannot, 2 times 25 ms.                 *)
Throttle(val, val2) == [val |-> val, val2 |-> val2]
MCThrottles == {Throttle(2500, 50), Throttle(2500, 25)}

(* Devices that come into each other's way when they are enabled or moved. *)
MCInstalled == <<"RHA", "CLK", "PTR", "TTI", "TTO", "RX", "RP", "RQ", "RQB", "RQC", "XQ", "XQB">>
MCAddresses == "RX" :> {\o12150, \o17570} @@ "XQ" :> {\o17160, \o14460} @@ "RQB" :> {\o12150}
MCVectors == "RX" :> {\o100, \o270} @@ "PTR" :> {\o264, \o300}
RomAt(base, size) == [base |-> base, size |-> size]
MCRomSizes == {RomAt(\o17160, \o20), RomAt(\o13000, 4), RomAt(\o13002, 4)}

(* Words with bits in both bytes; the seconds of the clock chip go over    *)
(* the minute.                                                             *)
MCWritten == {{0, 1, 9, 10, 12, 13}, {11}}
MCToyTimes == <<<<8, 59>>, <<9, 0>>>>

(* Transfers that begin and end at, before and behind the end of memory,   *)
(* of a page of the map and of the I/O page.                               *)
MCDmaMemory == "Q" :> 20 @@ "U18" :> 14 @@ "U22" :> 22
MCTransfers == ({0, 3, 6, 10, 13, 16, 17, 18, 19, 20, 22} \X {0, 1, 2, 4, 5}) \cup {<<5, 12>>}
MCMapWrites == {<<0, 6>>, <<1, 1>>, <<2, 1>>, <<4, 11>>, <<5, 3>>, <<6, 0>>, <<3, 1>>}

(* Commands that begin and end at and behind the end of memory, of the     *)
(* drive and of its replacement table, and in the middle of a block.       *)
MCDrvTab == "RA92" :> [lbn |-> 3, rcts |-> 1] @@ "RX33" :> [lbn |-> 2, rcts |-> 0]
RqCommand(op, ba, bc, lbn) == [op |-> op, ba |-> ba, bc |-> bc, lbn |-> lbn]
MCRqCommands ==
    {RqCommand(op, ba, bc, lbn) :
        op \in {"RD", "WR", "ERS", "CMP", "ACC"}, ba \in {0, 6, 10}, bc \in {0, 2, 4, 6, 10}, lbn \in {0, 1, 3, 4}}
    \cup {RqCommand("RD", 1, 4, 1), RqCommand("ERS", 1, 4, 1), RqCommand("WR", 0, 3, 1)}

(* No tape, tapes, and a file longer than a floppy. *)
MCFiles == {<<>>, <<11, 12>>, <<21, 22, 23, 24, 25, 26, 27>>}

(* A keyboard as it might be, with its descriptor two sequences deep; and  *)
(* one whose record has every type, a name in an alternative, a name twice,*)
(* attributes in no order and lengths of all widths.                       *)
El(type, of) == [type |-> type, of |-> of, wide |-> 1]
Wide(type, of, wide) == [type |-> type, of |-> of, wide |-> wide]
At(id, value) == [id |-> id, value |-> value]
MCSdpRecords ==
    {<<At(0, El(1, <<0, 1, 0, 0>>)), At(1, El(6, <<El(3, <<17, 36>>)>>)),
       At(256, El(4, <<75, 66>>)), At(513, El(1, <<1, 17>>)),
       At(518, El(6, <<El(6, <<El(1, <<34>>), Wide(4, <<5, 1, 9, 6>>, 2)>>)>>))>>,
     <<At(518, Wide(6, <<Wide(6, <<El(1, <<34>>), Wide(4, <<37, 53, 3>>, 4)>>, 2)>>, 4)),
       At(258, El(7, <<El(4, <<80>>)>>)), At(9, El(0, <<>>)), At(257, Wide(4, <<68>>, 2)),
       At(516, El(5, <<1>>)), At(11, El(8, <<104, 116>>)), At(523, El(2, <<0, 0, 0, 0, 0, 0, 0, 9>>)),
       At(1, El(3, [k \in 1 .. 16 |-> k])), At(257, El(6, <<El(4, <<69, 69>>), El(4, <<>>)>>)), At(769, El(4, <<1>>))>>}

-----------------------------------------------------------------------------
termvars == <<term, dispmem, picture>>
rxvars == <<rx, floppy, rxdrv>>
rlvars == <<rl, rlunit, rldisk, rlmem, rldrv>>
rpvars == <<rh, rp, rpdisk, rpmem, rpdrv>>
stationvars == <<station, wire, guest>>
cisvars == <<cis, cismem>>
calvars == <<rtc, calb, left, throt, host, kept>>
busvars == <<io, changes>>
regvars == <<regs, accs>>
dmavars == <<bus, dmamem, dma>>
rqxvars == <<image, hostmem, rqunit, rqguest>>
tapevars == <<tape, taper>>
vars == <<dev, termvars, rxvars, rlvars, rpvars, stationvars, cisvars, calvars,
          busvars, regvars, dmavars, rqxvars, tapevars, sdp>>

NoTerminal == term = "none" /\ dispmem = "none" /\ picture = "none"
NoRx == rx = "none" /\ floppy = "none" /\ rxdrv = "none"
NoRl == rl = "none" /\ rlunit = "none" /\ rldisk = "none" /\ rlmem = "none" /\ rldrv = "none"
NoRp == rh = "none" /\ rp = "none" /\ rpdisk = "none" /\ rpmem = "none" /\ rpdrv = "none"
NoStation == station = "none" /\ wire = "none" /\ guest = "none"
NoCis == cis = "none" /\ cismem = "none"
NoClocks == rtc = "none" /\ calb = "none" /\ left = "none" /\ throt = "none" /\ host = "none" /\ kept = "none"
NoBus == io = "none" /\ changes = "none"
NoRegisters == regs = "none" /\ accs = "none"
NoDma == bus = "none" /\ dmamem = "none" /\ dma = "none"
NoTape == tape = "none" /\ taper = "none"
NoTransfer == image = "none" /\ hostmem = "none" /\ rqunit = "none" /\ rqguest = "none"

Init ==
    /\ dev \in {"terminal", "rx", "rl", "rp", "station", "cis", "clocks", "bus", "registers", "dma", "transfer",
               "tape", "record"}
    /\ IF dev = "bus" THEN BUS!BusInit ELSE NoBus
    /\ IF dev = "terminal" THEN TERM!TermInit ELSE NoTerminal
    /\ IF dev = "rx" THEN RX!RxInit ELSE NoRx
    /\ IF dev = "rl" THEN RL!RlInit ELSE NoRl
    /\ IF dev = "rp" THEN RP!RpInit ELSE NoRp
    /\ IF dev = "station" THEN STN!StationInit ELSE NoStation
    /\ IF dev = "cis" THEN CIS!CisInit ELSE NoCis
    /\ IF dev = "clocks" THEN CAL!CalibrationInit ELSE NoClocks
    /\ IF dev = "registers" THEN REG!RegistersInit ELSE NoRegisters
    /\ IF dev = "dma" THEN UBM!DmaInit ELSE NoDma
    /\ IF dev = "transfer" THEN RQT!RqTransferInit ELSE NoTransfer
    /\ IF dev = "tape" THEN ATT!TapeInit ELSE NoTape
    /\ IF dev = "record" THEN REC!SdpInit ELSE sdp = "none"

(* The device that is there, and only it. *)
Alone(d) ==
    /\ dev = d /\ UNCHANGED dev
    /\ d # "terminal" => UNCHANGED termvars
    /\ d # "rx" => UNCHANGED rxvars
    /\ d # "rl" => UNCHANGED rlvars
    /\ d # "rp" => UNCHANGED rpvars
    /\ d # "station" => UNCHANGED stationvars
    /\ d # "cis" => UNCHANGED cisvars
    /\ d # "clocks" => UNCHANGED calvars
    /\ d # "bus" => UNCHANGED busvars
    /\ d # "registers" => UNCHANGED regvars
    /\ d # "dma" => UNCHANGED dmavars
    /\ d # "transfer" => UNCHANGED rqxvars
    /\ d # "tape" => UNCHANGED tapevars
    /\ d # "record" => UNCHANGED sdp

Next ==
    \/ Alone("terminal") /\ TERM!TermNext
    \/ Alone("rx") /\ RX!RxNext
    \/ Alone("rl") /\ RL!RlNext
    \/ Alone("rp") /\ RP!RpNext
    \/ Alone("station") /\ STN!StationNext
    \/ Alone("cis") /\ CIS!CisNext
    \/ Alone("clocks") /\ CAL!CalibrationNext
    \/ Alone("bus") /\ BUS!BusNext
    \/ Alone("registers") /\ REG!RegistersNext
    \/ Alone("dma") /\ UBM!DmaNext
    \/ Alone("transfer") /\ RQT!RqTransferNext
    \/ Alone("tape") /\ ATT!TapeNext
    \/ Alone("record") /\ REC!SdpNext

Spec == Init /\ [][Next]_vars

(* The picture is what the terminal remembers (module Terminal).           *)
PictureKept == dev = "terminal" => TERM!PictureKept

(* A controller that is busy has an event to come, whatever was reset,     *)
(* loaded or started in between (modules Rx, Rl, Rp, RqTransfer,           *)
(* Attached).                                                              *)
BusyServed ==
    /\ dev = "rx" => RX!OneEvent
    /\ dev = "rl" => RL!RlServed
    /\ dev = "rp" => RP!RpServed
    /\ dev = "transfer" => RQT!TransferServed
    /\ dev = "tape" => ATT!TapeServed

(* What is read from a disk or a tape is what was written to it, to the    *)
(* last word of the last sector (modules Rx, Rl, Rp, RqTransfer, Attached),*)
(* and what is read of a keyboard's service record is what is in it        *)
(* (module SdpRecord).                                                     *)
MediaExact ==
    /\ dev = "rx" => RX!SectorsWhole
    /\ dev = "rl" => RL!RlTransferExact
    /\ dev = "rp" => RP!RpTransferExact
    /\ dev = "transfer" => RQT!TransferExact
    /\ dev = "tape" => ATT!TapeExact
    /\ dev = "record" => REC!SdpExact

(* The Ethernet controller answers as the station the guest made it, and   *)
(* its sanity timer runs out when the guest has been silent as long as     *)
(* agreed (XqStation).                                                     *)
StationExact == dev = "station" => STN!StationExact

(* The machine does what is asked of it whichever way it is asked: string  *)
(* instructions do the same however often they are interrupted             *)
(* (CisStrings); every device answers at its own addresses and with its    *)
(* own vector whatever the operator sets (Bus); a byte written to one half *)
(* of a register leaves the other half alone, the bits of a word that can  *)
(* be written and read are read back, and what depends on a register       *)
(* follows (Registers); a device reads and writes the memory it asked for, *)
(* as far as there is memory (UnibusMap).                                  *)
MachineExact ==
    /\ dev = "cis" => CIS!StringsExact
    /\ dev = "bus" => BUS!BusExact
    /\ dev = "registers" => REG!RegistersExact
    /\ dev = "dma" => UBM!DmaExact

(* Guest time keeps pace with wall time whatever happens to the host       *)
(* (module Calibration).                                                   *)
TimeKept == dev = "clocks" => CAL!TimeKept
=============================================================================
