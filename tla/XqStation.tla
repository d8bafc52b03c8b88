---------------------------- MODULE XqStation ----------------------------
(***************************************************************************)
(* The Ethernet controller as a station of the network: the addresses a    *)
(* setup packet or an initialization block gives it, the loopback and      *)
(* remote console frames it answers by itself, the system id it sends now  *)
(* and then, and the sanity timer that counts how long the guest has been  *)
(* silent (pdp11_xq.c).  How frames reach the guest is in module Xq.  The  *)
(* type is DELQA-T, without DEQNA lock.  Addresses are MacLength bytes; a  *)
(* loopback frame is a list of functions with the number of those done.    *)
(*                                                                         *)
(* Nothing boots the guest: xq_boot_host returns STOP_SANITY.  To          *)
(* xq_read_callback that is a frame not processed, which goes to the       *)
(* guest.  From xq_tmrsvc it ends sim_instr, which scp.c calls again, and  *)
(* the timer's unit is not queued any more, until a bus reset queues it.   *)
(***************************************************************************)
EXTENDS Integers, Sequences, FiniteSets

CONSTANTS
    MacLength,          \* bytes of an address
    Bank, MacStride,          \* a setup packet has Bank addresses side by side,
    SecondBank,         \* a byte of each in a MacStride, and Bank more from here
    LongSetup,          \* longer ones have flags in their length: 128
    SanityTime,         \* quarter seconds for each value of the flags
    XQ_SYSTEM_ID,       \* quarter seconds between two system ids
    XQ_HW_SANITY,       \* quarter seconds after a reset
    HwSanity,           \* the switch XQ_SAN_HW_SW
    Rom,                \* the address the controller comes with
    Peers,              \* addresses of the other stations
    Setups,             \* setup packets the guest sends: macs, len, flags
    InitBlocks,             \* initialization blocks, by where they are: phys, hit, timeout
    Requests,           \* loopback and console frames of the others
    MaxRequests, MaxGuest

VARIABLES
    station,    \* the controller
    wire,       \* frames on their way
    guest        \* what the guest asked for, how long it has been silent, and
                 \* whether the sanity timer has run out since it last was not

stationvars == <<station, wire, guest>>

ZeroMac == [j \in 0 .. MacLength - 1 |-> 0]
MopMulticast == [ZeroMac EXCEPT ![0] = 171]
Multicast(mac) == mac[0] % 2 = 1
Turbo == station.mode = "DELQA_PLUS"

-----------------------------------------------------------------------------
(***************************************************************************)
(* The setup packet.  The guest writes each address down a column; what is *)
(* behind the end of the packet is not read.                               *)
(***************************************************************************)
Position(i, j) == (IF i < Bank THEN i + 1 ELSE i - Bank + SecondBank + 1) + j * MacStride

SetupMessage(macs) ==
    [p \in 0 .. LongSetup |->
        IF \E i \in DOMAIN macs, j \in 0 .. MacLength - 1 : p = Position(i, j)
        THEN LET c == CHOOSE c \in (DOMAIN macs) \X (0 .. MacLength - 1) : p = Position(c[1], c[2])
             IN  macs[c[1]][c[2]]
        ELSE 0]

(* Mutant: the second bank begins where the first ends. *)
SetupMacsPacked(msg, len) ==
    [i \in 0 .. 2 * Bank - 1 |->
        [j \in 0 .. MacLength - 1 |-> LET p == i + 1 + j * MacStride IN IF p < len THEN msg[p] ELSE 0]]

SetupMacs(msg, len) ==
    [i \in 0 .. 2 * Bank - 1 |->
        [j \in 0 .. MacLength - 1 |-> IF Position(i, j) < len THEN msg[Position(i, j)] ELSE 0]]

(***************************************************************************)
(* The sanity timer counts quarter seconds.                                *)
(***************************************************************************)
xq_reset_santmr(s) == IF s.enabled THEN [s EXCEPT !.timer = s.quarter_secs] ELSE s

(* Mutant: the timer is loaded before its time is set. *)
xq_process_setupEarly(s, msg, len, flags) ==
    LET t == xq_reset_santmr([s EXCEPT !.enabled = IF HwSanity THEN s.se ELSE s.enabled])
        u == IF len > LongSetup
             THEN [t EXCEPT !.multicast = flags.multicast, !.quarter_secs = SanityTime[flags.time]] ELSE t
    IN  [u EXCEPT !.macs = SetupMacs(msg, len), !.promiscuous = len > LongSetup /\ flags.promiscuous,
                  !.valid = TRUE]

xq_process_setup(s, msg, len, flags) ==
    LET t == [s EXCEPT !.macs = SetupMacs(msg, len), !.promiscuous = len > LongSetup /\ flags.promiscuous,
                       !.enabled = IF HwSanity THEN s.se ELSE s.enabled, !.valid = TRUE]
    IN  xq_reset_santmr(
            IF len > LongSetup
            THEN [t EXCEPT !.multicast = flags.multicast, !.quarter_secs = SanityTime[flags.time]] ELSE t)

(***************************************************************************)
(* Its own address, and the frames it answers.  A frame forwarded to the   *)
(* station itself, to be replied to there, ends the emulator (eth_write).  *)
(***************************************************************************)
PhysicalAddress(s) ==
    IF s.mode = "DELQA_PLUS" THEN s.phys ELSE IF s.valid THEN s.macs[0] ELSE Rom

(* When xq_svc reads: in turbo mode also before it is started. *)
Listening == Turbo \/ station.re

Function(f) == IF f.skip < Len(f.list) THEN f.list[f.skip + 1].fn ELSE "none"

(* Mutant: a forwarded frame still shows who sent it here. *)
ForwardedUnsigned(f, own) == [f EXCEPT !.dst = f.list[f.skip + 1].to, !.skip = @ + 1, !.by = Append(@, own)]

Forwarded(f, own) ==
    [f EXCEPT !.dst = f.list[f.skip + 1].to, !.src = own, !.skip = @ + 1, !.by = Append(@, own)]

(* Mutant: whoever is asked for, the frame is forwarded. *)
LoopForAnyone(f, own) == Function(f) = "forward"

LoopFor(f, own) == Function(f) = "forward" /\ (Multicast(f.dst) \/ f.dst = own)

LOOPBACK_SELF_FRAME(f) ==
    /\ Len(f.list) >= 2 /\ f.list[1].fn = "forward" /\ f.list[2].fn = "reply"
    /\ f.src = f.dst /\ f.list[1].to = f.dst

xq_process_loopback(f) ==
    LET own == PhysicalAddress(station)
        response == Forwarded(f, own)
    IN  /\ f.proto = "loop" /\ LoopFor(f, own)
        /\ IF LOOPBACK_SELF_FRAME(response)
           THEN wire' = wire \ {f} /\ guest' = [guest EXCEPT !.ended = "exit"]
           ELSE wire' = (wire \ {f}) \cup {response} /\ UNCHANGED guest
        /\ UNCHANGED station

SystemId(s, to) ==
    [proto |-> "id", dst |-> to, src |-> IF s.valid THEN s.macs[0] ELSE Rom, skip |-> 0, list |-> <<>>, by |-> <<>>]

xq_process_remote_console(f) ==
    /\ f.proto = "console" /\ Function(f) = "request id"
    /\ wire' = (wire \ {f}) \cup {SystemId(station, f.src)}
    /\ station' = [station EXCEPT !.idtmr = XQ_SYSTEM_ID]
    /\ guest' = [guest EXCEPT !.unknown = 0]

xq_process_local(f) == xq_process_loopback(f) \/ xq_process_remote_console(f)

(* What xq_process_local returns SCPE_OK for; a boot frame is not of it. *)
Local(f) ==
    \/ f.proto = "loop" /\ LoopFor(f, PhysicalAddress(station))
    \/ f.proto = "console" /\ Function(f) = "request id"

(* A frame arrives.  What is not answered is for the guest (module Xq). *)
xq_read_callback ==
    /\ Listening
    /\ \E f \in wire :
        /\ f.dst \notin Peers /\ f.proto # "id"
        /\ IF Local(f) THEN xq_process_local(f)
           ELSE wire' = wire \ {f} /\ UNCHANGED <<station, guest>>

(***************************************************************************)
(* Every quarter of a second.                                              *)
(***************************************************************************)
(* The guest is back in DELQA mode; the timer goes on below zero. *)
TurnedBack(s) == [s EXCEPT !.mode = "DELQA", !.iba = "zero", !.srr = "", !.var = [ms |-> TRUE, os |-> HwSanity]]

xq_tmrsvc ==
    /\ station.ticking
    /\ LET s == IF station.enabled THEN [station EXCEPT !.timer = @ - 1] ELSE station
           expires == s.enabled /\ s.timer <= 0
           t == IF expires THEN TurnedBack(s) ELSE s
           u == [t EXCEPT !.idtmr = @ - 1]
           silent == [guest EXCEPT !.quiet = IF station.enabled THEN @ + 1 ELSE 0, !.expired = @ \/ expires]
       IN  IF expires /\ ~Turbo
           THEN station' = [s EXCEPT !.ticking = FALSE] /\ guest' = silent /\ UNCHANGED wire
           ELSE IF u.idtmr <= 0
           THEN /\ station' = [u EXCEPT !.idtmr = XQ_SYSTEM_ID] /\ wire' = wire \cup {SystemId(u, MopMulticast)}
                /\ guest' = [silent EXCEPT !.unknown = 0]
           ELSE station' = u /\ guest' = [silent EXCEPT !.unknown = @ + 1] /\ UNCHANGED wire

-----------------------------------------------------------------------------
(***************************************************************************)
(* The guest.  What resets the sanity timer is a sign of life: from now on *)
(* the time counts that it, or a reset, has named last.                    *)
(***************************************************************************)
Alive(time) ==
    [guest EXCEPT !.quiet = 0, !.expired = FALSE, !.time = time, !.agreed = time, !.acts = @ + 1]
Acts == guest.acts < MaxGuest
Acted == guest' = [guest EXCEPT !.acts = @ + 1]

xq_wr_csr ==
    /\ ~Turbo /\ Acts
    /\ \E re, se \in BOOLEAN : station' = [station EXCEPT !.re = re, !.se = se]
    /\ Acted /\ UNCHANGED wire

Setup ==
    /\ ~Turbo /\ Acts
    /\ \E p \in Setups :
        /\ station' = xq_process_setup(station, SetupMessage(p.macs), p.len, p.flags)
        /\ guest' = [Alive(IF p.len > LongSetup THEN SanityTime[p.flags.time] ELSE guest.time)
                       EXCEPT !.named = p.macs, !.names = @ \cup {p.macs[0]}]
    /\ UNCHANGED wire

Transmit ==
    /\ Acts /\ station' = xq_reset_santmr(station) /\ guest' = Alive(guest.time) /\ UNCHANGED wire

(* The vector and the mode; only bits that can be written are taken over,  *)
(* so the option switch reads 0 from now on.                               *)
xq_wr_var ==
    /\ ~Turbo /\ Acts
    /\ \E ms \in BOOLEAN :
        station' = [station EXCEPT !.var = [ms |-> ms, os |-> FALSE],
                                   !.mode = IF ms = station.var.ms THEN @ ELSE IF ms THEN "DELQA" ELSE "DEQNA"]
    /\ Acted /\ UNCHANGED wire

(* The key to turbo mode is written to the low, then to the high address.  *)
(* The guest does not while a request is under way: it survives a reset,   *)
(* and would be started from the key.                                      *)
xq_wr_iba ==
    /\ ~station.request
    /\ \/ ~Turbo /\ Acts /\ station' = [station EXCEPT !.iba = "key"] /\ Acted
       \/ /\ ~Turbo /\ UNCHANGED guest
          /\ station' = IF station.iba = "key"
                        THEN [station EXCEPT !.mode = "DELQA_PLUS"] ELSE station
       \/ Turbo /\ (\E b \in DOMAIN InitBlocks : station' = [station EXCEPT !.iba = b]) /\ UNCHANGED guest
    /\ UNCHANGED wire

xq_wr_srqr ==
    /\ Turbo /\ Acts /\ station.iba \in DOMAIN InitBlocks
    /\ station' = [station EXCEPT !.srr = "STRT", !.request = TRUE]
    /\ Acted /\ UNCHANGED wire

(* STRT, later: the block is where iba points to, and the request what is  *)
(* left of it by then.                                                     *)
Start(s) ==
    LET b == InitBlocks[s.iba]
    IN  [s EXCEPT !.phys = b.phys,
                  !.quarter_secs = IF HwSanity /\ b.hit THEN 4 * b.timeout ELSE @]

xq_wr_srqr_action ==
    /\ station.request
    /\ LET s == [station EXCEPT !.request = FALSE]
       IN  IF s.srr = "STRT"
           THEN /\ station' = xq_reset_santmr(Start(s))
                /\ guest' = [Alive(LET b == InitBlocks[s.iba] IN IF b.hit THEN 4 * b.timeout ELSE guest.time)
                               EXCEPT !.started = station'.phys, !.acts = guest.acts, !.names = @ \cup {station'.phys}]
           ELSE station' = xq_reset_santmr(s) /\ guest' = [Alive(guest.time) EXCEPT !.acts = guest.acts]
    /\ UNCHANGED wire

xq_sw_reset(s) ==
    LET t == IF s.mode = "DELQA_PLUS" THEN [s EXCEPT !.mode = "DELQA", !.iba = "zero", !.srr = "", !.var.ms = TRUE] ELSE s
    IN  [t EXCEPT !.re = FALSE, !.se = FALSE, !.multicast = FALSE, !.promiscuous = FALSE]

(* Through ARQR the reset is a sign of life, through the CSR it is not.    *)
SwReset ==
    /\ Acts
    /\ station' = IF Turbo THEN xq_reset_santmr(xq_sw_reset(station)) ELSE xq_sw_reset(station)
    /\ IF Turbo THEN guest' = Alive(guest.time) ELSE Acted
    /\ UNCHANGED wire

(* A bus reset.  The timer goes on, or again; the addresses stay. *)
xq_reset(s) ==
    [s EXCEPT !.mode = "DELQA", !.var = [ms |-> TRUE, os |-> HwSanity], !.re = FALSE, !.se = FALSE,
              !.ticking = TRUE, !.quarter_secs = IF HwSanity THEN XQ_HW_SANITY ELSE @]

BusReset ==
    /\ Acts /\ station' = xq_reset(station) /\ UNCHANGED wire
    /\ guest' = [guest EXCEPT !.time = XQ_HW_SANITY, !.acts = @ + 1]

(***************************************************************************)
(* The others: requests, and forwarding what is addressed to them.         *)
(***************************************************************************)
Ask ==
    /\ guest.asked < MaxRequests
    /\ \E f \in Requests : wire' = wire \cup {f}
    /\ guest' = [guest EXCEPT !.asked = @ + 1] /\ UNCHANGED station

PeerForwards ==
    /\ \E f \in wire, p \in Peers :
        /\ f.proto = "loop" /\ Function(f) = "forward" /\ f.dst = p
        /\ wire' = (wire \ {f}) \cup {Forwarded(f, p)}
    /\ UNCHANGED <<station, guest>>

PeerTakes ==
    /\ \E f \in wire :
        /\ f.dst \in Peers \cup {MopMulticast} /\ Function(f) # "forward"
        /\ wire' = wire \ {f}
    /\ UNCHANGED <<station, guest>>

-----------------------------------------------------------------------------
(* As attached: powered up and reset. *)
StationInit ==
    /\ station = xq_reset([
            mode |-> "DELQA", var |-> [ms |-> TRUE, os |-> HwSanity], iba |-> "zero", srr |-> "", re |-> FALSE, se |-> FALSE,
            macs |-> [i \in 0 .. 2 * Bank - 1 |-> ZeroMac], valid |-> FALSE, multicast |-> FALSE,
            promiscuous |-> FALSE, phys |-> ZeroMac, request |-> FALSE,
            enabled |-> FALSE, quarter_secs |-> 0, timer |-> 0, idtmr |-> 0,
            ticking |-> FALSE])
    /\ wire = {}
    /\ guest = [named |-> <<>>, started |-> <<>>, names |-> {Rom}, quiet |-> 0, time |-> XQ_HW_SANITY, agreed |-> 0, expired |-> FALSE,
               unknown |-> 0, acts |-> 0, asked |-> 0, ended |-> "no"]

StationNext ==
    /\ guest.ended = "no"
    /\ \/ xq_read_callback \/ xq_tmrsvc
       \/ xq_wr_csr \/ Setup \/ Transmit \/ xq_wr_var \/ xq_wr_iba \/ xq_wr_srqr
       \/ xq_wr_srqr_action \/ SwReset \/ BusReset
       \/ Ask \/ PeerForwards \/ PeerTakes

-----------------------------------------------------------------------------
(* A loopback frame visits the stations its list names, in that order,     *)
(* each once, and comes from the last of them.                             *)
LoopsInOrder ==
    \A f \in wire : f.proto = "loop" =>
        /\ Len(f.by) = f.skip
        /\ f.skip > 0 => f.src = f.by[f.skip] /\ f.dst = f.list[f.skip].to
        /\ \A k \in 1 .. f.skip - 1 : Multicast(f.list[k].to) \/ f.by[k + 1] = f.list[k].to

(* The addresses are those the guest named last, whatever was reset, and   *)
(* none that a packet too short for it would have had.  Forwarded frames   *)
(* show one of them, or, in turbo mode before it is started, none.         *)
AddressesNamed ==
    /\ DOMAIN guest.named # {} =>
        /\ station.valid
        /\ \A i \in DOMAIN guest.named : station.macs[i] \in {guest.named[i], ZeroMac}
        /\ station.macs[0] = guest.named[0]
    /\ DOMAIN guest.started # {} => station.phys = guest.started
    /\ \A f \in wire : \A k \in DOMAIN f.by : f.by[k] \in Peers \cup guest.names \cup {ZeroMac}

(* The sanity timer runs out when the guest has been silent for the time   *)
(* agreed at its last sign of life, and not before, whatever has been set  *)
(* up, reset or started since and in whichever mode; in turbo mode the     *)
(* guest loses the mode first.                                             *)
SilenceCounted ==
    /\ station.enabled => station.timer = guest.agreed - guest.quiet
    /\ guest.expired => guest.quiet >= guest.agreed
    /\ station.enabled => guest.quiet < guest.agreed \/ guest.quiet = 0 \/ guest.expired

(* The station says who it is at least every XQ_SYSTEM_ID quarter seconds  *)
(* that its timer runs.                                                    *)
SaysWho == guest.unknown <= XQ_SYSTEM_ID

StationExact == LoopsInOrder /\ AddressesNamed /\ SilenceCounted /\ SaysWho
=============================================================================
