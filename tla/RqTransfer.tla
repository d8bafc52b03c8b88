----------------------------- MODULE RqTransfer -----------------------------
(***************************************************************************)
(* What a transfer of the MSCP controller does to memory and to the image  *)
(* of the drive: the data that module Mscp leaves out.  The operator       *)
(* configures two units and attaches an image to the first (pdp11_rq.c,    *)
(* sim_disk.c), the machine is started and the boot program loaded         *)
(* (scp.c), which reads block 0 and leaves the machine to the guest.       *)
(*                                                                         *)
(* Bytes are numbers; a file holds the zeros nobody wrote.  One command is *)
(* under way at a time; it may be cut into pieces of RQ_MAXFR bytes.       *)
(***************************************************************************)
EXTENDS Integers, Sequences, FiniteSets, FiniteSetsExt

CONSTANTS
    RQ_NUMBY, RQ_MAXFR,
    DrvTab,            \* blocks and copies of the replacement table, by type
    ImageSizes,        \* in bytes
    HostBytes,         \* of memory
    Plugs,             \* unit numbers the operator may set
    RqCommands, RqMaxCommands, RqMaxMishaps

VARIABLES
    image,      \* the file: bytes, and the error indicator of its stream
    hostmem,    \* the memory of the guest
    rqunit,     \* the units and the controller
    rqguest     \* the guest, and what it may rely on

rqxvars == <<image, hostmem, rqunit, rqguest>>

None == <<>>
Units == {0, 1}
Blocks(n) == (n + RQ_NUMBY - 1) \div RQ_NUMBY
ByteAt(bytes, p) == IF p < Len(bytes) THEN bytes[p + 1] ELSE 0

-----------------------------------------------------------------------------
(***************************************************************************)
(* Configuration.                                                          *)
(***************************************************************************)
Capac == DrvTab[rqunit.type].lbn

(* The stream is positioned and read; what is missing is filled with       *)
(* zeros.                                                                  *)
rdsect(bytes, da, n) == [i \in 1 .. n |-> ByteAt(bytes, da + i - 1)]

(* The rest that is left after the whole sectors is asked for again as     *)
(* long as there is anything of it: with part of a sector at the end of    *)
(* the file, for ever.                                                     *)
Endless(bytes, da, n) ==
    LET i == Min({n, Max({0, Len(bytes) - da})}) IN i < n /\ i % RQ_NUMBY # 0

wrsect(bytes, da, buf) ==
    [p \in 1 .. Max({Len(bytes), da + Len(buf)}) |->
        IF p - 1 \in da .. da + Len(buf) - 1 THEN buf[p - da] ELSE ByteAt(bytes, p - 1)]

rq_set_type(type) ==
    /\ rqguest.prog = "off" /\ ~rqunit.att
    /\ rqunit' = [rqunit EXCEPT !.type = type]
    /\ UNCHANGED <<image, hostmem, rqguest>>

rq_set_plug(u, plug) ==
    /\ rqguest.prog = "off" /\ \A v \in Units : rqunit.plug[v] # plug
    /\ rqunit' = [rqunit EXCEPT !.plug[u] = plug]
    /\ UNCHANGED <<image, hostmem, rqguest>>

rq_attach(size) ==
    /\ rqguest.prog = "off" /\ ~rqunit.att
    /\ image' = [bytes |-> [p \in 1 .. size |-> 99 + p], error |-> FALSE]
    /\ rqunit' = [rqunit EXCEPT !.att = TRUE]
    /\ UNCHANGED <<hostmem, rqguest>>

rq_detach ==
    /\ rqguest.prog = "off" /\ rqunit.att
    /\ image' = [bytes |-> <<>>, error |-> FALSE]
    /\ rqunit' = [rqunit EXCEPT !.att = FALSE, !.onl = FALSE, !.wps = FALSE]
    /\ UNCHANGED <<hostmem, rqguest>>

(* Mutant: the first unit sets the limit. *)
MaxPlugOfFirst(plug) == plug[0]
MaxPlug(plug) == Max({plug[u] : u \in Units})

(* The machine is reset, the boot program stored and started. *)
PowerOn(wph) ==
    /\ rqguest.prog = "off"
    /\ rqunit' = [rqunit EXCEPT !.onl = FALSE, !.wps = FALSE, !.wph = wph, !.max_plug = MaxPlug(rqunit.plug)]
    /\ rqguest' = [rqguest EXCEPT !.prog = "online"]
    /\ UNCHANGED <<image, hostmem>>

-----------------------------------------------------------------------------
(***************************************************************************)
(* Commands.                                                               *)
(***************************************************************************)
Command(op, ba, bc, lbn) == [op |-> op, ba |-> ba, bc |-> bc, lbn |-> lbn]
Writes(op) == op \in {"ERS", "WR"}

(* The last block of a command.  Mutant: of a command that ends on a block.*)
EndBlockWhole(c) == c.lbn + (c.bc \div RQ_NUMBY)
EndBlock(c) == c.lbn + Blocks(c.bc)

rq_rw_valid(c) ==
    LET maxlbn == Capac
    IN  IF ~rqunit.att THEN "OFL"
        ELSE IF ~rqunit.onl THEN "AVL"
        ELSE IF c.op \notin {"ACC", "ERS"} /\ c.ba % 2 = 1 THEN "odd address"
        ELSE IF c.bc % 2 = 1 THEN "odd count"
        ELSE IF c.lbn >= maxlbn + DrvTab[rqunit.type].rcts THEN "LBN"
        ELSE IF c.lbn >= maxlbn /\ c.bc # RQ_NUMBY THEN "BCNT"
        ELSE IF c.lbn < maxlbn /\ EndBlock(c) > maxlbn THEN "BCNT"
        ELSE IF Writes(c.op) /\ c.lbn >= maxlbn THEN "LBN"
        ELSE IF Writes(c.op) /\ (rqunit.wps \/ rqunit.wph) THEN "WPR"
        ELSE "valid"

(* The guest remembers what there was when it gave the command. *)
Given(c) == [rqguest EXCEPT !.cmd = c, !.image0 = image.bytes, !.mem0 = hostmem, !.poked = {}, !.told = c.bc,
                            !.answer = None]

rq_rw(c, guest) ==
    LET sts == rq_rw_valid(c)
    IN  IF sts = "valid"
        THEN /\ rqunit' = [rqunit EXCEPT !.cpkt = <<[op |-> c.op, ba |-> c.ba, bc |-> c.bc, bl |-> c.lbn]>>,
                                         !.active = TRUE]
             /\ rqguest' = guest
        ELSE /\ rqguest' = [guest EXCEPT !.answer = <<[sts |-> sts, done |-> 0]>>]
             /\ UNCHANGED rqunit

Work == rqunit.cpkt[1]
Under == rqunit.cpkt # None

(* The piece under way. *)
Piece == Min({Work.bc, RQ_MAXFR})

(* Bytes of memory are read and written as far as there is memory. *)
Present(ba, bc) == Max({0, Min({bc, HostBytes - ba})})
rq_readw(ba, n) == [i \in 1 .. n |-> hostmem[ba + i - 1]]
rq_readb(ba) == hostmem[ba]
rq_writew(ba, n, buf) == [a \in DOMAIN hostmem |-> IF a \in ba .. ba + n - 1 THEN buf[a - ba + 1] ELSE hostmem[a]]

(* What is written is filled up to whole blocks.  Mutant: with what the    *)
(* buffer held.                                                            *)
FilledUpOld(buf) == buf \o [i \in 1 .. (Blocks(Len(buf)) * RQ_NUMBY - Len(buf)) |-> 77]
FilledUp(buf) == buf \o [i \in 1 .. (Blocks(Len(buf)) * RQ_NUMBY - Len(buf)) |-> 0]

(* The command ends; left of its bytes were not processed.                 *)
rq_rw_end(unit, sts, left) ==
    /\ rqunit' = [unit EXCEPT !.cpkt = None, !.active = FALSE]
    /\ rqguest' = [rqguest EXCEPT !.answer = <<[sts |-> sts, done |-> rqguest.cmd.bc - left]>>]

(* The request to the host is done at once; it may fail in the middle, and *)
(* then the indicator of the stream is set for good.  rqunit.buf is the    *)
(* buffer of the unit, rqunit.io_status what became of the request.        *)
rq_io_complete(buf, error) ==
    rqunit' = [rqunit EXCEPT !.io_complete = TRUE, !.io_status = error, !.buf = buf]

Request(written, fails) ==
    LET error == image.error \/ fails
        from == Work.bl * RQ_NUMBY
        part == IF fails THEN SubSeq(written, 1, Len(written) \div 2) ELSE written
    IN  /\ image' = [bytes |-> wrsect(image.bytes, from, part), error |-> error]
        /\ rq_io_complete(<<>>, error)

(* A write with no memory to read from requests nothing, and nothing will  *)
(* complete it.                                                            *)
TopWrite(fails) ==
    LET n == Present(Work.ba, Piece)
    IN  IF n = 0 THEN ~fails /\ rqunit' = [rqunit EXCEPT !.active = FALSE] /\ UNCHANGED image
        ELSE Request(FilledUp(rq_readw(Work.ba, n)), fails)

TopRead(fails) ==
    LET n == Blocks(Piece) * RQ_NUMBY
        from == Work.bl * RQ_NUMBY
        error == image.error \/ fails
    IN  /\ image' = [image EXCEPT !.error = error]
        /\ IF ~error /\ Endless(image.bytes, from, n)
           THEN rqunit' = [rqunit EXCEPT !.active = FALSE, !.loops = TRUE]
           ELSE rq_io_complete(rdsect(image.bytes, from, n), error)

Top(fails) ==
    /\ Under /\ rqunit.active /\ ~rqunit.io_complete /\ Work.bc > 0
    /\ fails => rqguest.mishaps > 0
    /\ IF Work.op = "WR" THEN TopWrite(fails)
       ELSE IF Work.op = "ERS" THEN Request([i \in 1 .. (Blocks(Piece) * RQ_NUMBY) |-> 0], fails)
       ELSE TopRead(fails)
    /\ rqguest' = IF fails THEN [rqguest EXCEPT !.mishaps = @ - 1] ELSE rqguest
    /\ UNCHANGED hostmem

NothingToDo ==
    /\ Under /\ rqunit.active /\ Work.bc = 0
    /\ rq_rw_end(rqunit, "SUC", 0)
    /\ UNCHANGED <<image, hostmem>>

(* Bytes of the piece that agree with memory before one that does not, or  *)
(* is not there.                                                           *)
Agreeing ==
    LET Ends(i) == i = Piece \/ Work.ba + i >= HostBytes \/ rq_readb(Work.ba + i) # rqunit.buf[i + 1]
    IN  CHOOSE i \in 0 .. Piece : Ends(i) /\ \A j \in 0 .. i - 1 : ~Ends(j)

(* Mutant: the bytes of this piece count as left. *)
LeftAfterNothing(n) == Work.bc
LeftAfter(n) == Work.bc - n

(* Done with the piece: more of the command, or its end. *)
Advance(unit) ==
    IF Work.bc > Piece
    THEN /\ rqunit' = [unit EXCEPT !.cpkt[1] = [@ EXCEPT !.ba = @ + Piece, !.bc = @ - Piece, !.bl = @ + Blocks(Piece)]]
         /\ UNCHANGED rqguest
    ELSE rq_rw_end(unit, "SUC", 0)

(* The host has reported.  Memory is looked at once more after a write. *)
Bottom ==
    LET unit == [rqunit EXCEPT !.io_complete = FALSE, !.buf = <<>>]
        n == Present(Work.ba, Piece)
        reads == Work.op = "RD" /\ ~rqunit.io_status
    IN  /\ Under /\ rqunit.active /\ rqunit.io_complete
        /\ hostmem' = IF reads THEN rq_writew(Work.ba, n, rqunit.buf) ELSE hostmem
        /\ IF (Work.op = "WR" \/ reads) /\ n < Piece THEN rq_rw_end(unit, "NXM", LeftAfter(n))
           ELSE IF rqunit.io_status THEN rq_rw_end(unit, "DRV", LeftAfter(0))
           ELSE IF Work.op = "CMP" /\ Agreeing < Piece
                THEN rq_rw_end(unit, IF Work.ba + Agreeing >= HostBytes THEN "NXM" ELSE "CMP", LeftAfter(Agreeing))
           ELSE Advance(unit)
        /\ UNCHANGED image

-----------------------------------------------------------------------------
(***************************************************************************)
(* What the guest asks about a command or about the units.                 *)
(***************************************************************************)
rq_gcs ==
    /\ Under
    /\ rqguest' = [rqguest EXCEPT !.told = Work.bc]
    /\ UNCHANGED <<image, hostmem, rqunit>>

(* The next unit: the number itself, or 0 behind the last. *)
rq_gus(lu) == IF lu > rqunit.max_plug THEN 0 ELSE lu

(* The numbers the guest gets that asks for the next unit until it is told *)
(* one it has already had.                                                 *)
Walked == {lu \in 0 .. Max(Plugs) + 1 : rq_gus(lu) = lu}

(* ------------------------------ the guest ------------------------------ *)
(* The boot program sets the unit online and reads block 0 to address 0.   *)
BootOnline ==
    /\ rqguest.prog = "online"
    /\ rqunit' = [rqunit EXCEPT !.onl = rqunit.att]
    /\ rqguest' = [rqguest EXCEPT !.prog = IF rqunit.att THEN "read" ELSE "halt"]
    /\ UNCHANGED <<image, hostmem>>

BootRead ==
    /\ rqguest.prog = "read" /\ rqguest.answer = None /\ ~Under
    /\ rq_rw(Command("RD", 0, RQ_NUMBY, 0), Given(Command("RD", 0, RQ_NUMBY, 0)))
    /\ UNCHANGED <<image, hostmem>>

BootDone ==
    /\ rqguest.prog = "read" /\ rqguest.answer # None
    /\ rqguest' = [rqguest EXCEPT !.prog = IF rqguest.answer[1].sts = "SUC" THEN "run" ELSE "halt"]
    /\ UNCHANGED <<image, hostmem, rqunit>>

(* Set online again, with or without software write protection. *)
Online(wps) ==
    /\ rqguest.prog = "run" /\ ~Under /\ rqguest.left = RqMaxCommands /\ rqunit.wps # wps
    /\ rqunit' = [rqunit EXCEPT !.wps = wps]
    /\ UNCHANGED <<image, hostmem, rqguest>>

Give(c) ==
    /\ rqguest.prog = "run" /\ ~Under /\ rqguest.left > 0
    /\ rq_rw(c, [Given(c) EXCEPT !.left = @ - 1])
    /\ UNCHANGED <<image, hostmem>>

(* The guest changes memory that is being transferred. *)
Poke(a) ==
    /\ Under /\ rqguest.prog = "run" /\ rqguest.mishaps > 0
    /\ hostmem' = [hostmem EXCEPT ![a] = 50]
    /\ rqguest' = [rqguest EXCEPT !.mishaps = @ - 1, !.poked = @ \cup {a}]
    /\ UNCHANGED <<image, rqunit>>

-----------------------------------------------------------------------------
RqTransferInit ==
    /\ image = [bytes |-> <<>>, error |-> FALSE]
    /\ hostmem = [a \in 0 .. HostBytes - 1 |-> IF a < RQ_NUMBY THEN 0 ELSE 100 + a]
    /\ rqunit \in {[att |-> FALSE, onl |-> FALSE, wps |-> FALSE, wph |-> FALSE, type |-> type,
                    plug |-> [u \in Units |-> u], max_plug |-> 1, cpkt |-> None, active |-> FALSE, loops |-> FALSE,
                    io_complete |-> FALSE, io_status |-> FALSE, buf |-> <<>>] : type \in DOMAIN DrvTab}
    /\ rqguest = [prog |-> "off", cmd |-> Command("RD", 0, 0, 0), image0 |-> <<>>, mem0 |-> hostmem,
                  poked |-> {}, told |-> 0, answer |-> None, left |-> RqMaxCommands, mishaps |-> RqMaxMishaps]

RqTransferNext ==
    \/ \E type \in DOMAIN DrvTab : rq_set_type(type)
    \/ \E plug \in Plugs : rq_set_plug(1, plug)
    \/ \E size \in ImageSizes : rq_attach(size)
    \/ rq_detach
    \/ \E wph \in BOOLEAN : PowerOn(wph)
    \/ BootOnline \/ BootRead \/ BootDone
    \/ \E wps \in BOOLEAN : Online(wps)
    \/ \E c \in RqCommands : Give(c)
    \/ \E a \in {0, HostBytes - 1} : Poke(a)
    \/ \E fails \in BOOLEAN : Top(fails)
    \/ NothingToDo \/ Bottom \/ rq_gcs

-----------------------------------------------------------------------------
(***************************************************************************)
(* Properties.                                                             *)
(***************************************************************************)
Answered == rqguest.answer # None
Answer == rqguest.answer[1]
Cmd == rqguest.cmd
From == Cmd.lbn * RQ_NUMBY

(* The answer counts the bytes that were really processed. *)
CountTrue ==
    Answered =>
        /\ Answer.sts = "SUC" => Answer.done = Cmd.bc
        /\ Answer.sts = "NXM" => Cmd.ba + Answer.done = HostBytes
        /\ Answer.sts = "CMP" =>
               LET p == Answer.done
               IN  {Cmd.ba + p} \cap rqguest.poked = {} => hostmem[Cmd.ba + p] # ByteAt(image.bytes, From + p)
        /\ Answer.sts = "DRV" => Answer.done % RQ_MAXFR = 0
        /\ Answer.done \in 0 .. Cmd.bc /\ Cmd.bc - Answer.done <= rqguest.told

(* Memory holds what a read answered for, and nothing else has changed.    *)
MemoryRight ==
    \A a \in DOMAIN hostmem \ rqguest.poked :
        LET i == a - Cmd.ba
        IN  hostmem[a] =
                IF Cmd.op = "RD" /\ Answered /\ i \in 0 .. Answer.done - 1
                THEN ByteAt(rqguest.image0, From + i) ELSE rqguest.mem0[a]

(* The image holds what a write answered for, zeros up to the end of its   *)
(* last block, and else what it held.  Only the piece during which the     *)
(* host failed is uncertain: it may end as an error of memory, which is    *)
(* looked at first.                                                        *)
Piecewise == (Answer.done \div RQ_MAXFR) * RQ_MAXFR
Uncertain == Answer.sts = "DRV" \/ (Answer.sts = "NXM" /\ image.error)
ImageRight ==
    \A p \in 0 .. Max({Len(image.bytes), Len(rqguest.image0)}) - 1 :
        LET i == p - From
            now == ByteAt(image.bytes, p)
            end == Blocks(Answer.done) * RQ_NUMBY
        IN  IF ~Writes(Cmd.op) \/ i < 0 THEN now = ByteAt(rqguest.image0, p)
            ELSE IF Uncertain /\ i >= Piecewise /\ i < Piecewise + RQ_MAXFR THEN TRUE
            ELSE IF i < Answer.done /\ Cmd.op = "ERS" THEN now = 0
            ELSE IF i < Answer.done THEN now = rqguest.mem0[Cmd.ba + i] \/ Cmd.ba + i \in rqguest.poked
            ELSE IF i < end THEN now = 0
            ELSE now = ByteAt(rqguest.image0, p)

(* A comparison that succeeds has compared. *)
ComparedRight ==
    (Cmd.op = "CMP" /\ Answer.sts = "SUC") =>
        \A i \in 0 .. Cmd.bc - 1 :
            Cmd.ba + i \in rqguest.poked \/ hostmem[Cmd.ba + i] = ByteAt(image.bytes, From + i)

(* Nothing is written behind the last block of the drive. *)
WithinDrive ==
    \A p \in Capac * RQ_NUMBY .. Len(image.bytes) - 1 : ByteAt(image.bytes, p) \in {0, 100 + p}

(* The machine starts with block 0 of the image in memory. *)
BootedRight ==
    (rqguest.prog = "run" /\ rqguest.left = RqMaxCommands) =>
        \A a \in 0 .. RQ_NUMBY - 1 : hostmem[a] = ByteAt(image.bytes, a)

(* A guest that asks for one unit after the other is told of each.         *)
UnitsFound == rqguest.prog # "off" => \A u \in Units : rqunit.plug[u] \in Walked

(* A transfer does what its answer says, byte by byte, wherever memory,    *)
(* the image or the drive ends and whatever the host does (rq_svc 2195).   *)
TransferExact ==
    /\ CountTrue /\ WithinDrive /\ BootedRight /\ UnitsFound
    /\ Answered => MemoryRight /\ ImageRight /\ ComparedRight

(* A command under way is going to be answered.  Two are not: a write with *)
(* a piece that has no memory at all, and a read over the end of an image  *)
(* that ends in the middle of a sector.                                    *)
TransferServed ==
    (Under /\ ~rqunit.active) =>
        \/ Work.op = "WR" /\ Present(Work.ba, Piece) = 0
        \/ rqunit.loops /\ Len(image.bytes) % RQ_NUMBY # 0
=============================================================================
