------------------------------ MODULE Attached ------------------------------
(***************************************************************************)
(* Files attached to units (attach_unit and detach_unit of scp.c): the     *)
(* paper tape reader and punch (pdp11_pt.c), which read and write them     *)
(* byte by byte, and the floppy, which is held in memory and written back  *)
(* when it is detached; with a driver that polls or takes interrupts, a    *)
(* bus that is reset and an operator who changes tapes at any time.        *)
(*                                                                         *)
(* One of the three units is looked at.  Bytes are numbers.                *)
(***************************************************************************)
EXTENDS Integers, Sequences, FiniteSets, FiniteSetsExt

CONSTANTS
    Files,           \* contents of the files there are
    FloppyCapac,     \* bytes of a floppy
    FloppySector,
    MaxTape,         \* bytes read or punched, sectors written
    MaxTapeEvents    \* resets, failures, tapes changed

VARIABLES
    tape,       \* the unit: file, stream, registers, event, memory
    taper       \* the driver of the guest

tapevars == <<tape, taper>>

ByteAt(bytes, p) == IF p < Len(bytes) THEN bytes[p + 1] ELSE 0
Overwritten(file, at, bytes) ==
    [p \in 1 .. Max({Len(file), at + Len(bytes)}) |->
        IF p - 1 \in at .. at + Len(bytes) - 1 THEN bytes[p - at] ELSE file[p]]

-----------------------------------------------------------------------------
(* A file is opened at its beginning; one that is buffered is read as far  *)
(* as the unit holds it.                                                   *)
attach_unit(u, file) ==
    LET capac == 0 .. FloppyCapac - 1 IN
    [u EXCEPT !.att = TRUE, !.file = file, !.at = 0,
              !.filebuf = IF u.kind = "floppy" THEN [p \in capac |-> ByteAt(file, p)] ELSE @,
              !.hwmark = IF u.kind = "floppy" THEN Min({Len(file), FloppyCapac}) ELSE @]

detach_unit(u) ==
    LET held == [p \in 1 .. u.hwmark |-> u.filebuf[p - 1]] IN
    [u EXCEPT !.att = FALSE, !.file = IF u.kind = "floppy" THEN Overwritten(@, 0, held) ELSE @, !.hwmark = 0]

(* rx_svc writes a sector.  Mutant: the mark of what has been written is   *)
(* where the sector begins.                                                *)
HighWaterBefore(u, s) == Max({u.hwmark, s * FloppySector})
HighWater(u, s) == Max({u.hwmark, (s + 1) * FloppySector})
SectorWritten(u, s, byte) ==
    [u EXCEPT !.filebuf = [p \in DOMAIN @ |-> IF p \div FloppySector = s THEN byte ELSE @[p]],
              !.hwmark = HighWater(u, s)]

(* ptr_attach, ptp_attach and ptr_detach, ptp_detach.  *)
Serial(u) == u.kind # "floppy"
Attach(u, file) ==
    [attach_unit(u, file) EXCEPT !.csr = IF Serial(u) THEN @ \ {"ERR"} ELSE @]
Detach(u) ==
    [detach_unit(u) EXCEPT !.csr = IF Serial(u) THEN @ \cup {"ERR"} ELSE @]

-----------------------------------------------------------------------------
(* What the registers of reader and punch have in common: IE withdraws the *)
(* request of the interrupt or makes it.                                   *)
IeWritten(u, ie) ==
    [u EXCEPT !.int = IF ~ie THEN FALSE ELSE @ \/ ("IE" \notin u.csr /\ u.csr \cap {"ERR", "DONE"} # {}),
              !.csr = IF ie THEN @ \cup {"IE"} ELSE @ \ {"IE"}]

(* Go on the reader. *)
Started(u) == [u EXCEPT !.csr = (@ \ {"DONE"}) \cup {"BUSY"}, !.int = FALSE, !.active = TRUE]
ptr_wr(u, ie, go) == IF go THEN Started(IeWritten(u, ie)) ELSE IeWritten(u, ie)

(* The buffer of the reader is read. *)
ptr_rd(u) == [u EXCEPT !.csr = @ \ {"DONE"}, !.int = FALSE]

ptp_wr_csr(u, ie) == IeWritten(u, ie)
ptp_wr(u, byte) == [u EXCEPT !.buf = byte, !.csr = @ \ {"DONE"}, !.int = FALSE, !.active = TRUE]

(* Asked for by the end of an event, whatever became of it.  Mutant: not   *)
(* without a tape.                                                         *)
RequestedAttached(u) == [u EXCEPT !.active = FALSE, !.int = @ \/ (u.att /\ "IE" \in u.csr)]
Requested(u) == [u EXCEPT !.active = FALSE, !.int = @ \/ "IE" \in u.csr]

ptr_svc(u) ==
    LET v == [Requested(u) EXCEPT !.csr = (@ \cup {"ERR"}) \ {"BUSY"}]
    IN  IF ~u.att \/ u.at >= Len(u.file) THEN v
        ELSE [v EXCEPT !.csr = (@ \cup {"DONE"}) \ {"ERR"}, !.buf = u.file[u.at + 1], !.at = @ + 1]

ptp_svc(u, fails) ==
    LET v == [Requested(u) EXCEPT !.csr = @ \cup {"ERR", "DONE"}]
    IN  IF ~u.att \/ fails THEN v
        ELSE [v EXCEPT !.csr = @ \ {"ERR"}, !.file = Overwritten(@, u.at, <<u.buf>>), !.at = @ + 1]

(* Bus reset.  Mutant: the event of the punch is still to come. *)
pt_resetKeepsEvent(u) ==
    [u EXCEPT !.buf = 0, !.int = FALSE,
              !.csr = (IF u.kind = "punch" THEN {"DONE"} ELSE {}) \cup (IF u.att THEN {} ELSE {"ERR"})]
pt_reset(u) ==
    [u EXCEPT !.buf = 0, !.int = FALSE, !.active = FALSE,
              !.csr = (IF u.kind = "punch" THEN {"DONE"} ELSE {}) \cup (IF u.att THEN {} ELSE {"ERR"})]

-----------------------------------------------------------------------------
(***************************************************************************)
(* The driver.  `owed` is what the unit has read and the driver has not,   *)
(* `made` what the driver knows of the file it writes.                     *)
(***************************************************************************)
Is(kind) == tape.kind = kind
Answered == IF taper.ie THEN tape.int ELSE "BUSY" \notin tape.csr
Acknowledged == [tape EXCEPT !.int = FALSE]

Go ==
    /\ Is("reader") /\ taper.step = "idle" /\ taper.count < MaxTape
    /\ \E ie \in BOOLEAN :
         /\ tape' = ptr_wr(tape, ie, TRUE)
         /\ taper' = [taper EXCEPT !.step = "wait", !.ie = ie, !.count = @ + 1, !.owed = <<>>, !.told = <<>>]

(* An interrupt may come while the reader is still busy. *)
Take ==
    /\ Is("reader") /\ taper.step = "wait" /\ Answered
    /\ IF "BUSY" \in tape.csr THEN tape' = Acknowledged /\ UNCHANGED taper
       ELSE IF "DONE" \in tape.csr
            THEN /\ tape' = ptr_rd(Acknowledged)
                 /\ taper' = [taper EXCEPT !.step = "idle", !.told = <<tape.buf>>]
            ELSE /\ tape' = Acknowledged
                 /\ taper' = [taper EXCEPT !.step = "idle"]

Read ==
    /\ Is("reader") /\ tape.active
    /\ tape' = ptr_svc(tape)
    /\ taper' = [taper EXCEPT !.owed = IF tape.att /\ tape.at < Len(tape.file) THEN Append(@, tape.file[tape.at + 1]) ELSE @]

Punch ==
    /\ Is("punch") /\ taper.step = "idle" /\ taper.count < MaxTape
    /\ \E ie \in BOOLEAN, byte \in {1, 2} :
         /\ tape' = ptp_wr(ptp_wr_csr(tape, ie), byte)
         /\ taper' = [taper EXCEPT !.step = "wait", !.ie = ie, !.count = @ + 1, !.owed = <<byte>>]

(* An error leaves it open whether the byte is there: the tape may have    *)
(* been taken out behind it.                                               *)
Punched ==
    /\ Is("punch") /\ taper.step = "wait"
    /\ IF taper.ie THEN tape.int ELSE "DONE" \in tape.csr
    /\ tape' = Acknowledged
    /\ IF "DONE" \notin tape.csr THEN UNCHANGED taper
       ELSE taper' = [taper EXCEPT !.step = "idle", !.owed = <<>>,
                                   !.made = IF "ERR" \in tape.csr THEN SubSeq(tape.file, 1, tape.at) ELSE @ \o taper.owed]

Write ==
    /\ Is("punch") /\ tape.active
    /\ \E fails \in BOOLEAN :
         /\ fails => taper.events > 0
         /\ tape' = ptp_svc(tape, fails)
         /\ taper' = IF fails THEN [taper EXCEPT !.events = @ - 1] ELSE taper

(* Interrupts on while the unit works. *)
Enable ==
    /\ Serial(tape) /\ taper.step = "wait" /\ ~taper.ie
    /\ tape' = IF Is("reader") THEN ptr_wr(tape, TRUE, FALSE) ELSE ptp_wr_csr(tape, TRUE)
    /\ taper' = [taper EXCEPT !.ie = TRUE]

Event == taper.events > 0
Reset ==
    /\ Event /\ Serial(tape)
    /\ tape' = pt_reset(tape)
    /\ taper' = [taper EXCEPT !.step = "idle", !.events = @ - 1, !.told = <<>>, !.owed = <<>>,
                              !.made = IF Is("punch") /\ taper.step = "wait" THEN SubSeq(tape.file, 1, tape.at) ELSE @]

Sector(s, byte) ==
    /\ Is("floppy") /\ tape.att /\ taper.count < MaxTape
    /\ tape' = SectorWritten(tape, s, byte)
    /\ taper' = [taper EXCEPT !.count = @ + 1,
                              !.made = [p \in DOMAIN @ |-> IF p \div FloppySector = s THEN byte ELSE @[p]]]

(* The operator puts a tape into the reader, or puts the tape of the punch *)
(* or the floppy back; not before the driver has seen how its last byte    *)
(* ended: attaching clears an error, and a driver that turns interrupts on *)
(* after that waits for ever.                                              *)
TapeIn ==
    /\ ~tape.att
    /\ taper.step = "idle" \/ tape.active
    /\ \E file \in IF Is("reader") THEN Files ELSE {tape.file} :
         /\ tape' = Attach(tape, file)
         /\ taper' = IF Is("punch") THEN [taper EXCEPT !.made = <<>>] ELSE taper

TapeOut ==
    /\ tape.att /\ Event
    /\ tape' = Detach(tape)
    /\ taper' = [taper EXCEPT !.events = @ - 1]

TapeInit ==
    /\ \E kind \in {"reader", "punch", "floppy"}, file \in Files :
         /\ tape = pt_reset([kind |-> kind, att |-> FALSE, file |-> file, at |-> 0, csr |-> {}, buf |-> 0, int |-> FALSE,
                             active |-> FALSE, filebuf |-> [p \in 0 .. FloppyCapac - 1 |-> 0], hwmark |-> 0])
         /\ taper = [step |-> "idle", ie |-> FALSE, count |-> 0, events |-> MaxTapeEvents, owed |-> <<>>, told |-> <<>>,
                     made |-> IF kind = "floppy" THEN [p \in 0 .. FloppyCapac - 1 |-> ByteAt(file, p)] ELSE <<>>]

TapeNext ==
    \/ Go \/ Take \/ Read \/ Punch \/ Punched \/ Write \/ Enable \/ Reset \/ TapeIn \/ TapeOut
    \/ \E s \in 0 .. (FloppyCapac \div FloppySector) - 1, byte \in {1, 2} : Sector(s, byte)

-----------------------------------------------------------------------------
(* The driver of the reader is given every byte of the tape once, also     *)
(* when it was out of tape or the tape was changed in between: only a      *)
(* reset may lose one.                                                     *)
ReaderExact ==
    (Is("reader") /\ taper.step = "idle") => taper.told = taper.owed

(* The punched tape is what the driver was told has been punched; a byte   *)
(* under way may be on it.                                                 *)
PunchExact ==
    (Is("punch") /\ tape.att) =>
        \/ SubSeq(tape.file, 1, tape.at) = taper.made
        \/ taper.step = "wait" /\ SubSeq(tape.file, 1, tape.at) = taper.made \o taper.owed

(* Whatever was written to the floppy is in memory as long as it is        *)
(* attached, and in the file afterwards.                                   *)
FloppyExact ==
    Is("floppy") => \A p \in 0 .. FloppyCapac - 1 :
        taper.made[p] = IF tape.att THEN tape.filebuf[p] ELSE ByteAt(tape.file, p)

TapeExact == ReaderExact /\ PunchExact /\ FloppyExact

(* A driver that waits has an event to come, or an answer to take. *)
TapeServed ==
    (Serial(tape) /\ taper.step = "wait" /\ ~tape.active) =>
        IF taper.ie THEN tape.int ELSE tape.csr \cap {"BUSY"} = {} /\ (Is("punch") => "DONE" \in tape.csr)
=============================================================================
