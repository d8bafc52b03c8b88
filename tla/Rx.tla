--------------------------------- MODULE Rx ---------------------------------
(***************************************************************************)
(* The RX11 floppy controller of pdp11_rx.c with the floppy in drive 0, as *)
(* start-up attaches it, and nothing in drive 1; and a driver that reads   *)
(* and writes sectors, and resets the bus whenever it likes.               *)
(*                                                                         *)
(* A unit in `active` has an event in the queue; when it comes is left     *)
(* open (the seek takes longer the further it goes).  Bytes are numbers.   *)
(* A byte access to RXCS is one of the words it makes.                     *)
(***************************************************************************)
EXTENDS Integers, Sequences, FiniteSets, FiniteSetsExt

CONSTANTS
    RX_NUMTR, RX_NUMSC, RX_NUMBY,    \* 77 tracks, 26 sectors, 128 bytes
    RxTargets,                       \* what the driver addresses
    RxVersions                       \* contents a sector can have

VARIABLES
    rx,         \* the controller
    floppy,     \* the image in the buffer of unit 0
    rxdrv       \* the driver of the guest

rxvars == <<rx, floppy, rxdrv>>

(* Bits of the error and status register. *)
RXES_ID   == 4
RXES_WLK  == 8
RXES_DD   == 64
RXES_DRDY == 128

Attached(drive) == drive = 0

(* The record of version v of a sector. *)
Content(v) == [i \in 1 .. RX_NUMBY |-> v * RX_NUMBY + i]
CALC_DA(t, s) == t * RX_NUMSC + (s - 1)

-----------------------------------------------------------------------------
(* Command complete; a code of -1 leaves the last one to be read. *)
rx_done(r, flags, code) ==
    LET esr == ((r.esr \cup flags) \ {RXES_DRDY}) \cup (IF Attached(r.drv) THEN {RXES_DRDY} ELSE {})
    IN [r EXCEPT !.state = "IDLE", !.done = TRUE, !.int = @ \/ r.ie,
                 !.esr = esr, !.err = @ \/ code > 0,
                 !.ecode = IF code < 0 THEN @ ELSE code,
                 !.dbr = IF code < 0 THEN @ ELSE SumSet(esr)]

(* Mutant: a pending event of drive 1 survives the reset. *)
rx_resetKeepsEvent(r) ==
    [r EXCEPT !.done = FALSE, !.ie = FALSE, !.tr = FALSE, !.err = FALSE, !.func = "FILL", !.drv = 0,
              !.dbr = 0, !.esr = {}, !.ecode = 0, !.track = 0, !.sector = 0, !.int = FALSE,
              !.state = "INIT_COMPLETE", !.active = @ \cup {0}]

(* The registers are cleared; drive 0 is queued, if it is not already, for *)
(* the end of the initialization. *)
rx_reset(r) ==
    [r EXCEPT !.done = FALSE, !.ie = FALSE, !.tr = FALSE, !.err = FALSE, !.func = "FILL", !.drv = 0,
              !.dbr = 0, !.esr = {}, !.ecode = 0, !.track = 0, !.sector = 0, !.int = FALSE,
              !.state = "INIT_COMPLETE", !.active = (@ \ {1}) \cup {0}]

-----------------------------------------------------------------------------
(* Register accesses. *)

(* A new function is taken in state IDLE only; the interrupt request of    *)
(* the last one stays. *)
NewFunction(r, func, drv, ie) ==
    LET go == [r EXCEPT !.done = FALSE, !.tr = FALSE, !.err = FALSE, !.ie = ie, !.func = func,
                        !.drv = drv, !.bptr = 0]
    IN CASE func = "FILL"  -> [go EXCEPT !.state = "FILL", !.tr = TRUE]
         [] func = "EMPTY" -> [go EXCEPT !.state = "EMPTY", !.active = @ \cup {drv}]
         [] func \in {"READ", "WRITE", "WRDEL"} ->
                [go EXCEPT !.state = "RWDS", !.tr = TRUE, !.esr = @ \cap {RXES_ID}]
         [] OTHER -> [go EXCEPT !.state = "CMD_COMPLETE", !.active = @ \cup {drv}]

wr_RXCS(r, init, go, func, drv, ie) ==
    IF init THEN rx_reset(r)
    ELSE IF go /\ r.state = "IDLE" THEN NewFunction(r, func, drv, ie)
    ELSE [r EXCEPT !.int = ie /\ (@ \/ (r.done /\ ~r.ie)), !.ie = ie]

wr_RXDB(r, d) ==
    IF r.state # "IDLE" /\ ~r.tr THEN r
    ELSE IF r.state \in {"IDLE", "EMPTY"} THEN [r EXCEPT !.dbr = d]
    ELSE [r EXCEPT !.dbr = d, !.active = @ \cup {r.drv}, !.tr = FALSE]

(* The next byte of EMPTY is the business of drive 0, whichever was        *)
(* selected. *)
rd_RXDB(r) ==
    IF r.state = "EMPTY" /\ r.tr THEN [r EXCEPT !.active = @ \cup {0}, !.tr = FALSE] ELSE r

-----------------------------------------------------------------------------
(* The service routine, on unit u. *)

svc_EMPTY(r) ==
    IF r.bptr >= RX_NUMBY THEN rx_done(r, {}, 0)
    ELSE [r EXCEPT !.dbr = r.buf[r.bptr + 1], !.bptr = @ + 1, !.tr = TRUE]

svc_FILL(r) ==
    LET next == [r EXCEPT !.buf[r.bptr + 1] = r.dbr, !.bptr = @ + 1]
    IN IF next.bptr < RX_NUMBY THEN [next EXCEPT !.tr = TRUE] ELSE rx_done(next, {}, 0)

svc_RWDS(r) == [r EXCEPT !.sector = r.dbr % 32, !.tr = TRUE, !.state = "RWDT"]
svc_RWDT(r, u) == [r EXCEPT !.track = r.dbr % 128, !.state = "RWXFR", !.active = @ \cup {u}]

(* Error codes 0110, 040 and 070. *)
Refusal(r, u) ==
    IF ~Attached(u) THEN 72
    ELSE IF r.track >= RX_NUMTR THEN 32
    ELSE IF r.sector = 0 \/ r.sector > RX_NUMSC THEN 56
    ELSE 0

svc_RWXFR(r, u) ==
    LET da  == CALC_DA(r.track, r.sector)
        del == [r EXCEPT !.esr = @ \cup (IF r.func = "WRDEL" THEN {RXES_DD} ELSE {})]
    IN IF Refusal(r, u) > 0 THEN rx_done(r, {}, Refusal(r, u))
       ELSE IF r.func = "READ" THEN rx_done([r EXCEPT !.buf = floppy.data[da]], {}, 0)
       ELSE IF floppy.locked THEN rx_done(del, {RXES_WLK}, 64)
       ELSE rx_done(del, {}, 0)

(* Mutant: a write protected floppy is written all the same. *)
WrittenThrough(r, u) ==
    IF Refusal(r, u) = 0 /\ r.func # "READ"
      THEN [floppy EXCEPT !.data[CALC_DA(r.track, r.sector)] = r.buf]
      ELSE floppy

(* The sector is written. *)
Written(r, u) ==
    IF Refusal(r, u) = 0 /\ r.func # "READ" /\ ~floppy.locked
      THEN [floppy EXCEPT !.data[CALC_DA(r.track, r.sector)] = r.buf]
      ELSE floppy

svc_CMD_COMPLETE(r) ==
    IF r.func = "ECODE" THEN rx_done([r EXCEPT !.dbr = r.ecode], {}, -1) ELSE rx_done(r, {}, 0)

(* Track 1, sector 1 is read; drive 1, which is not there, has the last    *)
(* word with code 020. *)
svc_INIT_COMPLETE(r) ==
    [rx_done([r EXCEPT !.buf = floppy.data[CALC_DA(1, 1)]], {RXES_ID}, 0) EXCEPT !.ecode = 16]

rx_svc ==
    \E u \in rx.active :
        LET r == [rx EXCEPT !.active = @ \ {u}]
        IN /\ rx' = CASE rx.state = "EMPTY" -> svc_EMPTY(r)
                      [] rx.state = "FILL" -> svc_FILL(r)
                      [] rx.state = "RWDS" -> svc_RWDS(r)
                      [] rx.state = "RWDT" -> svc_RWDT(r, u)
                      [] rx.state = "RWXFR" -> svc_RWXFR(r, u)
                      [] rx.state = "CMD_COMPLETE" -> svc_CMD_COMPLETE(r)
                      [] rx.state = "INIT_COMPLETE" -> svc_INIT_COMPLETE(r)
           /\ floppy' = IF rx.state = "RWXFR" THEN Written(r, u) ELSE floppy
           /\ UNCHANGED rxdrv

-----------------------------------------------------------------------------
(* The driver: step is what it does next.  With ie it waits for the        *)
(* interrupt at the end of a function, otherwise it polls for DONE.        *)
(* expect holds the versions a sector may have: two after a reset came     *)
(* into its writing.                                                       *)

Targets == [drive : {0}, track : 0 .. RX_NUMTR - 1, sector : 1 .. RX_NUMSC]
Good(target) == target \in Targets
Expected(op, target) ==
    IF target.drive = 1 THEN 72
    ELSE IF target.track >= RX_NUMTR THEN 32
    ELSE IF target.sector \notin 1 .. RX_NUMSC THEN 56
    ELSE IF op # "READ" /\ floppy.locked THEN 64 ELSE 0

RxInit ==
    /\ \E locked \in BOOLEAN :
          floppy = [locked |-> locked,
                    data |-> [da \in 0 .. RX_NUMTR * RX_NUMSC - 1 |-> Content(0)]]
    /\ rx = rx_reset([state |-> "IDLE", done |-> FALSE, ie |-> FALSE, tr |-> FALSE, err |-> FALSE,
                      func |-> "FILL", drv |-> 0, dbr |-> 0, esr |-> {}, ecode |-> 0, track |-> 0,
                      sector |-> 0, int |-> FALSE, bptr |-> 0, buf |-> [i \in 1 .. RX_NUMBY |-> 0],
                      active |-> {}])
    /\ rxdrv = [step |-> "init", op |-> "READ", ie |-> FALSE, count |-> 0, got |-> <<>>, new |-> 0,
                target |-> [drive |-> 0, track |-> 0, sector |-> 1],
                expect |-> [x \in Targets |-> {0}]]

(* The function has ended: the driver sees DONE, or takes the interrupt,   *)
(* which withdraws the request. *)
Ended(r) == IF rxdrv.ie THEN r.int ELSE r.done
Taken(r) == [r EXCEPT !.int = FALSE]

RxBegin ==
    /\ rxdrv.step = "idle"
    /\ \E op \in {"READ", "WRITE", "WRDEL"}, target \in RxTargets, ie \in BOOLEAN :
          LET unused == RxVersions \ (IF Good(target) THEN rxdrv.expect[target] ELSE {})
          IN /\ op # "READ" => unused # {}
             /\ rxdrv' = [rxdrv EXCEPT !.op = op, !.ie = ie, !.target = target, !.count = 0,
                                       !.got = <<>>, !.new = IF op = "READ" THEN @ ELSE CHOOSE v \in unused : TRUE,
                                       !.step = IF op = "READ" THEN "sector" ELSE "fill"]
             /\ rx' = wr_RXCS(rx, FALSE, TRUE, IF op = "READ" THEN "READ" ELSE "FILL",
                              target.drive, ie)
    /\ UNCHANGED floppy

(* A byte, the sector, the track: whenever TR is up. *)
Send(step, d, next) ==
    /\ rxdrv.step = step /\ rx.tr
    /\ rx' = wr_RXDB(rx, d)
    /\ rxdrv' = next
    /\ UNCHANGED floppy

RxFill ==
    /\ rxdrv.count < RX_NUMBY
    /\ Send("fill", Content(rxdrv.new)[rxdrv.count + 1], [rxdrv EXCEPT !.count = @ + 1])
RxSector == Send("sector", rxdrv.target.sector, [rxdrv EXCEPT !.step = "track"])
RxTrack ==
    Send("track", rxdrv.target.track,
         [rxdrv EXCEPT !.step = "wait",
                       !.expect = IF rxdrv.op # "READ" /\ Expected(rxdrv.op, rxdrv.target) = 0
                                  THEN [@ EXCEPT ![rxdrv.target] = @ \cup {rxdrv.new}] ELSE @])

RxFilled ==
    /\ rxdrv.step = "fill" /\ Ended(rx)
    /\ rxdrv' = [rxdrv EXCEPT !.step = "sector"]
    /\ rx' = wr_RXCS(Taken(rx), FALSE, TRUE, rxdrv.op, rxdrv.target.drive, rxdrv.ie)
    /\ UNCHANGED floppy

(* With an error the driver asks for its code, after a read for the bytes. *)
RxTransferred ==
    /\ rxdrv.step = "wait" /\ Ended(rx)
    /\ LET func == IF rx.err THEN "ECODE" ELSE IF rxdrv.op = "READ" THEN "EMPTY" ELSE "RXES"
       IN /\ rxdrv' = [rxdrv EXCEPT !.step = func,
                        !.expect = IF func = "RXES" THEN [@ EXCEPT ![rxdrv.target] = {rxdrv.new}] ELSE @]
          /\ rx' = wr_RXCS(Taken(rx), FALSE, TRUE, func, rxdrv.target.drive, rxdrv.ie)
    /\ UNCHANGED floppy

RxEmpty ==
    /\ rxdrv.step = "EMPTY" /\ rx.tr
    /\ rxdrv' = [rxdrv EXCEPT !.got = Append(@, rx.dbr)]
    /\ rx' = rd_RXDB(rx)
    /\ UNCHANGED floppy

(* The end of the operation; for an error, what RXDB has is the code. *)
RxEnd ==
    /\ rxdrv.step \in {"EMPTY", "RXES", "ECODE"} /\ Ended(rx)
    /\ rxdrv' = [rxdrv EXCEPT !.step = IF @ = "ECODE" THEN "told" ELSE IF @ = "EMPTY" THEN "compare" ELSE "idle",
                              !.got = IF rxdrv.step = "ECODE" THEN <<rx.dbr>> ELSE @]
    /\ rx' = Taken(rd_RXDB(rx))
    /\ UNCHANGED floppy

(* It compares, and knows now which version it is. *)
RxCompared ==
    /\ rxdrv.step \in {"told", "compare"}
    /\ rxdrv' = [rxdrv EXCEPT !.step = "idle", !.got = <<>>,
                    !.expect = IF rxdrv.step = "compare" /\ Good(rxdrv.target)
                               THEN [@ EXCEPT ![rxdrv.target] = {v \in @ : Content(v) = rxdrv.got}] ELSE @]
    /\ UNCHANGED <<rx, floppy>>

(* Interrupts on or off while a function runs. *)
RxEnable ==
    /\ rxdrv.step \in {"wait", "fill", "EMPTY"} /\ ~rxdrv.ie
    /\ rxdrv' = [rxdrv EXCEPT !.ie = TRUE]
    /\ rx' = wr_RXCS(rx, FALSE, FALSE, "FILL", 0, TRUE)
    /\ UNCHANGED floppy

(* A bus reset, or INIT, at any time; then the driver waits for DONE.      *)
RxReset ==
    /\ \E init \in BOOLEAN : rx' = IF init THEN wr_RXCS(rx, TRUE, FALSE, "FILL", 0, FALSE) ELSE rx_reset(rx)
    /\ rxdrv' = [rxdrv EXCEPT !.step = "init", !.ie = FALSE, !.got = <<>>]
    /\ UNCHANGED floppy
RxReady ==
    /\ rxdrv.step = "init" /\ rx.done
    /\ rxdrv' = [rxdrv EXCEPT !.step = "idle"]
    /\ UNCHANGED <<rx, floppy>>

RxNext ==
    \/ rx_svc \/ RxBegin \/ RxFill \/ RxSector \/ RxTrack \/ RxFilled \/ RxTransferred \/ RxEmpty
    \/ RxEnd \/ RxCompared \/ RxEnable \/ RxReset \/ RxReady

-----------------------------------------------------------------------------
(* The controller has exactly one event to come while it works, and none   *)
(* while it waits for the program, in whatever state a reset finds it: an  *)
(* event in state IDLE stops the machine, without one it works for ever.   *)
OneEvent ==
    /\ rx.active = {} <=> (rx.state = "IDLE" \/ rx.tr)
    /\ Cardinality(rx.active) <= 1

(* What is read from a sector is what was last written there, as a whole;  *)
(* after a reset during the writing it is the old or the new content, and  *)
(* stays that.  An operation that fails says why.                          *)
SectorsWhole ==
    /\ rxdrv.step = "compare" =>
          /\ Expected(rxdrv.op, rxdrv.target) = 0
          /\ \E v \in rxdrv.expect[rxdrv.target] : rxdrv.got = Content(v)
    /\ rxdrv.step = "told" => rxdrv.got = <<Expected(rxdrv.op, rxdrv.target)>>
    /\ rxdrv.step = "RXES" => Expected(rxdrv.op, rxdrv.target) = 0
=============================================================================
