--------------------------------- MODULE Rp ---------------------------------
(***************************************************************************)
(* The disk drives of pdp11_rp.c on the adapter of module Massbus, and a   *)
(* driver that keeps several drives busy: it positions some while another  *)
(* transfers, reads the attention summary in every interrupt, and probes   *)
(* for drives that are not there.  The bus may be reset at any time.       *)
(*                                                                         *)
(* rp is a record for each drive:                                          *)
(*   ds   of {"ATA", "RDY", "PIP", "ERR", "VV", "OFM", "LST"}   att  MOL   *)
(*   er1  its errors       fnc, dc, da = <<surface, sector>>   the command *)
(*   cyl  where the heads are      active  an event is queued              *)
(*   io_complete, bc, buf          of a transfer in its second half        *)
(* The other registers of a drive do nothing in this code.                 *)
(***************************************************************************)
EXTENDS Massbus

CONSTANTS
    RP_NUMWD,                       \* 256 words in a sector
    RpCyls, RpSurfs, RpSects,       \* drv_tab
    RpDrives,                       \* number of drives
    RpLocked, RpEmpty,              \* drives that are write protected, or without a pack
    RpJobs,                         \* transfers: op, drive, block, count, ie, address, spoiled
    RpFunctions,                    \* other functions the driver gives to other drives
    RpMaxFunctions, RpMaxTroubles,  \* how many; bus resets and errors of the host
    RpMaxJobs

VARIABLES
    rh,         \* the adapter
    rp,         \* the drives
    rpdisk,     \* their packs, words
    rpmem,      \* memory
    rpdrv       \* the driver

rpvars == <<rh, rp, rpdisk, rpmem, rpdrv>>

Drives == 0 .. RpDrives - 1
Size == RpCyls * RpSurfs * RpSects * RP_NUMWD

FNC_XFER == {"WCHK", "WRITE", "WRITEH", "READ"}
Positioning == {"SEEK", "SEARCH", "RECAL"}

(* GET_DA, in words, and back. *)
GET_DA(dc, da) == ((dc * RpSurfs + da[1]) * RpSects + da[2]) * RP_NUMWD
Place(block) == [dc |-> block \div (RpSects * RpSurfs),
                 da |-> <<(block \div RpSects) % RpSurfs, block % RpSects>>]

S == [rh |-> rh, rp |-> rp]
Turns(s) == rh' = s.rh /\ rp' = s.rp

-----------------------------------------------------------------------------
(* Errors, attention and status of drive d in s. *)
rp_set_er(s, d, flag) ==
    [s EXCEPT !.rp[d].er1 = @ \cup {flag}, !.rp[d].ds = @ \cup {"ATA"}, !.rh = mba_upd_ata(@, TRUE)]

(* Mutant: attention of the other drives is not looked at. *)
rp_clr_asAll(s, mask) ==
    [s EXCEPT !.rp = [d \in Drives |-> [s.rp[d] EXCEPT !.ds = IF d \in mask THEN @ \ {"ATA"} ELSE @]],
              !.rh = mba_upd_ata(@, FALSE)]

rp_clr_as(s, mask) ==
    [s EXCEPT !.rp = [d \in Drives |-> [s.rp[d] EXCEPT !.ds = IF d \in mask THEN @ \ {"ATA"} ELSE @]],
              !.rh = mba_upd_ata(@, \E d \in Drives \ mask : "ATA" \in s.rp[d].ds)]

rp_update_ds(s, d, flag) ==
    LET u == s.rp[d]
        gone == IF u.att THEN {} ELSE {"VV", "RDY"}
        bad == IF u.er1 # {} THEN {"ERR"} ELSE {}
    IN [s EXCEPT !.rp[d].ds = (((@ \ gone) \ {"ERR"}) \cup bad) \cup flag,
                 !.rh = IF "ATA" \in flag THEN mba_upd_ata(@, TRUE) ELSE @]

Refuse(s, d, flag) == rp_update_ds(rp_set_er(s, d, flag), d, {"ATA"})

Detached(u) == [u EXCEPT !.ds = @ \ {"RDY", "VV", "OFM"}, !.att = FALSE]

BadAddress(u) == u.dc >= RpCyls \/ u.da[1] >= RpSurfs \/ u.da[2] >= RpSects

Move(s, d, dc) == [s EXCEPT !.rp[d] = [@ EXCEPT !.active = TRUE, !.cyl = dc, !.ds = @ \ {"RDY"}]]

(* rp_go: the function of drive d, with whether it is refused (MBE_GOE).   *)
rp_go(s0, d) ==
    LET s == rp_clr_as(s0, {d})
        u == s.rp[d]
        Ok(t) == [s |-> t, ok |-> TRUE]
        No(flag) == [s |-> Refuse(s, d, flag), ok |-> FALSE]
        Pip(t) == [t EXCEPT !.rp[d].ds = @ \cup {"PIP"}]
    IN CASE u.fnc # "DCLR" /\ "ERR" \in u.ds -> No("ILF")
         [] u.fnc = "DCLR" -> Ok([s EXCEPT !.rp[d].er1 = {}, !.rp[d].ds = @ \ {"ERR"}])
         [] u.fnc = "NOP" /\ "ERR" \notin u.ds -> Ok(s)
         [] u.fnc = "PRESET" /\ "ERR" \notin u.ds ->
              Ok([s EXCEPT !.rp[d] = [@ EXCEPT !.dc = 0, !.da = <<0, 0>>, !.ds = @ \cup {"VV"}]])
         [] u.fnc = "PACK" /\ "ERR" \notin u.ds -> Ok([s EXCEPT !.rp[d].ds = @ \cup {"VV"}])
         [] u.fnc \in {"OFFSET", "RETURN"} /\ "ERR" \notin u.ds ->
              IF ~u.att THEN No("UNS") ELSE Ok(Pip(Move(s, d, u.cyl)))
         [] u.fnc = "UNLOAD" /\ "ERR" \notin u.ds -> Ok([s EXCEPT !.rp[d] = Detached(@)])
         [] u.fnc \in Positioning \cup FNC_XFER /\ "ERR" \notin u.ds ->
              IF ~u.att THEN No("UNS")
              ELSE IF BadAddress(IF u.fnc = "RECAL" THEN [u EXCEPT !.dc = 0] ELSE u) THEN No("IAE")
              ELSE IF u.fnc \in FNC_XFER THEN Ok(Move(s, d, u.dc))
              ELSE Ok(Pip(Move(s, d, IF u.fnc = "RECAL" THEN 0 ELSE u.dc)))
         [] u.fnc = "ILLEGAL" /\ "ERR" \notin u.ds -> No("ILF")

(* A drive that is busy takes no register but the attention summary.       *)
Busy(s, d) == rp_update_ds(rp_set_er(s, d, "RMR"), d, {})

wr_DA(s, d, place) ==
    IF s.rp[d].active THEN Busy(s, d)
    ELSE rp_update_ds([s EXCEPT !.rp[d].dc = place.dc, !.rp[d].da = place.da], d, {})

(* Mutant: a transfer is started although the drive refused it. *)
StartedRefused(s, fnc, ok) == IF fnc \in FNC_XFER THEN [s EXCEPT !.rh = Started(@)] ELSE s

(* A transfer the drive has taken makes the adapter busy.                  *)
StartedTransfer(s, fnc, ok) == IF fnc \in FNC_XFER /\ ok THEN [s EXCEPT !.rh = Started(@)] ELSE s

(* mba_wr and rp_mbwr of CS1: bits, and a function with GO or none.        *)
wr_CS1(s0, bits, fnc) ==
    LET s == [s0 EXCEPT !.rh = Written(@, bits)]
        d == s.rh.unit
        go == rp_go([s EXCEPT !.rp[d].fnc = fnc], d)
        device == CASE d \notin Drives -> [s EXCEPT !.rh = mba_set_cs2(@, "NED")]
                    [] d \in Drives /\ s.rp[d].active -> StartedTransfer(Busy(s, d), fnc, TRUE)
                    [] d \in Drives /\ ~s.rp[d].active /\ fnc = "none" -> rp_update_ds(s, d, {})
                    [] d \in Drives /\ ~s.rp[d].active /\ fnc # "none" ->
                         StartedTransfer(go.s, fnc, go.ok)
        done == IF fnc \in FNC_XFER /\ "DONE" \notin s.rh.cs1
                THEN [s EXCEPT !.rh = mba_set_cs2(@, "PGE")] ELSE device
    IN [done EXCEPT !.rh = mba_upd_cs1(@, {}, {})]

wr_AS(s, mask) == [rp_clr_as(s, mask) EXCEPT !.rh = mba_upd_cs1(@, {}, {})]
rd_AS(s) == {d \in Drives : "ATA" \in s.rp[d].ds}

(* A drive that is not there. *)
rd_DS(s) == IF s.rh.unit \in Drives THEN rp_update_ds(s, s.rh.unit, {})
            ELSE [s EXCEPT !.rh = mba_set_cs2(@, "NED")]

(* rp_abort, from mba_reset. *)
rp_reset(u) ==
    [u EXCEPT !.active = FALSE, !.cyl = 0, !.fnc = "NOP", !.er1 = {}, !.dc = 0, !.da = <<0, 0>>,
              !.ds = IF u.att THEN (@ \cap {"VV"}) \cup {"RDY"} ELSE {}]

-----------------------------------------------------------------------------
(* The service routine. *)

(* Moved, or refused: the drive is ready again.                            *)
Ready(s, d) == [s EXCEPT !.rp[d].ds = (@ \ {"PIP"}) \cup {"RDY"}]

(* The count is kept in bytes, in 16 bits. *)
Asked(m) == (RhCount - m.wc) % (RhCount \div 2)

Sectors(words) == (words + RP_NUMWD - 1) \div RP_NUMWD

(* Mutant: what memory does not fill of the last sector stays as it was. *)
OnDiskKept(disk, from, mem, m, moved) ==
    [w \in DOMAIN disk |-> IF w \in from .. from + moved - 1 THEN mem[Address(m, w - from)] ELSE disk[w]]

(* Whole sectors, the last one with zeros at its end.                      *)
OnDisk(disk, from, mem, m, moved) ==
    [w \in DOMAIN disk |->
        IF w \in from .. from + moved - 1 THEN mem[Address(m, w - from)]
        ELSE IF w \in from + moved .. from + Sectors(moved) * RP_NUMWD - 1 THEN 0 ELSE disk[w]]

Trimmed(from, asked) == IF from + asked > Size THEN Size - from ELSE asked

FromDisk(disk, from, words) ==
    [k \in 0 .. RhCount - 1 |-> IF k < Sectors(words) * RP_NUMWD /\ from + k < Size
                                THEN disk[from + k] ELSE 0]

PositionEnd(s, d) ==
    CASE s.rp[d].fnc = "OFFSET" -> rp_update_ds(s, d, {"OFM", "ATA"})
      [] s.rp[d].fnc = "RETURN" -> rp_update_ds([s EXCEPT !.rp[d].ds = @ \ {"OFM"}], d, {"ATA"})
      [] s.rp[d].fnc \in Positioning -> rp_update_ds(s, d, {"ATA"})

Fired(d) == [S EXCEPT !.rp[d].active = FALSE]

rp_svcPosition(d) ==
    /\ rp[d].active /\ ~rp[d].io_complete /\ rp[d].fnc \notin FNC_XFER
    /\ Turns(Ready(PositionEnd(Fired(d), d), d))
    /\ UNCHANGED <<rpdisk, rpmem, rpdrv>>

(* A write to a protected drive leaves it not ready. *)
rp_svcRefused(d) ==
    /\ rp[d].active /\ ~rp[d].io_complete /\ rp[d].fnc = "WRITE" /\ d \in RpLocked
    /\ LET s == rp_set_er(Fired(d), d, "WLE")
       IN Turns(rp_update_ds([s EXCEPT !.rh = mba_set_exc(@)], d, {"ATA"}))
    /\ UNCHANGED <<rpdisk, rpmem, rpdrv>>

rp_svcHeaders(d) ==
    /\ rp[d].active /\ ~rp[d].io_complete /\ rp[d].fnc = "WRITEH"
    /\ Turns(Ready(rp_update_ds([Fired(d) EXCEPT !.rh = mba_set_don(@)], d, {}), d))
    /\ UNCHANGED <<rpdisk, rpmem, rpdrv>>

(* The first half: a write is done here. *)
rp_svcTop(d) ==
    LET u == rp[d]
        from == GET_DA(u.dc, u.da)
        asked == Asked(rh)
        words == Trimmed(from, asked)
        s == IF words < asked THEN rp_set_er(S, d, "AOE") ELSE S
        t == [s EXCEPT !.rp[d] = [@ EXCEPT !.io_complete = TRUE, !.bc = asked]]
    IN /\ u.active /\ ~u.io_complete /\ u.fnc \in {"WRITE", "WCHK", "READ"}
       /\ ~(u.fnc = "WRITE" /\ d \in RpLocked)
       /\ IF u.fnc = "WRITE"
            THEN /\ Turns([t EXCEPT !.rh = mba_rdbufW(@, words)])
                 /\ rpdisk' = [rpdisk EXCEPT ![d] = OnDisk(@, from, rpmem, rh, Exist(rh, Limited(rh, words)))]
            ELSE Turns([t EXCEPT !.rp[d].buf = FromDisk(rpdisk[d], from, words)]) /\ UNCHANGED rpdisk
       /\ UNCHANGED <<rpmem, rpdrv>>

(* The address after the last sector, of a transfer of what was asked for. *)
After(u, from) ==
    LET end == from + u.bc + RP_NUMWD - 1
        place == Place(end \div RP_NUMWD)
    IN [u EXCEPT !.ds = IF end >= Size THEN @ \cup {"LST"} ELSE @,
                 !.dc = place.dc, !.da = place.da, !.cyl = place.dc, !.buf = <<>>]

Failed(s, d) ==
    LET e == rp_set_er(s, d, "PAR")
    IN rp_update_ds([e EXCEPT !.rh = mba_set_exc(@)], d, {"ATA"})

Done(s, d) == Ready(rp_update_ds([s EXCEPT !.rh = mba_set_don(@)], d, {}), d)

(* The second half, at once: a read goes to memory, or is compared.        *)
rp_svcBottom(d, error) ==
    LET u == rp[d]
        s == [S EXCEPT !.rp[d] = After([@ EXCEPT !.active = FALSE, !.io_complete = FALSE],
                                       GET_DA(u.dc, u.da))]
        t == CASE u.fnc = "WRITE" -> s
               [] u.fnc = "READ" -> [s EXCEPT !.rh = mba_wrbufW(@, u.bc)]
               [] u.fnc = "WCHK" -> [s EXCEPT !.rh = mba_chbufW(@, rpmem, u.bc, u.buf)]
    IN /\ u.active /\ u.io_complete
       /\ Turns(IF error THEN Failed(t, d) ELSE Done(t, d))
       /\ rpmem' = IF u.fnc = "READ" THEN Stored(rh, rpmem, u.bc, u.buf) ELSE rpmem
       /\ UNCHANGED rpdisk

(* Only other drives' events come between the halves. *)
Processor == \A d \in Drives : ~rp[d].io_complete

-----------------------------------------------------------------------------
(* The driver. *)

Original(d) == [w \in 0 .. Size - 1 |-> 100 * (d + 1) + w]

RpInit ==
    /\ rh = mba_reset(0)
    /\ rp = [d \in Drives |->
                [ds |-> IF d \in RpEmpty THEN {} ELSE {"RDY"}, er1 |-> {}, fnc |-> "NOP", dc |-> 0,
                 da |-> <<0, 0>>, cyl |-> 0, active |-> FALSE, io_complete |-> FALSE, bc |-> 0,
                 buf |-> <<>>, att |-> d \notin RpEmpty]]
    /\ rpdisk = [d \in Drives |-> Original(d)]
    /\ rpmem = [a \in 0 .. RhMemory - 1 |-> 0]
    /\ rpdrv = [step |-> "idle", job |-> [op |-> "none"], old |-> [d \in Drives |-> Original(d)], handler |-> "out", functions |-> 0,
                troubles |-> 0, jobs |-> 0]

Contents(job) ==
    [a \in 0 .. RhMemory - 1 |->
        LET k == a - job.address
        IN CASE job.op \in {"READ", "WRITEH"} \/ k \notin 0 .. job.count - 1 -> 0
             [] job.op = "WRITE" /\ k \in 0 .. job.count - 1 -> 500 + k
             [] job.op = "WCHK" /\ k \in 0 .. job.count - 1 ->
                  IF job.spoiled /\ k = job.count - 1 THEN 0
                  ELSE rpdisk[job.drive][(job.block * RP_NUMWD + k) % Size]]

RpBegin ==
    /\ rpdrv.step = "idle" /\ rpdrv.jobs < RpMaxJobs /\ rpdrv.handler = "out" /\ Processor
    /\ \E job \in RpJobs :
          /\ rpdrv' = [rpdrv EXCEPT !.step = "registers", !.job = job, !.old = rpdisk, !.jobs = @ + 1]
          /\ rpmem' = Contents(job)
    /\ UNCHANGED <<rh, rp, rpdisk>>

Idle == "DONE" \in rh.cs1 /\ rpdrv.handler = "out"
Bits == IF rpdrv.job.ie THEN {"IE"} ELSE {}

(* Registers of a drive that is not moving. *)
RpRegisters ==
    /\ rpdrv.step = "registers" /\ Idle /\ ~rp[rpdrv.job.drive].active /\ Processor
    /\ LET m == wr_BA(wr_WC(wr_CS2(rh, rpdrv.job.drive), rpdrv.job.count), rpdrv.job.address)
       IN Turns(wr_DA([S EXCEPT !.rh = m], rpdrv.job.drive, Place(rpdrv.job.block)))
    /\ rpdrv' = [rpdrv EXCEPT !.step = "go"]
    /\ UNCHANGED <<rpdisk, rpmem>>

RpGo ==
    /\ rpdrv.step = "go" /\ rpdrv.handler = "out" /\ Processor
    /\ Turns(wr_CS1(S, Bits, rpdrv.job.op))
    /\ rpdrv' = [rpdrv EXCEPT !.step = "transfer"]
    /\ UNCHANGED <<rpdisk, rpmem>>

(* The end of the transfer, or its refusal; polled, or in the interrupt.   *)
Outcome == IF "TRE" \in rh.cs1 \/ rp[rpdrv.job.drive].er1 # {} THEN "error" ELSE "end"
RpEnd ==
    /\ rpdrv.step = "transfer" /\ "DONE" \in rh.cs1 /\ Processor
    /\ rpdrv.handler = (IF rpdrv.job.ie THEN "in" ELSE "out")
    /\ rpdrv' = [rpdrv EXCEPT !.step = Outcome]
    /\ UNCHANGED <<rh, rp, rpdisk, rpmem>>

(* An interrupt: attention is cleared for the drives that have it, errors  *)
(* of the adapter too, and interrupts are enabled again.                   *)
RpInterrupt ==
    /\ rh.int /\ rpdrv.handler = "out" /\ Processor
    /\ rh' = mba0_inta(rh)
    /\ rpdrv' = [rpdrv EXCEPT !.handler = "in"]
    /\ UNCHANGED <<rp, rpdisk, rpmem>>
RpAttention ==
    /\ rpdrv.handler = "in" /\ rpdrv.step = "transfer" => "DONE" \notin rh.cs1
    /\ rpdrv.handler = "in" /\ Processor
    /\ Turns(wr_AS(S, rd_AS(S)))
    /\ rpdrv' = [rpdrv EXCEPT !.handler = "enable"]
    /\ UNCHANGED <<rpdisk, rpmem>>
RpEnable ==
    /\ rpdrv.handler = "enable" /\ Processor
    /\ Turns(wr_CS1(S, {"IE", "TRE"}, "none"))
    /\ rpdrv' = [rpdrv EXCEPT !.handler = "out"]
    /\ UNCHANGED <<rpdisk, rpmem>>

(* Something else for another drive, also while a transfer runs; or a look *)
(* at a drive that is not there. *)
RpOther ==
    /\ rpdrv.functions < RpMaxFunctions /\ rpdrv.step \in {"registers", "transfer"}
    /\ rpdrv.handler = "out" /\ Processor
    /\ \E f \in RpFunctions :
          /\ f.drive # rpdrv.job.drive
          /\ f.fnc \in FNC_XFER => "DONE" \notin rh.cs1
          /\ LET s == [S EXCEPT !.rh = wr_CS2(@, f.drive)]
                 placed == IF f.drive \in Drives THEN wr_DA(s, f.drive, Place(f.block)) ELSE rd_DS(s)
             IN Turns(wr_CS1(placed, rh.cs1 \cap {"IE"}, f.fnc))
    /\ rpdrv' = [rpdrv EXCEPT !.functions = @ + 1]
    /\ UNCHANGED <<rpdisk, rpmem>>

RpAgain ==
    /\ rpdrv.step \in {"end", "error"} /\ rpdrv.handler = "out"
    /\ rpdrv' = [rpdrv EXCEPT !.step = "idle"]
    /\ UNCHANGED <<rh, rp, rpdisk, rpmem>>

RpSecondHalf ==
    \E d \in Drives, error \in BOOLEAN :
        /\ error => rpdrv.troubles < RpMaxTroubles
        /\ rp_svcBottom(d, error)
        /\ rpdrv' = IF error THEN [rpdrv EXCEPT !.troubles = @ + 1] ELSE rpdrv

(* A bus reset at any time: the driver repeats its job. *)
RpReset ==
    /\ rpdrv.step # "idle" /\ rpdrv.troubles < RpMaxTroubles /\ Processor
    /\ rh' = mba_reset(rh)
    /\ rp' = [d \in Drives |-> rp_reset(rp[d])]
    /\ rpdrv' = [rpdrv EXCEPT !.step = "registers", !.handler = "out", !.troubles = @ + 1]
    /\ rpmem' = Contents(rpdrv.job)
    /\ UNCHANGED rpdisk

RpNext ==
    \/ \E d \in Drives : rp_svcPosition(d)
    \/ \E d \in Drives : rp_svcRefused(d)
    \/ \E d \in Drives : rp_svcHeaders(d)
    \/ \E d \in Drives : rp_svcTop(d)
    \/ RpSecondHalf
    \/ RpBegin \/ RpRegisters \/ RpGo \/ RpEnd \/ RpInterrupt \/ RpAttention \/ RpEnable
    \/ RpOther \/ RpAgain \/ RpReset

-----------------------------------------------------------------------------
(* The adapter is busy only while a drive transfers for it, a drive that   *)
(* moves will say so, and a drive that wants attention has it: the adapter *)
(* knows, and interrupts as soon as it may.                                *)
RpServed ==
    /\ "DONE" \notin rh.cs1 => \E d \in Drives : rp[d].active /\ rp[d].fnc \in FNC_XFER
    /\ \A d \in Drives : "PIP" \in rp[d].ds => rp[d].active
    /\ \A d \in Drives : "ATA" \in rp[d].ds => "SC" \in rh.cs1
    /\ {"SC", "DONE", "IE"} \subseteq rh.cs1 => rh.int

(* A transfer that ends without an error has moved what was asked for,     *)
(* word for word, and nothing else; the registers say so.                  *)
RpTransferExact ==
    rpdrv.step = "end" =>
        LET job == rpdrv.job
            from == job.block * RP_NUMWD
            Asked0(k) == k \in 0 .. job.count - 1
        IN /\ job.op = "READ" => \A a \in DOMAIN rpmem :
                 rpmem[a] = IF Asked0(a - job.address) THEN rpdisk[job.drive][from + a - job.address] ELSE 0
           /\ job.op = "WRITE" => \A w \in DOMAIN rpdisk[job.drive] :
                 rpdisk[job.drive][w] =
                    IF Asked0(w - from) THEN 500 + w - from
                    ELSE IF w \in from .. from + Sectors(job.count) * RP_NUMWD - 1 THEN 0
                    ELSE rpdrv.old[job.drive][w]
           /\ job.op = "WCHK" => ~job.spoiled
           /\ job.op \in {"READ", "WRITE", "WCHK"} => rh.wc = 0 /\ rh.ba = job.address + job.count
           /\ \A d \in Drives \ {job.drive} : rpdisk[d] = rpdrv.old[d]
=============================================================================
