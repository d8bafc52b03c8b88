--------------------------------- MODULE Rl ---------------------------------
(***************************************************************************)
(* The RLV12 controller of pdp11_rl.c with its drives, and a driver that   *)
(* reads, writes and compares any number of words: it reads a header to    *)
(* know where the heads are, seeks, transfers, and goes on at the next     *)
(* track with what the registers say is left.  In between it seeks on      *)
(* other drives and resets the bus.                                        *)
(*                                                                         *)
(* RLDA and the position TRK have the bits of the code: the sector in six, *)
(* then the head, then the cylinder.  RLBA and RLBAE are one address, of   *)
(* words.  Memory at the address of a transfer exists; the maintenance     *)
(* function, brushes and cover are left out.                               *)
(***************************************************************************)
EXTENDS Integers, Sequences, FiniteSets

CONSTANTS
    RL_NUMWD, RL_NUMSC,       \* 128 words, 40 sectors
    RlCylinders,              \* of each drive: 256, or 512 of an RL02
    RlAttached, RlLocked,     \* drives with a cartridge, with a write protected one
    RlJobs,                   \* what the driver may want: op, drive, block, count, ie, spoiled
    RlMaxJobs, RlMaxResets    \* transfers of the driver, bus resets

VARIABLES
    rl,         \* the controller
    rlunit,     \* its drives
    rldisk,     \* their cartridges: blocks of words
    rlmem,      \* the driver's buffer
    rldrv       \* the driver

rlvars == <<rl, rlunit, rldisk, rlmem, rldrv>>

RlDrives == DOMAIN RlCylinders
Sector(da) == da % 64
Surface(da) == (da \div 64) % 2
Cylinder(da) == da \div 128
Block(da) == (da \div 64) * RL_NUMSC + Sector(da)      \* GET_DA
WithoutSector(da) == da - Sector(da)

Blocks(d) == RlCylinders[d] * 2 * RL_NUMSC
Buffer == 0 .. 3 * RL_NUMSC * RL_NUMWD

HDE == {"DLT", "INCMP"}

-----------------------------------------------------------------------------
(* The status is or'ed to RLCS; the interrupt follows IE.                  *)
rl_set_done(r, status) == [r EXCEPT !.err = @ \cup status, !.done = TRUE, !.int = r.ie]

(* Drives keep their position, and a seek that is under way is forgotten.  *)
rl_resetUnit(u) == [u EXCEPT !.active = FALSE, !.err = {}]
(* Mutant: CRDY stays as it is. *)
rl_resetKeepsBusy(r) == [r EXCEPT !.ie = FALSE, !.int = FALSE, !.err = {}, !.func = "NOP",
                                  !.drive = 0, !.da = 0, !.ba = 0, !.mp = <<0, 0, 0>>]

rl_reset(r) == [r EXCEPT !.done = TRUE, !.ie = FALSE, !.int = FALSE, !.err = {}, !.func = "NOP",
                         !.drive = 0, !.da = 0, !.ba = 0, !.mp = <<0, 0, 0>>]

(* The position after n more sectors, on the same track.                   *)
Turned(trk, n) ==
    LET t == WithoutSector(trk) + ((Sector(trk) + n) % 64)
    IN IF Sector(t) >= RL_NUMSC THEN WithoutSector(t) ELSE t

-----------------------------------------------------------------------------
(* The service routine: what it does to the drive u, and to the controller.*)

(* Between the states of a drive; one that locks on waits for nothing.     *)
NextState ==
    [LOAD |-> "SPIN", SPIN |-> "HLOAD", HLOAD |-> "SEEK", SEEK |-> "LOCK", LOCK |-> "LOCK",
     UNL |-> "DOWN", DOWN |-> "LOAD"]
Special(u) ==
    [u EXCEPT !.st = NextState[@],
              !.active = u.st \in {"LOAD", "SPIN", "HLOAD", "UNL"},
              !.trk = IF u.st = "HLOAD" THEN 0 ELSE @,
              !.err = IF u.st = "DOWN" THEN @ \cup {"VCK"} ELSE @]

WriteRefused(u, d) == u.fnc = "WRITE" /\ d \in RlLocked

(* Mutant: the cylinder the heads are on is not looked at. *)
WrongPlaceUnchecked(r, u) == Sector(r.da) >= RL_NUMSC

(* The heads are not on the cylinder, or there is no such sector.          *)
WrongPlace(r, u) ==
    IF u.fnc = "RNOHDR" THEN Sector(u.trk) >= RL_NUMSC
    ELSE Cylinder(u.trk) # Cylinder(r.da) \/ Sector(r.da) >= RL_NUMSC

Start(r, u) == IF u.fnc = "RNOHDR" THEN u.trk ELSE r.da

(* Mutant: a transfer goes on behind the end of the track. *)
WordsUnbounded(r, u) == 65536 - r.mp[1]

(* The words of a transfer: at most to the end of the track.               *)
Words(r, u) ==
    LET max == (RL_NUMSC - Sector(Start(r, u))) * RL_NUMWD
        wc == 65536 - r.mp[1]
    IN IF wc > max THEN max ELSE wc

Sectors(wc) == (wc + RL_NUMWD - 1) \div RL_NUMWD

(* Word k of those from the block at da. *)
WordAt(disk, da, k) == disk[Block(da) + k \div RL_NUMWD][1 + (k % RL_NUMWD)]

(* Mutant: what follows the words in the last sector is kept. *)
WrittenKeeps(disk, r, u, wc) ==
    [b \in DOMAIN disk |->
        LET first == (b - Block(r.da)) * RL_NUMWD
        IN IF first < 0 \/ first >= wc THEN disk[b]
           ELSE [i \in 1 .. RL_NUMWD |->
                    IF first + i - 1 < wc THEN rlmem[r.ba + first + i - 1] ELSE disk[b][i]]]

(* Whole sectors are written, the last one with zeros at its end.          *)
Written(disk, r, u, wc) ==
    [b \in DOMAIN disk |->
        LET first == (b - Block(r.da)) * RL_NUMWD
        IN IF first < 0 \/ first >= wc THEN disk[b]
           ELSE [i \in 1 .. RL_NUMWD |->
                    IF first + i - 1 < wc THEN rlmem[r.ba + first + i - 1] ELSE 0]]

Read(disk, r, u, wc) ==
    [a \in DOMAIN rlmem |->
        IF a \in r.ba .. r.ba + wc - 1 THEN WordAt(disk, Start(r, u), a - r.ba) ELSE rlmem[a]]

Differs(disk, r, u, wc) ==
    u.fnc = "WCHK" /\ \E k \in 0 .. wc - 1 : rlmem[r.ba + k] # WordAt(disk, r.da, k)

(* Registers after a transfer: what is left, and the next sector, which    *)
(* may be one behind the last of the track. *)
Counted(r, u, wc, differs) ==
    LET left == (r.mp[1] + wc) % 65536
    IN rl_set_done([r EXCEPT !.mp[1] = left, !.ba = @ + wc, !.da = @ + Sectors(wc)],
                   (IF differs THEN {"CRC"} ELSE {}) \cup (IF left # 0 THEN HDE ELSE {}))

Moved(r, u, wc) ==
    [u EXCEPT !.trk = IF u.fnc = "RNOHDR" THEN Turned(@, Sectors(wc)) ELSE Turned(r.da, Sectors(wc))]

Header(r, u) == rl_set_done([r EXCEPT !.mp = <<u.trk, 0, 0>>], {})

(* rl_svc of drive d.  The third word of a header, its CRC, is 0 here.     *)
ServedUnit(r, u, d) ==
    CASE u.fnc = "SPECIAL" -> Special(u)
      [] WriteRefused(u, d) -> [u EXCEPT !.err = @ \cup {"WGE"}]
      [] u.fnc = "SEEK" -> [u EXCEPT !.st = "LOCK"]
      [] u.fnc = "RHDR" -> [u EXCEPT !.trk = Turned(@, 1)]
      [] u.fnc \in {"READ", "RNOHDR", "WRITE", "WCHK"} /\ ~WriteRefused(u, d) ->
            IF WrongPlace(r, u) THEN u ELSE Moved(r, u, Words(r, u))

ServedController(r, u, d) ==
    CASE u.fnc \in {"SPECIAL", "SEEK"} -> r
      [] WriteRefused(u, d) -> rl_set_done(r, {"DRE"})
      [] u.fnc = "RHDR" -> Header(r, u)
      [] u.fnc \in {"READ", "RNOHDR", "WRITE", "WCHK"} /\ ~WriteRefused(u, d) ->
            IF WrongPlace(r, u) THEN rl_set_done(r, HDE)
            ELSE Counted(r, u, Words(r, u), Differs(rldisk[d], r, u, Words(r, u)))

Transfers(r, u, d, fncs) == u.fnc \in fncs /\ ~WriteRefused(u, d) /\ ~WrongPlace(r, u)

rl_svc(d) ==
    LET u == [rlunit[d] EXCEPT !.active = FALSE]
    IN /\ rlunit[d].active
       /\ rl' = ServedController(rl, u, d)
       /\ rlunit' = [rlunit EXCEPT ![d] = ServedUnit(rl, u, d)]
       /\ rldisk' = IF Transfers(rl, u, d, {"WRITE"})
                      THEN [rldisk EXCEPT ![d] = Written(@, rl, u, Words(rl, u))] ELSE rldisk
       /\ rlmem' = IF Transfers(rl, u, d, {"READ", "RNOHDR"})
                     THEN Read(rldisk[d], rl, u, Words(rl, u)) ELSE rlmem
       /\ UNCHANGED rldrv

-----------------------------------------------------------------------------
(* A command: the registers, then RLCS with CRDY clear.  A drive without a *)
(* cartridge refuses it; a seek is done at once for the controller.        *)

Inside(x, top) == IF x < 0 THEN 0 ELSE IF x >= top THEN top - 1 ELSE x

SeekTarget(d, trk, da) ==
    LET by == IF (da \div 4) % 2 = 1 THEN Cylinder(da) ELSE -Cylinder(da)
    IN 128 * Inside(Cylinder(trk) + by, RlCylinders[d]) + 64 * ((da \div 16) % 2)

Seeking(u, trk) ==
    [u EXCEPT !.st = IF Cylinder(trk) # Cylinder(u.trk) THEN "SEEK" ELSE @,
              !.trk = trk, !.fnc = "SEEK", !.active = TRUE]

(* GSTA: the status is in all three words; with CLR errors are forgotten.  *)
Status(u, d) == [st |-> u.st, err |-> u.err, head |-> Surface(u.trk), locked |-> d \in RlLocked]

(* A transfer ends a seek, or the next step of a spin-up, that is          *)
(* outstanding.                                                            *)
Outstanding(r, u, d) == IF u.active THEN ServedUnit(r, [u EXCEPT !.active = FALSE], d) ELSE u

Commanded(r, func, d, ie) ==
    [r EXCEPT !.func = func, !.drive = d, !.ie = ie, !.done = FALSE, !.int = FALSE, !.err = {}]

wr_RLCS(r, func, d, ie) ==
    LET c == Commanded(r, func, d, ie)
        known == [rlunit[d] EXCEPT !.err = {}]
    IN CASE func = "GSTA" ->
              /\ rl' = rl_set_done([c EXCEPT !.mp = [i \in 1 .. 3 |-> Status(known, d)]], {})
              /\ rlunit' = [rlunit EXCEPT ![d] = known]
         [] func # "GSTA" /\ d \notin RlAttached ->
              /\ rl' = rl_set_done(c, {"INCMP"})
              /\ rlunit' = [rlunit EXCEPT ![d].err = IF func = "SEEK" THEN @ \cup {"STO"} ELSE @]
         [] func = "SEEK" /\ d \in RlAttached ->
              /\ rl' = rl_set_done(c, {})
              /\ rlunit' = [rlunit EXCEPT ![d] = Seeking(@, SeekTarget(d, @.trk, r.da))]
         [] func \notin {"GSTA", "SEEK"} /\ d \in RlAttached ->
              /\ rl' = c
              /\ rlunit' = [rlunit EXCEPT ![d] =
                               [Outstanding(c, @, d) EXCEPT !.fnc = func, !.active = TRUE]]

-----------------------------------------------------------------------------
(* The LOAD button of a drive that is at rest and not in use.              *)
rl_set_load(d, load) ==
    /\ d \in RlAttached /\ ~rlunit[d].active /\ (rldrv.step = "idle" \/ rldrv.drive # d)
    /\ rlunit[d].st = IF load THEN "LOAD" ELSE "LOCK"
    /\ rlunit' = [rlunit EXCEPT ![d].st = IF load THEN "LOAD" ELSE "UNL",
                                ![d].fnc = "SPECIAL", ![d].active = TRUE]
    /\ UNCHANGED <<rl, rldisk, rlmem, rldrv>>

-----------------------------------------------------------------------------
(* The driver: its job is to move count words at block, of which done are  *)
(* moved.  old is the cartridge when the job began.  It begins on a drive  *)
(* that turns, or that has no cartridge.                                   *)

Address(b) == 64 * (b \div RL_NUMSC) + (b % RL_NUMSC)
Original(d) == [b \in 0 .. Blocks(d) - 1 |->
                   [i \in 1 .. RL_NUMWD |-> 100 * (d + 1) + b * RL_NUMWD + i]]

RlInit ==
    /\ rl = rl_reset([done |-> TRUE, ie |-> FALSE, int |-> FALSE, err |-> {}, func |-> "NOP",
                      drive |-> 0, da |-> 0, ba |-> 0, mp |-> <<0, 0, 0>>])
    /\ rlunit = [d \in RlDrives |-> [st |-> IF d \in RlAttached THEN "LOCK" ELSE "LOAD", trk |-> 0,
                                     fnc |-> "NOP", active |-> FALSE,
                                     err |-> IF d \in RlAttached THEN {"VCK"} ELSE {}]]
    /\ rldisk = [d \in RlDrives |-> Original(d)]
    /\ rlmem = [a \in Buffer |-> 0]
    /\ rldrv = [step |-> "idle", op |-> "READ", drive |-> 0, block |-> 0, count |-> 0, done |-> 0,
                ie |-> FALSE, jobs |-> 0, resets |-> 0, old |-> Original(0), spoiled |-> FALSE]

(* What a job finds in memory. *)
Contents(job) ==
    [a \in Buffer |->
        CASE job.op \in {"READ", "RNOHDR"} \/ a >= job.count -> 0
          [] job.op = "WRITE" /\ a < job.count -> 500 + a
          [] job.op = "WCHK" /\ a < job.count ->
                IF job.spoiled /\ a = job.count - 1 THEN 0
                ELSE WordAt(rldisk[job.drive], Address(job.block), a)]

RlBegin ==
    /\ rldrv.step = "idle" /\ rl.done /\ rldrv.jobs < RlMaxJobs
    /\ \E job \in RlJobs :
          /\ job.drive \in RlAttached => rlunit[job.drive].st \in {"SEEK", "LOCK"}
          /\ rlmem' = Contents(job)
          /\ rldrv' = [f \in DOMAIN rldrv |->
                          CASE f = "step" -> "header"
                            [] f = "done" -> 0
                            [] f = "jobs" -> rldrv.jobs + 1
                            [] f = "old"  -> rldisk[job.drive]
                            [] f = "resets" -> rldrv.resets
                            [] OTHER -> job[f]]
    /\ UNCHANGED <<rl, rlunit, rldisk>>

Place == Address(rldrv.block + rldrv.done \div RL_NUMWD)

RlCommand(step, func, next, r) ==
    /\ rldrv.step = step
    /\ wr_RLCS(r, func, rldrv.drive, rldrv.ie)
    /\ rldrv' = [rldrv EXCEPT !.step = next]
    /\ UNCHANGED <<rldisk, rlmem>>

RlStatus == RlCommand("header", "GSTA", "gsta", rl)
RlHeader == RlCommand("header", "RHDR", "rhdr", rl)

Ended == rl.done /\ (rldrv.ie => rl.int)

(* After its status the driver reads the header all the same. *)
RlKnown ==
    /\ rldrv.step = "gsta" /\ Ended
    /\ rl' = [rl EXCEPT !.int = FALSE]
    /\ rldrv' = [rldrv EXCEPT !.step = IF rl.err = {} THEN "header" ELSE "error"]
    /\ UNCHANGED <<rlunit, rldisk, rlmem>>

(* The difference from the header read to the track of the transfer. *)
Difference(trk) ==
    LET by == Cylinder(Place) - Cylinder(trk)
    IN 1 + 16 * Surface(Place) + (IF by > 0 THEN 4 + 128 * by ELSE -128 * by)

RlSeek ==
    /\ rldrv.step = "rhdr" /\ Ended
    /\ IF rl.err # {}
         THEN rl' = [rl EXCEPT !.int = FALSE] /\ UNCHANGED rlunit /\ rldrv' = [rldrv EXCEPT !.step = "error"]
         ELSE /\ wr_RLCS([rl EXCEPT !.da = Difference(rl.mp[1])], "SEEK", rldrv.drive, rldrv.ie)
              /\ rldrv' = [rldrv EXCEPT !.step = "seek"]
    /\ UNCHANGED <<rldisk, rlmem>>

RlTransfer ==
    /\ Ended
    /\ RlCommand("seek", rldrv.op, "transfer",
                 [rl EXCEPT !.da = Place, !.ba = rldrv.done,
                            !.mp = [i \in 1 .. 3 |-> 65536 - (rldrv.count - rldrv.done)]])

(* The end of the track is no error: the rest comes from the next one.     *)
AtEnd == rl.err = HDE /\ rl.mp[1] # 0 /\ Sector(rl.da) = RL_NUMSC

RlTransferred ==
    /\ rldrv.step = "transfer" /\ Ended
    /\ rl' = [rl EXCEPT !.int = FALSE]
    /\ rldrv' = [rldrv EXCEPT !.done = rl.ba,
                              !.step = IF rl.err = {} THEN "end" ELSE IF AtEnd THEN "header" ELSE "error"]
    /\ UNCHANGED <<rlunit, rldisk, rlmem>>

RlFinish ==
    /\ rldrv.step \in {"end", "error"}
    /\ rldrv' = [rldrv EXCEPT !.step = "idle"]
    /\ UNCHANGED <<rl, rlunit, rldisk, rlmem>>

(* A seek on another drive, while the controller is ready. *)
RlOther ==
    /\ rl.done /\ ~rl.int /\ rldrv.step = "header"
    /\ \E d \in RlAttached \ {rldrv.drive}, by \in {132, 128, 16} :
          wr_RLCS([rl EXCEPT !.da = 1 + by], "SEEK", d, FALSE)
    /\ UNCHANGED <<rldisk, rlmem, rldrv>>

(* A bus reset at any time: the driver repeats its job from the start.     *)
RlReset ==
    /\ rldrv.step # "idle" /\ rldrv.resets < RlMaxResets
    /\ rl' = rl_reset(rl)
    /\ rlunit' = [d \in RlDrives |-> rl_resetUnit(rlunit[d])]
    /\ rldrv' = [rldrv EXCEPT !.step = "header", !.done = 0, !.resets = @ + 1]
    /\ UNCHANGED <<rldisk, rlmem>>

RlNext ==
    \/ \E d \in RlDrives : rl_svc(d)
    \/ \E d \in RlDrives \ {0}, load \in BOOLEAN : rl_set_load(d, load)
    \/ RlBegin \/ RlStatus \/ RlHeader \/ RlKnown \/ RlSeek \/ RlTransfer \/ RlTransferred \/ RlFinish
    \/ RlOther \/ RlReset

-----------------------------------------------------------------------------
(* A controller that is busy has an event to come on the drive it is busy  *)
(* with, whatever seeks, spin-ups and resets came before.                  *)
RlServed ==
    ~rl.done => /\ rlunit[rl.drive].active
                /\ rlunit[rl.drive].fnc = rl.func

(* Block b of the cartridge after words were written from block first on.  *)
After(old, b, first, n) ==
    LET from == (b - first) * RL_NUMWD
    IN IF from < 0 \/ from >= n THEN old[b]
       ELSE [i \in 1 .. RL_NUMWD |-> IF from + i - 1 < n THEN 500 + from + i - 1 ELSE 0]

RlPossible ==
    /\ rldrv.drive \in RlAttached
    /\ rldrv.op = "WRITE" => rldrv.drive \notin RlLocked
    /\ rldrv.block + Sectors(rldrv.count) <= Blocks(rldrv.drive)

(* A job over any number of tracks moves all its words: memory has what    *)
(* the cartridge has, the cartridge what memory had, with zeros to the end *)
(* of the last sector, and a difference is found wherever it is.  A block  *)
(* is old or new as a whole at any time, nothing else changes, and a job   *)
(* fails only if it is impossible.                                         *)
RlTransferExact ==
    /\ rldrv.step = "error" => ~RlPossible \/ rldrv.spoiled
    /\ rldrv.step = "end" =>
          /\ RlPossible /\ ~rldrv.spoiled
          /\ rldrv.op \in {"READ", "RNOHDR"} =>
                \A k \in 0 .. rldrv.count - 1 :
                    rlmem[k] = rldrv.old[rldrv.block + k \div RL_NUMWD][1 + (k % RL_NUMWD)]
          /\ rldrv.op = "WRITE" =>
                \A b \in DOMAIN rldrv.old :
                    rldisk[rldrv.drive][b] = After(rldrv.old, b, rldrv.block, rldrv.count)
    /\ \A b \in DOMAIN rldrv.old :
          rldisk[rldrv.drive][b] \in
              {rldrv.old[b]} \cup (IF rldrv.op = "WRITE"
                                   THEN {After(rldrv.old, b, rldrv.block, rldrv.count)} ELSE {})
=============================================================================
