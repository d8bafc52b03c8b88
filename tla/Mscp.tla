-------------------------------- MODULE Mscp --------------------------------
(***************************************************************************)
(* The MSCP disk controller of firmware/main/pdp11_rq.c: initialization    *)
(* through SA, the two rings in the guest's memory, the packets held by    *)
(* the controller, the queue thread (rq_quesvc), the host timer            *)
(* (rq_tmrsvc) and the two-phase transfers of the drives (rq_svc).         *)
(*                                                                         *)
(* A command is a record: its reference number and what it asks; a         *)
(* response has the number and a status.  The packet array is reduced to   *)
(* the number of free packets and to the lists that hold the others, Nil   *)
(* being the link to none.  A handler is a function from the state of the  *)
(* controller to the next one; one on which rq_fatal was called is in      *)
(* state DEAD, where the code returns ERR.                                 *)
(***************************************************************************)
EXTENDS Naturals, Sequences, FiniteSets, SequencesExt

CONSTANTS
    NumDrives,      \* drives of the controller
    Attached,       \* the drives with an image, fixed at start-up
    NPkts,          \* packets, of which number 0 is not used
    CmdLen, RspLen, \* entries of the rings
    Htmo,           \* host timeout in seconds
    Shapes,         \* the commands a host may send, without reference number
    HostWords,      \* the words a host may write to SA
    MaxCmds, MaxResets   \* bounds: commands sent, resets by the host

Drive == 0 .. NumDrives - 1

(* A command without its number: operation, drive, pieces to transfer and  *)
(* what of the buffer exists; for SCC whether error logs and the timeout   *)
(* are wanted; for ABO the command to abort.                               *)
Shape ==
    [op : STRING, unit : Nat, size : Nat, buf : {"ok", "bad", "nxm", "part"},
     ths : BOOLEAN, tmo : BOOLEAN, target : Nat]

ASSUME MscpAssumption ==
    /\ NumDrives \in Nat \ {0}
    /\ NPkts \in Nat /\ NPkts >= 4
    /\ {CmdLen, RspLen, Htmo} \subseteq Nat \ {0}
    /\ Attached \subseteq Drive
    /\ Shapes \subseteq Shape
    /\ {MaxCmds, MaxResets} \subseteq Nat
    /\ HostWords \subseteq SUBSET {"VL", "WR", "IE", "VEC", "NXM", "GO", "LF"}

VARIABLES
    cp,       \* the controller's MSC
    unit,     \* the drives
    active,   \* event units with an entry in the event queue
    comm,     \* the rings in the guest's memory
    host      \* the driver of the guest

vars == <<cp, unit, active, comm, host>>

(* The event units behind those of the drives.                             *)
TIMER == NumDrives
QUEUE == NumDrives + 1

Nil == [ref |-> 0]

Numbered(c, r) ==
    [ref |-> r, op |-> c.op, unit |-> c.unit, size |-> c.size, buf |-> c.buf,
     ths |-> c.ths, tmo |-> c.tmo, target |-> c.target]

(* PP of the third word and VL of the first are the same bit.              *)
PP == "VL"

(* The host's side: `own` TRUE gives an entry to the controller.           *)
Empty(n, own) == [i \in 0 .. n - 1 |-> [own |-> own, pkt |-> Nil]]
NoRings == [cmd |-> Empty(CmdLen, FALSE), rsp |-> Empty(RspLen, FALSE)]
Asleep(sent, resets) ==
    [awake |-> FALSE, cidx |-> 0, ridx |-> 0, credits |-> 0, got |-> {}, sent |-> sent, resets |-> resets]

ResetMsc(perr) ==
    [csta |-> "S1", saw |-> {}, s1dat |-> {}, bad |-> FALSE, perr |-> perr, ths |-> FALSE,
     htmo |-> Htmo, hat |-> Htmo, irq |-> FALSE, pip |-> FALSE, free |-> NPkts - 1,
     pbsy |-> 0, rspq |-> <<>>, credits |-> (NPkts \div 2) - 1, cidx |-> 0, ridx |-> 0]

State == [cp |-> cp, unit |-> unit, active |-> active, comm |-> comm]

Becomes(s) ==
    /\ cp' = s.cp
    /\ unit' = s.unit
    /\ active' = s.active
    /\ comm' = s.comm

Activate(s, e) == [s EXCEPT !.active = @ \cup {e}]

(* Everything but the completion flag of the drives starts anew.           *)
rq_reset(s) ==
    [s EXCEPT !.cp = ResetMsc(s.cp.perr),
              !.unit = [d \in Drive |->
                           [s.unit[d] EXCEPT !.onl = FALSE, !.cpkt = Nil, !.pktq = <<>>]],
              !.active = {}]

rq_fatal(s, err) == [rq_reset(s) EXCEPT !.cp.csta = "DEAD", !.cp.perr = err]

Dead(s) == s.cp.csta = "DEAD"

(***************************************************************************)
(* Packets and rings                                                       *)
(***************************************************************************)
End(pkt, sts) == [ref |-> pkt.ref, end |-> TRUE, sts |-> sts]
ErrorLog(pkt, sts) == [ref |-> pkt.ref, end |-> FALSE, sts |-> sts]

rq_deqf(s) ==
    IF s.cp.free = 0 THEN rq_fatal(s, "NSR")
    ELSE [s EXCEPT !.cp.free = @ - 1, !.cp.pbsy = @ + 1]

rq_ring_int(s) == [s EXCEPT !.cp.irq = @ \/ "VEC" \in s.cp.s1dat]

(* The entry before i in a ring of n. *)
Prior(i, n) == (i + n - 1) % n

(* Mutant: the ownership test is inverted. *)
InterruptsWhenHosts(ring, n, i) == n = 1 \/ ~ring[Prior(i, n)].own

(* An entry goes back to the host, which is interrupted if the one before  *)
(* it still belongs to the controller.                                     *)
Interrupts(ring, n, i) == n = 1 \/ ring[Prior(i, n)].own

PutCmdDesc(s) ==
    LET i == s.cp.cidx
        t == [s EXCEPT !.comm.cmd[i] = [own |-> FALSE, pkt |-> Nil], !.cp.cidx = (i + 1) % CmdLen]
    IN  IF Interrupts(t.comm.cmd, CmdLen, i) THEN rq_ring_int(t) ELSE t

PutRspDesc(s) ==
    LET i == s.cp.ridx
        t == [s EXCEPT !.comm.rsp[i].own = FALSE, !.cp.ridx = (i + 1) % RspLen]
    IN  IF Interrupts(t.comm.rsp, RspLen, i) THEN rq_ring_int(t) ELSE t

(* The credits an end packet carries, beside the one it gives back.        *)
Credit(s, pkt) ==
    IF ~pkt.end THEN 0 ELSE IF s.cp.credits >= 14 THEN 14 ELSE s.cp.credits

WithCredits(pkt, cr) == [ref |-> pkt.ref, end |-> pkt.end, sts |-> pkt.sts, cr |-> cr]

(* Mutant: the credits are sent and kept. *)
SentKeepsCredits(s, pkt) ==
    [s EXCEPT !.cp.free = @ + 1,
              !.cp.pbsy = @ - 1,
              !.cp.hat = IF s.cp.pbsy = 1 THEN s.cp.htmo ELSE @,
              !.comm.rsp[s.cp.ridx].pkt = WithCredits(pkt, Credit(s, pkt))]

Sent(s, pkt) ==
    LET cr == Credit(s, pkt)
    IN  [s EXCEPT !.cp.credits = @ - cr,
                  !.cp.free = @ + 1,
                  !.cp.pbsy = @ - 1,
                  !.cp.hat = IF s.cp.pbsy = 1 THEN s.cp.htmo ELSE @,
                  !.comm.rsp[s.cp.ridx].pkt = WithCredits(pkt, cr)]

rq_putpkt(s, pkt, qt) ==
    IF s.comm.rsp[s.cp.ridx].own THEN PutRspDesc(Sent(s, pkt))
    ELSE Activate([s EXCEPT !.cp.rspq = IF qt THEN Append(@, pkt) ELSE <<pkt>> \o @], QUEUE)

(***************************************************************************)
(* Commands                                                                *)
(***************************************************************************)
Answer(s, pkt, sts) == rq_putpkt(s, End(pkt, sts), TRUE)

Busy(s, pkt) == s.unit[pkt.unit].cpkt # Nil

(* Mutant: the command goes to the head of the queue. *)
DeferFirst(s, pkt) == [s EXCEPT !.unit[pkt.unit].pktq = <<pkt>> \o @]

Defer(s, pkt) == [s EXCEPT !.unit[pkt.unit].pktq = Append(@, pkt)]

(* AVL, ONL, SUC and FMT wait for the transfer of their drive; what they   *)
(* leave behind is whether the drive is online.                            *)
rq_avl(s, pkt, q) ==
    IF q /\ Busy(s, pkt) THEN Defer(s, pkt)
    ELSE Answer([s EXCEPT !.unit[pkt.unit].onl = FALSE], pkt, "SUC")

rq_onl(s, pkt, q) ==
    IF q /\ Busy(s, pkt) THEN Defer(s, pkt)
    ELSE IF pkt.unit \notin Attached THEN Answer(s, pkt, "OFL")
    ELSE Answer([s EXCEPT !.unit[pkt.unit].onl = TRUE], pkt, "SUC")

rq_suc(s, pkt, q) ==
    IF q /\ Busy(s, pkt) THEN Defer(s, pkt)
    ELSE Answer(s, pkt, IF pkt.unit \in Attached THEN "SUC" ELSE "OFL")

rq_fmt(s, pkt, q) ==
    IF q /\ Busy(s, pkt) THEN Defer(s, pkt) ELSE Answer(s, pkt, "CMD")

(* Set controller characteristics: error logging and the host timeout.     *)
rq_scc(s, pkt) ==
    Answer([s EXCEPT !.cp.ths = pkt.ths, !.cp.htmo = IF pkt.tmo THEN Htmo ELSE 0], pkt, "SUC")

rq_rw_valid(s, pkt) ==
    IF pkt.unit \notin Attached THEN "OFL"
    ELSE IF ~s.unit[pkt.unit].onl THEN "AVL"
    ELSE IF pkt.buf = "bad" THEN "CMD" ELSE "ok"

rq_rw(s, pkt, q) ==
    LET sts == rq_rw_valid(s, pkt)
    IN  IF q /\ Busy(s, pkt) THEN Defer(s, pkt)
        ELSE IF sts = "ok" THEN Activate([s EXCEPT !.unit[pkt.unit].cpkt = pkt], pkt.unit)
        ELSE Answer(s, pkt, sts)

(* The command to abort is the drive's transfer, or the first in its queue *)
(* with the number.                                                        *)
Current(s, pkt) == Busy(s, pkt) /\ s.unit[pkt.unit].cpkt.ref = pkt.target

Waiting(s, pkt) ==
    LET q == s.unit[pkt.unit].pktq
    IN  {i \in DOMAIN q : q[i].ref = pkt.target}

(* Mutant: the drive keeps the command it works on. *)
WithoutCurrentKeeps(s, d) == [s EXCEPT !.active = (@ \ {d}) \cup {QUEUE}]

WithoutCurrent(s, d) ==
    [s EXCEPT !.unit[d].cpkt = Nil, !.active = (@ \ {d}) \cup {QUEUE}]

WithoutWaiting(s, d, i) == [s EXCEPT !.unit[d].pktq = RemoveAt(@, i)]

(* Mutant: an aborted command is not answered. *)
FoundSilent(s, pkt) ==
    CASE Current(s, pkt) -> WithoutCurrent(s, pkt.unit)
      [] ~Current(s, pkt) /\ Waiting(s, pkt) # {} ->
             WithoutWaiting(s, pkt.unit, Min(Waiting(s, pkt)))
      [] OTHER -> s

Found(s, pkt) ==
    LET u == s.unit[pkt.unit]
        i == Min(Waiting(s, pkt))
    IN  CASE Current(s, pkt) -> Answer(WithoutCurrent(s, pkt.unit), u.cpkt, "ABO")
          [] ~Current(s, pkt) /\ Waiting(s, pkt) # {} ->
                 Answer(WithoutWaiting(s, pkt.unit, i), u.pktq[i], "ABO")
          [] OTHER -> s

rq_abo(s, pkt) == Answer(Found(s, pkt), pkt, "SUC")

Transfers == {"ACC", "CMP", "ERS", "RD", "WR"}

(* The commands that wait for their drive.                                 *)
Sequential == Transfers \cup {"AVL", "ONL", "SUC", "FMT"}

rq_mscp(s, pkt, q) ==
    IF pkt.op \in Sequential /\ pkt.unit \notin Drive THEN Answer(s, pkt, "OFL")
    ELSE CASE pkt.op = "SCC" -> rq_scc(s, pkt)
           [] pkt.op = "ABO" /\ pkt.unit \in Drive -> rq_abo(s, pkt)
           [] pkt.op = "AVL" -> rq_avl(s, pkt, q)
           [] pkt.op = "ONL" -> rq_onl(s, pkt, q)
           [] pkt.op = "SUC" -> rq_suc(s, pkt, q)
           [] pkt.op = "FMT" -> rq_fmt(s, pkt, q)
           [] pkt.op \in Transfers -> rq_rw(s, pkt, q)
           [] OTHER -> Answer(s, pkt, "SUC")

(***************************************************************************)
(* The queue thread: one packet off every drive's queue, else one off the  *)
(* host's ring, and one waiting response.  `work` is the code's pkt # 0.   *)
(***************************************************************************)
FromDrive(w, d) ==
    LET u == w.s.unit[d]
    IN  IF Dead(w.s) \/ u.cpkt # Nil \/ u.pktq = <<>> THEN w
        ELSE [s |-> rq_mscp([w.s EXCEPT !.unit[d].pktq = Tail(@)], Head(u.pktq), FALSE),
              work |-> TRUE]

FromDrives(s) ==
    LET upTo[d \in 0 .. NumDrives] ==
            IF d = 0 THEN [s |-> s, work |-> FALSE] ELSE FromDrive(upTo[d - 1], d - 1)
    IN  upTo[NumDrives]

(* rq_getpkt and the checks on the packet; op PRE stands for one that      *)
(* cannot be read, PIE for one of an unknown type or connection.           *)
rq_getpkt(s) ==
    LET pkt == s.comm.cmd[s.cp.cidx].pkt
        t == [rq_deqf(s) EXCEPT !.cp.hat = 0]
    IN  IF Dead(rq_deqf(s)) THEN rq_deqf(s)
        ELSE CASE pkt.op = "PRE" -> rq_fatal(t, "PRE")
               [] pkt.op = "PIE" -> rq_fatal(PutCmdDesc(t), "PIE")
               [] OTHER -> rq_mscp(PutCmdDesc(t), pkt, TRUE)

FromHost(w) ==
    IF Dead(w.s) \/ w.work \/ ~w.s.cp.pip THEN w
    ELSE IF ~w.s.comm.cmd[w.s.cp.cidx].own THEN [s |-> [w.s EXCEPT !.cp.pip = FALSE], work |-> FALSE]
    ELSE [s |-> rq_getpkt(w.s), work |-> TRUE]

Responses(w) ==
    IF Dead(w.s) \/ w.s.cp.rspq = <<>> THEN w
    ELSE [s |-> rq_putpkt([w.s EXCEPT !.cp.rspq = Tail(@)], Head(w.s.cp.rspq), FALSE),
          work |-> TRUE]

QueueThread(s) ==
    LET w == Responses(FromHost(FromDrives(s)))
    IN  IF w.work /\ ~Dead(w.s) THEN Activate(w.s, QUEUE) ELSE w.s

(***************************************************************************)
(* Initialization                                                          *)
(***************************************************************************)
rq_init_int(s) == [s EXCEPT !.cp.irq = @ \/ {"IE", "VEC"} \subseteq s.cp.s1dat]

To(s, csta) == [s EXCEPT !.cp.csta = csta]

rq_step4(s) ==
    IF s.cp.bad THEN rq_fatal(s, "QWE")
    ELSE rq_init_int([To(s, "S4") EXCEPT !.comm = NoRings])

rq_plf(s) == rq_putpkt(rq_deqf(s), ErrorLog(Nil, "CNT"), TRUE)

GoUp(s) ==
    LET t == Activate(To(s, "UP"), TIMER)
        u == IF "LF" \in s.cp.saw /\ s.cp.perr # "none" THEN rq_plf(t) ELSE t
    IN  [u EXCEPT !.cp.perr = "none"]

(* One step of the dialogue through SA, rq_itime after the host's word.    *)
InitThread(s) ==
    LET saw == s.cp.saw
        located == [s EXCEPT !.cp.bad = @ \/ "NXM" \in saw]
    IN  CASE s.cp.csta = "S1" /\ {"VL", "WR"} \subseteq saw -> To(s, "S1_WR")
          [] s.cp.csta = "S1" /\ "VL" \in saw /\ "WR" \notin saw ->
                 rq_init_int([To(s, "S2") EXCEPT !.cp.s1dat = saw])
          [] s.cp.csta = "S2" -> rq_init_int(To(located, "S3"))
          [] s.cp.csta = "S3" ->
                 IF PP \in saw THEN To(located, "S3_PPA") ELSE rq_step4(located)
          [] s.cp.csta = "S3_PPA" ->
                 IF saw = {} THEN To(s, "S3_PPB") ELSE rq_fatal(s, "PPF")
          [] s.cp.csta = "S4" /\ "GO" \in saw -> GoUp(s)
          [] OTHER -> s

rq_quesvc ==
    /\ QUEUE \in active
    /\ LET s == [State EXCEPT !.active = @ \ {QUEUE}]
       IN  Becomes(IF cp.csta \in {"UP", "DEAD"} THEN QueueThread(s) ELSE InitThread(s))
    /\ UNCHANGED host

(* The host timer runs while the controller holds no packet.               *)
rq_tmrsvc ==
    /\ TIMER \in active
    /\ LET s == [State EXCEPT !.cp.hat = IF @ > 0 THEN @ - 1 ELSE 0]
       IN  Becomes(IF cp.hat = 1 THEN rq_fatal(s, "HAT") ELSE s)
    /\ UNCHANGED host

(***************************************************************************)
(* Transfers: the top half starts the I/O, whose completion, reported at   *)
(* once by sim_disk, queues the drive again for the bottom half.           *)
(***************************************************************************)
(* Mutant: the queue thread is not woken. *)
rq_rw_endNoQueue(s, d, sts) ==
    Answer([s EXCEPT !.unit[d].cpkt = Nil], s.unit[d].cpkt, sts)

rq_rw_end(s, d, sts) ==
    LET t == Answer([s EXCEPT !.unit[d].cpkt = Nil], s.unit[d].cpkt, sts)
    IN  IF s.unit[d].pktq # <<>> THEN Activate(t, QUEUE) ELSE t

(* An error log packet, if the host wants them, and the end packet.        *)
Failed(s, d, sts) ==
    LET t == rq_deqf(s)
        logged == IF ~s.cp.ths THEN s
                  ELSE IF Dead(t) THEN t
                  ELSE rq_putpkt(t, ErrorLog(s.unit[d].cpkt, sts), TRUE)
    IN  IF Dead(logged) THEN logged ELSE rq_rw_end(logged, d, sts)

rq_io_complete(s, d, err) ==
    Activate([s EXCEPT !.unit[d].io_complete = TRUE, !.unit[d].io_status = err,
                       !.unit[d].io_ref = s.unit[d].cpkt.ref], d)

Expired(d) == [State EXCEPT !.active = @ \ {d}]

(* Nothing to transfer, or a write whose first word cannot be fetched: the *)
(* first ends at once, the second is left to a callback that never comes.  *)
NothingToWrite(pkt) == pkt.op = "WR" /\ pkt.buf = "nxm"

Top(d) ==
    /\ d \in active
    /\ ~unit[d].io_complete
    /\ LET pkt == unit[d].cpkt
       IN  \/ pkt.size = 0 /\ Becomes(rq_rw_end(Expired(d), d, "SUC"))
           \/ pkt.size > 0 /\ NothingToWrite(pkt) /\ Becomes(Expired(d))
           \/ /\ pkt.size > 0 /\ ~NothingToWrite(pkt)
              /\ \E err \in BOOLEAN : Becomes(rq_io_complete(Expired(d), d, err))
    /\ UNCHANGED host

(* One piece of the transfer is done; the drive goes on with the next.     *)
Advance(s, d) ==
    IF s.unit[d].cpkt.size > 1
    THEN Activate([s EXCEPT !.unit[d].cpkt.size = @ - 1], d)
    ELSE rq_rw_end(s, d, "SUC")

Bottom(d) ==
    /\ d \in active
    /\ unit[d].io_complete
    /\ LET pkt == unit[d].cpkt
           err == unit[d].io_status
           s == [Expired(d) EXCEPT !.unit[d].io_complete = FALSE]
           nxm == /\ pkt.buf \in {"nxm", "part"}
                  /\ pkt.op = "WR" \/ (pkt.op \in {"RD", "CMP"} /\ ~err)
       IN  \/ pkt.size = 0 /\ Becomes(rq_rw_end(Expired(d), d, "SUC"))
           \/ pkt.size > 0 /\ nxm /\ Becomes(Failed(s, d, "HST"))
           \/ pkt.size > 0 /\ ~nxm /\ err /\ Becomes(Failed(s, d, "DRV"))
           \/ pkt.size > 0 /\ ~nxm /\ ~err /\ Becomes(Advance(s, d))
           \/ pkt.size > 0 /\ ~nxm /\ ~err /\ pkt.op = "CMP" /\ Becomes(rq_rw_end(s, d, "CMP"))
    /\ UNCHANGED host

rq_svc(d) == Top(d) \/ Bottom(d)

(***************************************************************************)
(* The host                                                                *)
(***************************************************************************)
(* A host may write anything to SA, but the answer to step 4, before which *)
(* it gives the response ring away, only in step 4.                        *)
WriteSA ==
    \E w \in HostWords :
        /\ cp.csta \notin {"UP", "DEAD"}
        /\ "GO" \in w => cp.csta = "S4"
        /\ cp' = [cp EXCEPT !.saw = w]
        /\ active' = active \cup {QUEUE}
        /\ IF cp.csta = "S4"
           THEN /\ comm' = [comm EXCEPT !.rsp = Empty(RspLen, TRUE)]
                /\ host' = [host EXCEPT !.credits = 1]
           ELSE UNCHANGED <<comm, host>>
        /\ UNCHANGED unit

WriteIP ==
    /\ host.resets < MaxResets
    /\ Becomes(rq_reset(State))
    /\ host' = Asleep(host.sent, host.resets + 1)

ReadIP ==
    /\ cp.csta \in {"S3_PPB", "UP"}
    /\ Becomes(IF cp.csta = "UP"
               THEN Activate([State EXCEPT !.cp.pip = TRUE], QUEUE)
               ELSE rq_step4(State))
    /\ UNCHANGED host

SendCommand ==
    /\ cp.csta = "UP"
    /\ host.sent < MaxCmds
    /\ host.credits > 0
    /\ ~comm.cmd[host.cidx].own
    /\ \E c \in Shapes :
           comm' = [comm EXCEPT !.cmd[host.cidx] =
                       [own |-> TRUE, pkt |-> Numbered(c, host.sent + 1)]]
    /\ host' = [host EXCEPT !.sent = @ + 1, !.credits = @ - 1,
                            !.cidx = (@ + 1) % CmdLen]
    /\ UNCHANGED <<cp, unit, active>>

(* The interrupt is taken (rq_inta); a host without a vector looks on its  *)
(* own.                                                                    *)
TakeInterrupt ==
    /\ cp.irq
    /\ cp' = [cp EXCEPT !.irq = FALSE]
    /\ host' = [host EXCEPT !.awake = TRUE]
    /\ UNCHANGED <<unit, active, comm>>

Look ==
    /\ "VEC" \notin cp.s1dat
    /\ cp.csta = "UP"
    /\ ~host.awake
    /\ host' = [host EXCEPT !.awake = TRUE]
    /\ UNCHANGED <<cp, unit, active, comm>>

Response == comm.rsp[host.ridx]

Filled(e) == ~e.own /\ e.pkt # Nil

ReadResponse ==
    /\ cp.csta = "UP"
    /\ host.awake
    /\ Filled(Response)
    /\ comm' = [comm EXCEPT !.rsp[host.ridx] = [own |-> TRUE, pkt |-> Nil]]
    /\ host' = [host EXCEPT !.ridx = (@ + 1) % RspLen,
                            !.got = IF Response.pkt.end THEN @ \cup {Response.pkt.ref} ELSE @,
                            !.credits = IF Response.pkt.end THEN @ + Response.pkt.cr + 1 ELSE @]
    /\ UNCHANGED <<cp, unit, active>>

Sleep ==
    /\ host.awake
    /\ ~Filled(Response)
    /\ host' = [host EXCEPT !.awake = FALSE]
    /\ UNCHANGED <<cp, unit, active, comm>>

(***************************************************************************)
(* Specification                                                           *)
(***************************************************************************)
Init ==
    /\ cp = ResetMsc("none")
    /\ unit = [d \in Drive |-> [onl |-> FALSE, cpkt |-> Nil, pktq |-> <<>>,
                                io_complete |-> FALSE, io_status |-> FALSE, io_ref |-> 0]]
    /\ active = {}
    /\ comm = NoRings
    /\ host = Asleep(0, 0)

Host ==
    \/ WriteSA
    \/ WriteIP
    \/ ReadIP
    \/ SendCommand
    \/ TakeInterrupt
    \/ Look
    \/ ReadResponse
    \/ Sleep

Next ==
    \/ rq_quesvc
    \/ rq_tmrsvc
    \/ \E d \in Drive : rq_svc(d)
    \/ Host

Spec == Init /\ [][Next]_vars

(***************************************************************************)
(* Properties                                                              *)
(***************************************************************************)
(* The sum of f[0] to f[n - 1].                                            *)
Sum(n, f) ==
    LET below[k \in 0 .. n] == IF k = 0 THEN 0 ELSE below[k - 1] + f[k - 1]
    IN  below[n]

Held(u) == Len(u.pktq) + IF u.cpkt = Nil THEN 0 ELSE 1
HeldInAll(units) == Sum(NumDrives, [d \in Drive |-> Held(units[d])])

(* rq_deqf, rq_deqh, rq_enqh, rq_enqt: every packet is on the free list or *)
(* on exactly one other list, and pbsy counts those that are not free.     *)
PacketsConserved ==
    /\ cp.free + cp.pbsy = NPkts - 1
    /\ cp.pbsy = Len(cp.rspq) + HeldInAll(unit)

(* A drive's commands: entry 0 is the one it works on, the others wait.    *)
Entry(u, i) == IF i = 0 THEN u.cpkt ELSE u.pktq[i]
Entries(u) == {i \in 0 .. Len(u.pktq) : Entry(u, i) # Nil}

(* Where the command of number r, or its end packet, is.                   *)
OnDrives(r) ==
    UNION {{<<"drive", d, i>> : i \in {j \in Entries(unit[d]) : Entry(unit[d], j).ref = r}} : d \in Drive}
InWaiting(r) == {<<"waiting", 0, i>> : i \in {j \in DOMAIN cp.rspq : cp.rspq[j].end /\ cp.rspq[j].ref = r}}
OnRing(r) ==
    {<<"ring", 0, i>> : i \in {j \in DOMAIN comm.rsp :
         Filled(comm.rsp[j]) /\ comm.rsp[j].pkt.end /\ comm.rsp[j].pkt.ref = r}}
WithHost(r) == {<<"host", 0, y>> : y \in host.got \cap {r}}
Places(r) == OnDrives(r) \cup InWaiting(r) \cup OnRing(r) \cup WithHost(r)

(* rq_getpkt, rq_putpkt: a command is waiting, worked on, on its way back  *)
(* or answered, and never two of these, whatever is aborted meanwhile.     *)
(* And the commands of a drive are in the order they came, whichever of    *)
(* ring, queue and drive they were taken from.                             *)
OneFate ==
    /\ \A r \in 1 .. host.sent : \A x, y \in Places(r) : x = y
    /\ \A d \in Drive : \A i, j \in Entries(unit[d]) :
           i < j => Entry(unit[d], i).ref < Entry(unit[d], j).ref

(* rq_quesvc, rq_rw_end, rq_abo, rq_putpkt: whoever leaves work behind     *)
(* leaves an event that will do it.  A drive with a command is queued,     *)
(* except for the write that never gets its callback; a drive without one  *)
(* is not queued (STOP_RQ); a dead controller does nothing more.           *)
WorkScheduled ==
    /\ cp.csta = "UP" /\ (cp.pip \/ cp.rspq # <<>>
                          \/ \E d \in Drive : unit[d].cpkt = Nil /\ unit[d].pktq # <<>>)
           => QUEUE \in active
    /\ \A d \in Drive : IF d \in active THEN unit[d].cpkt # Nil
                        ELSE unit[d].cpkt = Nil \/ NothingToWrite(unit[d].cpkt)
    /\ cp.csta = "DEAD" => active = {}

(* rq_putdesc interrupts only when the entry before was the controller's:  *)
(* a host that sleeps, having read all there was, is still woken by every  *)
(* further response.                                                       *)
NoLostResponse ==
    cp.csta = "UP" /\ "VEC" \in cp.s1dat /\ ~host.awake /\ Filled(Response) => cp.irq

(* rq_putpkt: "The controller sends all its credits to the host.           *)
(* Thereafter, it supplies one credit for every response packet sent       *)
(* over." (2572).  No credit is lost or invented, and so a host that keeps *)
(* to its credits never runs the controller out of packets (PE_NSR),       *)
(* although error logs take some too.                                      *)
OnTheirWay(rsp) ==
    Sum(RspLen, [i \in 0 .. RspLen - 1 |-> IF Filled(rsp[i]) /\ rsp[i].pkt.end THEN rsp[i].pkt.cr + 1 ELSE 0])
InRing(cmd) == Sum(CmdLen, [i \in 0 .. CmdLen - 1 |-> IF cmd[i].own THEN 1 ELSE 0])
Ends(q) == Sum(Len(q), [i \in 0 .. Len(q) - 1 |-> IF q[i + 1].end THEN 1 ELSE 0])

CreditsConserved ==
    /\ cp.csta = "UP" =>
           host.credits + cp.credits + OnTheirWay(comm.rsp) + InRing(comm.cmd) + HeldInAll(unit) + Ends(cp.rspq)
           = NPkts \div 2
    /\ cp.perr # "NSR"
=============================================================================
