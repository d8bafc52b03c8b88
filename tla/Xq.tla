--------------------------------- MODULE Xq ---------------------------------
(***************************************************************************)
(* The Ethernet controller of firmware/main/pdp11_xq.c (a DELQA-T, in      *)
(* normal and in turbo mode) with the read queue of sim_ether.c: the CSR   *)
(* and its interrupt, the receive and transmit lists in the guest's        *)
(* memory, the service units, the two kinds of reset and the boot ROM.     *)
(*                                                                         *)
(* A buffer of a list holds one unit of data, one of a turbo ring a whole  *)
(* packet.  A handler is a function from the state of controller, guest    *)
(* memory and network to the next one.                                     *)
(***************************************************************************)
EXTENDS Naturals, Sequences, FiniteSets, SequencesExt

CONSTANTS
    QueMax,      \* packets the read queue holds (XQ_QUE_MAX)
    NRx, NTx,    \* receive and transmit descriptors of the guest
    CsrModes,    \* the ways a driver brings the receiver up: RW bits of the CSR
    Messages,    \* what a driver sends at a time: sequences of transmit descriptors
    MaxNet, MaxOwn, MaxLocal, MaxResets   \* bounds: arrivals, sendings, resets

ASSUME XqAssumption ==
    /\ {QueMax, NTx, MaxNet, MaxOwn} \subseteq Nat \ {0}
    /\ NRx \in Nat \ {0, 1}
    /\ {MaxLocal, MaxResets} \subseteq Nat
    /\ CsrModes \subseteq SUBSET {"EL", "IL", "IE", "RE"}
    /\ \A m \in Messages : Len(m) \in 1 .. NTx

(* A message ends with the end of a packet and numbers its packets, and    *)
(* the receive list holds the longest packet there is; the boot ROM is one *)
(* of two units.                                                           *)
ASSUME DriverAssumption ==
    /\ NRx > 2
    /\ Messages \subseteq
           Seq([last : BOOLEAN, setup : BOOLEAN, bad : BOOLEAN, nth : Nat \ {0}, size : 1 .. NRx - 1])
    /\ \A m \in Messages :
           /\ Last(m).last
           /\ \A j \in DOMAIN m : \A i \in 1 .. j - 1 : m[i].last => m[i].nth < m[j].nth

VARIABLES
    xq,      \* the controller
    mem,     \* the descriptors in the guest's memory
    net,     \* frames that wait for eth_read
    drv,     \* the driver of the guest
    count    \* frames and resets so far

vars == <<xq, mem, net, drv, count>>

(* The bits of the CSR that are written, and those cleared by writing 1.   *)
RW == {"EL", "IL", "IE", "BD", "SR", "RE"}
W1 == {"RI", "XI"}

Free == [pkt |-> [src |-> "none"]]

State == [xq |-> xq, mem |-> mem, net |-> net]

Becomes(s) ==
    /\ xq' = s.xq
    /\ mem' = s.mem
    /\ net' = s.net

Turbo(s) == s.xq.mode = "turbo"

Activate(s, u) == [s EXCEPT !.xq.units = @ \cup {u}]

(***************************************************************************)
(* Interrupts                                                              *)
(***************************************************************************)
(* Mutant: an interrupt is lost while the driver has them disabled. *)
xq_setintDrops(s) ==
    IF Turbo(s) => s.xq.icr THEN [s EXCEPT !.xq.irq = TRUE, !.xq.pending = FALSE] ELSE s

xq_setint(s) ==
    CASE ~Turbo(s) -> [s EXCEPT !.xq.irq = TRUE]
      [] Turbo(s) /\ s.xq.icr -> [s EXCEPT !.xq.irq = TRUE, !.xq.pending = FALSE]
      [] OTHER -> [s EXCEPT !.xq.pending = TRUE]

xq_clrint(s) == [s EXCEPT !.xq.irq = FALSE]

(* The interrupt follows IE, RI and XI: raised with the first of RI and XI *)
(* or with IE, withdrawn with IE or with the last of them.                 *)
xq_csr_set_clr(s, set, clr) ==
    LET old == s.xq.csr
        new == (old \cup set) \ clr
        up == new \ old
        down == old \ new
        t == [s EXCEPT !.xq.csr = new]
    IN  CASE "IE" \in down -> xq_clrint(t)
          [] "IE" \in up /\ new \cap W1 # {} -> xq_setint(t)
          [] "IE" \in old \cap new /\ up \cap W1 # {} -> xq_setint(t)
          [] "IE" \in old \cap new /\ down \cap W1 # {} /\ new \cap W1 = {} -> xq_clrint(t)
          [] OTHER -> t

xq_nxm_error(s) == xq_csr_set_clr(s, {"NI", "XI", "XL", "RL"}, {})

(***************************************************************************)
(* The read queue: full, it loses its oldest packet, however much of that  *)
(* the guest has had.                                                      *)
(***************************************************************************)
(* Mutant: the loss is not noted. *)
ethq_insertSilent(s, p) ==
    LET q == Append(s.xq.q, [pkt |-> p, used |-> 0])
    IN  [s EXCEPT !.xq.q = IF Len(q) > QueMax THEN Tail(q) ELSE q]

ethq_insert(s, p) ==
    LET q == Append(s.xq.q, [pkt |-> p, used |-> 0])
    IN  IF Len(q) > QueMax THEN [s EXCEPT !.xq.q = Tail(q), !.xq.loss = TRUE]
        ELSE [s EXCEPT !.xq.q = q]

ethq_remove(s) == [s EXCEPT !.xq.q = Tail(@)]

ethq_clear(s) == [s EXCEPT !.xq.q = <<>>]

(***************************************************************************)
(* Reception                                                               *)
(***************************************************************************)
(* The segment that goes into a buffer which holds `room` units.           *)
Segment(s, room) ==
    LET e == Head(s.xq.q)
        upto == IF e.used + room < e.pkt.size THEN e.used + room ELSE e.pkt.size
    IN  [pkt |-> e.pkt, from |-> e.used, upto |-> upto, ovf |-> s.xq.loss]

Ends(seg) == seg.upto = seg.pkt.size

(* The status words are written and the packet, when its end is delivered, *)
(* leaves the queue.                                                       *)
Deliver(s, i, seg) ==
    LET t == [s EXCEPT !.mem.rx[i].st = seg, !.xq.loss = FALSE]
    IN  IF Ends(seg) THEN ethq_remove(t) ELSE [t EXCEPT !.xq.q[1].used = seg.upto]

FillBuffer(s) ==
    LET i == s.xq.rba
        seg == Segment(s, 1)
        t == [Deliver(s, i, seg) EXCEPT !.xq.rba = i + 1]
    IN  IF Ends(seg) THEN xq_csr_set_clr(t, {"RI"}, {}) ELSE t

(* One round of the loop over the descriptors; `start` is NRx + 1 until    *)
(* the first of them is done, then it is that one.  Descriptor NRx chains  *)
(* to the first.                                                           *)
ReceiveRound(l) ==
    LET i == l.s.xq.rba
        t == [l.s EXCEPT !.xq.rvalid = l.s.mem.rx[i].valid]
        Leave(s) == [l EXCEPT !.s = s, !.on = FALSE]
        Go(s) == [l EXCEPT !.s = s, !.start = IF l.start > NRx THEN i ELSE l.start]
    IN  CASE i = l.start -> Leave(t)
          [] i # l.start /\ ~t.xq.rvalid -> Leave(xq_csr_set_clr(t, {"RL"}, {}))
          [] i # l.start /\ t.xq.rvalid /\ i = NRx -> Go([t EXCEPT !.xq.rba = 0])
          [] i \notin {l.start, NRx} /\ t.xq.rvalid /\ t.xq.q # <<>> -> Go(FillBuffer(t))
          [] OTHER -> Leave(t)

ReceiveNext(l) == IF l.on THEN ReceiveRound(l) ELSE l

(* At most once around.                                                    *)
ReceiveRounds(s) ==
    LET round[n \in 0 .. NRx + 2] ==
            IF n = 0 THEN [s |-> s, start |-> NRx + 1, on |-> TRUE] ELSE ReceiveNext(round[n - 1])
    IN  round

Receive(s) == ReceiveRounds(s)[NRx + 2].s

(* A buffer of the ring is the controller's while `valid`.                 *)
TurboReceiveRound(l) ==
    LET i == l.s.xq.rbindx
        filled == [Deliver(l.s, i, Segment(l.s, QueMax + NTx)) EXCEPT
                      !.xq.rbindx = (i + 1) % NRx, !.mem.rx[i].valid = FALSE]
    IN  IF l.s.xq.q # <<>> /\ l.s.mem.rx[i].valid THEN [l EXCEPT !.s = filled, !.consumed = TRUE]
        ELSE l

TurboReceiveRounds(s) ==
    LET round[n \in 0 .. NRx] ==
            IF n = 0 THEN [s |-> s, consumed |-> FALSE] ELSE TurboReceiveRound(round[n - 1])
    IN  round

TurboReceive(s) ==
    LET last == TurboReceiveRounds(s)[NRx]
    IN  IF last.consumed THEN xq_setint(last.s) ELSE last.s

xq_process_turbo_rbdl(s) == IF s.xq.srr = "STRT" THEN TurboReceive(s) ELSE s

xq_process_rbdl(s) ==
    CASE Turbo(s) -> xq_process_turbo_rbdl(s)
      [] ~Turbo(s) /\ "RL" \notin s.xq.csr -> Receive(s)
      [] OTHER -> s

xq_dispatch_rbdl(s, i) ==
    LET t == [xq_csr_set_clr(s, {}, {"RL"}) EXCEPT !.xq.rba = i, !.xq.rvalid = s.mem.rx[i].valid]
    IN  IF t.xq.q # <<>> THEN xq_process_rbdl(t) ELSE t

(* xq_process_local answers loopback and system id requests itself.        *)
xq_read_callback(s, p) == IF p.src = "local" THEN s ELSE ethq_insert(s, p)

(* eth_read as long as there are frames.                                   *)
ReadRounds(s) ==
    LET after[n \in 0 .. Len(s.net)] ==
            IF n = 0 THEN s ELSE xq_read_callback(after[n - 1], s.net[n])
    IN  after

eth_read_all(s) == [ReadRounds(s)[Len(s.net)] EXCEPT !.net = <<>>]

Pump(s) ==
    IF s.xq.q # <<>> /\ (Turbo(s) \/ "RL" \notin s.xq.csr) THEN xq_process_rbdl(s) ELSE s

(* Mutant: an invalid list ends the polling. *)
xq_svcWhileListed(s) ==
    LET t == IF Turbo(s) \/ "RE" \in s.xq.csr THEN Pump(eth_read_all(Pump(s))) ELSE s
    IN  IF Turbo(t) \/ "RL" \in t.xq.csr THEN t ELSE Activate(t, "Poll")

xq_svc(s) ==
    LET t == IF Turbo(s) \/ "RE" \in s.xq.csr THEN Pump(eth_read_all(Pump(s))) ELSE s
    IN  IF Turbo(t) THEN t ELSE Activate(t, "Poll")

xq_start_receiver(s) == IF Turbo(s) THEN s ELSE Activate(s, "Poll")

xq_stop_receiver(s) == [s EXCEPT !.xq.units = @ \ {"Poll", "Start"}]

(***************************************************************************)
(* Transmission                                                            *)
(***************************************************************************)
xq_write_callback(s) == xq_csr_set_clr(s, {"XI"}, {})

Looped(s, d) == "IL" \notin s.xq.csr \/ "EL" \in s.xq.csr \/ d.setup

HasReceiveBuffer(s) == ("RL" \notin s.xq.csr /\ s.xq.rvalid) \/ "EL" \in s.xq.csr

(* A setup packet and, where there is a buffer, a looped one come back     *)
(* 400 microseconds later; the others go to the network.                   *)
LoopBack(s, d) ==
    LET t == IF d.setup \/ HasReceiveBuffer(s) THEN ethq_insert(s, d.pkt) ELSE s
        u == xq_csr_set_clr(t, {"XI"}, {})
    IN  IF "RL" \notin u.xq.csr THEN Activate(u, "Rcv") ELSE u

(* One round of the loop over the transmit list, which ends with a         *)
(* descriptor that is not valid.                                           *)
TransmitRound(l) ==
    LET s == l.s
        d == s.mem.tx[l.i]
        Leave(t) == [l EXCEPT !.s = t, !.on = FALSE]
        Go(t) == [l EXCEPT !.s = t, !.i = @ + 1]
    IN  CASE ~d.valid -> Leave(xq_csr_set_clr(s, {"XL"}, {}))
          [] d.valid /\ d.bad -> Leave(xq_nxm_error(s))
          [] d.valid /\ ~d.bad /\ ~d.last -> Go(s)
          [] d.valid /\ ~d.bad /\ d.last /\ Looped(s, d) -> Go(LoopBack(s, d))
          [] OTHER -> Go(xq_svc(xq_write_callback(s)))

TransmitNext(l) == IF l.on THEN TransmitRound(l) ELSE l

TransmitRounds(s) ==
    LET round[n \in 0 .. NTx + 1] ==
            IF n = 0 THEN [s |-> s, i |-> 0, on |-> TRUE] ELSE TransmitNext(round[n - 1])
    IN  round

Transmit(s) == TransmitRounds(s)[NTx + 1].s

xq_dispatch_xbdl(s) == Transmit(xq_csr_set_clr(s, {}, {"XL"}))

(* The ring ends the transmission with an interrupt and, as nobody polls   *)
(* in turbo mode, the only reading of the network.                         *)
TurboTransmitRound(l) ==
    LET s == l.s
        i == s.xq.tbindx
        d == s.mem.tx[i]
        t == [s EXCEPT !.xq.tbindx = (i + 1) % NTx, !.mem.tx[i].valid = FALSE]
        sent == IF d.last /\ s.xq.loop THEN ethq_insert(t, d.pkt) ELSE t
    IN  IF d.valid THEN [l EXCEPT !.s = sent, !.consumed = TRUE] ELSE l

TurboTransmitRounds(s) ==
    LET round[n \in 0 .. NTx] ==
            IF n = 0 THEN [s |-> s, consumed |-> FALSE] ELSE TurboTransmitRound(round[n - 1])
    IN  round

TurboTransmit(s) ==
    LET last == TurboTransmitRounds(s)[NTx]
    IN  IF last.consumed THEN xq_svc(xq_setint(last.s)) ELSE last.s

xq_process_turbo_xbdl(s) == IF s.xq.srr = "STRT" THEN TurboTransmit(s) ELSE s

(***************************************************************************)
(* Registers and resets                                                    *)
(***************************************************************************)
(* Mutant: the read queue is not flushed. *)
xq_sw_resetKeepsQueue(s) ==
    LET t == IF Turbo(s) THEN [s EXCEPT !.xq.mode = "normal", !.xq.srr = "none"] ELSE s
        keep == {"XL", "RL"}
    IN  xq_stop_receiver(xq_clrint(xq_csr_set_clr(t, keep, (RW \cup W1 \cup {"NI"}) \ keep)))

xq_sw_reset(s) ==
    LET t == IF Turbo(s) THEN [s EXCEPT !.xq.mode = "normal", !.xq.srr = "none"] ELSE s
        keep == {"XL", "RL"}
    IN  xq_stop_receiver(ethq_clear(xq_clrint(
            xq_csr_set_clr(t, keep, (RW \cup W1 \cup {"NI"}) \ keep))))

(* The reset of the bus leaves the turbo registers and unit 4 alone.       *)
xq_reset(s) ==
    LET keep == {"XL", "RL"}
        t == xq_csr_set_clr([s EXCEPT !.xq.mode = "normal"], keep, (RW \cup W1 \cup {"NI"}) \ keep)
    IN  [ethq_clear(xq_clrint(t)) EXCEPT !.xq.units = @ \ {"Poll", "Start"}]

xq_process_bootrom(s) ==
    xq_process_rbdl(ethq_insert(s, [src |-> "boot", id |-> 0, size |-> 2]))

xq_wr_csr(s, data) ==
    LET clr == (RW \cup W1 \cup {"NI"})
               \ ((RW \cap data) \cup (W1 \ data) \cup IF "XI" \in data THEN {} ELSE {"NI"})
        t == IF "RE" \in data \ s.xq.csr THEN Activate(s, "Start") ELSE s
        u == IF "RE" \in s.xq.csr \ data THEN xq_stop_receiver(t) ELSE t
        v == xq_csr_set_clr(u, RW \cap data, clr)
    IN  CASE "SR" \in s.xq.csr \ data -> xq_sw_reset(s)
          [] "SR" \notin s.xq.csr \ data /\ {"BD", "EL"} \subseteq v.xq.csr -> xq_process_bootrom(v)
          [] OTHER -> v

(* Writing 0BAF and FF00 to the first two words.                           *)
xq_enter_turbo(s) ==
    [s EXCEPT !.xq.mode = "turbo", !.xq.srr = "TRBO", !.xq.units = @ \ {"Poll"}]

xq_wr_srqr_set(s, req) == Activate([s EXCEPT !.xq.srr = req], "Srqr")

(* The initialization block asks for interrupts.                           *)
xq_wr_srqr_action(s) ==
    CASE s.xq.srr = "STRT" ->
             xq_setint(xq_start_receiver([s EXCEPT !.xq.icr = TRUE, !.xq.rbindx = 0, !.xq.tbindx = 0]))
      [] s.xq.srr = "STOP" -> xq_setint(xq_stop_receiver(s))
      [] OTHER -> xq_setint(s)

xq_wr_icr(s, enable) ==
    LET t == [s EXCEPT !.xq.icr = enable]
    IN  IF enable /\ ~s.xq.icr /\ s.xq.pending THEN xq_setint(t) ELSE t

(***************************************************************************)
(* The service units                                                       *)
(***************************************************************************)
Service(u, f(_)) ==
    /\ u \in xq.units
    /\ Becomes(f([State EXCEPT !.xq.units = @ \ {u}]))
    /\ UNCHANGED <<drv, count>>

PollSvc == Service("Poll", xq_svc)
xq_startsvc == Service("Start", xq_start_receiver)
xq_receivesvc == Service("Rcv", xq_process_rbdl)
xq_srqrsvc == Service("Srqr", xq_wr_srqr_action)

(***************************************************************************)
(* The network: frames for the guest, or for xq_process_local.             *)
(***************************************************************************)
Arrive ==
    /\ count.net < MaxNet
    /\ LET id == count.net + 1
       IN  \/ /\ \E n \in 1 .. 2 : net' = Append(net, [src |-> "net", id |-> id, size |-> n])
              /\ count' = [count EXCEPT !.net = id]
           \/ /\ Cardinality(count.local) < MaxLocal
              /\ net' = Append(net, [src |-> "local"])
              /\ count' = [count EXCEPT !.net = id, !.local = @ \cup {id}]
    /\ UNCHANGED <<xq, mem, drv>>

(***************************************************************************)
(* The guest's driver.  Its list always has one descriptor that is not     *)
(* valid, the one before the next to be read; its interrupt routine        *)
(* acknowledges what it has seen, then reads all that is filled, then      *)
(* looks whether the list has to be given again.                           *)
(***************************************************************************)
Buffer(v) == [valid |-> v, st |-> Free]
Unused == [valid |-> FALSE, last |-> FALSE, setup |-> FALSE, bad |-> FALSE, pkt |-> Free.pkt]

FreshRx == [i \in 0 .. NRx |-> Buffer(i # NRx - 1)]
FreshTx == [i \in 0 .. NTx |-> Unused]

Down(floor) == [pc |-> "down", want |-> {}, seen |-> {}, rix |-> 0, busy |-> FALSE, tix |-> 0,
                log |-> <<>>, floor |-> floor]

(* After a reset the driver makes new rings and forgets what it had.       *)
DownAfterReset(s) ==
    /\ Becomes([s EXCEPT !.mem = [rx |-> FreshRx, tx |-> FreshTx]])
    /\ drv' = Down([net |-> count.net - Len(net), own |-> count.own])

(* What the driver awaits before it starts the controller anew.            *)
Settled == xq.mode = "normal" /\ "Srqr" \notin xq.units /\ ~xq.irq

Start ==
    /\ drv.pc = "down" /\ Settled
    /\ \E c \in CsrModes :
           /\ Becomes(xq_wr_csr(State, c))
           /\ drv' = [drv EXCEPT !.pc = "init", !.want = c]
    /\ UNCHANGED count

GiveList ==
    /\ drv.pc = "init"
    /\ Becomes(xq_dispatch_rbdl(State, 0))
    /\ drv' = [drv EXCEPT !.pc = "idle"]
    /\ UNCHANGED count

(* The boot ROM is asked for with a list of two buffers and read without   *)
(* interrupts.                                                             *)
Boot ==
    /\ drv.pc = "down" /\ Settled
    /\ Becomes(xq_wr_csr(xq_dispatch_rbdl(State, 0), {"EL", "BD"}))
    /\ drv' = [drv EXCEPT !.pc = "scan"]
    /\ UNCHANGED count

EnterTurbo ==
    /\ drv.pc = "down" /\ Settled
    /\ Becomes([xq_enter_turbo(State) EXCEPT !.mem.rx = [i \in 0 .. NRx |-> Buffer(i < NRx)]])
    /\ UNCHANGED <<drv, count>>

StartTurbo ==
    /\ drv.pc = "down" /\ xq.mode = "turbo" /\ xq.srr = "TRBO"
    /\ \E loop \in BOOLEAN :
           Becomes([xq_wr_srqr_set(State, "STRT") EXCEPT !.xq.loop = loop])
    /\ drv' = [drv EXCEPT !.pc = "waiting"]
    /\ UNCHANGED count

StopTurbo ==
    /\ drv.pc = "idle" /\ xq.mode = "turbo"
    /\ Becomes(xq_wr_srqr_set(State, "STOP"))
    /\ drv' = [drv EXCEPT !.pc = "stopping"]
    /\ UNCHANGED count

(* The interrupt is taken (xq_int).                                        *)
xq_int ==
    /\ xq.irq
    /\ drv.pc \in {"idle", "waiting", "stopping", "down"}
    /\ Becomes(xq_clrint(State))
    /\ drv' = [drv EXCEPT !.pc = CASE @ \in {"idle", "waiting"} -> "ack" [] OTHER -> "down"]
    /\ UNCHANGED count

ReadCsr ==
    /\ drv.pc = "ack" /\ xq.mode = "normal"
    /\ drv' = [drv EXCEPT !.pc = "write", !.seen = xq.csr \cap W1]
    /\ UNCHANGED <<xq, mem, net, count>>

Acknowledge ==
    /\ \/ drv.pc = "write" /\ Becomes(xq_wr_csr(State, drv.want \cup drv.seen))
       \/ drv.pc = "ack" /\ xq.mode = "turbo" /\ Becomes(xq_wr_icr(State, FALSE))
    /\ drv' = [drv EXCEPT !.pc = "scan", !.busy = @ /\ ~(xq.mode = "turbo" \/ "XI" \in drv.seen)]
    /\ UNCHANGED count

(* The buffer becomes the invalid one and the one before it valid; in      *)
(* turbo mode it goes back to the controller.                              *)
ReadSegment ==
    /\ drv.pc = "scan"
    /\ mem.rx[drv.rix].st # Free
    /\ LET i == drv.rix
       IN  /\ mem' = [mem EXCEPT !.rx = IF xq.mode = "turbo" THEN [@ EXCEPT ![i] = Buffer(TRUE)]
                                        ELSE [@ EXCEPT ![(i + NRx - 1) % NRx] = Buffer(TRUE),
                                                       ![i] = Buffer(FALSE)]]
           /\ drv' = [drv EXCEPT !.rix = (i + 1) % NRx, !.log = Append(@, mem.rx[i].st)]
    /\ UNCHANGED <<xq, net, count>>

EndScan ==
    /\ drv.pc = "scan"
    /\ mem.rx[drv.rix].st = Free
    /\ drv' = [drv EXCEPT !.pc = "relist"]
    /\ UNCHANGED <<xq, mem, net, count>>

Relist ==
    /\ drv.pc = "relist"
    /\ LET renew == "RL" \in xq.csr /\ mem.rx[drv.rix].st = Free
       IN  \/ /\ xq.mode = "turbo"
              /\ Becomes(xq_wr_icr(xq_process_turbo_rbdl(State), TRUE))
           \/ xq.mode = "normal" /\ renew /\ Becomes(xq_dispatch_rbdl(State, drv.rix))
           \/ xq.mode = "normal" /\ ~renew /\ UNCHANGED <<xq, mem, net>>
    /\ drv' = [drv EXCEPT !.pc = "idle"]
    /\ UNCHANGED count

(* Message m as descriptors: to the head of a new list, or to the next     *)
(* entries of the ring, all of which are the driver's.                     *)
Descriptor(d) ==
    [valid |-> TRUE, last |-> d.last, setup |-> d.setup, bad |-> d.bad,
     pkt |-> [src |-> "own", id |-> count.own + d.nth, size |-> d.size]]

Listed(m) == [i \in 0 .. NTx |-> IF i < Len(m) THEN Descriptor(m[i + 1]) ELSE Unused]

Ringed(m) ==
    [i \in 0 .. NTx |->
        LET k == (i + NTx - drv.tix) % NTx
        IN  IF i < NTx /\ k < Len(m) THEN Descriptor(m[k + 1]) ELSE Unused]

Send ==
    /\ drv.pc = "idle" /\ ~drv.busy
    /\ count.own < MaxOwn
    /\ \E m \in Messages :
           /\ \/ /\ xq.mode = "normal" /\ "IE" \in drv.want
                 /\ Becomes(xq_dispatch_xbdl([State EXCEPT !.mem.tx = Listed(m)]))
              \/ /\ xq.mode = "turbo" /\ \A j \in DOMAIN m : ~m[j].bad /\ ~m[j].setup
                 /\ Becomes(xq_process_turbo_xbdl([State EXCEPT !.mem.tx = Ringed(m)]))
           /\ drv' = [drv EXCEPT !.busy = TRUE, !.tix = (@ + Len(m)) % NTx]
           /\ count' = [count EXCEPT !.own = @ + Last(m).nth]

(* A software reset is two writes to the CSR, or one to ARQR.              *)
SoftReset ==
    \/ /\ drv.pc \in {"idle", "down"} /\ xq.mode = "normal"
       /\ count.resets < MaxResets
       /\ Becomes(xq_wr_csr(State, {"SR"}))
       /\ drv' = [drv EXCEPT !.pc = "resetting"]
       /\ UNCHANGED count
    \/ /\ \/ drv.pc = "resetting"
          \/ drv.pc \in {"idle", "down"} /\ xq.mode = "turbo" /\ count.resets < MaxResets
       /\ DownAfterReset(IF xq.mode = "turbo" THEN xq_sw_reset(State) ELSE xq_wr_csr(State, {}))
       /\ count' = [count EXCEPT !.resets = @ + 1]

BusReset ==
    /\ drv.pc \notin {"ack", "write", "scan", "relist"}
    /\ count.resets < MaxResets
    /\ DownAfterReset(xq_reset(State))
    /\ count' = [count EXCEPT !.resets = @ + 1]

(***************************************************************************)
(* Specification                                                           *)
(***************************************************************************)
Init ==
    /\ xq = [mode |-> "normal", csr |-> {"RL", "XL"}, irq |-> FALSE, icr |-> FALSE,
             pending |-> FALSE, srr |-> "none", loop |-> FALSE, rba |-> 0, rvalid |-> FALSE,
             q |-> <<>>, loss |-> FALSE, rbindx |-> 0, tbindx |-> 0, units |-> {}]
    /\ mem = [rx |-> FreshRx, tx |-> FreshTx]
    /\ net = <<>>
    /\ drv = Down([net |-> 0, own |-> 0])
    /\ count = [net |-> 0, own |-> 0, local |-> {}, resets |-> 0]

Units == PollSvc \/ xq_startsvc \/ xq_receivesvc \/ xq_srqrsvc

Driver ==
    \/ Start
    \/ GiveList
    \/ Boot
    \/ EnterTurbo
    \/ StartTurbo
    \/ StopTurbo
    \/ xq_int
    \/ ReadCsr
    \/ Acknowledge
    \/ ReadSegment
    \/ EndScan
    \/ Relist
    \/ Send
    \/ SoftReset
    \/ BusReset

Next == Units \/ Arrive \/ Driver

Spec == Init /\ [][Next]_vars

(***************************************************************************)
(* Properties                                                              *)
(***************************************************************************)
(* xq_process_rbdl, ethq_insert, xq_sw_reset: what the driver has read     *)
(* since the last reset is packets in the order in which they came, each   *)
(* in one piece.  A packet is cut short or left out only if a later        *)
(* segment carries the overflow flag, and nothing comes from before the    *)
(* reset.                                                                  *)
OfNet(log, j) == {k \in 1 .. j : log[k].pkt.src = "net"}

Continues(a, b) == b.pkt = a.pkt /\ b.from = a.upto

Begins(a, b) == b.from = 0 /\ (Ends(a) \/ b.ovf)

DeliveredInOrder ==
    LET log == drv.log
    IN  \A j \in DOMAIN log :
            LET b == log[j]
                src == b.pkt.src
                before == OfNet(log, j - 1)
                prev == IF before = {} THEN drv.floor.net
                        ELSE log[CHOOSE k \in before : \A h \in before : h <= k].pkt.id
            IN  /\ IF j = 1 THEN b.from = 0 ELSE Continues(log[j - 1], b) \/ Begins(log[j - 1], b)
                /\ src \in {"net", "own"} => b.pkt.id > drv.floor[src]
                /\ \A k \in 1 .. j - 1 :
                       log[k].pkt.src = src /\ b.from = 0 /\ src # "boot" => log[k].pkt.id < b.pkt.id
                /\ src = "net" /\ b.from = 0 =>
                       \/ prev + 1 .. b.pkt.id - 1 \subseteq count.local
                       \/ \E k \in 1 .. j : log[k].ovf /\ \A h \in before : h < k

(* xq_csr_set_clr, xq_setint, xq_wr_icr: a driver that sleeps with         *)
(* interrupts enabled has an interrupt coming while the end of a packet or *)
(* of a transmission waits for it, or a list that must be given again.     *)
Listening == IF xq.mode = "turbo" THEN xq.icr ELSE "IE" \in xq.csr

WorkForDriver ==
    \/ \E i \in DOMAIN mem.rx : mem.rx[i].st # Free /\ Ends(mem.rx[i].st)
    \/ drv.busy
    \/ xq.mode = "normal" /\ "RL" \in xq.csr

NothingForgotten == drv.pc = "idle" /\ Listening /\ WorkForDriver => xq.irq

(* xq_svc, xq_wr_csr, xq_stop_receiver, xq_process_xbdl: as long as the    *)
(* receiver is enabled its polling, or the start of it, is in the event    *)
(* queue; and a packet that waits although the list is good has a unit     *)
(* that will come for it, with the receiver disabled too.                  *)
KeepsPolling ==
    xq.mode = "normal" =>
        /\ "RE" \in xq.csr => xq.units \cap {"Poll", "Start"} # {}
        /\ xq.q # <<>> /\ "RL" \notin xq.csr => xq.units \cap {"Poll", "Start", "Rcv"} # {}
=============================================================================
